-------------------------- MODULE MonitorSystemProofs --------------------------
(***************************************************************************)
(* Theorems about the monitor, for any fans, sensors, services, rules and  *)
(* configuration.  The first part is about FanMonitor, the fault           *)
(* detection; the second about MonitorSystem, the fault detection and the  *)
(* power off rules it drives.                                              *)
(***************************************************************************)
EXTENDS MonitorSystem, FiniteSetTheorems, TLAPS

USE FanMonitorAssumption

-----------------------------------------------------------------------------
(* Type correctness                                                        *)

\* The variables updateState() may change keep their types.
StateOK ==
    /\ func \in [Sensor -> BOOLEAN]
    /\ functional \in [Fan -> BOOLEAN]
    /\ errorTimer \in [Sensor -> BOOLEAN]
    /\ health \in [Fan -> [present : BOOLEAN, failed : SUBSET Sensor]]
    /\ check \in {"none", "runtime", "pgood", "offline", "cancel", "load"}

\* The variables of the two methods keep their types.
MethodOK ==
    /\ timer \in [Sensor -> TimerState]
    /\ countTimer \in [Sensor -> BOOLEAN]
    /\ counter \in [Sensor -> Nat]
    /\ \A s \in Sensor : counter[s] <= Threshold[s]

\* What updateFanHealth() records is a health.
LEMMA HealthOfType ==
    ASSUME NEW f \in Fan, NEW p \in [Fan -> BOOLEAN], NEW fn
    PROVE  HealthOf(f, p, fn) \in [present : BOOLEAN, failed : SUBSET Sensor]
  BY DEF HealthOf, SensorsOf

\* updateState() keeps the types of what it changes.
LEMMA UpdateStateType ==
    ASSUME TypeOK, NEW s \in Sensor, UpdateState(s), present' = present
    PROVE  StateOK'
  <1>1. CASE ~power
    BY <1>1 DEF TypeOK, UpdateState, stateVars, StateOK
  <1>2. CASE power
    <2>1. func' \in [Sensor -> BOOLEAN] /\ errorTimer' \in [Sensor -> BOOLEAN]
      BY <1>2 DEF TypeOK, UpdateState, ErrorTimerAfter
    <2>2. functional' \in [Fan -> BOOLEAN]
      <3>1. FanStateAfter(FanOf[s], func') \in BOOLEAN
        BY DEF TypeOK, FanStateAfter, TooManyFailed
      <3> QED
        BY <1>2, <3>1 DEF TypeOK, UpdateState
    <2>3. HealthOf(FanOf[s], present', func')
            \in [present : BOOLEAN, failed : SUBSET Sensor]
      BY HealthOfType DEF TypeOK
    <2>4. health' \in [Fan -> [present : BOOLEAN, failed : SUBSET Sensor]]
      BY <1>2, <2>3 DEF TypeOK, UpdateState, UpdateFanHealth
    <2>5. check' \in {"none", "runtime"}
      BY <1>2 DEF UpdateState, CheckUpdate
    <2> QED
      BY <2>1, <2>2, <2>4, <2>5 DEF StateOK
  <1> QED
    BY <1>1, <1>2

\* Leaving the state alone keeps its types.
LEMMA NoUpdateType ==
    ASSUME TypeOK, NoUpdate
    PROVE  StateOK'
  BY DEF TypeOK, NoUpdate, stateVars, StateOK

\* process() of a sensor of the method count keeps the types, and the counter
\* within the threshold.
LEMMA CountType ==
    ASSUME TypeOK, NEW s \in Sensor, present' = present,
           CountUp(s) \/ CountIgnore(s) \/ CountDown(s)
    PROVE  /\ StateOK'
           /\ countTimer' \in [Sensor -> BOOLEAN]
           /\ counter' \in [Sensor -> Nat]
           /\ \A t \in Sensor : counter'[t] <= Threshold[t]
  <1>1. CASE CountUp(s)
    <2>1. StateOK'
      BY <1>1, UpdateStateType, NoUpdateType DEF CountUp
    <2> QED
      BY <1>1, <2>1 DEF CountUp, Incremented, TypeOK
  <1>2. CASE CountIgnore(s)
    BY <1>2, NoUpdateType DEF CountIgnore, TypeOK
  <1>3. CASE CountDown(s)
    <2>1. StateOK'
      BY <1>3, UpdateStateType, NoUpdateType DEF CountDown, Decremented
    <2> QED
      BY <1>3, <2>1 DEF CountDown, Decremented, TypeOK
  <1> QED
    BY <1>1, <1>2, <1>3

\* The timer process() leaves running is in one of the timer states.
LEMMA ProcessTimerType ==
    ASSUME TypeOK, NEW s \in Sensor
    PROVE  ProcessTimer(s) \in TimerState
  BY DEF ProcessTimer, TypeOK, TimerState

\* process() keeps the types of the state and of the method.
LEMMA ProcessType ==
    ASSUME TypeOK, NEW s \in Sensor, present' = present, Process(s)
    PROVE  StateOK' /\ MethodOK'
  <1>1. CASE UsesCount(s)
    BY <1>1, CountType DEF Process, MethodOK, TypeOK
  <1>2. CASE ~UsesCount(s)
    <2>1. StateOK'
      BY <1>2, NoUpdateType DEF Process
    <2>2. timer' \in [Sensor -> TimerState]
      BY <1>2, ProcessTimerType DEF Process, TypeOK
    <2> QED
      BY <1>2, <2>1, <2>2 DEF Process, MethodOK, TypeOK
  <1> QED
    BY <1>1, <1>2

\* checkTrust() and what follows it keep the types.
LEMMA JudgeType ==
    ASSUME TypeOK, NEW s \in Sensor, NEW proceed \in BOOLEAN,
           present' = present, Judge(s, proceed)
    PROVE  StateOK' /\ MethodOK' /\ trusted' \in BOOLEAN
  <1>1. CASE Distrust(s)
    <2>1. \A t \in Sensor : ResetTimer(t) \in TimerState
      BY DEF ResetTimer, TypeOK, TimerState
    <2>2. \A t \in Sensor : /\ ResetCounter(t, func) \in Nat
                            /\ ResetCounter(t, func) <= Threshold[t]
      BY DEF ResetCounter, TypeOK
    <2> QED
      BY <1>1, <2>1, <2>2, NoUpdateType DEF Distrust, MethodOK, TypeOK
  <1>2. CASE Regain(s, proceed)
    <2>1. timer' \in [Sensor -> TimerState] /\ trusted' \in BOOLEAN
      BY <1>2, ProcessTimerType DEF Regain, TypeOK
    <2>2. CASE proceed /\ UsesCount(s)
      BY <1>2, <2>1, <2>2, CountType DEF Regain, MethodOK
    <2>3. CASE ~(proceed /\ UsesCount(s))
      BY <1>2, <2>1, <2>3, NoUpdateType DEF Regain, MethodOK, TypeOK
    <2> QED
      BY <2>2, <2>3
  <1>3. CASE Trust(s, proceed)
    <2>1. CASE proceed
      BY <1>3, <2>1, ProcessType DEF Trust, TypeOK
    <2>2. CASE ~proceed
      BY <1>3, <2>2, NoUpdateType DEF Trust, methodVars, MethodOK, TypeOK
    <2> QED
      BY <2>1, <2>2
  <1> QED
    BY <1>1, <1>2, <1>3 DEF Judge

\* tachChanged(sensor) keeps the types.
LEMMA TachChangedType ==
    ASSUME TypeOK, NEW s \in Sensor, present' = present, TachChanged(s)
    PROVE  StateOK' /\ MethodOK' /\ trusted' \in BOOLEAN
  <1>1. CASE power /\ monitorReady[FanOf[s]]
    BY <1>1, JudgeType DEF TachChanged, TypeOK
  <1>2. CASE ~(power /\ monitorReady[FanOf[s]])
    BY <1>2, NoUpdateType DEF TachChanged, methodVars, MethodOK, TypeOK
  <1> QED
    BY <1>1, <1>2

\* New readings are Booleans.
LEMMA ReadType ==
    ASSUME TypeOK, NEW ss \in SUBSET Sensor
    PROVE  /\ ReadRange(ss) => inRange' \in [Sensor -> BOOLEAN]
           /\ ReadTurning(ss) => turning' \in [Sensor -> BOOLEAN]
  BY DEF ReadRange, ReadTurning, TypeOK

\* An iteration of a loop keeps the types of the loop.
LEMMA AdvanceType ==
    ASSUME TypeOK, NEW s \in Sensor, Advance(s)
    PROVE  /\ todo' \subseteq Sensor
           /\ loop' \in {"none", "start", "changed", "online", "offline"}
  BY DEF Advance, TypeOK

\* An iteration of a handler's loop keeps the types.
LEMMA LoopStepType ==
    ASSUME TypeOK, LoopStep
    PROVE  TypeOK'
  <1> PICK s \in Sensor : \/ ChangedStep(s) \/ OwnerStep(s)
                          \/ StartStep(s) \/ StartStepMissing(s)
    BY DEF LoopStep
  <1>1. CASE ChangedStep(s)
    <2>1. StateOK' /\ MethodOK' /\ trusted' \in BOOLEAN
      BY <1>1, TachChangedType DEF ChangedStep
    <2> QED
      BY <1>1, <2>1, AdvanceType
         DEF ChangedStep, inputVars, TypeOK, StateOK, MethodOK
  <1>2. CASE OwnerStep(s)
    <2>1. StateOK' /\ MethodOK'
      BY <1>2, ProcessType DEF OwnerStep
    <2> QED
      BY <1>2, <2>1, AdvanceType DEF OwnerStep, TypeOK, StateOK, MethodOK
  <1>3. CASE StartStep(s)
    <2>1. StateOK' /\ MethodOK' /\ trusted' \in BOOLEAN
      BY <1>3, TachChangedType DEF StartStep
    <2>2. inRange' \in [Sensor -> BOOLEAN] /\ turning' \in [Sensor -> BOOLEAN]
      BY <1>3, ReadType DEF StartStep, Ranged
    <2> QED
      BY <1>3, <2>1, <2>2, AdvanceType
         DEF StartStep, TypeOK, StateOK, MethodOK
  <1>4. CASE StartStepMissing(s)
    <2>1. func' \in [Sensor -> BOOLEAN] /\ errorTimer' \in [Sensor -> BOOLEAN]
      BY <1>4 DEF StartStepMissing, ErrorTimerAfter, TypeOK
    <2>2. functional' \in [Fan -> BOOLEAN]
      BY <1>4 DEF StartStepMissing, TooManyFailed, TypeOK
    <2>3. HealthOf(FanOf[s], present', func')
            \in [present : BOOLEAN, failed : SUBSET Sensor]
      BY <1>4, HealthOfType DEF StartStepMissing, TypeOK
    <2>4. health' \in [Fan -> [present : BOOLEAN, failed : SUBSET Sensor]]
      BY <1>4, <2>3 DEF StartStepMissing, UpdateFanHealth, TypeOK
    <2> QED
      BY <1>4, <2>1, <2>2, <2>4, AdvanceType
         DEF StartStepMissing, inputVars, methodVars, TypeOK
  <1> QED
    BY <1>1, <1>2, <1>3, <1>4

\* An expired timer keeps the types.
LEMMA TimerStepType ==
    ASSUME TypeOK, TimerStep
    PROVE  TypeOK'
  <1>1. ASSUME NEW s \in Sensor, TimerExpired(s)
        PROVE  TypeOK'
    <2>1. StateOK'
      BY <1>1, UpdateStateType DEF TimerExpired
    <2>2. timer' \in [Sensor -> TimerState]
      BY <1>1 DEF TimerExpired, TypeOK, TimerState
    <2> QED
      BY <1>1, <2>1, <2>2
         DEF TimerExpired, inputVars, loopVars, TypeOK, StateOK
  <1>2. ASSUME NEW s \in Sensor, CountTimerExpired(s)
        PROVE  TypeOK'
    <2>1. StateOK' /\ MethodOK' /\ trusted' \in BOOLEAN
      BY <1>2, JudgeType DEF CountTimerExpired
    <2> QED
      BY <1>2, <2>1
         DEF CountTimerExpired, inputVars, loopVars, TypeOK, StateOK, MethodOK
  <1>3. ASSUME NEW s \in Sensor, ErrorTimerExpired(s)
        PROVE  TypeOK'
    BY <1>3 DEF ErrorTimerExpired, fanVars, inputVars, methodVars, loopVars,
                TypeOK
  <1>4. ASSUME NEW f \in Fan, MissingTimerExpired(f)
        PROVE  TypeOK'
    BY <1>4 DEF MissingTimerExpired, inputVars, methodVars, loopVars, TypeOK
  <1>5. ASSUME NEW f \in Fan, StartMonitor(f)
        PROVE  TypeOK'
    BY <1>5 DEF StartMonitor, inputVars, methodVars, SensorsOf, TypeOK
  <1> QED
    BY <1>1, <1>2, <1>3, <1>4, <1>5 DEF TimerStep

\* A D-Bus signal keeps the types.
LEMMA SignalStepType ==
    ASSUME TypeOK, SignalStep
    PROVE  TypeOK'
  <1>1. ASSUME NEW s \in Sensor, TachSignal(s)
        PROVE  TypeOK'
    <2>1. StateOK' /\ MethodOK' /\ trusted' \in BOOLEAN
      BY <1>1, TachChangedType DEF TachSignal
    <2>2. inRange' \in [Sensor -> BOOLEAN] /\ turning' \in [Sensor -> BOOLEAN]
      BY <1>1, ReadType DEF TachSignal
    <2> QED
      BY <1>1, <2>1, <2>2 DEF TachSignal, loopVars, TypeOK, StateOK, MethodOK
  <1>2. ASSUME NEW s \in Sensor, TargetSignal(s)
        PROVE  TypeOK'
    <2>1. StateOK'
      BY <1>2, NoUpdateType DEF TargetSignal
    <2>2. inRange' \in [Sensor -> BOOLEAN]
      BY <1>2, ReadType DEF TargetSignal, Ranged
    <2>3. /\ todo' \subseteq Sensor
          /\ loop' \in {"none", "start", "changed", "online", "offline"}
      BY <1>2 DEF TargetSignal, SensorsOf, loopVars, TypeOK
    <2> QED
      BY <1>2, <2>1, <2>2, <2>3 DEF TargetSignal, methodVars, TypeOK, StateOK
  <1>3. ASSUME NEW v \in Service, OwnerSignal(v)
        PROVE  TypeOK'
    <2>1. StateOK'
      BY <1>3, NoUpdateType DEF OwnerSignal
    <2>2. /\ todo' \subseteq Sensor
          /\ loop' \in {"none", "start", "changed", "online", "offline"}
      BY <1>3 DEF OwnerSignal, HostedBy, TypeOK
    <2>3. pending' \in [Service -> Nat]
      BY <1>3 DEF OwnerSignal, TypeOK
    <2> QED
      BY <1>3, <2>1, <2>2, <2>3
         DEF OwnerSignal, fanVars, inputVars, methodVars, TypeOK, StateOK
  <1>4. ASSUME NEW f \in Fan, NEW p \in BOOLEAN, PresenceIfaceAdded(f, p)
        PROVE  TypeOK'
    <2>1. present' \in [Fan -> BOOLEAN] /\ missingTimer' \in [Fan -> BOOLEAN]
      BY <1>4 DEF PresenceIfaceAdded, RestartMissingTimer, TypeOK
    <2>2. HealthOf(f, present', func)
            \in [present : BOOLEAN, failed : SUBSET Sensor]
      BY <2>1, HealthOfType
    <2> QED
      BY <1>4, <2>1, <2>2
         DEF PresenceIfaceAdded, inputVars, methodVars, loopVars, TypeOK
  <1>5. ASSUME NEW f \in Fan, NEW p \in BOOLEAN, PresenceChanged(f, p)
        PROVE  TypeOK'
    <2>1. /\ present' \in [Fan -> BOOLEAN]
          /\ missingTimer' \in [Fan -> BOOLEAN]
          /\ functional' \in [Fan -> BOOLEAN]
      BY <1>5 DEF PresenceChanged, MissingTimerAfter, RestartMissingTimer, TypeOK
    <2>2. func' \in [Sensor -> BOOLEAN] /\ errorTimer' \in [Sensor -> BOOLEAN]
      BY <1>5 DEF PresenceChanged, TypeOK
    <2>3. timer' \in [Sensor -> TimerState]
      BY <1>5 DEF PresenceChanged, ResetTimer, TypeOK, TimerState
    <2>4. /\ counter' \in [Sensor -> Nat]
          /\ \A s \in Sensor : counter'[s] <= Threshold[s]
      BY <1>5 DEF PresenceChanged, ResetCounter, TypeOK
    <2>5. HealthOf(f, present', func')
            \in [present : BOOLEAN, failed : SUBSET Sensor]
      BY <2>1, HealthOfType
    <2>6. health' \in [Fan -> [present : BOOLEAN, failed : SUBSET Sensor]]
      BY <1>5, <2>5 DEF PresenceChanged, UpdateFanHealth, TypeOK
    <2> QED
      BY <1>5, <2>1, <2>2, <2>3, <2>4, <2>6
         DEF PresenceChanged, inputVars, loopVars, TypeOK
  <1> QED
    BY <1>1, <1>2, <1>3, <1>4, <1>5 DEF SignalStep

\* A change of the power or of the configuration keeps the types.
LEMMA ConfigStepType ==
    ASSUME TypeOK, ConfigStep
    PROVE  TypeOK'
  <1>1. CASE PowerOn
    <2>1. func' \in [Sensor -> BOOLEAN] /\ errorTimer' \in [Sensor -> BOOLEAN]
      BY <1>1 DEF PowerOn, TypeOK
    <2>2. /\ counter' \in [Sensor -> Nat]
          /\ \A s \in Sensor : counter'[s] <= Threshold[s]
      BY <1>1 DEF PowerOn, ResetCounter, TypeOK
    <2>3. inRange' \in [Sensor -> BOOLEAN] /\ turning' \in [Sensor -> BOOLEAN]
      BY <1>1, ReadType DEF PowerOn, Ranged
    <2>4. \A f \in Fan : HealthOf(f, present, func')
                          \in [present : BOOLEAN, failed : SUBSET Sensor]
      BY HealthOfType DEF TypeOK
    <2>5. health' \in [Fan -> [present : BOOLEAN, failed : SUBSET Sensor]]
      BY <1>1, <2>4 DEF PowerOn, TypeOK
    <2>6. /\ functional' \in [Fan -> BOOLEAN]
          /\ missingTimer' \in [Fan -> BOOLEAN]
          /\ monitorTimer' \in [Fan -> BOOLEAN]
      BY <1>1 DEF PowerOn, TooManyFailed, TypeOK
    <2>7. subscribed' \subseteq Service
      BY <1>1 DEF PowerOn, ServicesFound, TypeOK
    <2>8. check' \in {"offline", "pgood"}
      BY <1>1 DEF PowerOn
    <2> QED
      BY <1>1, <2>1, <2>2, <2>3, <2>5, <2>6, <2>7, <2>8
         DEF PowerOn, loopVars, TypeOK
  <1>2. CASE PowerOff
    BY <1>2 DEF PowerOff, inputVars, loopVars, TypeOK, TimerState
  <1>3. CASE Reload
    <2> PICK pres \in SUBSET Fan, known \in SUBSET Fan : Fresh(pres, known)
      BY <1>3 DEF Reload, NewFans
    <2>1. /\ present' \in [Fan -> BOOLEAN]
          /\ missingTimer' \in [Fan -> BOOLEAN]
          /\ monitorTimer' \in [Fan -> BOOLEAN]
      BY DEF Fresh, RestartMissingTimer, TypeOK
    <2>2. \A f \in Fan : HealthOf(f, present', func')
                          \in [present : BOOLEAN, failed : SUBSET Sensor]
      BY <2>1, HealthOfType
    <2>3. health' \in [Fan -> [present : BOOLEAN, failed : SUBSET Sensor]]
      BY <2>2 DEF Fresh
    <2>4. inRange' \in [Sensor -> BOOLEAN] /\ turning' \in [Sensor -> BOOLEAN]
      BY <1>3, ReadType DEF Reload
    <2>5. subscribed' \subseteq Service /\ pending' \in [Service -> Nat]
      BY <1>3 DEF Reload, ServicesFound, TypeOK
    <2>6. \A s \in Sensor : 0 <= Threshold[s]
      OBVIOUS
    <2> QED
      BY <1>3, <2>1, <2>3, <2>4, <2>5, <2>6
         DEF Reload, Fresh, loopVars, TypeOK, TimerState
  <1> QED
    BY <1>1, <1>2, <1>3 DEF ConfigStep

\* The initial states have the types.
LEMMA InitType == Init => TypeOK
  <1> SUFFICES ASSUME Init PROVE TypeOK
    OBVIOUS
  <1>1. present \in [Fan -> BOOLEAN] /\ missingTimer \in [Fan -> BOOLEAN]
    BY DEF Init
  <1>2. \A f \in Fan : HealthOf(f, present, func)
                        \in [present : BOOLEAN, failed : SUBSET Sensor]
    BY <1>1, HealthOfType
  <1>3. health \in [Fan -> [present : BOOLEAN, failed : SUBSET Sensor]]
    BY <1>2 DEF Init
  <1>4. \A s \in Sensor : 0 <= Threshold[s]
    OBVIOUS
  <1>5. subscribed \subseteq Service /\ turning \in [Sensor -> BOOLEAN]
    BY DEF Init, ServicesFound
  <1> QED
    BY <1>1, <1>3, <1>4, <1>5 DEF Init, TypeOK, TimerState

\* Every step keeps the types.
LEMMA NextType ==
    ASSUME TypeOK, [Next]_vars
    PROVE  TypeOK'
  <1>1. CASE UNCHANGED vars
    BY <1>1 DEF vars, TypeOK
  <1>2. ASSUME NEW v \in Service, ServiceChange(v)
        PROVE  TypeOK'
    BY <1>2 DEF ServiceChange, fanVars, inputVars, methodVars, loopVars, TypeOK
  <1> QED
    BY <1>1, <1>2, LoopStepType, TimerStepType, SignalStepType, ConfigStepType
       DEF Next

\* Type correctness, with every counter within its threshold: the handlers
\* never push the up/down counter of the method count (tach_sensor.cpp,
\* setCounter()) out of its bounds, whatever order they run in.
THEOREM TypeCorrect == Spec => []TypeOK
  <1>1. Init => TypeOK
    BY InitType
  <1>2. TypeOK /\ [Next]_vars => TypeOK'
    BY NextType
  <1> QED
    BY <1>1, <1>2, PTL DEF Spec

-----------------------------------------------------------------------------
(* The state of the fans, the sensors and the recorded health agree        *)

StateInv == HealthMatches /\ FanFollowsSensors /\ ErrorOnlyForFault

\* Counting nonfunctional sensors only looks at the sensors of the fan.
LEMMA SameSensorsSameFan ==
    ASSUME NEW f, NEW p, NEW fn1, NEW fn2,
           \A s \in SensorsOf(f) : fn1[s] = fn2[s]
    PROVE  /\ TooManyFailed(f, fn1) <=> TooManyFailed(f, fn2)
           /\ HealthOf(f, p, fn1) = HealthOf(f, p, fn2)
  <1>1. {s \in SensorsOf(f) : ~fn1[s]} = {s \in SensorsOf(f) : ~fn2[s]}
    OBVIOUS
  <1> QED
    BY <1>1 DEF TooManyFailed, NonFunctional, HealthOf

\* The more sensors are functional, the fewer are counted.
LEMMA MoreFunctionalFewerFailed ==
    ASSUME NEW f \in Fan, NEW fn1, NEW fn2,
           \A s \in SensorsOf(f) : fn1[s] => fn2[s],
           TooManyFailed(f, fn2)
    PROVE  TooManyFailed(f, fn1)
  <1> DEFINE F1 == {s \in SensorsOf(f) : ~fn1[s]}
             F2 == {s \in SensorsOf(f) : ~fn2[s]}
  <1>1. F2 \subseteq F1
    OBVIOUS
  <1>2. IsFiniteSet(F1) /\ F1 \subseteq Sensor
    BY FiniteSensors, FS_Subset DEF SensorsOf
  <1>3. Cardinality(F2) <= Cardinality(F1)
    BY <1>1, <1>2, FS_Subset
  <1>4. Cardinality(F1) \in Nat /\ Cardinality(F2) \in Nat
    BY <1>1, <1>2, FS_Subset, FS_CardinalityType
  <1>5. Cardinality(F2) >= NumSensorFails[f]
    BY DEF TooManyFailed, NonFunctional
  <1>6. Cardinality(F1) >= NumSensorFails[f]
    BY <1>3, <1>4, <1>5
  <1> QED
    BY <1>6 DEF TooManyFailed, NonFunctional

\* A fan none of whose sensors is nonfunctional has not lost too many.
LEMMA NoneFailed ==
    ASSUME NEW f \in Fan, NumSensorFails[f] # 0, NEW fn,
           \A s \in SensorsOf(f) : fn[s]
    PROVE  ~TooManyFailed(f, fn)
  <1>1. {s \in SensorsOf(f) : ~fn[s]} = {}
    OBVIOUS
  <1>2. Cardinality({s \in SensorsOf(f) : ~fn[s]}) = 0
    BY <1>1, FS_EmptySet
  <1>3. NumSensorFails[f] \in Nat /\ NumSensorFails[f] # 0
    OBVIOUS
  <1> QED
    BY <1>2, <1>3 DEF TooManyFailed, NonFunctional

\* updateState() keeps the three in agreement.
LEMMA UpdateStateInv ==
    ASSUME TypeOK, StateInv, NEW s \in Sensor, UpdateState(s),
           present' = present
    PROVE  StateInv'
  <1>1. CASE ~power
    BY <1>1 DEF UpdateState, stateVars, StateInv, HealthMatches,
                FanFollowsSensors, ErrorOnlyForFault, HealthOf, TooManyFailed,
                NonFunctional
  <1>2. CASE power
    <2>1. ASSUME NEW f \in Fan, f # FanOf[s]
          PROVE  /\ TooManyFailed(f, func') <=> TooManyFailed(f, func)
                 /\ HealthOf(f, present', func') = HealthOf(f, present, func)
      <3>1. \A t \in SensorsOf(f) : func'[t] = func[t]
        BY <1>2, <2>1 DEF UpdateState, SensorsOf, TypeOK
      <3> QED
        BY <3>1, SameSensorsSameFan
    <2>2. HealthMatches'
      <3> SUFFICES ASSUME NEW f \in Fan
                   PROVE  health'[f] = HealthOf(f, present', func')
        BY DEF HealthMatches, HealthOf
      <3>1. health' = [health EXCEPT
                         ![FanOf[s]] = HealthOf(FanOf[s], present', func')]
        BY <1>2 DEF UpdateState, UpdateFanHealth
      <3> QED
        BY <2>1, <3>1 DEF StateInv, HealthMatches, TypeOK
    <2>3. FanFollowsSensors'
      <3> SUFFICES ASSUME NEW f \in Fan
                   PROVE  IF NumSensorFails[f] = 0 THEN functional'[f]
                          ELSE /\ functional'[f] => ~TooManyFailed(f, func')
                               /\ f \notin SetFuncOnPresent =>
                                    (~TooManyFailed(f, func') => functional'[f])
        BY DEF FanFollowsSensors, TooManyFailed, NonFunctional
      <3>1. CASE f # FanOf[s]
        BY <1>2, <2>1, <3>1 DEF UpdateState, StateInv, FanFollowsSensors, TypeOK
      <3>2. CASE f = FanOf[s]
        BY <1>2, <3>2 DEF UpdateState, FanStateAfter, StateInv,
                          FanFollowsSensors, TypeOK
      <3> QED
        BY <3>1, <3>2
    <2>4. ErrorOnlyForFault'
      BY <1>2 DEF UpdateState, ErrorTimerAfter, StateInv, ErrorOnlyForFault,
                  TypeOK
    <2> QED
      BY <2>2, <2>3, <2>4 DEF StateInv
  <1> QED
    BY <1>1, <1>2

\* A step that changes none of the three keeps them in agreement.
LEMMA SameStateInv ==
    ASSUME StateInv, UNCHANGED stateVars, present' = present
    PROVE  StateInv'
  BY DEF stateVars, StateInv, HealthMatches, FanFollowsSensors,
         ErrorOnlyForFault, HealthOf, TooManyFailed, NonFunctional

\* The method count only reaches the state through updateState().
LEMMA CountInv ==
    ASSUME TypeOK, StateInv, NEW s \in Sensor, present' = present,
           CountUp(s) \/ CountIgnore(s) \/ CountDown(s)
    PROVE  StateInv'
  BY UpdateStateInv, SameStateInv DEF CountUp, CountIgnore, CountDown, NoUpdate

\* So does process().
LEMMA ProcessInv ==
    ASSUME TypeOK, StateInv, NEW s \in Sensor, present' = present, Process(s)
    PROVE  StateInv'
  BY CountInv, SameStateInv DEF Process, NoUpdate

\* So do checkTrust() and tachChanged().
LEMMA JudgeInv ==
    ASSUME TypeOK, StateInv, NEW s \in Sensor, NEW proceed \in BOOLEAN,
           present' = present, Judge(s, proceed)
    PROVE  StateInv'
  <1>1. CASE Distrust(s)
    BY <1>1, SameStateInv DEF Distrust, NoUpdate
  <1>2. CASE Regain(s, proceed)
    BY <1>2, CountInv, SameStateInv DEF Regain, NoUpdate
  <1>3. CASE Trust(s, proceed)
    BY <1>3, ProcessInv, SameStateInv DEF Trust, NoUpdate
  <1> QED
    BY <1>1, <1>2, <1>3 DEF Judge

\* tachChanged(sensor) keeps the state consistent, if the readings and the
\* presence it is given do not disturb it.
LEMMA TachChangedInv ==
    ASSUME TypeOK, StateInv, NEW s \in Sensor, present' = present,
           TachChanged(s)
    PROVE  StateInv'
  <1>1. CASE power /\ monitorReady[FanOf[s]]
    BY <1>1, JudgeInv DEF TachChanged, TypeOK
  <1>2. CASE ~(power /\ monitorReady[FanOf[s]])
    BY <1>2, SameStateInv DEF TachChanged, NoUpdate
  <1> QED
    BY <1>1, <1>2

\* A step that sets the state of several sensors at once agrees if every fan
\* does on its own: this is what has to be shown of it.
FanAgrees(f) ==
    /\ health'[f] = HealthOf(f, present', func')
    /\ IF NumSensorFails[f] = 0
       THEN functional'[f]
       ELSE /\ functional'[f] => ~TooManyFailed(f, func')
            /\ f \notin SetFuncOnPresent =>
                 (~TooManyFailed(f, func') => functional'[f])

\* What holds of each fan by itself makes the two invariants of all fans.
LEMMA FansAgree ==
    ASSUME \A f \in Fan : FanAgrees(f)
    PROVE  HealthMatches' /\ FanFollowsSensors'
  BY DEF FanAgrees, HealthMatches, FanFollowsSensors, HealthOf, TooManyFailed,
         NonFunctional

\* startMonitor() of a sensor that is not on D-Bus keeps the agreement.
LEMMA StartStepMissingInv ==
    ASSUME TypeOK, StateInv, NEW s \in Sensor, StartStepMissing(s)
    PROVE  StateInv'
  <1>1. /\ present' = present
        /\ func' = [func EXCEPT ![s] = FALSE]
        /\ health' = [health EXCEPT
                        ![FanOf[s]] = HealthOf(FanOf[s], present', func')]
    BY DEF StartStepMissing, UpdateFanHealth
  <1>2. ASSUME NEW f \in Fan, f # FanOf[s]
        PROVE  FanAgrees(f)
    <2>1. \A t \in SensorsOf(f) : func'[t] = func[t]
      BY <1>1, <1>2 DEF SensorsOf, TypeOK
    <2>2. /\ TooManyFailed(f, func') <=> TooManyFailed(f, func)
          /\ HealthOf(f, present', func') = HealthOf(f, present', func)
      BY <2>1, SameSensorsSameFan
    <2>3. functional'[f] = functional[f] /\ health'[f] = health[f]
      BY <1>1, <1>2 DEF StartStepMissing, TypeOK
    <2> QED
      BY <1>1, <2>2, <2>3
         DEF FanAgrees, StateInv, HealthMatches, FanFollowsSensors
  <1>3. FanAgrees(FanOf[s])
    <2> DEFINE f == FanOf[s]
    <2>1. health'[f] = HealthOf(f, present', func')
      BY <1>1 DEF TypeOK
    <2>2. functional'[f] =
            (functional[f] /\ (NumSensorFails[f] # 0 =>
                                 ~TooManyFailed(f, func')))
      BY DEF StartStepMissing, TypeOK
    <2>3. \A t \in SensorsOf(f) : func'[t] => func[t]
      BY <1>1 DEF SensorsOf, TypeOK
    <2>4. TooManyFailed(f, func) => TooManyFailed(f, func')
      BY <2>3, MoreFunctionalFewerFailed
    <2> QED
      BY <2>1, <2>2, <2>4 DEF FanAgrees, StateInv, FanFollowsSensors
  <1>4. ErrorOnlyForFault'
    BY <1>1 DEF StartStepMissing, ErrorTimerAfter, StateInv,
                ErrorOnlyForFault, TypeOK
  <1> QED
    BY <1>2, <1>3, <1>4, FansAgree DEF StateInv

\* powerStateChanged(true) keeps the agreement: a fan that is not present
\* keeps its state, a present one counts fewer nonfunctional sensors.
LEMMA PowerOnInv ==
    ASSUME TypeOK, StateInv, PowerOn
    PROVE  StateInv'
  <1> DEFINE fresh == {s \in Sensor : OnDBus(s) /\ present[FanOf[s]]}
  <1>1. /\ present' = present
        /\ func' = [s \in Sensor |-> func[s] \/ s \in fresh]
        /\ health' = [f \in Fan |->
                        IF \E s \in SensorsOf(f) \cap fresh : ~func[s]
                        THEN HealthOf(f, present, func') ELSE health[f]]
        /\ errorTimer' = [s \in Sensor |->
                            errorTimer[s] /\ (s \in fresh => func[s])]
        /\ functional' = [f \in Fan |->
                            \/ functional[f]
                            \/ /\ present[f]
                               /\ NumSensorFails[f] # 0
                               /\ ~TooManyFailed(f, func')]
    BY DEF PowerOn
  <1>2. ASSUME NEW f \in Fan
        PROVE  FanAgrees(f)
    <2>1. \A t \in SensorsOf(f) : func[t] => func'[t]
      BY <1>1 DEF SensorsOf
    <2>2. TooManyFailed(f, func') => TooManyFailed(f, func)
      BY <2>1, MoreFunctionalFewerFailed
    <2>3. (\A t \in SensorsOf(f) : func'[t] = func[t]) =>
            /\ TooManyFailed(f, func') <=> TooManyFailed(f, func)
            /\ HealthOf(f, present, func') = HealthOf(f, present, func)
      <3> SUFFICES ASSUME \A t \in SensorsOf(f) : func'[t] = func[t]
                   PROVE  /\ TooManyFailed(f, func') <=> TooManyFailed(f, func)
                          /\ HealthOf(f, present, func')
                               = HealthOf(f, present, func)
        OBVIOUS
      <3> QED
        BY SameSensorsSameFan
    <2>4. ~present[f] => \A t \in SensorsOf(f) : func'[t] = func[t]
      BY <1>1 DEF SensorsOf, TypeOK
    <2>5. (~\E s \in SensorsOf(f) \cap fresh : ~func[s])
            => \A t \in SensorsOf(f) : func'[t] = func[t]
      BY <1>1 DEF SensorsOf, TypeOK
    <2>6. health'[f] = HealthOf(f, present', func')
      BY <1>1, <2>3, <2>5 DEF StateInv, HealthMatches
    <2>7. functional'[f] = \/ functional[f]
                           \/ /\ present[f]
                              /\ NumSensorFails[f] # 0
                              /\ ~TooManyFailed(f, func')
      BY <1>1
    <2> QED
      BY <2>2, <2>3, <2>4, <2>6, <2>7
         DEF FanAgrees, StateInv, FanFollowsSensors, TypeOK
  <1>3. ErrorOnlyForFault'
    BY <1>1 DEF StateInv, ErrorOnlyForFault, TypeOK
  <1> QED
    BY <1>2, <1>3, FansAgree DEF StateInv

\* presenceChanged() keeps the agreement.
LEMMA PresenceChangedInv ==
    ASSUME TypeOK, StateInv, NEW f \in Fan, NEW p \in BOOLEAN,
           PresenceChanged(f, p)
    PROVE  StateInv'
  <1> DEFINE reset == p /\ f \in SetFuncOnPresent
             fresh == IF reset THEN SensorsOf(f) ELSE {}
  <1>1. /\ present' = [present EXCEPT ![f] = p]
        /\ func' = [s \in Sensor |-> func[s] \/ s \in fresh]
        /\ health' = [health EXCEPT ![f] = HealthOf(f, present', func')]
        /\ errorTimer' = [s \in Sensor |-> errorTimer[s] /\ s \notin fresh]
        /\ functional' = [functional EXCEPT ![f] = @ \/ reset]
    BY DEF PresenceChanged, UpdateFanHealth
  <1>2. ASSUME NEW g \in Fan, g # f
        PROVE  FanAgrees(g)
    <2>1. \A t \in SensorsOf(g) : func'[t] = func[t]
      BY <1>1, <1>2 DEF SensorsOf, TypeOK
    <2>2. /\ TooManyFailed(g, func') <=> TooManyFailed(g, func)
          /\ HealthOf(g, present', func') = HealthOf(g, present', func)
      BY <2>1, SameSensorsSameFan
    <2>3. HealthOf(g, present', func) = HealthOf(g, present, func)
      BY <1>1, <1>2 DEF HealthOf, TypeOK
    <2>4. functional'[g] = functional[g] /\ health'[g] = health[g]
      BY <1>1, <1>2 DEF TypeOK
    <2> QED
      BY <2>2, <2>3, <2>4
         DEF FanAgrees, StateInv, HealthMatches, FanFollowsSensors
  <1>3. FanAgrees(f)
    <2>1. health'[f] = HealthOf(f, present', func')
      BY <1>1 DEF TypeOK
    <2>2. CASE reset
      <3>1. \A t \in SensorsOf(f) : func'[t]
        BY <1>1, <2>2 DEF SensorsOf
      <3>2. NumSensorFails[f] # 0 => ~TooManyFailed(f, func')
        BY <3>1, NoneFailed
      <3>3. functional'[f]
        BY <1>1, <2>2 DEF TypeOK
      <3> QED
        BY <2>1, <3>2, <3>3 DEF FanAgrees
    <2>3. CASE ~reset
      <3> fresh = {}
        BY <2>3
      <3>1. \A t \in SensorsOf(f) : func'[t] = func[t]
        BY <1>1 DEF SensorsOf, TypeOK
      <3>2. TooManyFailed(f, func') <=> TooManyFailed(f, func)
        BY <3>1, SameSensorsSameFan
      <3>3. functional'[f] = functional[f]
        BY <1>1, <2>3 DEF TypeOK
      <3> QED
        BY <2>1, <3>2, <3>3 DEF FanAgrees, StateInv, FanFollowsSensors
    <2> QED
      BY <2>2, <2>3
  <1>4. ErrorOnlyForFault'
    BY <1>1 DEF StateInv, ErrorOnlyForFault, TypeOK
  <1> QED
    BY <1>2, <1>3, <1>4, FansAgree DEF StateInv

\* presenceIfaceAdded() keeps the agreement: only the presence changes.
LEMMA PresenceIfaceAddedInv ==
    ASSUME TypeOK, StateInv, NEW f \in Fan, NEW p \in BOOLEAN,
           PresenceIfaceAdded(f, p)
    PROVE  StateInv'
  <1>1. /\ present' = [present EXCEPT ![f] = p]
        /\ func' = func /\ functional' = functional
        /\ errorTimer' = errorTimer
        /\ health' = [health EXCEPT ![f] = HealthOf(f, present', func)]
    BY DEF PresenceIfaceAdded
  <1>2. ASSUME NEW g \in Fan
        PROVE  FanAgrees(g)
    <2>1. health'[g] = HealthOf(g, present', func')
      <3>1. CASE g = f
        BY <1>1, <3>1 DEF TypeOK
      <3>2. CASE g # f
        <4>1. health'[g] = health[g] /\ present'[g] = present[g]
          BY <1>1, <3>2 DEF TypeOK
        <4> QED
          BY <1>1, <4>1 DEF StateInv, HealthMatches, HealthOf
      <3> QED
        BY <3>1, <3>2
    <2>2. TooManyFailed(g, func') <=> TooManyFailed(g, func)
      BY <1>1 DEF TooManyFailed, NonFunctional
    <2> QED
      BY <1>1, <2>1, <2>2 DEF FanAgrees, StateInv, FanFollowsSensors
  <1>3. ErrorOnlyForFault'
    BY <1>1 DEF StateInv, ErrorOnlyForFault
  <1> QED
    BY <1>2, <1>3, FansAgree DEF StateInv

\* The fans load() creates are in agreement.
LEMMA FreshInv ==
    ASSUME NEW pres \in SUBSET Fan, NEW known \in SUBSET Fan,
           Fresh(pres, known)
    PROVE  StateInv'
  <1>1. ASSUME NEW f \in Fan
        PROVE  FanAgrees(f)
    <2>1. \A s \in SensorsOf(f) : func'[s]
      BY DEF Fresh, SensorsOf
    <2>2. NumSensorFails[f] # 0 => ~TooManyFailed(f, func')
      BY <2>1, NoneFailed
    <2> QED
      BY <2>2 DEF Fresh, FanAgrees
  <1>2. ErrorOnlyForFault'
    BY DEF Fresh, ErrorOnlyForFault
  <1> QED
    BY <1>1, <1>2, FansAgree DEF StateInv

\* Every step keeps the agreement.
LEMMA NextStateInv ==
    ASSUME TypeOK, StateInv, [Next]_vars
    PROVE  StateInv'
  <1>1. CASE UNCHANGED vars
    BY <1>1, SameStateInv DEF vars, stateVars
  <1>2. CASE LoopStep
    <2> PICK s \in Sensor : \/ ChangedStep(s) \/ OwnerStep(s)
                            \/ StartStep(s) \/ StartStepMissing(s)
      BY <1>2 DEF LoopStep
    <2>1. CASE ChangedStep(s)
      BY <2>1, TachChangedInv DEF ChangedStep
    <2>2. CASE OwnerStep(s)
      BY <2>2, ProcessInv DEF OwnerStep
    <2>3. CASE StartStep(s)
      BY <2>3, TachChangedInv DEF StartStep
    <2>4. CASE StartStepMissing(s)
      BY <2>4, StartStepMissingInv
    <2> QED
      BY <2>1, <2>2, <2>3, <2>4
  <1>3. ASSUME NEW s \in Sensor, TimerExpired(s)
        PROVE  StateInv'
    BY <1>3, UpdateStateInv DEF TimerExpired
  <1>4. ASSUME NEW s \in Sensor, CountTimerExpired(s)
        PROVE  StateInv'
    BY <1>4, JudgeInv DEF CountTimerExpired
  <1>5. ASSUME NEW s \in Sensor, ErrorTimerExpired(s)
        PROVE  StateInv'
    <2>1. /\ errorTimer' = [errorTimer EXCEPT ![s] = FALSE]
          /\ func' = func /\ functional' = functional
          /\ health' = health /\ present' = present
      BY <1>5 DEF ErrorTimerExpired, fanVars
    <2>2. HealthMatches' /\ FanFollowsSensors'
      BY <2>1 DEF StateInv, HealthMatches, FanFollowsSensors, HealthOf,
                  TooManyFailed, NonFunctional
    <2>3. ErrorOnlyForFault'
      BY <2>1 DEF StateInv, ErrorOnlyForFault, TypeOK
    <2> QED
      BY <2>2, <2>3 DEF StateInv
  <1>6. ASSUME NEW f \in Fan, MissingTimerExpired(f) \/ StartMonitor(f)
        PROVE  StateInv'
    BY <1>6, SameStateInv DEF MissingTimerExpired, StartMonitor, stateVars
  <1>7. ASSUME NEW s \in Sensor, TachSignal(s) \/ TargetSignal(s)
        PROVE  StateInv'
    BY <1>7, TachChangedInv, SameStateInv DEF TachSignal, TargetSignal, NoUpdate
  <1>8. ASSUME NEW v \in Service, OwnerSignal(v) \/ ServiceChange(v)
        PROVE  StateInv'
    BY <1>8, SameStateInv DEF OwnerSignal, ServiceChange, NoUpdate, stateVars,
                              fanVars
  <1>9. ASSUME NEW f \in Fan, NEW p \in BOOLEAN,
               PresenceIfaceAdded(f, p) \/ PresenceChanged(f, p)
        PROVE  StateInv'
    BY <1>9, PresenceIfaceAddedInv, PresenceChangedInv
  <1>10. CASE PowerOn
    BY <1>10, PowerOnInv
  <1>11. CASE PowerOff
    BY <1>11, SameStateInv DEF PowerOff, stateVars
  <1>12. CASE Reload
    BY <1>12, FreshInv DEF Reload, NewFans
  <1> QED
    BY <1>1, <1>2, <1>3, <1>4, <1>5, <1>6, <1>7, <1>8, <1>9, <1>10, <1>11,
       <1>12 DEF Next, TimerStep, SignalStep, ConfigStep

\* The first load() leaves the agreement.
LEMMA InitStateInv == Init => StateInv
  <1> SUFFICES ASSUME Init PROVE StateInv
    OBVIOUS
  <1>1. ASSUME NEW f \in Fan, NumSensorFails[f] # 0
        PROVE  ~TooManyFailed(f, func)
    <2>1. \A s \in SensorsOf(f) : func[s]
      BY DEF Init, SensorsOf
    <2> QED
      BY <1>1, <2>1, NoneFailed
  <1> QED
    BY <1>1 DEF Init, StateInv, HealthMatches, FanFollowsSensors,
                ErrorOnlyForFault

\* The inductive invariant holds in every reachable state.
LEMMA StateInvariant == Spec => [](TypeOK /\ StateInv)
  <1>1. Init => TypeOK /\ StateInv
    BY InitType, InitStateInv
  <1>2. (TypeOK /\ StateInv) /\ [Next]_vars => (TypeOK /\ StateInv)'
    BY NextType, NextStateInv
  <1> QED
    BY <1>1, <1>2, PTL DEF Spec

\* The health map the power off rules decide on (system.cpp, _fanHealth) is
\* that of the fans after every step: no handler changes a presence or a
\* sensor state without recording it.
THEOREM HealthCurrent == Spec => []HealthMatches
  <1>1. TypeOK /\ StateInv => HealthMatches
    BY DEF StateInv
  <1> QED
    BY <1>1, StateInvariant, PTL

\* A fan FRU is nonfunctional exactly when too many of its sensors are, up to
\* the latch of set_func_on_present (fan.cpp, updateState(), startMonitor(),
\* presenceChanged() and powerStateChanged() between them).
THEOREM FanStateFollows == Spec => []FanFollowsSensors
  <1>1. TypeOK /\ StateInv => FanFollowsSensors
    BY DEF StateInv
  <1> QED
    BY <1>1, StateInvariant, PTL

\* No error is pending against a sensor that is functional again.
THEOREM ErrorsWithdrawn == Spec => []ErrorOnlyForFault
  <1>1. TypeOK /\ StateInv => ErrorOnlyForFault
    BY DEF StateInv
  <1> QED
    BY <1>1, StateInvariant, PTL

-----------------------------------------------------------------------------
(* The phases of monitoring and the missing fan timer                      *)

\* On a powered system every fan is either monitored or on its way there,
\* never both; without power it is neither, and no missing fan error is due.
MonitoringPhase ==
    \A f \in Fan :
        /\ power = (monitorTimer[f] \/ monitorReady[f])
        /\ ~(monitorTimer[f] /\ monitorReady[f])
        /\ missingTimer[f] => power

\* A step that leaves the power and the timers of the fans keeps the phases.
LEMMA SamePhase ==
    ASSUME MonitoringPhase,
           UNCHANGED <<power, monitorTimer, monitorReady, missingTimer>>
    PROVE  MonitoringPhase'
  BY DEF MonitoringPhase

LEMMA PhaseInvariant == Spec => []MonitoringPhase
  <1>1. Init => MonitoringPhase
    BY DEF Init, MonitoringPhase
  <1>2. TypeOK /\ MonitoringPhase /\ [Next]_vars => MonitoringPhase'
    <2> SUFFICES ASSUME TypeOK, MonitoringPhase, [Next]_vars
                 PROVE  MonitoringPhase'
      OBVIOUS
    <2>1. CASE UNCHANGED vars
      BY <2>1, SamePhase DEF vars
    <2>2. CASE LoopStep
      BY <2>2, SamePhase DEF LoopStep, ChangedStep, OwnerStep, StartStep,
                             StartStepMissing
    <2>3. ASSUME NEW s \in Sensor,
                 TimerExpired(s) \/ CountTimerExpired(s) \/ ErrorTimerExpired(s)
          PROVE  MonitoringPhase'
      BY <2>3, SamePhase DEF TimerExpired, CountTimerExpired,
                             ErrorTimerExpired, fanVars
    <2>4. ASSUME NEW f \in Fan, MissingTimerExpired(f) \/ StartMonitor(f)
          PROVE  MonitoringPhase'
      BY <2>4 DEF MissingTimerExpired, StartMonitor, MonitoringPhase, TypeOK
    <2>5. ASSUME NEW s \in Sensor, TachSignal(s) \/ TargetSignal(s)
          PROVE  MonitoringPhase'
      BY <2>5, SamePhase DEF TachSignal, TargetSignal
    <2>6. ASSUME NEW v \in Service, OwnerSignal(v) \/ ServiceChange(v)
          PROVE  MonitoringPhase'
      BY <2>6, SamePhase DEF OwnerSignal, ServiceChange, fanVars
    <2>7. ASSUME NEW f \in Fan, NEW p \in BOOLEAN,
                 PresenceIfaceAdded(f, p) \/ PresenceChanged(f, p)
          PROVE  MonitoringPhase'
      <3>1. CASE PresenceIfaceAdded(f, p)
        BY <2>7, <3>1 DEF PresenceIfaceAdded, RestartMissingTimer, MonitoringPhase, TypeOK
      <3>2. CASE PresenceChanged(f, p)
        BY <2>7, <3>2 DEF PresenceChanged, MissingTimerAfter, RestartMissingTimer,
                          MonitoringPhase, TypeOK
      <3> QED
        BY <2>7, <3>1, <3>2
    <2>8. CASE PowerOn
      BY <2>8 DEF PowerOn, MonitoringPhase, TypeOK
    <2>9. CASE PowerOff
      BY <2>9 DEF PowerOff, MonitoringPhase
    <2>10. CASE Reload
      BY <2>10 DEF Reload, NewFans, Fresh, RestartMissingTimer, MonitoringPhase, TypeOK
    <2> QED
      BY <2>1, <2>2, <2>3, <2>4, <2>5, <2>6, <2>7, <2>8, <2>9, <2>10
         DEF Next, TimerStep, SignalStep, ConfigStep
  <1> QED
    BY <1>1, <1>2, TypeCorrect, PTL DEF Spec

\* A step in which no presence, power or missing fan timer changes, or only the
\* timer of a fan that expires, keeps to what MissingFanTimed asks of it.
Timed(f) ==
    /\ (present[f] \/ ~power) /\ ~present'[f] /\ power' => missingTimer'[f]
    /\ missingTimer'[f] /\ ~missingTimer[f] => ~present'[f] /\ power'
    /\ ~power' \/ PresenceChanged(f, TRUE) => ~missingTimer'[f]
    /\ missingTimer[f] /\ ~missingTimer'[f]
       => ~power' \/ PresenceChanged(f, TRUE) \/ MissingTimerExpired(f)
AllTimed == check' # "load" => \A f \in FanMissingError : Timed(f)

\* presenceChanged() stops the timer, in whatever step its effect is seen.
LEMMA PresenceStopsTimer ==
    ASSUME TypeOK, NEW f \in Fan, PresenceChanged(f, TRUE)
    PROVE  ~missingTimer'[f]
  BY DEF PresenceChanged, MissingTimerAfter, RestartMissingTimer, TypeOK

LEMMA SameTimed ==
    ASSUME TypeOK, MonitoringPhase, UNCHANGED <<power, present, missingTimer>>
    PROVE  AllTimed
  <1>1. ASSUME NEW f \in FanMissingError PROVE Timed(f)
    <2>1. f \in Fan
      BY FanMonitorAssumption
    <2>2. PresenceChanged(f, TRUE) => ~missingTimer'[f]
      BY <2>1, PresenceStopsTimer
    <2> QED
      BY <2>1, <2>2 DEF Timed, MonitoringPhase
  <1> QED
    BY <1>1 DEF AllTimed

\* The missing fan timer of a fan is started and ended by the presence and the
\* power only, in any order of the two, and by its expiry: no other handler of
\* the daemon touches it (presenceChanged(), presenceIfaceAdded(),
\* powerStateChanged()).
THEOREM MissingFansAreTimed == Spec => MissingFanTimed
  <1>1. TypeOK /\ MonitoringPhase /\ [Next]_vars => [AllTimed]_vars
    <2> SUFFICES ASSUME TypeOK, MonitoringPhase, Next PROVE AllTimed
      OBVIOUS
    <2>0. FanMissingError \subseteq Fan
      BY FanMonitorAssumption
    <2>1. CASE LoopStep
      BY <2>1, SameTimed DEF LoopStep, ChangedStep, OwnerStep, StartStep,
                             StartStepMissing
    <2>2. ASSUME NEW s \in Sensor,
                 TimerExpired(s) \/ CountTimerExpired(s) \/ ErrorTimerExpired(s)
          PROVE  AllTimed
      BY <2>2, SameTimed DEF TimerExpired, CountTimerExpired, ErrorTimerExpired,
                             fanVars
    <2>3. ASSUME NEW g \in Fan, StartMonitor(g)
          PROVE  AllTimed
      BY <2>3, SameTimed DEF StartMonitor
    <2>4. ASSUME NEW g \in Fan, MissingTimerExpired(g)
          PROVE  AllTimed
      <3>1. ASSUME NEW f \in FanMissingError PROVE Timed(f)
        <4>1. /\ missingTimer' = [missingTimer EXCEPT ![g] = FALSE]
              /\ UNCHANGED <<power, present>>
          BY <2>4 DEF MissingTimerExpired
        <4>2. PresenceChanged(f, TRUE) => ~missingTimer'[f]
          BY <2>0, <3>1, PresenceStopsTimer
        <4>3. CASE f = g
          BY <2>0, <2>4, <3>1, <4>1, <4>3 DEF Timed, MonitoringPhase, TypeOK
        <4>4. CASE f # g
          BY <2>0, <3>1, <4>1, <4>2, <4>4 DEF Timed, MonitoringPhase, TypeOK
        <4> QED
          BY <4>3, <4>4
      <3> QED
        BY <3>1 DEF AllTimed
    <2>5. ASSUME NEW s \in Sensor, TachSignal(s) \/ TargetSignal(s)
          PROVE  AllTimed
      BY <2>5, SameTimed DEF TachSignal, TargetSignal
    <2>6. ASSUME NEW v \in Service, OwnerSignal(v) \/ ServiceChange(v)
          PROVE  AllTimed
      BY <2>6, SameTimed DEF OwnerSignal, ServiceChange, fanVars
    <2>7. ASSUME NEW g \in Fan, NEW p \in BOOLEAN, PresenceIfaceAdded(g, p)
          PROVE  AllTimed
      <3>1. ASSUME NEW f \in FanMissingError PROVE Timed(f)
        <4>1. PresenceChanged(f, TRUE) => ~missingTimer'[f]
          BY <2>0, <3>1, PresenceStopsTimer
        <4> QED
          BY <2>0, <2>7, <3>1, <4>1 DEF PresenceIfaceAdded, RestartMissingTimer, Timed,
                                   MonitoringPhase, TypeOK
      <3> QED
        BY <3>1 DEF AllTimed
    <2>8. ASSUME NEW g \in Fan, NEW p \in BOOLEAN, PresenceChanged(g, p)
          PROVE  AllTimed
      <3>1. ASSUME NEW f \in FanMissingError PROVE Timed(f)
        <4>1. PresenceChanged(f, TRUE) => ~missingTimer'[f]
          BY <2>0, <3>1, PresenceStopsTimer
        <4>2. /\ present' = [present EXCEPT ![g] = p]
              /\ missingTimer' = [missingTimer EXCEPT
                                    ![g] = MissingTimerAfter(g, p)]
              /\ power' = power
          BY <2>8 DEF PresenceChanged
        <4>3. CASE f = g /\ p = TRUE
          <5>1. PresenceChanged(f, TRUE)
            BY <2>8, <4>3
          <5> QED
            BY <2>0, <3>1, <4>1, <4>2, <4>3, <5>1
               DEF MissingTimerAfter, RestartMissingTimer, Timed, TypeOK
        <4>4. CASE f = g /\ p = FALSE
          BY <2>0, <3>1, <4>1, <4>2, <4>4
             DEF MissingTimerAfter, RestartMissingTimer, Timed, MonitoringPhase, TypeOK
        <4>5. CASE f # g
          BY <2>0, <3>1, <4>1, <4>2, <4>5 DEF Timed, MonitoringPhase, TypeOK
        <4> QED
          BY <4>3, <4>4, <4>5
      <3> QED
        BY <3>1 DEF AllTimed
    <2>9. CASE PowerOn \/ PowerOff
      <3>1. ASSUME NEW f \in FanMissingError PROVE Timed(f)
        <4>1. PresenceChanged(f, TRUE) => power' = power
          BY DEF PresenceChanged
        <4>2. CASE PowerOn
          <5>1. /\ ~power /\ power' = TRUE
                /\ present' = present
                /\ missingTimer'[f] = (missingTimer[f] \/ ~present[f])
            BY <2>0, <3>1, <4>2 DEF PowerOn
          <5> QED
            BY <2>0, <3>1, <4>1, <5>1 DEF Timed, MonitoringPhase
        <4>3. CASE PowerOff
          <5>1. power /\ ~power' /\ ~missingTimer'[f]
            BY <2>0, <3>1, <4>3 DEF PowerOff
          <5> QED
            BY <4>1, <5>1 DEF Timed
        <4> QED
          BY <2>9, <4>2, <4>3
      <3> QED
        BY <3>1 DEF AllTimed
    <2>10. CASE Reload
      BY <2>10 DEF Reload, NewFans, Fresh, AllTimed
    <2> QED
      BY <2>1, <2>2, <2>3, <2>4, <2>5, <2>6, <2>7, <2>8, <2>9, <2>10
         DEF Next, TimerStep, SignalStep, ConfigStep
  <1>2. AllTimed <=> (check' # "load" =>
                        \A f \in FanMissingError :
                           /\ (present[f] \/ ~power) /\ ~present'[f] /\ power'
                              => missingTimer'[f]
                           /\ missingTimer'[f] /\ ~missingTimer[f]
                              => ~present'[f] /\ power'
                           /\ ~power' \/ PresenceChanged(f, TRUE) => ~missingTimer'[f]
                           /\ missingTimer[f] /\ ~missingTimer'[f]
                              => \/ ~power'
                                 \/ PresenceChanged(f, TRUE)
                                 \/ MissingTimerExpired(f))
    BY DEF AllTimed, Timed
  <1> HIDE DEF AllTimed
  <1> QED
    BY <1>1, <1>2, TypeCorrect, PhaseInvariant, PTL DEF Spec, MissingFanTimed

-----------------------------------------------------------------------------
(* The latch of set_func_on_present                                        *)

\* A step leaves a latched fan nonfunctional.
StaysLatched ==
    \A f \in SetFuncOnPresent : functional'[f] => functional[f]

\* Neither updateState() nor process() nor checkTrust() releases the latch.
LEMMA UpdateLatched ==
    ASSUME TypeOK, NEW s \in Sensor, UpdateState(s) \/ NoUpdate
    PROVE  StaysLatched
  <1>1. CASE UNCHANGED stateVars
    BY <1>1 DEF stateVars, StaysLatched
  <1>2. CASE functional' = [functional EXCEPT
                              ![FanOf[s]] = FanStateAfter(FanOf[s], func')]
    BY <1>2 DEF FanStateAfter, StaysLatched, TypeOK
  <1> QED
    BY <1>1, <1>2 DEF UpdateState, NoUpdate

LEMMA ProcessLatched ==
    ASSUME TypeOK, NEW s \in Sensor,
           Process(s) \/ CountUp(s) \/ CountIgnore(s) \/ CountDown(s)
    PROVE  StaysLatched
  <1>1. UpdateState(s) \/ NoUpdate
    BY DEF Process, CountUp, CountIgnore, CountDown
  <1> QED
    BY <1>1, UpdateLatched

LEMMA JudgeLatched ==
    ASSUME TypeOK, NEW s \in Sensor, NEW proceed \in BOOLEAN,
           Judge(s, proceed)
    PROVE  StaysLatched
  <1>1. CASE Distrust(s)
    BY <1>1, UpdateLatched DEF Distrust
  <1>2. CASE Regain(s, proceed)
    BY <1>2, UpdateLatched, ProcessLatched DEF Regain
  <1>3. CASE Trust(s, proceed)
    BY <1>3, UpdateLatched, ProcessLatched DEF Trust
  <1> QED
    BY <1>1, <1>2, <1>3 DEF Judge

LEMMA TachChangedLatched ==
    ASSUME TypeOK, NEW s \in Sensor, TachChanged(s)
    PROVE  StaysLatched
  <1>1. CASE power /\ monitorReady[FanOf[s]]
    BY <1>1, JudgeLatched DEF TachChanged, TypeOK
  <1>2. CASE ~(power /\ monitorReady[FanOf[s]])
    BY <1>2, UpdateLatched DEF TachChanged
  <1> QED
    BY <1>1, <1>2

\* A fan with set_func_on_present that is nonfunctional stays so until a signal
\* says that it is present, the power changes or the configuration is loaded:
\* no sensor that recovers, by whatever timer, signal or trust, puts the fan
\* back, also a fan that is present (updateState() against presenceChanged()).
THEOREM LatchIsKept == Spec => LatchedWhilePowered
  <1> DEFINE Latched == \A f \in SetFuncOnPresent :
                          ~functional[f] /\ functional'[f] /\ check' # "load"
                          => power # power' \/ PresenceChanged(f, TRUE)
  <1>1. TypeOK /\ [Next]_vars => [Latched]_vars
    <2> SUFFICES ASSUME TypeOK, Next PROVE Latched
      OBVIOUS
    <2>1. StaysLatched => Latched
      BY DEF StaysLatched
    <2> HIDE DEF Latched
    <2>2. ASSUME NEW s \in Sensor,
                 ChangedStep(s) \/ StartStep(s) \/ TachSignal(s)
          PROVE  Latched
      BY <2>1, <2>2, TachChangedLatched DEF ChangedStep, StartStep, TachSignal
    <2>3. ASSUME NEW s \in Sensor, OwnerStep(s)
          PROVE  Latched
      BY <2>1, <2>3, ProcessLatched DEF OwnerStep
    <2>4. ASSUME NEW s \in Sensor, StartStepMissing(s)
          PROVE  Latched
      BY <2>1, <2>4 DEF StartStepMissing, StaysLatched, TypeOK
    <2>5. ASSUME NEW s \in Sensor, TimerExpired(s)
          PROVE  Latched
      BY <2>1, <2>5, UpdateLatched DEF TimerExpired
    <2>6. ASSUME NEW s \in Sensor, CountTimerExpired(s)
          PROVE  Latched
      BY <2>1, <2>6, JudgeLatched DEF CountTimerExpired
    <2>7. ASSUME UNCHANGED functional
          PROVE  Latched
      BY <2>1, <2>7 DEF StaysLatched
    <2>8. ASSUME NEW s \in Sensor, ErrorTimerExpired(s) \/ TargetSignal(s)
          PROVE  Latched
      BY <2>7, <2>8 DEF ErrorTimerExpired, TargetSignal, NoUpdate, stateVars,
                        fanVars
    <2>9. ASSUME NEW f \in Fan, MissingTimerExpired(f) \/ StartMonitor(f)
          PROVE  Latched
      BY <2>7, <2>9 DEF MissingTimerExpired, StartMonitor
    <2>10. ASSUME NEW v \in Service, OwnerSignal(v) \/ ServiceChange(v)
           PROVE  Latched
      BY <2>7, <2>10 DEF OwnerSignal, ServiceChange, fanVars
    <2>11. ASSUME NEW f \in Fan, NEW p \in BOOLEAN, PresenceIfaceAdded(f, p)
           PROVE  Latched
      BY <2>7, <2>11 DEF PresenceIfaceAdded
    <2>12. ASSUME NEW f \in Fan, NEW p \in BOOLEAN, PresenceChanged(f, p)
           PROVE  Latched
      <3>1. CASE p = TRUE
        <4>1. \A g \in SetFuncOnPresent :
                 ~functional[g] /\ functional'[g] => g = f
          BY <2>12, FanMonitorAssumption DEF PresenceChanged, TypeOK
        <4>2. PresenceChanged(f, TRUE)
          BY <2>12, <3>1
        <4> QED
          BY <4>1, <4>2 DEF Latched
      <3>2. CASE p = FALSE
        <4>1. StaysLatched
          BY <2>12, <3>2, FanMonitorAssumption DEF PresenceChanged, StaysLatched, TypeOK
        <4> QED
          BY <2>1, <4>1
      <3> QED
        BY <3>1, <3>2
    <2>13. CASE PowerOn \/ PowerOff
      <3>1. power # power'
        BY <2>13 DEF PowerOn, PowerOff
      <3> QED
        BY <3>1 DEF Latched
    <2>14. CASE Reload
      BY <2>14 DEF Reload, NewFans, Fresh, Latched
    <2> QED
      BY <2>2, <2>3, <2>4, <2>5, <2>6, <2>8, <2>9, <2>10, <2>11, <2>12, <2>13,
         <2>14 DEF Next, LoopStep, TimerStep, SignalStep, ConfigStep
  <1> QED
    BY <1>1, TypeCorrect, PTL DEF Spec, LatchedWhilePowered

-----------------------------------------------------------------------------
(* While the services stay up                                              *)

\* No sensor loses its owner, and only timebased sensors use the timer.
Steady ==
    /\ \A v \in Service : pending[v] = 0
    /\ loop \notin {"online", "offline"}
    /\ \A s \in Sensor : owner[s]
    /\ \A s \in Sensor : UsesCount(s) => timer[s] = "stopped"
SteadyInv == Steady /\ DistrustedNotJudged

\* checkTrust() and what follows it run no timer of a distrusted group.
LEMMA JudgeSteady ==
    ASSUME TypeOK, SteadyInv, NEW s \in Sensor, NEW proceed \in BOOLEAN,
           Judge(s, proceed)
    PROVE  /\ DistrustedNotJudged'
           /\ \A t \in Sensor : UsesCount(t) => timer'[t] = "stopped"
  <1> USE DEF SteadyInv, Steady, DistrustedNotJudged
  <1>1. CASE Distrust(s)
    BY <1>1 DEF Distrust, ResetTimer, TypeOK
  <1>2. CASE Regain(s, proceed)
    BY <1>2 DEF Regain, Restarted, TypeOK
  <1>3. CASE Trust(s, proceed)
    <2>1. \/ timer' = timer
          \/ ~UsesCount(s) /\ timer' = [timer EXCEPT ![s] = ProcessTimer(s)]
      BY <1>3 DEF Trust, Process, methodVars
    <2>2. trusted' = trusted /\ (s \in TrustGroup => trusted)
      BY <1>3 DEF Trust
    <2> QED
      BY <2>1, <2>2 DEF TypeOK
  <1> QED
    BY <1>1, <1>2, <1>3 DEF Judge

LEMMA TachChangedSteady ==
    ASSUME TypeOK, SteadyInv, NEW s \in Sensor, TachChanged(s)
    PROVE  /\ DistrustedNotJudged'
           /\ \A t \in Sensor : UsesCount(t) => timer'[t] = "stopped"
  <1>1. CASE power /\ monitorReady[FanOf[s]]
    BY <1>1, JudgeSteady DEF TachChanged, TypeOK
  <1>2. CASE ~(power /\ monitorReady[FanOf[s]])
    BY <1>2 DEF TachChanged, methodVars, SteadyInv, Steady, DistrustedNotJudged
  <1> QED
    BY <1>1, <1>2

\* A step that neither starts a timer nor changes the trust or an owner.
LEMMA QuietSteady ==
    ASSUME TypeOK, SteadyInv, UNCHANGED <<pending, owner, trusted>>,
           loop' \notin {"online", "offline"},
           \A s \in Sensor : timer'[s] \in {timer[s], "stopped"}
    PROVE  SteadyInv'
  BY DEF SteadyInv, Steady, DistrustedNotJudged

LEMMA AdvanceSteady ==
    ASSUME SteadyInv, NEW s \in Sensor, Advance(s)
    PROVE  loop' \notin {"online", "offline"}
  BY DEF Advance, SteadyInv, Steady

LEMMA NextSteady ==
    ASSUME MaxPending = 0, TypeOK, SteadyInv, [Next]_vars
    PROVE  SteadyInv'
  <1>1. ASSUME NEW s \in Sensor, ChangedStep(s) \/ StartStep(s)
        PROVE  SteadyInv'
    <2>1. loop' \notin {"online", "offline"}
      BY <1>1, AdvanceSteady DEF ChangedStep, StartStep
    <2>2. TachChanged(s) /\ UNCHANGED <<pending, owner>>
      BY <1>1 DEF ChangedStep, StartStep, inputVars
    <2>3. /\ DistrustedNotJudged'
          /\ \A t \in Sensor : UsesCount(t) => timer'[t] = "stopped"
      BY <2>2, TachChangedSteady
    <2> QED
      BY <2>1, <2>2, <2>3 DEF SteadyInv, Steady
  <1>2. ASSUME NEW s \in Sensor, OwnerStep(s)
        PROVE  SteadyInv'
    BY <1>2 DEF OwnerStep, SteadyInv, Steady
  <1>3. ASSUME NEW s \in Sensor, StartStepMissing(s)
        PROVE  SteadyInv'
    <2>1. loop' \notin {"online", "offline"}
      BY <1>3, AdvanceSteady DEF StartStepMissing
    <2> QED
      BY <1>3, <2>1, QuietSteady DEF StartStepMissing, inputVars, methodVars
  <1>4. ASSUME NEW s \in Sensor, TimerExpired(s)
        PROVE  SteadyInv'
    <2>1. UNCHANGED <<pending, owner, trusted, loop>>
      BY <1>4 DEF TimerExpired, inputVars, loopVars
    <2>2. \A t \in Sensor : timer'[t] \in {timer[t], "stopped"}
      BY <1>4 DEF TimerExpired, TypeOK
    <2> QED
      BY <2>1, <2>2, QuietSteady DEF SteadyInv, Steady
  <1>5. ASSUME NEW s \in Sensor, CountTimerExpired(s) \/ TachSignal(s)
        PROVE  SteadyInv'
    <2>1. UNCHANGED <<pending, owner, loop>>
      BY <1>5 DEF CountTimerExpired, TachSignal, inputVars, loopVars
    <2>2. /\ DistrustedNotJudged'
          /\ \A t \in Sensor : UsesCount(t) => timer'[t] = "stopped"
      BY <1>5, JudgeSteady, TachChangedSteady DEF CountTimerExpired, TachSignal
    <2> QED
      BY <2>1, <2>2 DEF SteadyInv, Steady
  <1>6. ASSUME NEW s \in Sensor, ErrorTimerExpired(s) \/ TargetSignal(s)
        PROVE  SteadyInv'
    <2>1. /\ UNCHANGED <<pending, owner, trusted, timer>>
          /\ loop' \in {loop, "changed"}
      BY <1>6 DEF ErrorTimerExpired, TargetSignal, inputVars, methodVars, loopVars
    <2> QED
      BY <2>1, QuietSteady DEF SteadyInv, Steady
  <1>7. ASSUME NEW f \in Fan, MissingTimerExpired(f) \/ StartMonitor(f)
        PROVE  SteadyInv'
    <2>1. /\ UNCHANGED <<pending, owner, trusted, timer>>
          /\ loop' \in {loop, "none", "start"}
      BY <1>7 DEF MissingTimerExpired, StartMonitor, inputVars, methodVars,
                  loopVars
    <2> QED
      BY <2>1, QuietSteady DEF SteadyInv, Steady
  <1>8. ASSUME NEW v \in Service, OwnerSignal(v) \/ ServiceChange(v)
        PROVE  FALSE
    BY <1>8 DEF OwnerSignal, ServiceChange, SteadyInv, Steady, TypeOK
  <1>9. ASSUME NEW f \in Fan, NEW p \in BOOLEAN,
               PresenceIfaceAdded(f, p) \/ PresenceChanged(f, p)
        PROVE  SteadyInv'
    <2>1. UNCHANGED <<pending, owner, trusted, loop>>
      BY <1>9 DEF PresenceIfaceAdded, PresenceChanged, inputVars, loopVars
    <2>2. \A s \in Sensor : timer'[s] \in {timer[s], "stopped"}
      BY <1>9 DEF PresenceIfaceAdded, PresenceChanged, ResetTimer, methodVars
    <2> QED
      BY <2>1, <2>2, QuietSteady DEF SteadyInv, Steady
  <1>10. CASE PowerOn \/ PowerOff
    <2>1. /\ UNCHANGED <<pending, owner, trusted, loop>>
          /\ \A s \in Sensor : timer'[s] \in {timer[s], "stopped"}
      BY <1>10 DEF PowerOn, PowerOff, inputVars, loopVars
    <2> QED
      BY <2>1, QuietSteady DEF SteadyInv, Steady
  <1>11. CASE Reload
    BY <1>11 DEF Reload, NewFans, Fresh, loopVars, SteadyInv, Steady,
                 DistrustedNotJudged
  <1>12. CASE UNCHANGED vars
    BY <1>12 DEF vars, SteadyInv, Steady, DistrustedNotJudged, UsesCount
  <1> QED
    BY <1>1, <1>2, <1>3, <1>4, <1>5, <1>6, <1>7, <1>8, <1>9, <1>10, <1>11,
       <1>12 DEF Next, LoopStep, TimerStep, SignalStep, ConfigStep

LEMMA InitSteady == Init => SteadyInv
  BY DEF Init, SteadyInv, Steady, DistrustedNotJudged, UsesCount

\* Only the sensors of the method count have their count timer running.
CountTimersOnly == \A s \in Sensor : countTimer[s] => UsesCount(s)

LEMMA JudgeCounts ==
    ASSUME TypeOK, CountTimersOnly, NEW s \in Sensor, NEW proceed \in BOOLEAN,
           Judge(s, proceed)
    PROVE  CountTimersOnly'
  <1>1. ASSUME UsesCount(s), CountUp(s) \/ CountIgnore(s) \/ CountDown(s)
        PROVE  CountTimersOnly'
    BY <1>1 DEF CountUp, CountIgnore, CountDown, CountTimersOnly, UsesCount, TypeOK
  <1>2. ASSUME UNCHANGED countTimer PROVE CountTimersOnly'
    BY <1>2 DEF CountTimersOnly, UsesCount
  <1> QED
    BY <1>1, <1>2 DEF Judge, Distrust, Regain, Trust, Process, methodVars

LEMMA TachChangedCounts ==
    ASSUME TypeOK, CountTimersOnly, NEW s \in Sensor, TachChanged(s)
    PROVE  CountTimersOnly'
  <1>1. CASE power /\ monitorReady[FanOf[s]]
    BY <1>1, JudgeCounts DEF TachChanged, TypeOK
  <1>2. CASE ~(power /\ monitorReady[FanOf[s]])
    BY <1>2 DEF TachChanged, methodVars, CountTimersOnly, UsesCount
  <1> QED
    BY <1>1, <1>2

LEMMA NextCounts ==
    ASSUME TypeOK, SteadyInv, CountTimersOnly, [Next]_vars
    PROVE  CountTimersOnly'
  <1>1. ASSUME NEW s \in Sensor, ChangedStep(s) \/ StartStep(s) \/ TachSignal(s)
        PROVE  CountTimersOnly'
    BY <1>1, TachChangedCounts DEF ChangedStep, StartStep, TachSignal
  <1>2. ASSUME NEW s \in Sensor, CountTimerExpired(s) PROVE CountTimersOnly'
    BY <1>2, JudgeCounts DEF CountTimerExpired
  <1>3. ASSUME NEW s \in Sensor, OwnerStep(s) PROVE FALSE
    BY <1>3 DEF OwnerStep, SteadyInv, Steady
  <1>4. ASSUME \A s \in Sensor : countTimer'[s] => countTimer[s]
        PROVE  CountTimersOnly'
    BY <1>4 DEF CountTimersOnly, UsesCount
  <1>5. ASSUME NEW s \in Sensor, StartStepMissing(s) \/ TimerExpired(s)
                 \/ ErrorTimerExpired(s) \/ TargetSignal(s)
        PROVE  CountTimersOnly'
    BY <1>4, <1>5 DEF StartStepMissing, TimerExpired, ErrorTimerExpired,
                      TargetSignal, methodVars
  <1>6. ASSUME NEW f \in Fan, MissingTimerExpired(f) \/ StartMonitor(f)
        PROVE  CountTimersOnly'
    BY <1>4, <1>6 DEF MissingTimerExpired, StartMonitor, methodVars
  <1>7. ASSUME NEW v \in Service, OwnerSignal(v) \/ ServiceChange(v)
        PROVE  CountTimersOnly'
    BY <1>4, <1>7 DEF OwnerSignal, ServiceChange, methodVars
  <1>8. ASSUME NEW f \in Fan, NEW p \in BOOLEAN,
               PresenceIfaceAdded(f, p) \/ PresenceChanged(f, p)
        PROVE  CountTimersOnly'
    BY <1>4, <1>8 DEF PresenceIfaceAdded, PresenceChanged, methodVars
  <1>9. CASE PowerOn \/ PowerOff \/ Reload
    BY <1>4, <1>9 DEF PowerOn, PowerOff, Reload, NewFans, Fresh
  <1>10. CASE UNCHANGED vars
    BY <1>4, <1>10 DEF vars
  <1> QED
    BY <1>1, <1>2, <1>3, <1>5, <1>6, <1>7, <1>8, <1>9, <1>10
       DEF Next, LoopStep, TimerStep, SignalStep, ConfigStep

\* A step sets the functional state of no other sensor than the one it is for.
LEMMA UpdateOne ==
    ASSUME TypeOK, NEW s \in Sensor, UpdateState(s) \/ NoUpdate
    PROVE  \A t \in Sensor \ {s} : func'[t] = func[t]
  BY DEF UpdateState, NoUpdate, stateVars, TypeOK

\* What the timer of a timebased sensor that is in its range has to be.
RightTimer(t) == timer[t] = IF func[t] THEN "stopped" ELSE "func"

\* What checkTrust() and process() leave is right for the sensor they are
\* called for, for its group if that is trusted again, and for all others.
LEMMA JudgeTrusted ==
    ASSUME TypeOK, SteadyInv, TrustedJudged,
           NEW s \in Sensor, NEW proceed \in BOOLEAN, UsesCount(s) \/ proceed,
           Judge(s, proceed), UNCHANGED <<power, up, monitorReady, owner>>,
           todo' = todo \ {s},
           \A t \in Sensor \ {s} : TargetFrom[t] = t => inRange'[t] = inRange[t]
    PROVE  TrustedJudged'
  <1> SUFFICES ASSUME NEW t \in Sensor, (~UsesCount(t) /\ Judged(t) /\ inRange[t])'
               PROVE  RightTimer(t)'
    BY DEF TrustedJudged, RightTimer
  <1>1. ~UsesCount(t) /\ TargetFrom[t] = t /\ inRange'[t] /\ t \notin todo'
    BY DEF UsesCount, Judged
  <1>2. (s # t) /\ (t \in TrustGroup => trusted) => RightTimer(t)
    BY <1>1 DEF TrustedJudged, Judged, RightTimer, OnDBus
  <1>3. owner'[t]
    BY DEF SteadyInv, Steady
  <1>4. ProcessTimer(t) = IF func[t] THEN "stopped" ELSE "func"
    BY <1>1, <1>3 DEF ProcessTimer, OutOfRange
  <1>5. t \in TrustGroup => trusted'
    BY DEF Judged
  <1>6. CASE Distrust(s)
    <2>1. t \notin TrustGroup /\ s # t
      BY <1>5, <1>6 DEF Distrust
    <2>2. UNCHANGED <<timer[t], func>>
      BY <1>6, <2>1 DEF Distrust, NoUpdate, stateVars
    <2> QED
      BY <1>2, <2>1, <2>2 DEF RightTimer
  <1>7. CASE Regain(s, proceed)
    <2>1. /\ timer'[t] = IF t \in Restarted(s) THEN ProcessTimer(t) ELSE timer[t]
          /\ s \in TrustGroup
      BY <1>7 DEF Regain
    <2>2. func'[t] = func[t]
      <3>1. CASE proceed /\ UsesCount(s)
        <4>1. UpdateState(s) \/ NoUpdate
          BY <1>7, <3>1 DEF Regain, CountUp, CountIgnore, CountDown
        <4> QED
          BY <1>1, <3>1, <4>1, UpdateOne
      <3>2. CASE ~(proceed /\ UsesCount(s))
        BY <1>7, <3>2 DEF Regain, NoUpdate, stateVars
      <3> QED
        BY <3>1, <3>2
    <2>3. CASE t \in TrustGroup
      BY <1>1, <1>4, <2>1, <2>2, <2>3 DEF Restarted, RightTimer
    <2>4. CASE t \notin TrustGroup
      BY <1>2, <2>1, <2>2, <2>4 DEF Restarted, RightTimer
    <2> QED
      BY <2>3, <2>4
  <1>8. CASE Trust(s, proceed)
    <2>1. UNCHANGED trusted
      BY <1>8 DEF Trust
    <2>2. CASE s = t
      <3>1. Process(s) /\ ~UsesCount(s)
        BY <1>1, <1>8, <2>2 DEF Trust
      <3>2. timer'[t] = ProcessTimer(t) /\ func' = func
        BY <2>2, <3>1 DEF Process, NoUpdate, stateVars, TypeOK
      <3> QED
        BY <1>4, <3>2 DEF RightTimer
    <2>3. CASE s # t
      <3>1. RightTimer(t)
        BY <1>2, <1>5, <2>1, <2>3
      <3>2. UpdateState(s) \/ NoUpdate
        BY <1>8 DEF Trust, Process, CountUp, CountIgnore, CountDown
      <3>3. func'[t] = func[t]
        BY <2>3, <3>2, UpdateOne
      <3>4. timer'[t] = timer[t]
        BY <1>8, <2>3 DEF Trust, Process, methodVars, TypeOK
      <3> QED
        BY <3>1, <3>3, <3>4 DEF RightTimer
    <2> QED
      BY <2>2, <2>3
  <1> QED
    BY <1>6, <1>7, <1>8 DEF Judge

LEMMA TachChangedTrusted ==
    ASSUME TypeOK, SteadyInv, TrustedJudged, CountTimersOnly,
           NEW s \in Sensor, TachChanged(s),
           UNCHANGED <<power, up, monitorReady, owner>>, todo' = todo \ {s},
           \A t \in Sensor \ {s} : TargetFrom[t] = t => inRange'[t] = inRange[t]
    PROVE  TrustedJudged'
  <1>1. CASE power /\ monitorReady[FanOf[s]]
    <2>1. Judge(s, ~countTimer[s]) /\ (~countTimer[s]) \in BOOLEAN
      BY <1>1 DEF TachChanged, TypeOK
    <2>2. UsesCount(s) \/ ~countTimer[s]
      BY DEF CountTimersOnly
    <2> QED
      BY <2>1, <2>2, JudgeTrusted
  <1>2. CASE ~(power /\ monitorReady[FanOf[s]])
    BY <1>2 DEF TachChanged, NoUpdate, stateVars, methodVars, TrustedJudged,
                Judged, OnDBus, UsesCount
  <1> QED
    BY <1>1, <1>2

\* A step that judges no further sensor, and gives none that is judged another
\* reading, timer or state.
LEMMA SameTrusted ==
    ASSUME TrustedJudged,
           \A t \in Sensor :
              ~UsesCount(t) /\ Judged(t)' /\ inRange'[t]
              => Judged(t) /\ inRange[t] /\ timer'[t] = timer[t] /\ func'[t] = func[t]
    PROVE  TrustedJudged'
  BY DEF TrustedJudged, UsesCount

LEMMA NextTrusted ==
    ASSUME MaxPending = 0, TypeOK, SteadyInv, MonitoringPhase, CountTimersOnly,
           TrustedJudged, [Next]_vars
    PROVE  TrustedJudged'
  <1>1. ASSUME NEW s \in Sensor, ChangedStep(s) PROVE TrustedJudged'
    BY <1>1, TachChangedTrusted DEF ChangedStep, Advance, inputVars
  <1>2. ASSUME NEW s \in Sensor, StartStep(s) PROVE TrustedJudged'
    <2>1. \A t \in Sensor \ {s} : TargetFrom[t] = t => inRange'[t] = inRange[t]
      BY <1>2 DEF StartStep, ReadRange, Ranged
    <2> QED
      BY <1>2, <2>1, TachChangedTrusted DEF StartStep, Advance
  <1>3. ASSUME NEW s \in Sensor, TachSignal(s) PROVE TrustedJudged'
    <2>1. \A t \in Sensor \ {s} : inRange'[t] = inRange[t]
      BY <1>3 DEF TachSignal, ReadRange
    <2>2. todo' = todo \ {s}
      BY <1>3 DEF TachSignal, Idle, loopVars
    <2> QED
      BY <1>3, <2>1, <2>2, TachChangedTrusted DEF TachSignal
  <1>4. ASSUME NEW s \in Sensor, CountTimerExpired(s) PROVE TrustedJudged'
    <2>1. todo' = todo \ {s}
      BY <1>4 DEF CountTimerExpired, Idle, loopVars
    <2> QED
      BY <1>4, <2>1, JudgeTrusted DEF CountTimerExpired, inputVars
  <1>5. ASSUME NEW s \in Sensor, OwnerStep(s) PROVE FALSE
    BY <1>5 DEF OwnerStep, SteadyInv, Steady
  <1>6. ASSUME NEW s \in Sensor, StartStepMissing(s) PROVE TrustedJudged'
    <2>1. /\ ~OnDBus(s) /\ todo' = todo \ {s}
          /\ func' = [func EXCEPT ![s] = FALSE]
          /\ UNCHANGED <<power, up, monitorReady, inRange, timer, trusted>>
      BY <1>6 DEF StartStepMissing, Advance, inputVars, methodVars
    <2> QED
      BY <2>1, SameTrusted DEF Judged, OnDBus, TypeOK
  <1>7. ASSUME NEW s \in Sensor, TimerExpired(s) PROVE TrustedJudged'
    <2>1. /\ timer[s] # "stopped" /\ timer' = [timer EXCEPT ![s] = "stopped"]
          /\ UNCHANGED <<power, up, monitorReady, inRange, trusted, todo>>
          /\ UpdateState(s)
      BY <1>7 DEF TimerExpired, inputVars, loopVars
    <2>2. CASE power
      <3>1. func' = [func EXCEPT ![s] = ~@]
        BY <2>1, <2>2 DEF UpdateState
      <3> QED
        BY <2>1, <3>1 DEF TrustedJudged, Judged, OnDBus, UsesCount, TypeOK
    <2>3. CASE ~power
      BY <2>1, <2>3 DEF TrustedJudged, Judged
    <2> QED
      BY <2>2, <2>3
  <1>8. ASSUME NEW s \in Sensor, ErrorTimerExpired(s) PROVE TrustedJudged'
    BY <1>8, SameTrusted DEF ErrorTimerExpired, fanVars, inputVars, methodVars,
                             loopVars, Judged, OnDBus
  <1>9. ASSUME NEW s \in Sensor, TargetSignal(s) PROVE TrustedJudged'
    <2>1. \A t \in Sensor \ {s} : TargetFrom[t] = t => inRange'[t] = inRange[t]
      BY <1>9 DEF TargetSignal, ReadRange, Ranged
    <2>2. /\ UNCHANGED <<power, up, monitorReady, timer, func, trusted>>
          /\ todo = {}
          /\ monitorReady[FanOf[s]] => s \in todo'
      BY <1>9 DEF TargetSignal, Idle, SensorsOf, methodVars, NoUpdate, stateVars
    <2> QED
      BY <2>1, <2>2, SameTrusted DEF Judged, OnDBus
  <1>10. ASSUME NEW f \in Fan, MissingTimerExpired(f) PROVE TrustedJudged'
    BY <1>10, SameTrusted DEF MissingTimerExpired, inputVars, methodVars,
                              loopVars, Judged, OnDBus
  <1>11. ASSUME NEW f \in Fan, StartMonitor(f) PROVE TrustedJudged'
    <2>1. /\ UNCHANGED <<power, up, inRange, timer, func, trusted>>
          /\ todo = {} /\ todo' = SensorsOf(f)
          /\ monitorReady' = [monitorReady EXCEPT ![f] = TRUE]
      BY <1>11 DEF StartMonitor, Idle, inputVars, methodVars
    <2> QED
      BY <2>1, SameTrusted DEF Judged, OnDBus, SensorsOf, TypeOK
  <1>12. ASSUME NEW v \in Service, OwnerSignal(v) \/ ServiceChange(v)
         PROVE  FALSE
    BY <1>12 DEF OwnerSignal, ServiceChange, SteadyInv, Steady, TypeOK
  <1>13. ASSUME NEW f \in Fan, NEW p \in BOOLEAN, PresenceIfaceAdded(f, p)
         PROVE  TrustedJudged'
    BY <1>13, SameTrusted DEF PresenceIfaceAdded, inputVars, methodVars,
                              loopVars, Judged, OnDBus
  <1>14. ASSUME NEW f \in Fan, NEW p \in BOOLEAN, PresenceChanged(f, p)
         PROVE  TrustedJudged'
    <2> DEFINE fresh == IF p /\ f \in SetFuncOnPresent THEN SensorsOf(f) ELSE {}
    <2>1. /\ func' = [s \in Sensor |-> func[s] \/ s \in fresh]
          /\ timer' = [s \in Sensor |-> IF s \in fresh THEN ResetTimer(s)
                                                      ELSE timer[s]]
          /\ UNCHANGED <<power, up, monitorReady, inRange, trusted, todo>>
      BY <1>14 DEF PresenceChanged, inputVars, loopVars
    <2> HIDE DEF fresh
    <2> SUFFICES ASSUME NEW t \in Sensor,
                        (~UsesCount(t) /\ Judged(t) /\ inRange[t])'
                 PROVE  RightTimer(t)'
      BY DEF TrustedJudged, RightTimer
    <2>2. ~UsesCount(t) /\ RightTimer(t)
      BY <2>1 DEF TrustedJudged, RightTimer, Judged, OnDBus, UsesCount
    <2>3. CASE t \in fresh
      BY <2>1, <2>2, <2>3 DEF ResetTimer, RightTimer
    <2>4. CASE t \notin fresh
      BY <2>1, <2>2, <2>4 DEF RightTimer, TypeOK
    <2> QED
      BY <2>3, <2>4
  <1>15. ASSUME \/ power' = FALSE
                \/ \A f \in Fan : ~monitorReady'[f]
         PROVE  TrustedJudged'
    BY <1>15 DEF TrustedJudged, Judged
  <1>16. CASE PowerOn
    BY <1>15, <1>16 DEF PowerOn, MonitoringPhase
  <1>17. CASE PowerOff
    BY <1>15, <1>17 DEF PowerOff
  <1>18. CASE Reload
    BY <1>15, <1>18 DEF Reload, NewFans, Fresh
  <1>19. CASE UNCHANGED vars
    BY <1>19, SameTrusted DEF vars, Judged, OnDBus
  <1> QED
    BY <1>1, <1>2, <1>3, <1>4, <1>5, <1>6, <1>7, <1>8, <1>9, <1>10, <1>11,
       <1>12, <1>13, <1>14, <1>16, <1>17, <1>18, <1>19
       DEF Next, LoopStep, TimerStep, SignalStep, ConfigStep

\* Unless a service comes or goes, the trust of a group decides whether its
\* sensors are judged, for any groups: what checkTrust() stopped is started
\* again only with the trust, and then for all timebased sensors of the group
\* as their last readings ask for.
THEOREM TrustIsDecisive ==
    ASSUME MaxPending = 0
    PROVE  Spec => []TrustDecides
  <1> DEFINE TrustInv == SteadyInv /\ CountTimersOnly /\ TrustedJudged
  <1>1. Init => TrustInv
    <2>1. Init => CountTimersOnly /\ TrustedJudged
      BY DEF Init, CountTimersOnly, TrustedJudged, Judged
    <2> QED
      BY <2>1, InitSteady
  <1>2. TypeOK /\ MonitoringPhase /\ TrustInv /\ [Next]_vars => TrustInv'
    BY NextSteady, NextCounts, NextTrusted
  <1>3. TrustInv => TrustDecides
    BY DEF SteadyInv, TrustDecides
  <1> HIDE DEF TrustInv
  <1> QED
    BY <1>1, <1>2, <1>3, TypeCorrect, PhaseInvariant, PTL DEF Spec

USE PowerOffRuleAssumption

-----------------------------------------------------------------------------
(* What a step of the fault detection asks of the rules                    *)

\* A step asks for nothing only if neither the power nor, on a powered
\* system, the presence of a fan changes; it only asks for a check or for a
\* power off on a powered system, and for a cancel without power.
AskedInOrder ==
    /\ check' = "none" => power' = power /\ (power => present' = present)
    /\ check' = "load" => power' = power
    /\ check' = "cancel" => ~power'
    /\ check' \in {"runtime", "pgood", "offline"} => power'

\* updateState() asks for a check on a powered system only.
LEMMA UpdateAsks ==
    ASSUME NEW s \in Sensor, UpdateState(s) \/ NoUpdate
    PROVE  check' = "none" \/ (check' = "runtime" /\ power)
  BY DEF UpdateState, NoUpdate, CheckUpdate

\* So does process(), of either method.
LEMMA ProcessAsks ==
    ASSUME NEW s \in Sensor,
           Process(s) \/ CountUp(s) \/ CountIgnore(s) \/ CountDown(s)
    PROVE  check' = "none" \/ (check' = "runtime" /\ power)
  <1>1. ASSUME CountUp(s) \/ CountIgnore(s) \/ CountDown(s)
        PROVE  UpdateState(s) \/ NoUpdate
    BY <1>1 DEF CountUp, CountIgnore, CountDown
  <1>2. ASSUME Process(s)
        PROVE  UpdateState(s) \/ NoUpdate
    BY <1>1, <1>2 DEF Process
  <1> QED
    BY <1>1, <1>2, UpdateAsks

\* So do checkTrust() and tachChanged().
LEMMA TachAsks ==
    ASSUME NEW s \in Sensor, NEW proceed \in BOOLEAN,
           Judge(s, proceed) \/ TachChanged(s)
    PROVE  check' = "none" \/ (check' = "runtime" /\ power)
  <1>1. ASSUME NEW go \in BOOLEAN, Judge(s, go)
        PROVE  check' = "none" \/ (check' = "runtime" /\ power)
    <2>1. CASE Distrust(s)
      BY <2>1, UpdateAsks DEF Distrust
    <2>2. CASE Regain(s, go)
      BY <2>2, ProcessAsks, UpdateAsks DEF Regain
    <2>3. CASE Trust(s, go)
      BY <2>3, ProcessAsks, UpdateAsks DEF Trust
    <2> QED
      BY <1>1, <2>1, <2>2, <2>3 DEF Judge
  <1>2. CASE TachChanged(s)
    <2>1. CASE power /\ monitorReady[FanOf[s]]
      BY <1>1, <1>2, <2>1 DEF TachChanged
    <2>2. CASE ~(power /\ monitorReady[FanOf[s]])
      BY <1>2, <2>2, UpdateAsks DEF TachChanged
    <2> QED
      BY <2>1, <2>2
  <1> QED
    BY <1>1, <1>2

\* A step that leaves power and presence alone and asks like updateState().
LEMMA SensorAsks ==
    ASSUME power' = power, present' = present,
           check' = "none" \/ (check' = "runtime" /\ power)
    PROVE  AskedInOrder
  BY DEF AskedInOrder

\* Every step of the fault detection asks in order.
LEMMA NextAsks ==
    ASSUME TypeOK, Next
    PROVE  AskedInOrder
  <1>1. ASSUME NEW s \in Sensor, ChangedStep(s) \/ StartStep(s) \/ TachSignal(s)
        PROVE  AskedInOrder
    BY <1>1, TachAsks, SensorAsks DEF ChangedStep, StartStep, TachSignal
  <1>2. ASSUME NEW s \in Sensor, OwnerStep(s)
        PROVE  AskedInOrder
    BY <1>2, ProcessAsks, SensorAsks DEF OwnerStep
  <1>3. ASSUME NEW s \in Sensor, StartStepMissing(s) \/ ErrorTimerExpired(s)
        PROVE  AskedInOrder
    BY <1>3, SensorAsks DEF StartStepMissing, ErrorTimerExpired, fanVars
  <1>4. ASSUME NEW s \in Sensor, TimerExpired(s)
        PROVE  AskedInOrder
    BY <1>4, UpdateAsks, SensorAsks DEF TimerExpired
  <1>5. ASSUME NEW s \in Sensor, CountTimerExpired(s)
        PROVE  AskedInOrder
    BY <1>5, TachAsks, SensorAsks DEF CountTimerExpired
  <1>6. ASSUME NEW s \in Sensor, TargetSignal(s)
        PROVE  AskedInOrder
    BY <1>6, SensorAsks DEF TargetSignal, NoUpdate
  <1>7. ASSUME NEW f \in Fan, MissingTimerExpired(f) \/ StartMonitor(f)
        PROVE  AskedInOrder
    BY <1>7, SensorAsks DEF MissingTimerExpired, StartMonitor
  <1>8. ASSUME NEW v \in Service, OwnerSignal(v) \/ ServiceChange(v)
        PROVE  AskedInOrder
    BY <1>8, SensorAsks DEF OwnerSignal, ServiceChange, NoUpdate, fanVars
  <1>9. ASSUME NEW f \in Fan, NEW p \in BOOLEAN,
               PresenceIfaceAdded(f, p) \/ PresenceChanged(f, p)
        PROVE  AskedInOrder
    BY <1>9 DEF PresenceIfaceAdded, PresenceChanged, AskedInOrder
  <1>10. CASE PowerOn
    <2>1. power' /\ check' \in {"offline", "pgood"}
      BY <1>10 DEF PowerOn
    <2> QED
      BY <2>1 DEF AskedInOrder
  <1>11. CASE PowerOff
    BY <1>11 DEF PowerOff, AskedInOrder
  <1>12. CASE Reload
    BY <1>12 DEF Reload, NewFans, Fresh, AskedInOrder
  <1> QED
    BY <1>1, <1>2, <1>3, <1>4, <1>5, <1>6, <1>7, <1>8, <1>9, <1>10, <1>11,
       <1>12 DEF Next, LoopStep, TimerStep, SignalStep, ConfigStep

-----------------------------------------------------------------------------
(* The fault detection is not disturbed by the rules                       *)

DetectionInv == TypeOK /\ StateInv

\* A step of the system is one of the fault detection, or none of it.
LEMMA SystemStep ==
    ASSUME [SystemNext]_allVars
    PROVE  [Next]_vars
  BY DEF SystemNext, MonitorStep, RuleStep, allVars

\* The invariant of the fault detection is one of the system.
LEMMA DetectionNext ==
    ASSUME DetectionInv, [SystemNext]_allVars
    PROVE  DetectionInv'
  BY SystemStep, NextType, NextStateInv DEF DetectionInv

-----------------------------------------------------------------------------
(* Reactions of the rules                                                  *)

\* Each request is answered by one of the operations on all the rules.
LEMMA Reactions ==
    ASSUME TypeOK', RulesReact
    PROVE  \/ check' = "none" /\ UNCHANGED ruleVars
           \/ check' = "runtime" /\ CheckRules({"runtime"}, health')
           \/ check' = "pgood" /\ CheckRules({"pgood", "runtime"}, health')
           \/ check' = "offline" /\ OfflineController
           \/ check' = "cancel" /\ CancelRules
           \/ check' = "load" /\ NewRules(power', health')
  <1>1. check' \in {"none", "runtime", "pgood", "offline", "cancel", "load"}
    BY DEF TypeOK
  <1> QED
    BY <1>1 DEF RulesReact

\* Every operation on the rules keeps their types.
LEMMA ReactType ==
    ASSUME RuleTypeOK, TypeOK', RulesReact
    PROVE  RuleTypeOK'
  <1>1. ASSUME NEW states, CheckRules(states, health')
        PROVE  RuleTypeOK'
    <2>1. active' \in [Rule -> BOOLEAN]
      BY <1>1 DEF CheckRules, ActiveAfter, Starts, Stops, RuleTypeOK, Satisfied
    <2>2. delayTimer' \in [Rule -> BOOLEAN]
      BY <1>1 DEF CheckRules, DelayAfter, Starts, Stops, RuleTypeOK, Satisfied
    <2> QED
      BY <1>1, <2>1, <2>2 DEF CheckRules, RuleTypeOK
  <1>2. CASE OfflineController
    BY <1>2 DEF OfflineController, RuleTypeOK
  <1>3. CASE CancelRules
    BY <1>3 DEF CancelRules, RuleTypeOK
  <1>4. CASE NewRules(power', health')
    <2>1. active' \in [Rule -> BOOLEAN]
      BY <1>4 DEF NewRules, TypeOK, Satisfied
    <2> QED
      BY <1>4, <2>1 DEF NewRules, RuleTypeOK
  <1>5. CASE UNCHANGED ruleVars
    BY <1>5 DEF ruleVars, RuleTypeOK
  <1> QED
    BY <1>1, <1>2, <1>3, <1>4, <1>5, Reactions

\* So does an expired timer.
LEMMA TimerType ==
    ASSUME RuleTypeOK, NEW r \in Rule, RuleTimerExpired(r)
    PROVE  RuleTypeOK'
  <1>1. CASE PowerOffExpired(r)
    BY <1>1 DEF PowerOffExpired, RuleTypeOK, PowerOffType
  <1>2. CASE ServiceModeExpired(r)
    BY <1>2 DEF ServiceModeExpired, RuleTypeOK
  <1>3. CASE MeltdownExpired(r)
    BY <1>3 DEF MeltdownExpired, RuleTypeOK
  <1> QED
    BY <1>1, <1>2, <1>3 DEF RuleTimerExpired

-----------------------------------------------------------------------------
(* One power off per rule                                                  *)

\* An operation on the rules starts no second power off for any of them.
LEMMA ReactOnePowerOff ==
    ASSUME RuleTypeOK, OnePowerOffPerRule, TypeOK', RulesReact
    PROVE  OnePowerOffPerRule'
  <1>1. ASSUME NEW states, CheckRules(states, health')
        PROVE  OnePowerOffPerRule'
    BY <1>1 DEF CheckRules, ActiveAfter, DelayAfter, Starts, Stops,
                OnePowerOffPerRule, RuleTypeOK
  <1>2. CASE OfflineController
    BY <1>2 DEF OfflineController, OnePowerOffPerRule
  <1>3. CASE CancelRules
    BY <1>3 DEF CancelRules, OnePowerOffPerRule
  <1>4. CASE NewRules(power', health')
    BY <1>4 DEF NewRules, OnePowerOffPerRule
  <1>5. CASE UNCHANGED ruleVars
    BY <1>5 DEF ruleVars, OnePowerOffPerRule
  <1> QED
    BY <1>1, <1>2, <1>3, <1>4, <1>5, Reactions

\* A timer that expires is replaced by at most the next one of its rule.
LEMMA TimerOnePowerOff ==
    ASSUME RuleTypeOK, OnePowerOffPerRule, NEW r \in Rule, RuleTimerExpired(r)
    PROVE  OnePowerOffPerRule'
  <1>1. CASE PowerOffExpired(r)
    BY <1>1 DEF PowerOffExpired, RuleTypeOK, OnePowerOffPerRule
  <1>2. CASE ServiceModeExpired(r)
    BY <1>2 DEF ServiceModeExpired, RuleTypeOK, OnePowerOffPerRule
  <1>3. CASE MeltdownExpired(r)
    BY <1>3 DEF MeltdownExpired, RuleTypeOK, OnePowerOffPerRule
  <1> QED
    BY <1>1, <1>2, <1>3 DEF RuleTimerExpired

-----------------------------------------------------------------------------
(* Nothing under way without power                                         *)

\* What is asked of the rules in order leaves none of them active without power.
LEMMA ReactQuiet ==
    ASSUME RuleTypeOK, QuietWithoutPower, AskedInOrder, TypeOK', RulesReact
    PROVE  QuietWithoutPower'
  <1> SUFFICES ASSUME ~power' PROVE QuietWithoutPower'
    BY DEF QuietWithoutPower
  <1>1. CASE check' = "none" /\ UNCHANGED ruleVars
    BY <1>1 DEF AskedInOrder, ruleVars, QuietWithoutPower
  <1>2. CASE check' = "cancel" /\ CancelRules
    BY <1>2 DEF CancelRules, QuietWithoutPower
  <1>3. CASE check' = "load" /\ NewRules(power', health')
    <2>1. power' = power
      BY <1>3 DEF AskedInOrder
    <2>2. ~power
      BY <2>1
    <2>3. ~alert' /\ requested' = {}
      BY <1>3, <2>2 DEF NewRules, QuietWithoutPower
    <2>4. \A r \in Rule : ~active'[r] /\ ~delayTimer'[r] /\ ~meltdown'[r]
      BY <1>3 DEF NewRules
    <2> QED
      BY <2>3, <2>4 DEF QuietWithoutPower
  <1> QED
    BY <1>1, <1>2, <1>3, Reactions DEF AskedInOrder

\* No timer expires without power.
LEMMA TimerQuiet ==
    ASSUME RuleTypeOK, QuietWithoutPower, NEW r \in Rule, RuleTimerExpired(r),
           power' = power
    PROVE  QuietWithoutPower'
  <1>1. delayTimer[r] \/ meltdown[r]
    BY DEF RuleTimerExpired, PowerOffExpired, ServiceModeExpired,
           MeltdownExpired
  <1>2. power
    BY <1>1 DEF QuietWithoutPower
  <1> SUFFICES ASSUME ~power' PROVE FALSE
    BY DEF QuietWithoutPower
  <1> QED
    BY <1>2

-----------------------------------------------------------------------------
(* Missing fans                                                            *)

\* The health of a fan has its presence.
LEMMA HealthPresence ==
    ASSUME NEW f, NEW p, NEW fn
    PROVE  HealthOf(f, p, fn).present = p[f]
  BY DEF HealthOf

\* The fans recorded as missing are those that are not present.
LEMMA MissingAreAbsent ==
    ASSUME TypeOK, HealthMatches
    PROVE  MissingFans(health) = {f \in Fan : ~present[f]}
  <1>1. DOMAIN health = Fan
    BY DEF TypeOK
  <1>2. \A f \in Fan : health[f].present = present[f]
    BY HealthPresence DEF HealthMatches
  <1> QED
    BY <1>1, <1>2 DEF MissingFans

\* The same fans are missing if the presence does not change.
LEMMA SameMissing ==
    ASSUME TypeOK, HealthMatches, TypeOK', HealthMatches', present' = present,
           NEW r \in Rule, Cause[r] = "missing_fan_frus"
    PROVE  Satisfied(r, health') <=> Satisfied(r, health)
  <1>1. MissingFans(health) = {f \in Fan : ~present[f]}
    BY MissingAreAbsent
  <1>2. MissingFans(health') = {f \in Fan : ~present[f]}
    <2>1. DOMAIN health' = Fan
      BY DEF TypeOK
    <2>2. \A f \in Fan : health'[f] = HealthOf(f, present, func')
      BY DEF HealthMatches, HealthOf
    <2>3. \A f \in Fan : health'[f].present = present[f]
      BY <2>2, HealthPresence
    <2> QED
      BY <2>1, <2>3 DEF MissingFans
  <1> QED
    BY <1>1, <1>2 DEF Satisfied

\* Every step that leaves enough fans missing has the rules checked, or asks
\* for the power off itself, or changes nothing for them.
LEMMA ReactMissing ==
    ASSUME RuleTypeOK, DetectionInv, DetectionInv', MissingFansActedOn,
           AskedInOrder, RulesReact
    PROVE  MissingFansActedOn'
  <1> SUFFICES ASSUME NEW r \in Rule, power', Cause[r] = "missing_fan_frus",
                      ValidState[r] = "runtime", Satisfied(r, health')
               PROVE  active'[r] \/ "hard" \in requested'
    BY DEF MissingFansActedOn, Satisfied, MissingFans, NonfuncRotors,
           FansWithNonfunc
  <1>1. CASE check' = "none" /\ UNCHANGED ruleVars
    <2>1. power /\ present' = present
      BY <1>1 DEF AskedInOrder
    <2>2. Satisfied(r, health)
      BY <2>1, SameMissing DEF DetectionInv, StateInv
    <2> QED
      BY <1>1, <2>1, <2>2 DEF MissingFansActedOn, ruleVars
  <1>2. ASSUME NEW states, "runtime" \in states, CheckRules(states, health')
        PROVE  active'[r]
    BY <1>2 DEF CheckRules, ActiveAfter, Starts, Stops, RuleTypeOK
  <1>3. CASE OfflineController
    BY <1>3 DEF OfflineController
  <1>4. CASE NewRules(power', health')
    BY <1>4 DEF NewRules
  <1> QED
    BY <1>1, <1>2, <1>3, <1>4, Reactions DEF AskedInOrder, DetectionInv

\* A timer that expires leaves its rule active and withdraws no request.
LEMMA TimerMissing ==
    ASSUME RuleTypeOK, MissingFansActedOn, UNCHANGED vars, NEW r \in Rule,
           RuleTimerExpired(r)
    PROVE  MissingFansActedOn'
  <1>1. UNCHANGED <<power, health>>
    BY DEF vars
  <1>2. active' = active /\ requested \subseteq requested'
    BY DEF RuleTimerExpired, PowerOffExpired, ServiceModeExpired,
           MeltdownExpired
  <1> QED
    BY <1>1, <1>2 DEF MissingFansActedOn, Satisfied, MissingFans,
                      NonfuncRotors, FansWithNonfunc

-----------------------------------------------------------------------------
(* The rules and the fault detection together                              *)

RulesInv ==
    RuleTypeOK /\ OnePowerOffPerRule /\ QuietWithoutPower /\ MissingFansActedOn

SystemInv == DetectionInv /\ RulesInv

LEMMA SystemInitInv == SystemInit => SystemInv
  <1> SUFFICES ASSUME SystemInit PROVE SystemInv
    OBVIOUS
  <1>1. DetectionInv
    BY InitType, InitStateInv DEF SystemInit, DetectionInv
  <1>2. power \in BOOLEAN
    BY <1>1 DEF DetectionInv, TypeOK
  <1>3. RuleTypeOK
    BY <1>2 DEF SystemInit, RuleInit, Satisfied, RuleTypeOK
  <1>4. OnePowerOffPerRule
    BY DEF SystemInit, RuleInit, OnePowerOffPerRule
  <1>5. QuietWithoutPower
    BY DEF SystemInit, RuleInit, QuietWithoutPower
  <1>6. MissingFansActedOn
    BY DEF SystemInit, RuleInit, MissingFansActedOn
  <1> QED
    BY <1>1, <1>3, <1>4, <1>5, <1>6 DEF SystemInv, RulesInv

LEMMA SystemNextInv == SystemInv /\ [SystemNext]_allVars => SystemInv'
  <1> SUFFICES ASSUME SystemInv, [SystemNext]_allVars PROVE SystemInv'
    OBVIOUS
  <1> USE DEF SystemInv, RulesInv
  <1>1. DetectionInv'
    BY DetectionNext
  <1>2. CASE MonitorStep
    <2>1. AskedInOrder /\ TypeOK' /\ RulesReact
      BY <1>1, <1>2, NextAsks DEF MonitorStep, DetectionInv
    <2> QED
      BY <1>1, <2>1, ReactType, ReactOnePowerOff, ReactQuiet, ReactMissing
  <1>3. ASSUME NEW r \in Rule, UNCHANGED vars, RuleTimerExpired(r)
        PROVE  SystemInv'
    <2>1. power' = power
      BY <1>3 DEF vars
    <2> QED
      BY <1>1, <1>3, <2>1, TimerType, TimerOnePowerOff, TimerQuiet, TimerMissing
  <1>4. CASE UNCHANGED allVars
    <2>1. RulesInv'
      BY <1>4 DEF allVars, vars, ruleVars, RuleTypeOK, OnePowerOffPerRule,
                  QuietWithoutPower, MissingFansActedOn, Satisfied,
                  MissingFans, NonfuncRotors, FansWithNonfunc
    <2> QED
      BY <1>1, <2>1
  <1> QED
    BY <1>2, <1>3, <1>4 DEF SystemNext, RuleStep

LEMMA SystemInvariant == SystemSpec => []SystemInv
  BY SystemInitInv, SystemNextInv, PTL DEF SystemSpec

\* The rules keep their types: no rule ever requests another power off than a
\* hard or a soft one (powerOff() of the power off actions).
THEOREM RuleTypeCorrect == SystemSpec => []RuleTypeOK
  <1>1. SystemInv => RuleTypeOK
    BY DEF SystemInv, RulesInv
  <1> QED
    BY <1>1, SystemInvariant, PTL

\* No rule powers off or alerts the host while the power is off, through
\* reloads, lost services and power changes in the middle of a delay
\* (powerStateChanged() and cancel() of the rules).
THEOREM QuietWhilePowerIsOff == SystemSpec => []QuietWithoutPower
  <1>1. SystemInv => QuietWithoutPower
    BY DEF SystemInv, RulesInv
  <1> QED
    BY <1>1, SystemInvariant, PTL

\* The delay and the meltdown timer of a rule never run at the same time, nor
\* without the rule being active (PowerOffRule::check() against cancel()).
THEOREM OnePowerOff == SystemSpec => []OnePowerOffPerRule
  <1>1. SystemInv => OnePowerOffPerRule
    BY DEF SystemInv, RulesInv
  <1> QED
    BY <1>1, SystemInvariant, PTL

\* Enough missing fans on a powered system always have their rule active or a
\* power off requested: no handler that changes the presence of a fan or the
\* power forgets the rules (fanStatusChange(), powerStateChanged(), load()).
THEOREM MissingFansAreActedOn == SystemSpec => []MissingFansActedOn
  <1>1. SystemInv => MissingFansActedOn
    BY DEF SystemInv, RulesInv
  <1> QED
    BY <1>1, SystemInvariant, PTL

-----------------------------------------------------------------------------
(* Delays while the services stay up                                       *)

\* No sensor of the first health is functional or missing only in the second.
Worse(old, new) ==
    \A f \in Fan : /\ ~old[f].present => ~new[f].present
                   /\ old[f].failed \subseteq new[f].failed

HealthType == [Fan -> [present : BOOLEAN, failed : SUBSET Sensor]]

\* A cause that is met stays met if no fan recovers or returns; the missing
\* fans must be the same, as there may be any number of them.
LEMMA WorseSatisfied ==
    ASSUME NEW old \in HealthType, NEW new \in HealthType, Worse(old, new),
           MissingFans(old) = MissingFans(new),
           \A f \in Fan : new[f].failed \subseteq SensorsOf(f),
           NEW r \in Rule, Satisfied(r, old)
    PROVE  Satisfied(r, new)
  <1> USE DEF HealthType
  <1>1. ASSUME NEW S, NEW T, IsFiniteSet(T), S \subseteq T,
               Cardinality(S) >= Count[r]
        PROVE  Cardinality(T) >= Count[r]
    <2>1. IsFiniteSet(S) /\ Cardinality(S) <= Cardinality(T)
      BY <1>1, FS_Subset
    <2>2. Cardinality(S) \in Nat /\ Cardinality(T) \in Nat
      BY <1>1, <2>1, FS_CardinalityType
    <2>3. Count[r] \in Nat
      BY PowerOffRuleAssumption
    <2> QED
      BY <1>1, <2>1, <2>2, <2>3
  <1>2. CASE Cause[r] = "missing_fan_frus"
    BY <1>2 DEF Satisfied
  <1>3. CASE Cause[r] = "nonfunc_fan_rotors"
    <2>1. IsFiniteSet(NonfuncRotors(new))
      BY FiniteSensors, RotorAssumption, FS_Subset DEF NonfuncRotors
    <2>2. NonfuncRotors(old) \subseteq NonfuncRotors(new)
      BY DEF NonfuncRotors, Worse
    <2> QED
      BY <1>1, <1>3, <2>1, <2>2 DEF Satisfied
  <1>4. CASE Cause[r] = "fan_frus_with_nonfunc_rotors"
    <2>1. FanOf \in Surjection(Sensor, {FanOf[s] : s \in Sensor})
      BY DEF Surjection
    <2>2. IsFiniteSet({FanOf[s] : s \in Sensor})
      BY <2>1, FiniteSensors, FS_Surjection
    <2>3. FansWithNonfunc(new) \subseteq {FanOf[s] : s \in Sensor}
      BY DEF FansWithNonfunc, SensorsOf
    <2>4. IsFiniteSet(FansWithNonfunc(new))
      BY <2>2, <2>3, FS_Subset
    <2>5. FansWithNonfunc(old) \subseteq FansWithNonfunc(new)
      BY DEF FansWithNonfunc, Worse
    <2> QED
      BY <1>1, <1>4, <2>4, <2>5 DEF Satisfied
  <1> QED
    BY <1>2, <1>3, <1>4, PowerOffRuleAssumption DEF PowerOffCause

\* The health that is recorded only gets worse, and for the same missing fans.
HealthWorsens ==
    Worse(health, health') /\ MissingFans(health') = MissingFans(health)

\* While the power is on and no service comes or goes, a step that asks
\* nothing of the rules lets no sensor recover.
LEMMA UpdateWorsens ==
    ASSUME TypeOK, NEW s \in Sensor, UpdateState(s) \/ NoUpdate, power,
           owner'[s], check' = "none"
    PROVE  health' = health
  BY DEF UpdateState, NoUpdate, CheckUpdate, stateVars

LEMMA ProcessWorsens ==
    ASSUME TypeOK, NEW s \in Sensor, power, owner'[s], check' = "none",
           Process(s) \/ CountUp(s) \/ CountIgnore(s) \/ CountDown(s)
    PROVE  health' = health
  <1>1. UpdateState(s) \/ NoUpdate
    BY DEF Process, CountUp, CountIgnore, CountDown
  <1> QED
    BY <1>1, UpdateWorsens

LEMMA TachWorsens ==
    ASSUME TypeOK, NEW s \in Sensor, NEW proceed \in BOOLEAN, power, owner'[s],
           check' = "none", Judge(s, proceed) \/ TachChanged(s)
    PROVE  health' = health
  <1>1. ASSUME NEW go \in BOOLEAN, Judge(s, go)
        PROVE  health' = health
    <2>1. CASE Distrust(s)
      BY <2>1, UpdateWorsens DEF Distrust
    <2>2. CASE Regain(s, go)
      BY <2>2, UpdateWorsens, ProcessWorsens DEF Regain
    <2>3. CASE Trust(s, go)
      BY <2>3, UpdateWorsens, ProcessWorsens DEF Trust
    <2> QED
      BY <1>1, <2>1, <2>2, <2>3 DEF Judge
  <1>2. CASE TachChanged(s)
    BY <1>1, <1>2, UpdateWorsens DEF TachChanged, TypeOK
  <1> QED
    BY <1>1, <1>2

\* startMonitor() makes a sensor that is not on D-Bus nonfunctional.
LEMMA MissingWorsens ==
    ASSUME DetectionInv, DetectionInv', NEW s \in Sensor, StartStepMissing(s)
    PROVE  HealthWorsens
  <1>1. func' = [func EXCEPT ![s] = FALSE] /\ present' = present
    BY DEF StartStepMissing
  <1>2. \A f \in Fan : /\ health[f] = HealthOf(f, present, func)
                       /\ health'[f] = HealthOf(f, present', func')
    BY DEF DetectionInv, StateInv, HealthMatches
  <1>3. Worse(health, health')
    BY <1>1, <1>2 DEF HealthOf, Worse, SensorsOf, DetectionInv, TypeOK
  <1>4. MissingFans(health') = MissingFans(health)
    BY <1>1, <1>2 DEF HealthOf, MissingFans, DetectionInv, TypeOK
  <1> QED
    BY <1>3, <1>4 DEF HealthWorsens

LEMMA SilentWorsens ==
    ASSUME MaxPending = 0, DetectionInv, DetectionInv', SteadyInv, power, Next,
           check' = "none"
    PROVE  HealthWorsens
  <1>1. health' = health => HealthWorsens
    BY DEF HealthWorsens, Worse, MissingFans
  <1> USE DEF DetectionInv
  <1>2. ASSUME NEW s \in Sensor, ChangedStep(s) \/ StartStep(s) \/ TachSignal(s)
        PROVE  HealthWorsens
    <2>1. TachChanged(s) /\ owner' = owner
      BY <1>2 DEF ChangedStep, StartStep, TachSignal, inputVars
    <2> QED
      BY <1>1, <2>1, TachWorsens DEF SteadyInv, Steady
  <1>3. ASSUME NEW s \in Sensor, OwnerStep(s)
        PROVE  FALSE
    BY <1>3 DEF OwnerStep, SteadyInv, Steady
  <1>4. ASSUME NEW s \in Sensor, StartStepMissing(s)
        PROVE  HealthWorsens
    BY <1>4, MissingWorsens
  <1>5. ASSUME NEW s \in Sensor, TimerExpired(s)
        PROVE  HealthWorsens
    BY <1>1, <1>5, UpdateWorsens DEF TimerExpired, inputVars, SteadyInv, Steady
  <1>6. ASSUME NEW s \in Sensor, CountTimerExpired(s)
        PROVE  HealthWorsens
    BY <1>1, <1>6, TachWorsens
       DEF CountTimerExpired, inputVars, SteadyInv, Steady
  <1>7. ASSUME NEW s \in Sensor, ErrorTimerExpired(s) \/ TargetSignal(s)
        PROVE  HealthWorsens
    BY <1>1, <1>7 DEF ErrorTimerExpired, TargetSignal, NoUpdate, stateVars
  <1>8. ASSUME NEW f \in Fan, MissingTimerExpired(f) \/ StartMonitor(f)
        PROVE  HealthWorsens
    BY <1>1, <1>8 DEF MissingTimerExpired, StartMonitor
  <1>9. ASSUME NEW v \in Service, OwnerSignal(v) \/ ServiceChange(v)
        PROVE  FALSE
    <2>1. pending[v] = 0 /\ ~(pending[v] > 0) /\ ~(pending[v] < MaxPending)
      BY DEF SteadyInv, Steady
    <2> QED
      BY <1>9, <2>1 DEF OwnerSignal, ServiceChange
  <1>10. ASSUME NEW f \in Fan, NEW p \in BOOLEAN,
                PresenceIfaceAdded(f, p) \/ PresenceChanged(f, p)
         PROVE  FALSE
    BY <1>10 DEF PresenceIfaceAdded, PresenceChanged
  <1>11. ASSUME ConfigStep
         PROVE  FALSE
    BY <1>11 DEF ConfigStep, PowerOn, PowerOff, Reload, NewFans, Fresh
  <1> QED
    BY <1>2, <1>3, <1>4, <1>5, <1>6, <1>7, <1>8, <1>9, <1>10, <1>11
       DEF Next, LoopStep, TimerStep, SignalStep

\* Only powerStateChanged(true) finds the fan controller offline.
LEMMA OnlyPowerOnOffline ==
    ASSUME TypeOK, Next, check' = "offline"
    PROVE  PowerOn
  <1>1. ASSUME NEW s \in Sensor, ChangedStep(s) \/ StartStep(s) \/ TachSignal(s)
        PROVE  FALSE
    BY <1>1, TachAsks DEF ChangedStep, StartStep, TachSignal
  <1>2. ASSUME NEW s \in Sensor, OwnerStep(s)
        PROVE  FALSE
    BY <1>2, ProcessAsks DEF OwnerStep
  <1>3. ASSUME NEW s \in Sensor, TimerExpired(s) \/ CountTimerExpired(s)
        PROVE  FALSE
    BY <1>3, UpdateAsks, TachAsks DEF TimerExpired, CountTimerExpired
  <1>4. ASSUME NEW s \in Sensor,
               StartStepMissing(s) \/ ErrorTimerExpired(s) \/ TargetSignal(s)
        PROVE  FALSE
    BY <1>4 DEF StartStepMissing, ErrorTimerExpired, TargetSignal, NoUpdate
  <1>5. ASSUME NEW f \in Fan, MissingTimerExpired(f) \/ StartMonitor(f)
        PROVE  FALSE
    BY <1>5 DEF MissingTimerExpired, StartMonitor
  <1>6. ASSUME NEW v \in Service, OwnerSignal(v) \/ ServiceChange(v)
        PROVE  FALSE
    BY <1>6 DEF OwnerSignal, ServiceChange, NoUpdate
  <1>7. ASSUME NEW f \in Fan, NEW p \in BOOLEAN,
               PresenceIfaceAdded(f, p) \/ PresenceChanged(f, p)
        PROVE  FALSE
    BY <1>7 DEF PresenceIfaceAdded, PresenceChanged
  <1>8. CASE PowerOff \/ Reload
    BY <1>8 DEF PowerOff, Reload, NewFans, Fresh
  <1> QED
    BY <1>1, <1>2, <1>3, <1>4, <1>5, <1>6, <1>7, <1>8
       DEF Next, LoopStep, TimerStep, SignalStep, ConfigStep

\* After every step of the fault detection a delay that runs has its cause.
LEMMA ReactArmed ==
    ASSUME MaxPending = 0, SystemInv, DetectionInv', SteadyInv,
           ArmedWhileSatisfied, MonitorStep
    PROVE  ArmedWhileSatisfied'
  <1> USE DEF SystemInv, RulesInv
  <1> SUFFICES ASSUME NEW r \in Rule, delayTimer'[r]
               PROVE  Satisfied(r, health')
    BY DEF ArmedWhileSatisfied, Satisfied, MissingFans, NonfuncRotors,
           FansWithNonfunc
  <1>0. Next /\ RulesReact /\ AskedInOrder
    BY NextAsks DEF MonitorStep, DetectionInv
  <1>1. CASE check' = "none" /\ UNCHANGED ruleVars
    <2>1. Satisfied(r, health) /\ power
      BY <1>1 DEF ArmedWhileSatisfied, QuietWithoutPower, ruleVars
    <2>2. HealthWorsens
      BY <1>0, <1>1, <2>1, SilentWorsens
    <2>3. health \in HealthType /\ health' \in HealthType
      BY DEF DetectionInv, TypeOK, HealthType
    <2>4. ASSUME NEW f \in Fan
          PROVE  health'[f].failed \subseteq SensorsOf(f)
      <3>1. health'[f] = HealthOf(f, present', func')
        BY DEF DetectionInv, StateInv, HealthMatches
      <3>2. HealthOf(f, present', func').failed \subseteq SensorsOf(f)
        BY DEF HealthOf
      <3> QED
        BY <3>1, <3>2
    <2> QED
      BY <2>1, <2>2, <2>3, <2>4, WorseSatisfied DEF HealthWorsens
  <1>2. ASSUME NEW states, CheckRules(states, health')
        PROVE  Satisfied(r, health')
    BY <1>2 DEF CheckRules, DelayAfter, Starts, Stops, OnePowerOffPerRule
  <1>3. CASE check' = "offline" /\ OfflineController
    <2>1. power
      BY <1>3 DEF OfflineController, QuietWithoutPower
    <2>2. ~PowerOn
      BY <2>1 DEF PowerOn
    <2> QED
      BY <1>0, <1>3, <2>2, OnlyPowerOnOffline DEF DetectionInv
  <1>4. CASE CancelRules
    BY <1>4 DEF CancelRules
  <1>5. CASE NewRules(power', health')
    BY <1>5 DEF NewRules
  <1> QED
    BY <1>0, <1>1, <1>2, <1>3, <1>4, <1>5, Reactions DEF DetectionInv

LEMMA NextArmed ==
    ASSUME MaxPending = 0, SystemInv, SystemInv', SteadyInv,
           ArmedWhileSatisfied, [SystemNext]_allVars
    PROVE  ArmedWhileSatisfied'
  <1>1. CASE MonitorStep
    BY <1>1, ReactArmed DEF SystemInv
  <1>2. ASSUME UNCHANGED vars, \A r \in Rule : delayTimer'[r] => delayTimer[r]
        PROVE  ArmedWhileSatisfied'
    BY <1>2 DEF vars, ArmedWhileSatisfied, Satisfied, MissingFans,
                NonfuncRotors, FansWithNonfunc
  <1>3. ASSUME NEW r \in Rule, RuleTimerExpired(r)
        PROVE  \A q \in Rule : delayTimer'[q] => delayTimer[q]
    BY <1>3 DEF RuleTimerExpired, PowerOffExpired, ServiceModeExpired,
                MeltdownExpired, SystemInv, RulesInv, RuleTypeOK
  <1>4. CASE UNCHANGED allVars
    BY <1>2, <1>4 DEF allVars, ruleVars
  <1> QED
    BY <1>1, <1>2, <1>3, <1>4 DEF SystemNext, RuleStep

\* Unless a service comes or goes, a delay only runs down while its cause is
\* met, for any fans and rules: a sensor or fan that recovers always reaches
\* the rule that waits on it (updateState(), fanStatusChange(), cancel()).
THEOREM DelaysAreArmed ==
    ASSUME MaxPending = 0
    PROVE  SystemSpec => []ArmedWhileSatisfied
  <1>1. SystemInit => SteadyInv /\ ArmedWhileSatisfied
    <2>1. SystemInit => SteadyInv
      BY InitSteady DEF SystemInit
    <2>2. SystemInit => ArmedWhileSatisfied
      BY DEF SystemInit, RuleInit, ArmedWhileSatisfied
    <2> QED
      BY <2>1, <2>2
  <1>2. SystemInv /\ SteadyInv /\ [SystemNext]_allVars => SteadyInv'
    BY SystemStep, NextSteady DEF SystemInv, DetectionInv
  <1>3. /\ SystemInv /\ SystemInv' /\ SteadyInv /\ ArmedWhileSatisfied
        /\ [SystemNext]_allVars
        => ArmedWhileSatisfied'
    BY NextArmed
  <1> QED
    BY <1>1, <1>2, <1>3, SystemInvariant, PTL DEF SystemSpec

=============================================================================
