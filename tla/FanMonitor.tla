------------------------------ MODULE FanMonitor ------------------------------
(***************************************************************************)
(* The fault detection of phosphor-fan-monitor, built with its JSON        *)
(* configuration (MONITOR_USE_JSON): the tach sensors (tach_sensor.cpp),   *)
(* the fans that own them (fan.cpp), the trust group in front of them      *)
(* (trust_manager.hpp, nonzero_speed_trust.hpp) and the part of the System *)
(* class that dispatches D-Bus signals to them (system.cpp).               *)
(*                                                                         *)
(* The daemon is one thread around an event loop: a D-Bus signal, an       *)
(* expired timer or SIGHUP runs one handler to its end.  Every action      *)
(* below is a handler.  A handler that loops over sensors fills `todo`     *)
(* with them, and while `todo` is not empty only the iterations of that    *)
(* loop can happen, so a handler is never interleaved with another one.    *)
(*                                                                         *)
(* Delays are configuration values, so a running timer may expire at any   *)
(* moment.  A tach reading is kept as what the code asks of it: is it in   *)
(* the range of the current target, and is it nonzero.                     *)
(*                                                                         *)
(* `check` is the output to the power off rules: what the handler's last   *)
(* step asked of them.                                                     *)
(***************************************************************************)
EXTENDS Naturals, FiniteSets

CONSTANTS
    Fan,                 \* fans of the configuration
    Sensor,              \* tach sensors of all the fans
    Service,             \* D-Bus services that host the tach sensors
    FanOf,               \* the fan a sensor belongs to
    ServiceOf,           \* the service that hosts a sensor
    TargetFrom,          \* sensor whose target gives a sensor's range:
                         \* itself, or the fan's first one with a target
    CountFan,            \* fans monitored with the method "count"
    Threshold,           \* "threshold" of a sensor
    NumSensorFails,      \* "num_sensors_nonfunc_for_fan_nonfunc" of a fan
    SetFuncOnPresent,    \* fans with "set_func_on_present"
    FanMissingError,     \* fans with a "fan_missing_error_delay"
    SensorError,         \* sensors with a "nonfunc_rotor_error_delay"
    NumNonfuncBeforeError, \* "num_nonfunc_rotors_before_error"
    TrustGroup,          \* sensors of the nonzero speed trust group, or {}
    InTrust,             \* those of them that decide on the trust
    MaxPending           \* bound on undelivered NameOwnerChanged signals

ASSUME FanMonitorAssumption ==
    /\ FanOf \in [Sensor -> Fan]
    /\ ServiceOf \in [Sensor -> Service]
    /\ TargetFrom \in [Sensor -> Sensor]
    /\ Threshold \in [Sensor -> Nat \ {0}]
    /\ NumSensorFails \in [Fan -> Nat]
    /\ CountFan \subseteq Fan
    /\ SetFuncOnPresent \subseteq Fan
    /\ FanMissingError \subseteq Fan
    /\ SensorError \subseteq Sensor
    /\ NumNonfuncBeforeError \in Nat
    /\ InTrust \subseteq TrustGroup
    /\ TrustGroup \subseteq Sensor
    /\ MaxPending \in Nat

ASSUME FiniteSensors == IsFiniteSet(Sensor)

VARIABLES
    power,         \* the power state the daemon last heard of
    up,            \* service -> its sensors are on D-Bus
    subscribed,    \* services with a NameOwnerChanged match
    pending,       \* service -> NameOwnerChanged signals not yet delivered
    present,       \* fan -> _present
    functional,    \* fan -> _functional, the state of the fan FRU
    monitorReady,  \* fan -> _monitorReady
    monitorTimer,  \* fan -> _monitorTimer is running
    missingTimer,  \* fan -> _fanMissingErrorTimer is running
    func,          \* sensor -> _functional
    owner,         \* sensor -> _hasOwner
    inRange,       \* sensor -> last input is in the range of last target
    turning,       \* sensor -> last input is not zero
    timer,         \* sensor -> _timer: "stopped", or its TimerMode
    countTimer,    \* sensor -> _countTimer is running
    counter,       \* sensor -> _counter
    errorTimer,    \* sensor -> _errorTimer is running
    trusted,       \* the trust group's _trusted
    health,        \* System::_fanHealth
    lastError,     \* severity of System::_lastError
    loop,          \* the loop over sensors a handler is in
    todo,          \* the sensors that loop still has to visit
    check          \* what the last step asked of the power off rules

systemVars == <<subscribed, pending, health, lastError, check>>
fanVars    == <<present, functional, monitorReady, monitorTimer, missingTimer>>
inputVars  == <<owner, inRange, turning>>
methodVars == <<timer, countTimer, counter>>
stateVars  == <<func, functional, errorTimer, health>>
loopVars   == <<loop, todo>>

vars == <<power, up, subscribed, pending, present, functional, monitorReady,
          monitorTimer, missingTimer, func, owner, inRange, turning, timer,
          countTimer, counter, errorTimer, trusted, health, lastError, loop,
          todo, check>>

-----------------------------------------------------------------------------
(* Helpers *)

SensorsOf(f) == {s \in Sensor : FanOf[s] = f}
HostedBy(v)  == {s \in Sensor : ServiceOf[s] = v}
OnDBus(s)    == up[ServiceOf[s]]
UsesCount(s) == FanOf[s] \in CountFan

\* The sensors whose range a new target of s changes.
Ranged(s) == {t \in Sensor : TargetFrom[t] = s}

\* countNonFunctionalSensors(), in a given state of the sensors.
NonFunctional(f, fn) == Cardinality({s \in SensorsOf(f) : ~fn[s]})

TooManyFailed(f, fn) == NonFunctional(f, fn) >= NumSensorFails[f]

\* What updateFanHealth() records of a fan.
HealthOf(f, pres, fn) ==
    [present |-> pres[f], failed |-> {s \in SensorsOf(f) : ~fn[s]}]

\* updateFanHealth().
StaleHealth(f) == \* mutant: recorded before the sensor's state is set
    health' = [health EXCEPT ![f] = HealthOf(f, present', func)]
UpdateFanHealth(f) ==
    health' = [health EXCEPT ![f] = HealthOf(f, present', func')]

\* outOfRange(), with the readings and the owner the handler just stored.
OutOfRange(s) == ~owner'[s] \/ ~inRange'[s]

\* resetMethod(), for each of the two methods.
ResetNoTimer(s) == timer[s] \* mutant: only the method count is reset
ResetTimer(s) == IF UsesCount(s) THEN timer[s] ELSE "stopped"

ResetCounter(s, fn) ==
    IF ~UsesCount(s) THEN counter[s]
    ELSE IF fn[s] THEN 0 ELSE Threshold[s]

\* New readings may move any of the sensors in ss in or out of range.
ReadRange(ss) ==
    \E r \in [ss -> BOOLEAN] :
        inRange' = [t \in Sensor |-> IF t \in ss THEN r[t] ELSE inRange[t]]

\* Only the sensors that decide on the trust have their zero speed kept.
ReadTurning(ss) ==
    \E r \in [ss \cap InTrust -> BOOLEAN] :
        turning' = [t \in Sensor |-> IF t \in ss \cap InTrust
                                     THEN r[t] ELSE turning[t]]

-----------------------------------------------------------------------------
(* A sensor changes its functional state                                   *)

\* Effect of setFunctional(now, skipErrorTimer) on the error timer.
ErrorTimerKept(s, now, skip) == \* mutant: a recovery leaves the timer running
    errorTimer[s] \/ (s \in SensorError /\ ~now /\ ~skip /\ present[FanOf[s]])
ErrorTimerAfter(s, now, skip) ==
    /\ s \in SensorError
    /\ ~now
    /\ errorTimer[s] \/ (present[FanOf[s]] /\ ~skip)

\* The state updateState() leaves the fan FRU in.
FanNeverRecovers(f, fn) == \* mutant: a fan FRU is never put back
    functional[f] /\ (NumSensorFails[f] # 0 => ~TooManyFailed(f, fn))
FanUnlatched(f, fn) == \* mutant: set_func_on_present is not looked at
    NumSensorFails[f] # 0 => ~TooManyFailed(f, fn)
FanStateAfter(f, fn) ==
    IF NumSensorFails[f] = 0 THEN functional[f]
    ELSE /\ ~TooManyFailed(f, fn)
         /\ functional[f] \/ f \notin SetFuncOnPresent

\* The power off rules do not hear of a sensor that is not on D-Bus.
CheckFaults(s) == \* mutant: recoveries are not checked
    IF owner'[s] /\ ~func'[s] THEN "runtime" ELSE "none"
CheckUpdate(s) == IF owner'[s] THEN "runtime" ELSE "none"

\* updateState(): whatever mode the timer had, the state is inverted.
UpdateState(s) ==
    IF ~power
    THEN UNCHANGED stateVars /\ check' = "none"
    ELSE /\ func' = [func EXCEPT ![s] = ~@]
         /\ errorTimer' = [errorTimer EXCEPT
                             ![s] = ErrorTimerAfter(s, ~func[s], ~owner'[s])]
         /\ functional' = [functional EXCEPT
                             ![FanOf[s]] = FanStateAfter(FanOf[s], func')]
         /\ UpdateFanHealth(FanOf[s])
         /\ check' = CheckUpdate(s)

NoUpdate == UNCHANGED stateVars /\ check' = "none"

-----------------------------------------------------------------------------
(* Judging a sensor                                                        *)

\* The timer process() leaves running for a sensor of the method timebased.
ProcessFaults(s) == \* mutant: only the way to nonfunctional is timed
    IF ~OutOfRange(s) THEN "stopped"
    ELSE IF func[s] THEN "nonfunc" ELSE timer[s]
ProcessTimer(s) ==
    IF OutOfRange(s)
    THEN IF func[s] THEN "nonfunc" ELSE timer[s]
    ELSE IF func[s] THEN "stopped" ELSE "func"

\* setCounter(true).
CountUnbounded(s) == counter[s] + 1 \* mutant: no check against the threshold
Incremented(s) == IF counter[s] < Threshold[s] THEN counter[s] + 1
                                               ELSE counter[s]

\* setCounter(false).
Decremented(s) == IF counter[s] > 0 THEN counter[s] - 1 ELSE 0

\* process() of a sensor of the method count.
CountUp(s) ==
    /\ OutOfRange(s)
    /\ func[s]
    /\ LET n == Incremented(s)
       IN  /\ counter' = [counter EXCEPT ![s] = n]
           /\ countTimer' = [countTimer EXCEPT ![s] = TRUE]
           /\ IF n >= Threshold[s] THEN UpdateState(s) ELSE NoUpdate

CountIgnore(s) ==
    /\ OutOfRange(s)
    /\ ~func[s]
    /\ NoUpdate
    /\ UNCHANGED <<counter, countTimer>>

CountDown(s) ==
    /\ ~OutOfRange(s)
    /\ LET n == Decremented(s)
       IN  /\ counter' = [counter EXCEPT ![s] = n]
           /\ countTimer' = [countTimer EXCEPT ![s] = @ /\ n # 0]
           /\ IF n = 0 /\ ~func[s] THEN UpdateState(s) ELSE NoUpdate

Process(s) ==
    IF UsesCount(s)
    THEN /\ CountUp(s) \/ CountIgnore(s) \/ CountDown(s)
         /\ UNCHANGED timer
    ELSE /\ timer' = [timer EXCEPT ![s] = ProcessTimer(s)]
         /\ NoUpdate
         /\ UNCHANGED <<counter, countTimer>>

\* The nonzero speed trust of the group, with the readings just stored.
GroupTrust == \E t \in InTrust : turning'[t]

\* checkTrust() finds the sensor's group untrusted: the first time it stops
\* the monitoring of the whole group.
Distrust(s) ==
    /\ s \in TrustGroup /\ ~GroupTrust
    /\ trusted' = FALSE
    /\ timer' = [t \in Sensor |-> IF t \in TrustGroup /\ trusted
                                  THEN ResetTimer(t) ELSE timer[t]]
    /\ counter' = [t \in Sensor |-> IF t \in TrustGroup /\ trusted
                                    THEN ResetCounter(t, func)
                                    ELSE counter[t]]
    /\ NoUpdate
    /\ UNCHANGED countTimer

\* The sensors of the group whose monitoring startMonitor() restarts.
RestartedSelf(s) == {s} \* mutant: only the sensor that brought the trust back
Restarted(s) == {t \in TrustGroup : ~UsesCount(t)}

\* checkTrust() finds the group trusted again: it restarts the monitoring of
\* the group's timebased sensors, then the sensor itself is processed if
\* `proceed` holds.
Regain(s, proceed) ==
    /\ s \in TrustGroup /\ GroupTrust /\ ~trusted
    /\ trusted' = TRUE
    /\ timer' = [t \in Sensor |-> IF t \in Restarted(s)
                                  THEN ProcessTimer(t) ELSE timer[t]]
    /\ IF proceed /\ UsesCount(s)
       THEN CountUp(s) \/ CountIgnore(s) \/ CountDown(s)
       ELSE NoUpdate /\ UNCHANGED <<counter, countTimer>>

\* checkTrust() changes nothing and the sensor is processed.
Trust(s, proceed) ==
    /\ s \in TrustGroup => GroupTrust /\ trusted
    /\ UNCHANGED trusted
    /\ IF proceed THEN Process(s) ELSE NoUpdate /\ UNCHANGED methodVars

Judge(s, proceed) == Distrust(s) \/ Regain(s, proceed) \/ Trust(s, proceed)

TachChangedInverted(s) == \* mutant: the count timer has to run already
    IF power /\ monitorReady[FanOf[s]]
    THEN Judge(s, countTimer[s])
    ELSE NoUpdate /\ UNCHANGED <<methodVars, trusted>>

\* tachChanged(sensor): while the count timer runs, it alone does the
\* processing.
TachChanged(s) ==
    IF power /\ monitorReady[FanOf[s]]
    THEN Judge(s, ~countTimer[s])
    ELSE NoUpdate /\ UNCHANGED <<methodVars, trusted>>

-----------------------------------------------------------------------------
(* Handlers: the timers of a sensor                                        *)

Idle == todo = {}

\* The state changing timer of a timebased sensor.
TimerExpired(s) ==
    /\ Idle
    /\ timer[s] # "stopped"
    /\ timer' = [timer EXCEPT ![s] = "stopped"]
    /\ UNCHANGED <<power, up, subscribed, pending, inputVars, trusted,
                   countTimer, counter, lastError, loopVars,
                   present, monitorReady, monitorTimer, missingTimer>>
    /\ UpdateState(s)

\* The periodic timer of the method count.
CountTimerExpired(s) ==
    /\ Idle
    /\ countTimer[s]
    /\ UNCHANGED <<power, up, subscribed, pending, inputVars, lastError,
                   loopVars, present, monitorReady, monitorTimer,
                   missingTimer>>
    /\ Judge(s, TRUE)

\* Nonfunctional sensors whose error was already logged.
LoggedFaults == {s \in Sensor : ~func[s] /\ ~errorTimer'[s]}

ErrorTimerExpired(s) ==
    /\ Idle
    /\ errorTimer[s]
    /\ errorTimer' = [errorTimer EXCEPT ![s] = FALSE]
    /\ lastError' =
         IF ~(present[FanOf[s]] /\ power) THEN lastError
         ELSE IF Cardinality(LoggedFaults) < NumNonfuncBeforeError
              THEN "informational" ELSE "error"
    /\ check' = "none"
    /\ UNCHANGED <<power, up, subscribed, pending, fanVars, func, inputVars,
                   methodVars, trusted, health, loopVars>>

(* Handlers: the timers of a fan                                           *)

MissingTimerExpired(f) ==
    /\ Idle
    /\ missingTimer[f]
    /\ missingTimer' = [missingTimer EXCEPT ![f] = FALSE]
    /\ lastError' = "error"
    /\ check' = "none"
    /\ UNCHANGED <<power, up, subscribed, pending, present, functional,
                   monitorReady, monitorTimer, func, inputVars, methodVars,
                   errorTimer, trusted, health, loopVars>>

\* startMonitor(): the loop over the fan's sensors follows.
StartMonitor(f) ==
    /\ Idle
    /\ monitorTimer[f]
    /\ monitorTimer' = [monitorTimer EXCEPT ![f] = FALSE]
    /\ monitorReady' = [monitorReady EXCEPT ![f] = TRUE]
    /\ todo' = SensorsOf(f)
    /\ loop' = IF SensorsOf(f) = {} THEN "none" ELSE "start"
    /\ check' = "none"
    /\ UNCHANGED <<power, up, subscribed, pending, present, missingTimer,
                   functional, inputVars, methodVars, func, errorTimer,
                   trusted, health, lastError>>

-----------------------------------------------------------------------------
(* Handlers: D-Bus signals                                                 *)

\* The state of a service according to the signals delivered so far.
Announced(v) == up[v] = (pending[v] % 2 = 0)

\* handleTachChange(): the sensor has a new input.
TachSignal(s) ==
    /\ Idle
    /\ Announced(ServiceOf[s])
    /\ ReadRange({s})
    /\ ReadTurning({s})
    /\ UNCHANGED <<power, up, subscribed, pending, owner, lastError,
                   loopVars, present, monitorReady, monitorTimer,
                   missingTimer>>
    /\ TachChanged(s)

\* handleTargetChange(): a new target, against which tachChanged() then
\* checks every sensor of the fan.
TargetSignal(s) ==
    /\ Idle
    /\ TargetFrom[s] = s
    /\ Announced(ServiceOf[s])
    /\ ReadRange(Ranged(s))
    /\ IF monitorReady[FanOf[s]]
       THEN todo' = SensorsOf(FanOf[s]) /\ loop' = "changed"
       ELSE UNCHANGED loopVars
    /\ NoUpdate
    /\ UNCHANGED <<power, up, subscribed, pending, present, monitorReady,
                   monitorTimer, missingTimer, owner, turning, methodVars,
                   trusted, lastError>>

\* tachSignalOffline(): NameOwnerChanged of a sensor service.  The loop sets
\* the owner of the service's sensors and processes each.
OwnerSignal(v) ==
    /\ Idle
    /\ pending[v] > 0
    /\ pending' = [pending EXCEPT ![v] = @ - 1]
    /\ todo' = HostedBy(v)
    /\ loop' = IF HostedBy(v) = {} THEN "none"
               ELSE IF Announced(v) THEN "offline" ELSE "online"
    /\ NoUpdate
    /\ UNCHANGED <<power, up, subscribed, fanVars, inputVars, methodVars,
                   trusted, lastError>>

RestartMissingTimer(f, p) == ~p /\ power /\ f \in FanMissingError

\* What presenceChanged() makes of the missing fan timer.
MissingNotStopped(f, p) == \* mutant: a fan that is back keeps its timer
    missingTimer[f] \/ RestartMissingTimer(f, p)
MissingTimerAfter(f, p) ==
    (missingTimer[f] /\ ~p) \/ RestartMissingTimer(f, p)

\* presenceIfaceAdded(): the fan's inventory item appears with a Present.
PresenceIfaceAdded(f, p) ==
    /\ Idle
    /\ present' = [present EXCEPT ![f] = p]
    /\ missingTimer' = [missingTimer EXCEPT ![f] =
                           @ \/ RestartMissingTimer(f, p)]
    /\ health' = [health EXCEPT ![f] = HealthOf(f, present', func)]
    /\ check' = IF power THEN "runtime" ELSE "none"
    /\ UNCHANGED <<power, up, subscribed, pending, functional, monitorReady,
                   monitorTimer, func, inputVars, methodVars, errorTimer,
                   trusted, lastError, loopVars>>

\* presenceChanged(): a present fan with set_func_on_present starts afresh.
PresenceChanged(f, p) ==
    /\ Idle
    /\ present' = [present EXCEPT ![f] = p]
    /\ LET fresh == IF p /\ f \in SetFuncOnPresent THEN SensorsOf(f) ELSE {}
       IN  /\ functional' = [functional EXCEPT
                               ![f] = @ \/ (p /\ f \in SetFuncOnPresent)]
           /\ func' = [s \in Sensor |-> func[s] \/ s \in fresh]
           /\ errorTimer' = [s \in Sensor |-> errorTimer[s] /\ s \notin fresh]
           /\ timer' = [s \in Sensor |-> IF s \in fresh
                                         THEN ResetTimer(s)
                                         ELSE timer[s]]
           /\ counter' = [s \in Sensor |-> IF s \in fresh
                                           THEN ResetCounter(s, func')
                                           ELSE counter[s]]
    /\ UpdateFanHealth(f)
    /\ missingTimer' = [missingTimer EXCEPT ![f] = MissingTimerAfter(f, p)]
    /\ check' = IF power THEN "runtime" ELSE "none"
    /\ UNCHANGED <<power, up, subscribed, pending, monitorReady,
                   monitorTimer, inputVars, countTimer, trusted, lastError,
                   loopVars>>

-----------------------------------------------------------------------------
(* One iteration of the loop a handler is in                               *)

Advance(s) ==
    /\ s \in todo
    /\ todo' = todo \ {s}
    /\ loop' = IF todo' = {} THEN "none" ELSE loop

\* tachChanged(): check the sensor against the new target.
ChangedStep(s) ==
    /\ loop = "changed"
    /\ Advance(s)
    /\ UNCHANGED <<power, up, subscribed, pending, inputVars, lastError,
                   present, monitorReady, monitorTimer, missingTimer>>
    /\ TachChanged(s)

\* tachSignalOffline(): store the owner state and process the sensor,
\* whatever the power state, the monitoring state and the trust.
OwnerStep(s) ==
    /\ loop \in {"online", "offline"}
    /\ Advance(s)
    /\ owner' = [owner EXCEPT ![s] = (loop = "online")]
    /\ UNCHANGED <<power, up, subscribed, pending, inRange, turning,
                   lastError, present, monitorReady, monitorTimer,
                   missingTimer, trusted>>
    /\ Process(s)

\* startMonitor(): read the sensor and check it.
StartStep(s) ==
    /\ loop = "start"
    /\ OnDBus(s)
    /\ Advance(s)
    /\ ReadRange({s} \cup Ranged(s))
    /\ ReadTurning({s})
    /\ UNCHANGED <<power, up, subscribed, pending, owner, lastError,
                   present, monitorReady, monitorTimer, missingTimer>>
    /\ TachChanged(s)

\* startMonitor() of a sensor that is not on D-Bus: it is nonfunctional, but
\* that is no error and no reason to power off.
StartStepMissing(s) ==
    /\ loop = "start"
    /\ ~OnDBus(s)
    /\ Advance(s)
    /\ func' = [func EXCEPT ![s] = FALSE]
    /\ LET f == FanOf[s]
       IN  /\ errorTimer' = [errorTimer EXCEPT
                               ![s] = ErrorTimerAfter(s, FALSE, TRUE)]
           /\ functional' = [functional EXCEPT
                               ![f] = @ /\ (NumSensorFails[f] # 0 =>
                                              ~TooManyFailed(f, func'))]
    /\ UNCHANGED <<power, up, subscribed, pending, present, monitorReady,
                   monitorTimer, missingTimer, inputVars, methodVars, trusted,
                   lastError>>
    /\ UpdateFanHealth(FanOf[s])
    /\ check' = "none"

-----------------------------------------------------------------------------
(* Handlers: power and configuration                                       *)

\* subscribeSensorsToServices(): the services found on D-Bus are matched.
ServicesFound == {v \in Service : up[v] /\ HostedBy(v) # {}}

\* powerStateChanged(true): the sensors on D-Bus of the present fans start
\* out functional and every fan waits for its monitor start delay.
PowerOn ==
    /\ Idle
    /\ ~power
    /\ power' = TRUE
    /\ LET fresh == {s \in Sensor : OnDBus(s) /\ present[FanOf[s]]}
           found == {s \in Sensor : OnDBus(s)}
       IN  /\ ReadRange(found \cup {t \in Sensor : TargetFrom[t] \in found})
           /\ ReadTurning(found)
           /\ func' = [s \in Sensor |-> func[s] \/ s \in fresh]
           /\ errorTimer' = [s \in Sensor |->
                               errorTimer[s] /\ (s \in fresh => func[s])]
           /\ counter' = [s \in Sensor |-> IF s \in fresh /\ UsesCount(s)
                                           THEN ResetCounter(s, func')
                                           ELSE counter[s]]
           /\ health' = [f \in Fan |->
                           IF \E s \in SensorsOf(f) \cap fresh : ~func[s]
                           THEN HealthOf(f, present, func') ELSE health[f]]
           /\ IF found = {}
              THEN check' = "offline" /\ UNCHANGED subscribed
              ELSE /\ check' = "pgood"
                   /\ subscribed' = IF subscribed = {} THEN ServicesFound
                                                       ELSE subscribed
    /\ functional' = [f \in Fan |->
                        \/ functional[f]
                        \/ /\ present[f]
                           /\ NumSensorFails[f] # 0
                           /\ ~TooManyFailed(f, func')]
    /\ missingTimer' = [f \in Fan |->
                          \/ missingTimer[f]
                          \/ ~present[f] /\ f \in FanMissingError]
    /\ monitorTimer' = [f \in Fan |-> TRUE]
    /\ UNCHANGED <<up, pending, present, monitorReady, owner, timer,
                   countTimer, trusted, lastError, loopVars>>

\* powerStateChanged(false): the monitoring stops; the error timers do not.
PowerOff ==
    /\ Idle
    /\ power
    /\ power' = FALSE
    /\ monitorReady' = [f \in Fan |-> FALSE]
    /\ monitorTimer' = [f \in Fan |-> FALSE]
    /\ missingTimer' = [f \in Fan |-> FALSE]
    /\ timer' = [s \in Sensor |-> "stopped"]
    /\ countTimer' = [s \in Sensor |-> FALSE]
    /\ check' = "cancel"
    /\ UNCHANGED <<up, subscribed, pending, present, functional, func,
                   inputVars, counter, errorTimer, trusted, health, lastError,
                   loopVars>>

\* What load() and the constructors and init() of the new fans leave.  The
\* Present property of the fans in `known` could be read.
Fresh(pres, known) ==
    /\ present' = [f \in Fan |-> f \in pres \cap known]
    /\ functional' = [f \in Fan |-> TRUE]
    /\ monitorReady' = [f \in Fan |-> FALSE]
    /\ monitorTimer' = [f \in Fan |-> power]
    /\ missingTimer' = [f \in Fan |-> f \in known /\ RestartMissingTimer(f, f \in pres)]
    /\ func' = [s \in Sensor |-> TRUE]
    /\ owner' = [s \in Sensor |-> TRUE]
    /\ timer' = [s \in Sensor |-> "stopped"]
    /\ countTimer' = [s \in Sensor |-> FALSE]
    /\ counter' = [s \in Sensor |-> 0]
    /\ errorTimer' = [s \in Sensor |-> FALSE]
    /\ trusted' = TRUE
    /\ health' = [f \in Fan |-> HealthOf(f, present', func')]
    /\ check' = "load"

\* setFans(): the inventory may have changed in any way since the last time.
NewFans == \E pres, known \in SUBSET Fan : Fresh(pres, known)

\* sighupHandler(): load() replaces the fans, the trust groups and the power
\* off rules by new ones.
Reload ==
    /\ Idle
    /\ NewFans
    /\ ReadRange(Sensor)
    /\ ReadTurning(Sensor)
    /\ subscribed' = ServicesFound
    /\ pending' = [v \in Service |-> IF v \in ServicesFound THEN pending[v] ELSE 0]
    /\ UNCHANGED <<power, up, lastError, loopVars>>

(* The services that host the sensors: they stop and start at any time.    *)
ServiceChange(v) ==
    /\ pending[v] < MaxPending
    /\ up' = [up EXCEPT ![v] = ~@]
    /\ pending' = [pending EXCEPT ![v] = IF v \in subscribed THEN @ + 1 ELSE @]
    /\ check' = "none"
    /\ UNCHANGED <<power, subscribed, fanVars, func, inputVars, methodVars,
                   errorTimer, trusted, health, lastError, loopVars>>

-----------------------------------------------------------------------------

\* The daemon has started and made its first load().
Init ==
    /\ power \in BOOLEAN
    /\ up \in [Service -> BOOLEAN]
    /\ subscribed = ServicesFound
    /\ pending = [v \in Service |-> 0]
    /\ \E pres, known \in SUBSET Fan :
         /\ present = [f \in Fan |-> f \in pres \cap known]
         /\ missingTimer = [f \in Fan |-> /\ f \in known \ pres
                                          /\ power
                                          /\ f \in FanMissingError]
    /\ functional = [f \in Fan |-> TRUE]
    /\ monitorReady = [f \in Fan |-> FALSE]
    /\ monitorTimer = [f \in Fan |-> power]
    /\ func = [s \in Sensor |-> TRUE]
    /\ owner = [s \in Sensor |-> TRUE]
    /\ inRange \in [Sensor -> BOOLEAN]
    /\ turning \in {t \in [Sensor -> BOOLEAN] : \A s \in Sensor \ InTrust : t[s]}
    /\ timer = [s \in Sensor |-> "stopped"]
    /\ countTimer = [s \in Sensor |-> FALSE]
    /\ counter = [s \in Sensor |-> 0]
    /\ errorTimer = [s \in Sensor |-> FALSE]
    /\ trusted = TRUE
    /\ health = [f \in Fan |-> HealthOf(f, present, func)]
    /\ lastError = "none"
    /\ loop = "none"
    /\ todo = {}
    /\ check = "load"

LoopStep ==
    \E s \in Sensor :
        ChangedStep(s) \/ OwnerStep(s) \/ StartStep(s) \/ StartStepMissing(s)

TimerStep ==
    \/ \E s \in Sensor :
          TimerExpired(s) \/ CountTimerExpired(s) \/ ErrorTimerExpired(s)
    \/ \E f \in Fan : MissingTimerExpired(f) \/ StartMonitor(f)

SignalStep ==
    \/ \E s \in Sensor : TachSignal(s) \/ TargetSignal(s)
    \/ \E v \in Service : OwnerSignal(v)
    \/ \E f \in Fan, p \in BOOLEAN :
          PresenceIfaceAdded(f, p) \/ PresenceChanged(f, p)

ConfigStep == PowerOn \/ PowerOff \/ Reload

Next ==
    \/ LoopStep
    \/ TimerStep
    \/ SignalStep
    \/ ConfigStep
    \/ \E v \in Service : ServiceChange(v)

\* A handler runs to its end.  The event loop takes its sources in turn, so
\* the running timer of a sensor expires and a queued signal is delivered
\* even if other events never cease: this is strong fairness, because the
\* handler of another event disables them for a while.
Fairness ==
    /\ WF_vars(LoopStep)
    /\ \A s \in Sensor : IF UsesCount(s) THEN SF_vars(CountTimerExpired(s))
                                          ELSE SF_vars(TimerExpired(s))
    /\ \A v \in Service : SF_vars(OwnerSignal(v))

Spec == Init /\ [][Next]_vars

FairSpec == Spec /\ Fairness

-----------------------------------------------------------------------------
(* Properties                                                              *)

TimerState == {"stopped", "func", "nonfunc"}

\* Every variable keeps its type; a counter stays within its threshold.
TypeOK ==
    /\ power \in BOOLEAN
    /\ up \in [Service -> BOOLEAN]
    /\ subscribed \subseteq Service
    /\ pending \in [Service -> Nat]
    /\ present \in [Fan -> BOOLEAN]
    /\ functional \in [Fan -> BOOLEAN]
    /\ monitorReady \in [Fan -> BOOLEAN]
    /\ monitorTimer \in [Fan -> BOOLEAN]
    /\ missingTimer \in [Fan -> BOOLEAN]
    /\ func \in [Sensor -> BOOLEAN]
    /\ owner \in [Sensor -> BOOLEAN]
    /\ inRange \in [Sensor -> BOOLEAN]
    /\ turning \in [Sensor -> BOOLEAN]
    /\ timer \in [Sensor -> TimerState]
    /\ countTimer \in [Sensor -> BOOLEAN]
    /\ counter \in [Sensor -> Nat]
    /\ \A s \in Sensor : counter[s] <= Threshold[s]
    /\ errorTimer \in [Sensor -> BOOLEAN]
    /\ trusted \in BOOLEAN
    /\ health \in [Fan -> [present : BOOLEAN, failed : SUBSET Sensor]]
    /\ lastError \in {"none", "informational", "error"}
    /\ loop \in {"none", "start", "changed", "online", "offline"}
    /\ todo \subseteq Sensor
    /\ check \in {"none", "runtime", "pgood", "offline", "cancel", "load"}

\* The health the power off rules decide on is never stale: whatever changed
\* the presence of a fan or the state of a sensor also went through
\* updateFanHealth().
HealthMatches ==
    \A f \in Fan : health[f] = HealthOf(f, present, func)

\* The state of a fan FRU follows its sensors through power cycles, lost
\* services and reloads: it is nonfunctional exactly when too many sensors
\* are, except that set_func_on_present may hold it nonfunctional longer.
FanFollowsSensors ==
    \A f \in Fan :
        IF NumSensorFails[f] = 0
        THEN functional[f]
        ELSE /\ functional[f] => ~TooManyFailed(f, func)
             /\ f \notin SetFuncOnPresent =>
                    (~TooManyFailed(f, func) => functional[f])

\* A fault error is only due for a sensor that is still nonfunctional: a
\* recovery, by whatever handler, withdraws it.
ErrorOnlyForFault ==
    \A s \in Sensor :
        errorTimer[s] => ~func[s]

\* The sensor is being judged and is not held back by its trust group.
Watched(s) ==
    /\ power
    /\ monitorReady[FanOf[s]]
    /\ s \in TrustGroup => \E t \in InTrust : turning[t]

\* Its service is up, and the daemon is told when it goes or returns.
Connected(s) == OnDBus(s) /\ ServiceOf[s] \in subscribed

Faulty(s) == ~owner[s] \/ ~inRange[s]

\* A sensor that stays out of range while it is watched ends up nonfunctional.
Found(s) == <>[](Watched(s) /\ Faulty(s)) => <>[]~func[s]

\* A sensor that stays in range while it is watched ends up functional.
Cleared(s) ==
    <>[](Watched(s) /\ Connected(s) /\ ~Faulty(s)) => <>[]func[s]

\* With the method count a lasting fault is always found, whatever happened
\* before: the count timer runs until the threshold is reached.
FaultFound == \A s \in Sensor : UsesCount(s) => Found(s)

\* With the method timebased a lasting recovery is always found ("If this
\* sensor is OK, put everything back into a good state").
FaultCleared == \A s \in Sensor : ~UsesCount(s) => Cleared(s)

\* No sensor of a distrusted group is on its way to nonfunctional: losing the
\* trust cancels what was under way for every sensor of the group, and nothing
\* restarts it before the trust is back.
DistrustedNotJudged ==
    ~trusted => \A s \in TrustGroup : timer[s] = "stopped"

\* The sensor is judged by its own target, and the loop that may be under way
\* has been past it.
Judged(s) ==
    /\ power
    /\ monitorReady[FanOf[s]]
    /\ OnDBus(s)
    /\ s \in TrustGroup => trusted
    /\ TargetFrom[s] = s
    /\ s \notin todo

\* A sensor of the method timebased that is judged and in its range is
\* functional and not on its way to nonfunctional, or on its way back: also
\* after its group lost the trust and regained it, by the reading of another
\* sensor.
TrustedJudged ==
    \A s \in Sensor :
        ~UsesCount(s) /\ Judged(s) /\ inRange[s]
        => timer[s] = IF func[s] THEN "stopped" ELSE "func"

\* While the services stay up, the trust of a group decides whether its
\* sensors are judged: without it none is timed, and with it the timer of each
\* is the one its reading asks for (checkTrust(), against the readings that
\* came in while the group was not trusted).
TrustDecides == DistrustedNotJudged /\ TrustedJudged

\* A fan with set_func_on_present holds its nonfunctional state while the
\* power stays on, whichever of its sensors recovers: only the signal that it
\* is present puts it back.  A fan that is present all the time stays latched.
LatchedWhilePowered ==
    [][\A f \in SetFuncOnPresent :
         ~functional[f] /\ functional'[f] /\ check' # "load"
         => power # power' \/ PresenceChanged(f, TRUE)]_vars

\* The missing fan timer follows the presence and the power, whichever comes
\* first: a powered fan that goes, or is missing when the power comes, is
\* timed; only such a fan is; and a timer that runs ends with the power, with
\* the signal that the fan is back, or by expiring, and with nothing else.
MissingFanTimed ==
    [][check' # "load" =>
         \A f \in FanMissingError :
            /\ (present[f] \/ ~power) /\ ~present'[f] /\ power'
               => missingTimer'[f]
            /\ missingTimer'[f] /\ ~missingTimer[f]
               => ~present'[f] /\ power'
            /\ ~power' \/ PresenceChanged(f, TRUE) => ~missingTimer'[f]
            /\ missingTimer[f] /\ ~missingTimer'[f]
               => \/ ~power'
                  \/ PresenceChanged(f, TRUE)
                  \/ MissingTimerExpired(f)]_vars

=============================================================================
