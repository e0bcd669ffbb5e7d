-------------------------- MODULE SensorMonitorProofs --------------------------
(***************************************************************************)
(* Proofs about SensorMonitor, for any sensors, alarms and delays.         *)
(*                                                                         *)
(* The delay that is left on a timer is tied to two ages: the one of the   *)
(* saved timestamp by the clock, which may have been set back, and the one *)
(* by a clock that is only set forward.  The timer covers what is missing  *)
(* of the second.                                                          *)
(***************************************************************************)
EXTENDS SensorMonitor, SequenceProofs, TLAPS

USE SensorBusAssumption, ShutdownAlarmAssumption, ThresholdAlarmAssumption
    DEF history

Timed ==
    /\ known \in SUBSET ShutdownAlarm
    /\ IsTimed(timers)
    /\ IsTimed(saved)
    /\ IsTimed(since)
    /\ requested \in SUBSET ShutdownAlarm

SavedTogether == DOMAIN since = DOMAIN saved

TimersSaved ==
    /\ alive => DOMAIN timers = DOMAIN saved
    /\ ~alive => timers = [a \in {} |-> 0] /\ expired = {}

AgesAgree ==
    \A a \in DOMAIN saved :
      /\ saved[a] <= MinAge + since[a]
      /\ saved[a] <= MinAge + Delay[a]
      /\ since[a] <= Delay[a]

TimeCovered ==
    \A a \in DOMAIN timers : timers[a] + since[a] >= Delay[a]

DelayInv ==
    /\ Timed
    /\ SavedTogether
    /\ TimersSaved
    /\ AgesAgree
    /\ TimeCovered

-----------------------------------------------------------------------------
(* Timestamps and timers.                                                  *)

\* What Timestamps() keeps and adds.
LEMMA StampsKept ==
    ASSUME Timed, SavedTogether, AgesAgree,
           NEW D \in SUBSET ShutdownAlarm, Timestamps(D)
    PROVE  /\ IsTimed(saved') /\ IsTimed(since')
           /\ SavedTogether' /\ AgesAgree'
           /\ DOMAIN saved' = D
           /\ \A a \in D \cap DOMAIN saved : saved'[a] = saved[a] /\ since'[a] = since[a]
           /\ \A a \in D \ DOMAIN saved : saved'[a] = MinAge /\ since'[a] = 0
  <1>1. DOMAIN saved' = D /\ DOMAIN since' = D
    BY DEF Timestamps
  <1>2. \A a \in D : a \in DOMAIN saved => saved[a] \in Nat /\ since[a] \in Nat
    BY DEF Timed, IsTimed, SavedTogether
  <1>3. \A a \in D \cap DOMAIN saved : saved'[a] = saved[a] /\ since'[a] = since[a]
    BY DEF Timestamps, SavedTogether
  <1>4. \A a \in D \ DOMAIN saved : saved'[a] = MinAge /\ since'[a] = 0
    BY DEF Timestamps, SavedTogether
  <1>5. saved' \in [D -> Nat] /\ since' \in [D -> Nat]
    BY <1>1, <1>2, <1>3, <1>4 DEF Timestamps, SavedTogether
  <1>6. AgesAgree'
    BY <1>1, <1>2, <1>3, <1>4 DEF AgesAgree
  <1> QED
    BY <1>1, <1>3, <1>4, <1>5, <1>6 DEF IsTimed, SavedTogether

\* The time left on a new timer covers the delay.
LEMMA NewTimer ==
    ASSUME Timed, SavedTogether, AgesAgree, NEW a \in ShutdownAlarm
    PROVE  /\ TimeLeft(a) \in Nat
           /\ a \in DOMAIN saved => TimeLeft(a) + since[a] >= Delay[a]
           /\ a \notin DOMAIN saved => TimeLeft(a) = Delay[a]
  <1>1. Delay[a] \in Nat /\ MinAge \in Nat
    OBVIOUS
  <1>2. CASE a \in DOMAIN saved
    <2>1. saved[a] \in Nat /\ since[a] \in Nat
      BY <1>2 DEF Timed, IsTimed, SavedTogether
    <2> QED
      BY <1>1, <1>2, <2>1 DEF TimeLeft, AgesAgree
  <1>3. CASE a \notin DOMAIN saved
    BY <1>1, <1>3 DEF TimeLeft
  <1> QED
    BY <1>2, <1>3

\* Timers that begin or go on, with a timestamp each.
LEMMA Retimed ==
    ASSUME Timed, SavedTogether, AgesAgree, TimeCovered,
           DOMAIN timers \subseteq DOMAIN saved,
           NEW D \in SUBSET ShutdownAlarm, Timestamps(D),
           timers' = [a \in DOMAIN timers' |-> timers'[a]],
           DOMAIN timers' \subseteq D,
           \A a \in DOMAIN timers' :
             \/ timers'[a] = TimeLeft(a)
             \/ a \in DOMAIN timers /\ timers'[a] = timers[a]
    PROVE  IsTimed(timers') /\ TimeCovered'
  <1>1. /\ DOMAIN saved' = D
        /\ \A a \in D \cap DOMAIN saved : saved'[a] = saved[a] /\ since'[a] = since[a]
        /\ \A a \in D \ DOMAIN saved : saved'[a] = MinAge /\ since'[a] = 0
    BY StampsKept
  <1>2. ASSUME NEW a \in DOMAIN timers'
        PROVE  /\ timers'[a] \in Nat
               /\ timers'[a] + since'[a] >= Delay[a]
    <2>1. a \in ShutdownAlarm /\ a \in D
      OBVIOUS
    <2>2. CASE timers'[a] = TimeLeft(a)
      <3>1. CASE a \in DOMAIN saved
        <4>1. saved'[a] = saved[a] /\ since'[a] = since[a]
          BY <1>1, <2>1, <3>1
        <4> QED
          BY <2>1, <2>2, <3>1, <4>1, NewTimer
      <3>2. CASE a \notin DOMAIN saved
        <4>1. saved'[a] = MinAge /\ since'[a] = 0
          BY <1>1, <2>1, <3>2
        <4>2. TimeLeft(a) = Delay[a] /\ Delay[a] \in Nat
          BY <2>1, <3>2, NewTimer
        <4> QED
          BY <2>2, <4>1, <4>2
      <3> QED
        BY <3>1, <3>2
    <2>3. CASE a \in DOMAIN timers /\ timers'[a] = timers[a]
      <3>1. saved'[a] = saved[a] /\ since'[a] = since[a]
        BY <1>1, <2>1, <2>3
      <3>2. timers[a] \in Nat
        BY <2>3 DEF Timed, IsTimed
      <3> QED
        BY <2>3, <3>1, <3>2 DEF TimeCovered
    <2> QED
      BY <1>2, <2>2, <2>3
  <1> QED
    BY <1>2 DEF TimeCovered, IsTimed

-----------------------------------------------------------------------------
(* The inductive invariant.                                                *)

\* Timers start and stop while the daemon runs.
LEMMA CheckKeeps ==
    ASSUME DelayInv, alive, alive', known' \in SUBSET ShutdownAlarm,
           NEW read \in SUBSET ShutdownAlarm, NEW on,
           CheckAlarms(read, on), requested' = requested
    PROVE  DelayInv' /\ \E D \in SUBSET ShutdownAlarm : Timestamps(D)
  <1> USE DEF DelayInv
  <1> DEFINE start == Started(read, on)
             stop  == Stopped(read, on)
             D == (DOMAIN saved \cup start) \ stop
  <1>1. start \in SUBSET ShutdownAlarm /\ stop \in SUBSET ShutdownAlarm
    BY DEF Started, Stopped
  <1>2. D \in SUBSET ShutdownAlarm
    BY <1>1 DEF Timed, IsTimed
  <1>3. Timestamps(D)
    BY DEF CheckAlarms
  <1>4. timers' = [a \in (DOMAIN timers \cup start) \ stop |->
                     IF a \in start THEN TimeLeft(a) ELSE timers[a]]
    BY DEF CheckAlarms
  <1>5. DOMAIN timers = DOMAIN saved
    BY DEF TimersSaved
  <1>10. (DOMAIN timers \cup start) \ stop = D
    BY <1>5
  <1> HIDE DEF start, stop, D
  <1>6. IsTimed(timers') /\ TimeCovered'
    <2>1. DOMAIN timers \subseteq DOMAIN saved
      BY <1>5
    <2>2. /\ DOMAIN timers' \subseteq D
          /\ timers' = [a \in DOMAIN timers' |-> timers'[a]]
          /\ \A a \in DOMAIN timers' :
               \/ timers'[a] = TimeLeft(a)
               \/ a \in DOMAIN timers /\ timers'[a] = timers[a]
      BY <1>4, <1>10
    <2> QED
      BY <1>2, <1>3, <2>1, <2>2, Retimed
  <1>7. /\ IsTimed(saved') /\ IsTimed(since') /\ SavedTogether' /\ AgesAgree'
        /\ DOMAIN saved' = D
    BY <1>2, <1>3, StampsKept
  <1>8. DOMAIN timers' = D
    BY <1>4, <1>10
  <1>9. TimersSaved'
    BY <1>7, <1>8 DEF TimersSaved
  <1> QED
    BY <1>2, <1>3, <1>6, <1>7, <1>9 DEF Timed

\* No timers are left, whatever becomes of the timestamps.
LEMMA ClearKeeps ==
    ASSUME DelayInv, timers' = [a \in {} |-> 0], expired' = {},
           known' \in SUBSET ShutdownAlarm,
           requested' \in SUBSET ShutdownAlarm,
           NEW D \in SUBSET ShutdownAlarm, Timestamps(D), alive' => D = {}
    PROVE  DelayInv'
  <1> USE DEF DelayInv
  <1>1. /\ IsTimed(saved') /\ IsTimed(since') /\ SavedTogether' /\ AgesAgree'
        /\ DOMAIN saved' = D
    BY StampsKept
  <1>2. DOMAIN timers' = {} /\ IsTimed(timers')
    BY DEF IsTimed
  <1>3. TimersSaved' /\ TimeCovered'
    BY <1>1, <1>2 DEF TimersSaved, TimeCovered
  <1> QED
    BY <1>1, <1>2, <1>3 DEF Timed

\* Ages and timers are as they were.
LEMMA SameDelays ==
    ASSUME DelayInv, UNCHANGED <<alive, timers, expired, saved, since>>,
           requested' \in SUBSET ShutdownAlarm, known' \in SUBSET ShutdownAlarm
    PROVE  DelayInv'
  BY DEF DelayInv, Timed, IsTimed, SavedTogether, TimersSaved, AgesAgree, TimeCovered

LEMMA StartKeeps ==
    ASSUME DelayInv, Start
    PROVE  DelayInv'
  <1> USE DEF DelayInv
  <1> DEFINE start == {a \in ShutdownAlarm : a \in OnBus /\ a \in asserted /\ PowerRead}
  <1>1. /\ ~alive /\ alive'
        /\ timers' = [a \in start |-> TimeLeft(a)]
        /\ expired' = {}
        /\ Timestamps(start)
        /\ requested' = requested
        /\ known' \in SUBSET ShutdownAlarm
    BY DEF Start, StartBus, MonitorStarts
  <1>2. start \in SUBSET ShutdownAlarm
    OBVIOUS
  <1>3. DOMAIN timers = {}
    BY <1>1 DEF TimersSaved
  <1> HIDE DEF start
  <1>4. /\ DOMAIN timers' \subseteq start
        /\ timers' = [a \in DOMAIN timers' |-> timers'[a]]
        /\ \A a \in DOMAIN timers' : timers'[a] = TimeLeft(a)
    BY <1>1
  <1>5. IsTimed(timers') /\ TimeCovered'
    BY <1>1, <1>2, <1>3, <1>4, Retimed
  <1>6. /\ IsTimed(saved') /\ IsTimed(since') /\ SavedTogether' /\ AgesAgree'
        /\ DOMAIN saved' = start
    BY <1>1, <1>2, StampsKept
  <1>7. TimersSaved'
    BY <1>1, <1>6 DEF TimersSaved
  <1> QED
    BY <1>1, <1>5, <1>6, <1>7 DEF Timed

LEMMA ReceiveKeeps ==
    ASSUME DelayInv, Receive
    PROVE  /\ DelayInv'
           /\ \/ \E D \in SUBSET ShutdownAlarm : Timestamps(D)
              \/ UNCHANGED since
           /\ UNCHANGED requested
  <1>1. PICK m \in Signal : Deliver(m) /\ ShutdownHandles(m)
    BY DEF Receive
  <1>2. alive /\ alive'
    BY <1>1 DEF Deliver
  <1>3. CASE PowerChanges(m) /\ m.on /\ PowerOnAlarms
    <2>1. CheckAlarms(known \cap OnBus, asserted) /\ UNCHANGED <<known, requested>>
      BY <1>3 DEF PowerOnAlarms
    <2>2. known \cap OnBus \in SUBSET ShutdownAlarm /\ known' \in SUBSET ShutdownAlarm
      BY <2>1 DEF DelayInv, Timed
    <2> QED
      BY <1>2, <2>1, <2>2, CheckKeeps
  <1>4. CASE PowerChanges(m) /\ ~m.on /\ PowerOffAlarms
    <2>1. /\ timers' = [a \in {} |-> 0] /\ expired' = {} /\ Timestamps({})
          /\ UNCHANGED <<known, requested>>
      BY <1>4 DEF PowerOffAlarms
    <2>2. requested' \in SUBSET ShutdownAlarm /\ known' \in SUBSET ShutdownAlarm
      BY <2>1 DEF DelayInv, Timed
    <2> QED
      BY <2>1, <2>2, ClearKeeps
  <1>5. CASE IsShutdownSignal(m) /\ AlarmChanged(m)
    <2>1. /\ {m.alarm} \in SUBSET ShutdownAlarm
          /\ CheckAlarms({m.alarm}, {a \in {m.alarm} : m.on})
          /\ requested' = requested
          /\ known' \in SUBSET ShutdownAlarm
      BY <1>5 DEF AlarmChanged, IsShutdownSignal, DelayInv, Timed
    <2> QED
      BY <1>2, <2>1, CheckKeeps
  <1>6. CASE UNCHANGED shutdownVars
    <2>1. UNCHANGED <<alive, known, timers, expired, saved, since, requested>>
      BY <1>2, <1>6 DEF shutdownVars, Deliver
    <2>2. requested' \in SUBSET ShutdownAlarm /\ known' \in SUBSET ShutdownAlarm
      BY <2>1 DEF DelayInv, Timed
    <2> QED
      BY <2>1, <2>2, SameDelays
  <1> QED
    BY <1>1, <1>3, <1>4, <1>5, <1>6 DEF ShutdownHandles

LEMMA ExpireKeeps ==
    ASSUME DelayInv, NEW a \in ShutdownAlarm, Expire(a)
    PROVE  DelayInv'
  <1>1. CASE alive /\ TimerExpires(a) /\ UNCHANGED <<busVars, thresholdVars>>
    <2> DEFINE D == DOMAIN saved \ {a}
    <2>1. D \in SUBSET ShutdownAlarm
      BY DEF DelayInv, Timed, IsTimed
    <2>2. /\ timers' = [b \in DOMAIN timers \ {a} |-> timers[b]]
          /\ Timestamps(D)
          /\ known' = known /\ requested' \in SUBSET ShutdownAlarm
          /\ alive' = alive
      BY <1>1 DEF TimerExpires, DelayInv, Timed, busVars
    <2>3. DOMAIN timers = DOMAIN saved
      BY <1>1 DEF DelayInv, TimersSaved
    <2> HIDE DEF D
    <2>4. /\ DOMAIN timers' = DOMAIN timers \ {a}
          /\ timers' = [b \in DOMAIN timers' |-> timers'[b]]
          /\ \A b \in DOMAIN timers' : b \in DOMAIN timers /\ timers'[b] = timers[b]
      BY <2>2
    <2>5. DOMAIN timers' = D
      BY <2>3, <2>4 DEF D
    <2>6. Timed /\ SavedTogether /\ AgesAgree /\ TimeCovered
      BY DEF DelayInv
    <2>7. IsTimed(timers') /\ TimeCovered'
      BY <2>1, <2>2, <2>3, <2>4, <2>5, <2>6, Retimed
    <2>8. /\ IsTimed(saved') /\ IsTimed(since') /\ SavedTogether' /\ AgesAgree'
          /\ DOMAIN saved' = D
      BY <2>1, <2>2, <2>6, StampsKept
    <2> QED
      BY <1>1, <2>2, <2>5, <2>6, <2>7, <2>8 DEF DelayInv, TimersSaved, Timed
  <1>2. CASE DieBus /\ LoggerDies /\ DiesExpiring(a)
    <2>1. PICK D \in {DOMAIN saved, {}} : Timestamps(D)
      BY <1>2 DEF DiesExpiring
    <2>2. D \in SUBSET ShutdownAlarm
      BY <2>1 DEF DelayInv, Timed, IsTimed
    <2>3. /\ timers' = [b \in {} |-> 0] /\ expired' = {} /\ ~alive'
          /\ known' \in SUBSET ShutdownAlarm /\ requested' \in SUBSET ShutdownAlarm
      BY <1>2 DEF DiesExpiring, MemoryLost, DieBus, DelayInv, Timed
    <2> QED
      BY <2>1, <2>2, <2>3, ClearKeeps
  <1> QED
    BY <1>1, <1>2 DEF Expire

LEMMA DiesKeeps ==
    ASSUME DelayInv, Dies
    PROVE  /\ DelayInv'
           /\ UNCHANGED requested
           /\ UNCHANGED since \/ \E D \in SUBSET ShutdownAlarm : Timestamps(D)
  <1>1. /\ timers' = [b \in {} |-> 0] /\ expired' = {} /\ alive /\ ~alive'
        /\ known' \in SUBSET ShutdownAlarm /\ requested' = requested
    BY DEF Dies, DiesIdle, DiesChecking, MemoryLost, DieBus
  <1>2. requested' \in SUBSET ShutdownAlarm
    BY <1>1 DEF DelayInv, Timed
  <1>3. CASE DiesChecking
    <2>1. PICK D \in SUBSET ShutdownAlarm : Timestamps(D)
      BY <1>3 DEF DiesChecking
    <2> QED
      BY <1>1, <1>2, <2>1, ClearKeeps
  <1>4. CASE DiesIdle
    <2>1. UNCHANGED <<saved, since>>
      BY <1>4 DEF DiesIdle
    <2> QED
      BY <1>1, <2>1 DEF DelayInv, Timed, IsTimed, SavedTogether, TimersSaved, AgesAgree, TimeCovered
  <1> QED
    BY <1>3, <1>4 DEF Dies

LEMMA TickKeeps ==
    ASSUME DelayInv, Tick, UNCHANGED busVars
    PROVE  DelayInv'
  <1> USE DEF DelayInv
  <1>1. /\ DOMAIN timers' = DOMAIN timers
        /\ DOMAIN saved' = DOMAIN saved
        /\ DOMAIN since' = DOMAIN since
    BY DEF Tick, Longer
  <1>2. ASSUME NEW a \in DOMAIN saved
        PROVE  /\ saved'[a] \in Nat /\ since'[a] \in Nat
               /\ saved'[a] <= MinAge + since'[a]
               /\ saved'[a] <= MinAge + Delay[a]
               /\ since'[a] <= Delay[a]
               /\ since'[a] = IF since[a] < Delay[a] THEN since[a] + 1 ELSE since[a]
               /\ saved'[a] = IF saved[a] < MinAge + Delay[a] THEN saved[a] + 1 ELSE saved[a]
    <2>1. saved[a] \in Nat /\ since[a] \in Nat /\ a \in ShutdownAlarm /\ a \in DOMAIN since
      BY DEF Timed, IsTimed, SavedTogether
    <2>2. /\ since'[a] = IF since[a] < Delay[a] THEN since[a] + 1 ELSE since[a]
          /\ saved'[a] = IF saved[a] < MinAge + Delay[a] THEN saved[a] + 1 ELSE saved[a]
      BY <2>1 DEF Tick, Longer
    <2>3. Delay[a] \in Nat
      BY <2>1
    <2> QED
      BY <2>1, <2>2, <2>3 DEF AgesAgree
  <1>3. ASSUME NEW a \in DOMAIN timers
        PROVE  /\ timers'[a] \in Nat
               /\ timers'[a] + since'[a] >= Delay[a]
    <2>1. timers[a] \in Nat /\ a \in ShutdownAlarm
      BY DEF Timed, IsTimed
    <2>2. a \in DOMAIN saved
      BY DEF TimersSaved
    <2>3. timers'[a] = IF timers[a] = 0 THEN 0 ELSE timers[a] - 1
      BY DEF Tick
    <2>4. saved[a] \in Nat /\ since[a] \in Nat /\ Delay[a] \in Nat
      BY <2>1, <2>2 DEF Timed, IsTimed, SavedTogether
    <2>5. timers[a] + since[a] >= Delay[a]
      BY DEF TimeCovered
    <2> QED
      BY <1>2, <2>1, <2>2, <2>3, <2>4, <2>5 DEF AgesAgree
  <1>4. Timed'
    <2>1. /\ timers' = [a \in DOMAIN timers' |-> timers'[a]]
          /\ saved' = [a \in DOMAIN saved' |-> saved'[a]]
          /\ since' = [a \in DOMAIN since' |-> since'[a]]
          /\ UNCHANGED <<known, requested>>
      BY <1>1 DEF Tick, Longer
    <2> QED
      BY <1>1, <1>2, <1>3, <2>1 DEF Timed, IsTimed, SavedTogether
  <1>5. SavedTogether' /\ AgesAgree' /\ TimeCovered'
    BY <1>1, <1>2, <1>3 DEF SavedTogether, AgesAgree, TimeCovered
  <1>6. TimersSaved'
    <2>1. alive' = alive /\ expired' = expired
      BY DEF Tick, busVars
    <2>2. ASSUME ~alive PROVE timers' = [a \in {} |-> 0]
      BY <2>2 DEF TimersSaved, Tick
    <2> QED
      BY <1>1, <2>1, <2>2 DEF TimersSaved
  <1> QED
    BY <1>4, <1>5, <1>6

LEMMA ClockKeeps ==
    ASSUME DelayInv, ClockSetBack, UNCHANGED busVars
    PROVE  DelayInv'
  <1> USE DEF DelayInv
  <1>1. /\ UNCHANGED <<known, timers, expired, since, requested, alive>>
        /\ DOMAIN saved' = DOMAIN saved
        /\ saved' = [a \in DOMAIN saved' |-> saved'[a]]
    BY DEF ClockSetBack, busVars
  <1>2. ASSUME NEW a \in DOMAIN saved
        PROVE  /\ saved'[a] \in Nat
               /\ saved'[a] <= saved[a]
               /\ saved[a] \in Nat
               /\ since[a] \in Nat
               /\ Delay[a] \in Nat
    <2>1. saved[a] \in Nat /\ saved[a] > 0 /\ saved'[a] = saved[a] - 1
      BY DEF ClockSetBack, Timed, IsTimed
    <2>2. a \in ShutdownAlarm /\ since[a] \in Nat
      BY DEF Timed, IsTimed, SavedTogether
    <2> QED
      BY <2>1, <2>2
  <1>3. Timed'
    BY <1>1, <1>2 DEF Timed, IsTimed
  <1>4. SavedTogether' /\ TimersSaved'
    BY <1>1 DEF SavedTogether, TimersSaved
  <1>5. AgesAgree'
    BY <1>1, <1>2 DEF AgesAgree
  <1>6. TimeCovered'
    <2>1. ASSUME NEW a \in DOMAIN timers
          PROVE  timers[a] \in Nat /\ a \in DOMAIN saved
      BY DEF Timed, IsTimed, TimersSaved
    <2> QED
      BY <1>1, <1>2, <2>1 DEF TimeCovered
  <1> QED
    BY <1>3, <1>4, <1>5, <1>6

LEMMA ForwardKeeps ==
    ASSUME DelayInv, ClockSetForward, UNCHANGED busVars
    PROVE  DelayInv'
  <1> USE DEF DelayInv
  <1>1. /\ UNCHANGED <<known, timers, expired, requested, alive>>
        /\ DOMAIN saved' = DOMAIN saved /\ DOMAIN since' = DOMAIN since
        /\ saved' = [a \in DOMAIN saved' |-> saved'[a]]
        /\ since' = [a \in DOMAIN since' |-> since'[a]]
    BY DEF ClockSetForward, Longer, busVars
  <1>2. ASSUME NEW a \in DOMAIN saved
        PROVE  /\ saved[a] \in Nat /\ saved'[a] \in Nat
               /\ since[a] \in Nat /\ since'[a] \in Nat
               /\ saved'[a] <= MinAge + since'[a]
               /\ saved'[a] <= MinAge + Delay[a]
               /\ since'[a] <= Delay[a]
               /\ since'[a] >= since[a]
               /\ Delay[a] \in Nat
               /\ saved'[a] = IF saved[a] < MinAge + Delay[a] THEN saved[a] + 1 ELSE saved[a]
    <2>1. saved[a] \in Nat /\ since[a] \in Nat /\ a \in ShutdownAlarm /\ a \in DOMAIN since
      BY DEF Timed, IsTimed, SavedTogether
    <2>2. /\ since'[a] = IF since[a] < Delay[a] THEN since[a] + 1 ELSE since[a]
          /\ saved'[a] = IF saved[a] < MinAge + Delay[a] THEN saved[a] + 1 ELSE saved[a]
      BY <2>1 DEF ClockSetForward, Longer
    <2>3. Delay[a] \in Nat
      BY <2>1
    <2> QED
      BY <2>1, <2>2, <2>3 DEF AgesAgree
  <1>3. Timed'
    BY <1>1, <1>2 DEF Timed, IsTimed, SavedTogether
  <1>4. SavedTogether' /\ TimersSaved'
    BY <1>1 DEF SavedTogether, TimersSaved
  <1>5. AgesAgree'
    BY <1>1, <1>2 DEF AgesAgree
  <1>6. TimeCovered'
    <2>1. ASSUME NEW a \in DOMAIN timers
          PROVE  timers[a] \in Nat /\ a \in DOMAIN saved
      BY DEF Timed, IsTimed, TimersSaved
    <2> QED
      BY <1>1, <1>2, <2>1 DEF TimeCovered
  <1> QED
    BY <1>3, <1>4, <1>5, <1>6

LEMMA EnvironmentKeeps ==
    ASSUME DelayInv, ShutdownEnvironment
    PROVE  DelayInv'
  <1>1. alive' = alive
    BY DEF ShutdownEnvironment, Environment, SetPower, PgoodServiceStarts,
           ChangeAlarm, AddSensor, RemoveSensor
  <1>2. /\ UNCHANGED <<known, timers, expired, saved, since>>
        /\ requested' \in SUBSET ShutdownAlarm
        /\ known' \in SUBSET ShutdownAlarm
    BY DEF ShutdownEnvironment, DelayInv, Timed
  <1> QED
    BY <1>1, <1>2, SameDelays

LEMMA DelayInvInit == SensorInit => DelayInv
  BY DEF SensorInit, InitBus, InitShutdown, DelayInv, Timed, IsTimed, SavedTogether,
         TimersSaved, AgesAgree, TimeCovered

LEMMA DelayInvStep == DelayInv /\ [SensorNext]_vars => DelayInv'
  <1> SUFFICES ASSUME DelayInv, [SensorNext]_vars PROVE DelayInv'
    OBVIOUS
  <1>1. CASE ShutdownEnvironment
    BY <1>1, EnvironmentKeeps
  <1>2. CASE Start
    BY <1>2, StartKeeps
  <1>3. CASE Receive
    BY <1>3, ReceiveKeeps
  <1>4. ASSUME NEW a \in ShutdownAlarm, Expire(a) PROVE DelayInv'
    BY <1>4, ExpireKeeps
  <1>5. CASE Dies
    BY <1>5, DiesKeeps
  <1>6. CASE Time
    BY <1>6, TickKeeps, ClockKeeps, ForwardKeeps DEF Time
  <1>7. CASE UNCHANGED vars
    <2>1. UNCHANGED <<alive, known, timers, expired, saved, since, requested>>
      BY <1>7 DEF vars, busVars, shutdownVars
    <2>2. requested' \in SUBSET ShutdownAlarm /\ known' \in SUBSET ShutdownAlarm
      BY <2>1 DEF DelayInv, Timed
    <2> QED
      BY <2>1, <2>2, SameDelays
  <1> QED
    BY <1>1, <1>2, <1>3, <1>4, <1>5, <1>6, <1>7 DEF SensorNext

THEOREM DelayInvariant == SensorSpec => []DelayInv
  BY DelayInvInit, DelayInvStep, PTL DEF SensorSpec

\* While the daemon runs, the saved timestamps are those of the running timers
\* (checkAlarm(), powerStateChanged(), timerExpired(), add(), erase(), prune(),
\* clear()).
THEOREM TimersAreStamped == SensorSpec => []StampedWhileRunning
  <1>1. DelayInv => StampedWhileRunning
    BY DEF DelayInv, TimersSaved, StampedWhileRunning
  <1> QED
    BY <1>1, DelayInvariant, PTL

\* The time that passed, by the timer and by the timestamp.
PassedTyped ==
    /\ IsTimed(passed)
    /\ DOMAIN passed = DOMAIN saved
    /\ setBack \subseteq DOMAIN saved

\* Unless the clock was set back, a timestamp is at least as old as the time
\* that passed.
PassedSaved ==
    \A a \in DOMAIN saved :
      /\ passed[a] <= Delay[a]
      /\ a \notin setBack => saved[a] >= MinAge + passed[a]

PassedInv == PassedTyped /\ PassedSaved /\ DelayNotProlonged

LEMMA PassedStamps ==
    ASSUME Timed, PassedTyped, PassedSaved,
           NEW D \in SUBSET ShutdownAlarm, Timestamps(D)
    PROVE  /\ PassedTyped' /\ PassedSaved'
           /\ DOMAIN saved' = D
           /\ setBack' = setBack \cap D
           /\ \A a \in D \cap DOMAIN saved : passed'[a] = passed[a]
           /\ \A a \in D \ DOMAIN saved : passed'[a] = 0
  <1>1. /\ DOMAIN saved' = D /\ DOMAIN passed' = D
        /\ setBack' = setBack \cap D
    BY DEF Timestamps
  <1>2. \A a \in D : a \in DOMAIN saved => saved[a] \in Nat /\ passed[a] \in Nat
    BY DEF Timed, IsTimed, PassedTyped
  <1>3. \A a \in D \cap DOMAIN saved : saved'[a] = saved[a] /\ passed'[a] = passed[a]
    BY DEF Timestamps, PassedTyped
  <1>4. \A a \in D \ DOMAIN saved : saved'[a] = MinAge /\ passed'[a] = 0
    BY DEF Timestamps, PassedTyped
  <1>5. passed' \in [D -> Nat]
    BY <1>1, <1>2, <1>3, <1>4 DEF Timestamps, PassedTyped
  <1>6. PassedTyped'
    BY <1>1, <1>5 DEF PassedTyped, IsTimed
  <1>7. PassedSaved'
    <2> SUFFICES ASSUME NEW a \in D
                 PROVE  /\ passed'[a] <= Delay[a]
                        /\ a \notin setBack' => saved'[a] >= MinAge + passed'[a]
      BY <1>1 DEF PassedSaved
    <2>1. CASE a \in DOMAIN saved
      BY <1>1, <1>3, <2>1 DEF PassedSaved
    <2>2. CASE a \notin DOMAIN saved
      <3>1. Delay[a] \in Nat /\ MinAge \in Nat
        OBVIOUS
      <3> QED
        BY <1>4, <2>2, <3>1
    <2> QED
      BY <2>1, <2>2
  <1> QED
    BY <1>1, <1>3, <1>4, <1>6, <1>7

\* Timers that begin or go on last no longer than what is missing.
LEMMA PassedTimers ==
    ASSUME DelayInv, PassedInv, DOMAIN timers \subseteq DOMAIN saved,
           NEW D \in SUBSET ShutdownAlarm, Timestamps(D),
           DOMAIN timers' \subseteq D,
           \A a \in DOMAIN timers' :
             \/ timers'[a] = TimeLeft(a)
             \/ a \in DOMAIN timers /\ timers'[a] = timers[a]
    PROVE  PassedInv'
  <1>1. Timed /\ PassedTyped /\ PassedSaved
    BY DEF DelayInv, PassedInv
  <1>2. /\ PassedTyped' /\ PassedSaved'
        /\ setBack' = setBack \cap D
        /\ \A a \in D \cap DOMAIN saved : passed'[a] = passed[a]
        /\ \A a \in D \ DOMAIN saved : passed'[a] = 0
    BY <1>1, PassedStamps
  <1>3. ASSUME NEW a \in DOMAIN timers', a \notin setBack'
        PROVE  timers'[a] + passed'[a] <= Delay[a]
    <2>1. a \in D /\ a \in ShutdownAlarm /\ a \notin setBack
      BY <1>2, <1>3
    <2>2. Delay[a] \in Nat /\ MinAge \in Nat
      BY <2>1
    <2>3. CASE timers'[a] = TimeLeft(a)
      <3>1. CASE a \in DOMAIN saved
        <4>1. /\ saved[a] \in Nat /\ passed[a] \in Nat
              /\ passed'[a] = passed[a]
              /\ passed[a] <= Delay[a]
              /\ saved[a] >= MinAge + passed[a]
          BY <1>1, <1>2, <2>1, <3>1 DEF Timed, IsTimed, PassedTyped, PassedSaved
        <4> QED
          BY <2>2, <2>3, <3>1, <4>1 DEF TimeLeft
      <3>2. CASE a \notin DOMAIN saved
        <4>1. passed'[a] = 0
          BY <1>2, <2>1, <3>2
        <4> QED
          BY <2>2, <2>3, <3>2, <4>1 DEF TimeLeft
      <3> QED
        BY <3>1, <3>2
    <2>4. CASE a \in DOMAIN timers /\ timers'[a] = timers[a]
      <3>1. passed'[a] = passed[a]
        BY <1>2, <2>1, <2>4
      <3> QED
        BY <2>1, <2>4, <3>1 DEF PassedInv, DelayNotProlonged
    <2> QED
      BY <1>3, <2>3, <2>4
  <1> QED
    BY <1>2, <1>3 DEF PassedInv, DelayNotProlonged

\* Time, and a clock that is set.
LEMMA PassedTime ==
    ASSUME DelayInv, PassedInv, Time
    PROVE  PassedInv'
  <1>1. /\ DOMAIN timers' = DOMAIN timers
        /\ DOMAIN saved' = DOMAIN saved
        /\ DOMAIN passed' = DOMAIN passed
        /\ setBack \subseteq setBack'
        /\ setBack' \subseteq DOMAIN saved
        /\ passed' = [a \in DOMAIN passed' |-> passed'[a]]
    <2>1. CASE Tick
      BY <2>1 DEF Tick, Longer, PassedInv, PassedTyped
    <2>2. CASE ClockSetBack \/ ClockSetForward
      <3>1. /\ UNCHANGED <<timers, passed>>
            /\ DOMAIN saved' = DOMAIN saved
            /\ setBack' \in {setBack, DOMAIN saved}
        BY <2>2 DEF ClockSetBack, ClockSetForward, Longer
      <3>2. passed = [a \in DOMAIN passed |-> passed[a]] /\ setBack \subseteq DOMAIN saved
        BY DEF PassedInv, PassedTyped, IsTimed
      <3> QED
        BY <3>1, <3>2
    <2> QED
      BY <2>1, <2>2 DEF Time
  <1>2. ASSUME NEW a \in DOMAIN saved
        PROVE  /\ a \in ShutdownAlarm /\ saved[a] \in Nat /\ passed[a] \in Nat
               /\ Delay[a] \in Nat /\ MinAge \in Nat
    BY DEF DelayInv, Timed, IsTimed, PassedInv, PassedTyped
  <1>3. ASSUME NEW a \in DOMAIN timers
        PROVE  a \in DOMAIN saved /\ timers[a] \in Nat
    BY DEF DelayInv, Timed, IsTimed, TimersSaved
  <1>4. CASE Tick
    <2>1. \A a \in DOMAIN saved :
            /\ passed'[a] = IF passed[a] < Delay[a] THEN passed[a] + 1 ELSE passed[a]
            /\ saved'[a] = IF saved[a] < MinAge + Delay[a] THEN saved[a] + 1 ELSE saved[a]
      BY <1>2, <1>4 DEF Tick, Longer, PassedInv, PassedTyped
    <2>2. \A a \in DOMAIN timers : timers'[a] = IF timers[a] = 0 THEN 0 ELSE timers[a] - 1
      BY <1>4 DEF Tick
    <2>3. setBack' = setBack
      BY <1>4 DEF Tick
    <2>4. PassedTyped'
      BY <1>1, <1>2, <2>1 DEF PassedInv, PassedTyped, IsTimed
    <2>5. PassedSaved'
      BY <1>1, <1>2, <2>1, <2>3 DEF PassedInv, PassedSaved
    <2>6. DelayNotProlonged'
      <3> SUFFICES ASSUME NEW a \in DOMAIN timers, a \notin setBack
                   PROVE  timers'[a] + passed'[a] <= Delay[a]
        BY <1>1, <2>3 DEF DelayNotProlonged
      <3>1. timers[a] + passed[a] <= Delay[a] /\ passed[a] <= Delay[a]
        BY <1>3 DEF PassedInv, DelayNotProlonged, PassedSaved
      <3> QED
        BY <1>2, <1>3, <2>1, <2>2, <3>1
    <2> QED
      BY <2>4, <2>5, <2>6 DEF PassedInv
  <1>5. CASE ClockSetBack
    <2>1. UNCHANGED <<timers, passed>> /\ setBack' = DOMAIN saved
      BY <1>5 DEF ClockSetBack
    <2> QED
      BY <1>1, <1>3, <2>1 DEF PassedInv, PassedTyped, PassedSaved, DelayNotProlonged
  <1>6. CASE ClockSetForward
    <2>1. UNCHANGED <<timers, passed, setBack>>
      BY <1>6 DEF ClockSetForward
    <2>2. \A a \in DOMAIN saved : saved'[a] \in {saved[a], saved[a] + 1}
      BY <1>6 DEF ClockSetForward, Longer
    <2>3. PassedSaved'
      BY <1>1, <1>2, <2>1, <2>2 DEF PassedInv, PassedSaved
    <2> QED
      BY <1>1, <2>1, <2>3 DEF PassedInv, PassedTyped, DelayNotProlonged
  <1> QED
    BY <1>4, <1>5, <1>6 DEF Time

\* A step that only takes timers away.
LEMMA PassedLess ==
    ASSUME DelayInv, PassedInv, DOMAIN timers' = {},
           UNCHANGED <<saved, passed, setBack>>
             \/ \E D \in SUBSET ShutdownAlarm : Timestamps(D)
    PROVE  PassedInv'
  <1>1. CASE UNCHANGED <<saved, passed, setBack>>
    BY <1>1 DEF PassedInv, PassedTyped, PassedSaved, DelayNotProlonged
  <1>2. ASSUME NEW D \in SUBSET ShutdownAlarm, Timestamps(D)
        PROVE  PassedInv'
    BY <1>2, PassedStamps DEF DelayInv, PassedInv, DelayNotProlonged
  <1> QED
    BY <1>1, <1>2

LEMMA PassedStep ==
    ASSUME DelayInv, PassedInv, [SensorNext]_vars
    PROVE  PassedInv'
  <1>1. ASSUME UNCHANGED <<timers, saved, passed, setBack>> PROVE PassedInv'
    BY <1>1 DEF PassedInv, PassedTyped, PassedSaved, DelayNotProlonged
  <1>2. CASE ShutdownEnvironment
    BY <1>1, <1>2 DEF ShutdownEnvironment
  <1>3. CASE Start
    <2> DEFINE start == {a \in ShutdownAlarm : a \in OnBus /\ a \in asserted /\ PowerRead}
    <2>1. /\ ~alive
          /\ timers' = [a \in start |-> TimeLeft(a)]
          /\ Timestamps(start)
      BY <1>3 DEF Start, StartBus, MonitorStarts
    <2>2. DOMAIN timers = {}
      BY <2>1 DEF DelayInv, TimersSaved
    <2>3. start \in SUBSET ShutdownAlarm
      OBVIOUS
    <2> HIDE DEF start
    <2> QED
      BY <2>1, <2>2, <2>3, PassedTimers
  <1>4. ASSUME alive, NEW read \in SUBSET ShutdownAlarm, NEW on, CheckAlarms(read, on)
        PROVE  PassedInv'
    <2> DEFINE start == Started(read, on)
               stop  == Stopped(read, on)
               D == (DOMAIN saved \cup start) \ stop
    <2>1. DOMAIN timers = DOMAIN saved
      BY <1>4 DEF DelayInv, TimersSaved
    <2>2. D \in SUBSET ShutdownAlarm
      BY DEF Started, DelayInv, Timed, IsTimed
    <2>3. /\ Timestamps(D)
          /\ timers' = [a \in (DOMAIN timers \cup start) \ stop |->
                          IF a \in start THEN TimeLeft(a) ELSE timers[a]]
      BY <1>4 DEF CheckAlarms
    <2>4. DOMAIN timers' = D
      BY <2>1, <2>3
    <2>5. \A a \in DOMAIN timers' :
             \/ timers'[a] = TimeLeft(a)
             \/ a \in DOMAIN timers /\ timers'[a] = timers[a]
      BY <2>3
    <2> HIDE DEF start, stop, D
    <2> QED
      BY <2>1, <2>2, <2>3, <2>4, <2>5, PassedTimers
  <1>5. CASE Receive
    <2>1. PICK m \in Signal : Deliver(m) /\ ShutdownHandles(m)
      BY <1>5 DEF Receive
    <2>2. alive
      BY <2>1 DEF Deliver
    <2>3. CASE PowerOnAlarms
      <3>1. known \cap OnBus \in SUBSET ShutdownAlarm
        BY DEF DelayInv, Timed
      <3> QED
        BY <1>4, <2>2, <2>3, <3>1 DEF PowerOnAlarms
    <2>4. CASE PowerOffAlarms
      <3>1. DOMAIN timers' = {} /\ Timestamps({}) /\ {} \in SUBSET ShutdownAlarm
        BY <2>4 DEF PowerOffAlarms
      <3> QED
        BY <3>1, PassedLess
    <2>5. CASE IsShutdownSignal(m) /\ AlarmChanged(m)
      BY <1>4, <2>2, <2>5 DEF AlarmChanged, IsShutdownSignal
    <2>6. CASE UNCHANGED shutdownVars
      BY <1>1, <2>6 DEF shutdownVars
    <2> QED
      BY <2>1, <2>3, <2>4, <2>5, <2>6 DEF ShutdownHandles
  <1>6. ASSUME NEW a \in ShutdownAlarm, Expire(a) PROVE PassedInv'
    <2>1. CASE alive /\ TimerExpires(a)
      <3>1. DOMAIN timers = DOMAIN saved
        BY <2>1 DEF DelayInv, TimersSaved
      <3> DEFINE D == DOMAIN saved \ {a}
      <3>2. D \in SUBSET ShutdownAlarm
        BY DEF DelayInv, Timed, IsTimed
      <3>3. Timestamps(D) /\ timers' = [b \in DOMAIN timers \ {a} |-> timers[b]]
        BY <2>1 DEF TimerExpires
      <3>4. DOMAIN timers' = D
        BY <3>1, <3>3
      <3>5. \A b \in DOMAIN timers' : b \in DOMAIN timers /\ timers'[b] = timers[b]
        BY <3>3
      <3> HIDE DEF D
      <3> QED
        BY <3>1, <3>2, <3>3, <3>4, <3>5, PassedTimers
    <2>2. CASE DiesExpiring(a)
      <3>1. DOMAIN timers' = {}
        BY <2>2 DEF DiesExpiring, MemoryLost
      <3>2. PICK D \in {DOMAIN saved, {}} : Timestamps(D)
        BY <2>2 DEF DiesExpiring
      <3>3. D \in SUBSET ShutdownAlarm
        BY <3>2 DEF DelayInv, Timed, IsTimed
      <3> QED
        BY <3>1, <3>2, <3>3, PassedLess
    <2> QED
      BY <1>6, <2>1, <2>2 DEF Expire
  <1>7. CASE Dies
    <2>1. DOMAIN timers' = {}
      BY <1>7 DEF Dies, DiesIdle, DiesChecking, MemoryLost
    <2>2. \/ UNCHANGED <<saved, passed, setBack>>
          \/ \E D \in SUBSET ShutdownAlarm : Timestamps(D)
      BY <1>7 DEF Dies, DiesIdle, DiesChecking
    <2> QED
      BY <2>1, <2>2, PassedLess
  <1>8. CASE Time
    BY <1>8, PassedTime
  <1>9. CASE UNCHANGED vars
    BY <1>1, <1>9 DEF vars, shutdownVars
  <1> QED
    BY <1>2, <1>3, <1>5, <1>6, <1>7, <1>8, <1>9 DEF SensorNext

LEMMA PassedInvariant == SensorSpec => []PassedInv
  <1>1. SensorInit => PassedInv
    BY DEF SensorInit, InitShutdown, PassedInv, PassedTyped, PassedSaved,
           DelayNotProlonged, IsTimed
  <1> QED
    BY <1>1, PassedStep, DelayInvariant, PTL DEF SensorSpec

\* A delay that is continued over restarts lasts no longer than what is missing
\* of it, unless the clock was set back (startTimer()).
THEOREM DelayContinues == SensorSpec => []DelayNotProlonged
  <1>1. PassedInv => DelayNotProlonged
    BY DEF PassedInv
  <1> QED
    BY <1>1, PassedInvariant, PTL

-----------------------------------------------------------------------------
(* The refinement.                                                         *)

\* A change of the timestamps begins, continues or ends delays.
LEMMA StampsRefine ==
    ASSUME NEW D \in SUBSET ShutdownAlarm, Timestamps(D), UNCHANGED requested
    PROVE  DelayPromise!DelayNext
  BY DEF Timestamps, DelayPromise!DelayNext, DelayPromise!BeginOrEnd, DelayPromise!Continue

\* A timer that expires has covered its delay.
LEMMA ExpireRefines ==
    ASSUME DelayInv, NEW a \in ShutdownAlarm, Expire(a)
    PROVE  DelayPromise!DelayNext
  <1>1. a \in DOMAIN timers /\ timers[a] = 0
    BY DEF Expire, TimerExpires, DiesExpiring
  <1>2. a \in DOMAIN since /\ since[a] >= Delay[a] /\ DOMAIN since = DOMAIN saved
    <2>1. a \in DOMAIN saved /\ DOMAIN since = DOMAIN saved
      BY <1>1 DEF DelayInv, TimersSaved, SavedTogether
    <2>2. since[a] \in Nat /\ Delay[a] \in Nat
      BY <2>1 DEF DelayInv, Timed, IsTimed
    <2> QED
      BY <1>1, <2>1, <2>2 DEF DelayInv, TimeCovered
  <1>3. PICK D \in SUBSET DOMAIN since : Timestamps(D)
    BY <1>2 DEF Expire, TimerExpires, DiesExpiring
  <1>4. DelayPromise!Continue(D) /\ DOMAIN since \in SUBSET ShutdownAlarm
    BY <1>3 DEF Timestamps, DelayPromise!Continue, DelayInv, Timed, IsTimed
  <1>5. CASE requested' = requested \cup {a}
    BY <1>2, <1>4, <1>5 DEF DelayPromise!DelayNext, DelayPromise!ShutDown
  <1>6. CASE requested' = requested
    BY <1>4, <1>6 DEF DelayPromise!DelayNext, DelayPromise!BeginOrEnd
  <1> QED
    BY <1>5, <1>6 DEF Expire, TimerExpires, DiesExpiring

LEMMA StepRefines ==
    DelayInv /\ [SensorNext]_vars => [DelayPromise!DelayNext]_<<since, requested>>
  <1> SUFFICES ASSUME DelayInv, [SensorNext]_vars
               PROVE  DelayPromise!DelayNext \/ UNCHANGED <<since, requested>>
    OBVIOUS
  <1>1. CASE ShutdownEnvironment
    BY <1>1 DEF ShutdownEnvironment, DelayPromise!DelayNext, DelayPromise!PoweredOff
  <1>2. CASE Start
    <2>1. /\ Timestamps({a \in ShutdownAlarm : a \in OnBus /\ a \in asserted /\ PowerRead})
          /\ UNCHANGED requested
      BY <1>2 DEF Start, MonitorStarts
    <2> QED
      BY <2>1, StampsRefine
  <1>3. CASE Receive
    BY <1>3, ReceiveKeeps, StampsRefine
  <1>4. ASSUME NEW a \in ShutdownAlarm, Expire(a) PROVE DelayPromise!DelayNext
    BY <1>4, ExpireRefines
  <1>5. CASE Dies
    BY <1>5, DiesKeeps, StampsRefine
  <1>6. CASE Time
    <2>1. CASE ClockSetBack
      BY <2>1 DEF ClockSetBack
    <2>2. CASE Tick \/ ClockSetForward
      <3>1. /\ since' = [a \in DOMAIN since |-> IF since[a] < 0 + Delay[a]
                                              THEN since[a] + 1 ELSE since[a]]
            /\ UNCHANGED requested
        BY <2>2 DEF Tick, ClockSetForward, Longer
      <3>2. \A a \in DOMAIN since : 0 + Delay[a] = Delay[a]
        BY DEF DelayInv, Timed, IsTimed
      <3>3. since' = [a \in DOMAIN since |-> IF since[a] < Delay[a]
                                           THEN since[a] + 1 ELSE since[a]]
        BY <3>1, <3>2
      <3> QED
        BY <3>1, <3>3 DEF DelayPromise!DelayNext, DelayPromise!TimePasses
    <2> QED
      BY <1>6, <2>1, <2>2 DEF Time
  <1>7. CASE UNCHANGED vars
    BY <1>7 DEF vars, shutdownVars
  <1> QED
    BY <1>1, <1>2, <1>3, <1>4, <1>5, <1>6, <1>7 DEF SensorNext

\* The monitor implements the promise of ShutdownDelay: through restarts, files
\* that are cut off and clocks that are set back, no shutdown is requested
\* before its delay has passed, where a clock that is set forward counts as time
\* that passes (startTimer(), timerExpired()).
THEOREM DelayIsKept == SensorSpec => DelayKept
  <1>1. SensorInit => DelayPromise!DelayInit
    BY DEF SensorInit, InitShutdown, DelayPromise!DelayInit
  <1>2. DelayInv /\ [SensorNext]_vars => [DelayPromise!DelayNext]_(DelayPromise!delayVars)
    BY StepRefines DEF DelayPromise!delayVars
  <1> QED
    BY <1>1, <1>2, DelayInvariant, PTL DEF SensorSpec, DelayKept, DelayPromise!DelaySpec

-----------------------------------------------------------------------------
(* Power, and what the logger reports.                                     *)

\* Without power no timer exists (powerStateChanged(), propertiesChanged()).
THEOREM QuietWhenOff == SensorSpec => []NoTimerWithoutPower
  <1>1. SensorInit => NoTimerWithoutPower
    BY DEF SensorInit, InitShutdown, NoTimerWithoutPower, HasTimer
  <1>2. ASSUME NoTimerWithoutPower, [SensorNext]_vars
        PROVE  NoTimerWithoutPower'
    <2> USE DEF NoTimerWithoutPower, HasTimer
    <2>1. CASE ShutdownEnvironment
      BY <1>2, <2>1 DEF ShutdownEnvironment, Environment, SetPower, PgoodServiceStarts,
                        ChangeAlarm, AddSensor, RemoveSensor
    <2>2. CASE Start
      BY <2>2 DEF Start, StartBus, MonitorStarts
    <2>3. CASE Receive
      <3>1. PICK m \in Signal : Deliver(m) /\ ShutdownHandles(m)
        BY <2>3 DEF Receive
      <3>2. powerOn' = IF m.kind = "power" THEN m.on ELSE powerOn
        BY <3>1 DEF Deliver
      <3>3. CASE PowerChanges(m) /\ m.on
        BY <3>2, <3>3 DEF PowerChanges
      <3>4. CASE PowerOffAlarms
        BY <3>4 DEF PowerOffAlarms
      <3>5. CASE IsShutdownSignal(m)
        BY <3>2, <3>5 DEF IsShutdownSignal
      <3>6. CASE ~PowerChanges(m) /\ UNCHANGED shutdownVars
        BY <1>2, <3>2, <3>6 DEF PowerChanges, shutdownVars
      <3> QED
        BY <3>1, <3>3, <3>4, <3>5, <3>6 DEF ShutdownHandles
    <2>4. ASSUME NEW a \in ShutdownAlarm, Expire(a) PROVE NoTimerWithoutPower'
      <3>1. CASE alive /\ TimerExpires(a) /\ UNCHANGED <<busVars, thresholdVars>>
        BY <1>2, <3>1 DEF TimerExpires, busVars
      <3>2. CASE DiesExpiring(a)
        BY <3>2 DEF DiesExpiring, MemoryLost
      <3> QED
        BY <2>4, <3>1, <3>2 DEF Expire
    <2>5. CASE Dies
      BY <2>5 DEF Dies, DiesIdle, DiesChecking, MemoryLost
    <2>6. CASE Time
      BY <1>2, <2>6 DEF Time, Tick, ClockSetBack, ClockSetForward, busVars
    <2>7. CASE UNCHANGED vars
      BY <1>2, <2>7 DEF vars, busVars, shutdownVars
    <2> QED
      BY <1>2, <2>1, <2>2, <2>3, <2>4, <2>5, <2>6, <2>7 DEF SensorNext
  <1> QED
    BY <1>1, <1>2, PTL DEF SensorSpec

\* What is cached as set has been reported set, when it may be reported.
Reported ==
    /\ lastLog \in [ThresholdAlarm -> {"none", "set", "clear"}]
    /\ DOMAIN cached \subseteq ThresholdAlarm
    /\ powerOn \/ SkipPowerChecking =>
         \A a \in DOMAIN cached : cached[a] /\ a \notin NotLogged => lastLog[a] = "set"

LEMMA CheckReports ==
    ASSUME Reported, NEW D, NEW on, D \subseteq ThresholdAlarm,
           powerOn' = powerOn, CheckProperties(D, on)
    PROVE  /\ Reported'
           /\ \A a \in ThresholdAlarm :
                lastLog'[a] = "clear" => lastLog[a] \in {"set", "clear"}
  <1> DEFINE new == {a \in D : (a \in on) # Was(a)}
  <1>1. /\ DOMAIN cached' = D \cup DOMAIN cached
        /\ \A a \in D : cached'[a] = (a \in on)
        /\ \A a \in DOMAIN cached \ D : cached'[a] = cached[a]
    BY DEF CheckProperties
  <1>2. CASE powerOn \/ SkipPowerChecking
    <2>1. lastLog' = Log(lastLog, new \cap on, new \ on)
      BY <1>2 DEF CheckProperties
    <2> HIDE DEF new
    <2>2. \A a \in ThresholdAlarm :
            lastLog'[a] = IF a \in (new \cap on) \ NotLogged THEN "set"
                          ELSE IF a \in (new \ on) \ NotLogged THEN "clear" ELSE lastLog[a]
      BY <2>1 DEF Log
    <2>3. lastLog' \in [ThresholdAlarm -> {"none", "set", "clear"}]
      BY <2>1 DEF Log, Reported
    <2>4. ASSUME NEW a \in DOMAIN cached', cached'[a], a \notin NotLogged
          PROVE  lastLog'[a] = "set"
      <3>1. CASE a \in D
        <4>1. a \in on /\ a \in ThresholdAlarm
          BY <1>1, <2>4, <3>1
        <4>2. CASE a \in new
          BY <2>2, <2>4, <4>1, <4>2
        <4>3. CASE a \notin new
          BY <1>2, <2>2, <2>4, <3>1, <4>1, <4>3 DEF new, Was, Reported
        <4> QED
          BY <4>2, <4>3
      <3>2. CASE a \notin D
        BY <1>1, <1>2, <2>2, <2>4, <3>2 DEF Reported, new
      <3> QED
        BY <3>1, <3>2
    <2>5. ASSUME NEW a \in ThresholdAlarm, lastLog'[a] = "clear", lastLog[a] # "clear"
          PROVE  lastLog[a] = "set"
      <3>1. a \in new /\ a \notin on /\ a \notin NotLogged
        BY <2>2, <2>5
      <3>2. Was(a)
        <4>1. (a \in on) # Was(a) /\ Was(a) \in BOOLEAN
          BY <3>1 DEF new, Was
        <4> QED
          BY <3>1, <4>1
      <3> QED
        BY <1>2, <3>1, <3>2 DEF Was, Reported
    <2> QED
      BY <1>1, <2>3, <2>4, <2>5 DEF Reported
  <1>3. CASE ~(powerOn \/ SkipPowerChecking)
    BY <1>1, <1>3 DEF CheckProperties, Reported
  <1> QED
    BY <1>2, <1>3

LEMMA ReportedStep ==
    ASSUME Reported, [SensorNext]_vars
    PROVE  /\ Reported'
           /\ \A a \in ThresholdAlarm :
                lastLog'[a] = "clear" => lastLog[a] \in {"set", "clear"}
  <1>1. ASSUME UNCHANGED <<powerOn, cached, lastLog>>
        PROVE  /\ Reported'
               /\ \A a \in ThresholdAlarm :
                    lastLog'[a] = "clear" => lastLog[a] \in {"set", "clear"}
    BY <1>1 DEF Reported
  <1>2. CASE ShutdownEnvironment /\ UNCHANGED thresholdVars
    BY <1>1, <1>2 DEF ShutdownEnvironment, Environment, SetPower, PgoodServiceStarts,
                      ChangeAlarm, AddSensor, RemoveSensor, thresholdVars
  <1>3. CASE Start
    BY <1>3 DEF Start, StartBus, LoggerStarts, Log, Reported
  <1>4. CASE Receive
    <2>1. PICK m \in Signal : Deliver(m) /\ ThresholdHandles(m)
      BY <1>4 DEF Receive
    <2>2. powerOn' = IF m.kind = "power" THEN m.on ELSE powerOn
      BY <2>1 DEF Deliver
    <2>3. CASE PowerChanges(m) /\ m.on /\ ThresholdPowerOn
      BY <2>3 DEF ThresholdPowerOn, Log, Reported
    <2>4. CASE m.kind = "changed" /\ IsThresholdSignal(m) /\ PropertiesChanged(m)
      <3>1. {m.alarm} \subseteq ThresholdAlarm /\ powerOn' = powerOn
        BY <2>2, <2>4 DEF IsThresholdSignal
      <3> QED
        BY <2>4, <3>1, CheckReports DEF PropertiesChanged
    <2>5. CASE m.kind = "added" /\ InterfacesAdded(m)
      <3>1. powerOn' = powerOn
        BY <2>2, <2>5
      <3> QED
        BY <2>5, <3>1, CheckReports DEF InterfacesAdded
    <2>6. CASE m.kind = "removed" /\ InterfacesRemoved(m)
      BY <2>2, <2>6 DEF InterfacesRemoved, Reported
    <2>7. CASE ~(PowerChanges(m) /\ m.on) /\ UNCHANGED thresholdVars
      BY <2>2, <2>7 DEF PowerChanges, thresholdVars, Reported
    <2> QED
      BY <2>1, <2>3, <2>4, <2>5, <2>6, <2>7 DEF ThresholdHandles
  <1>5. ASSUME NEW a \in ShutdownAlarm, Expire(a)
        PROVE  /\ Reported'
               /\ \A b \in ThresholdAlarm :
                    lastLog'[b] = "clear" => lastLog[b] \in {"set", "clear"}
    BY <1>1, <1>5 DEF Expire, LoggerDies, busVars, thresholdVars, Reported
  <1>6. CASE Dies
    BY <1>6 DEF Dies, LoggerDies, Reported
  <1>7. CASE Time
    BY <1>1, <1>7 DEF Time, busVars, thresholdVars
  <1>8. CASE UNCHANGED vars
    BY <1>1, <1>8 DEF vars, busVars, thresholdVars
  <1> QED
    BY <1>2, <1>3, <1>4, <1>5, <1>6, <1>7, <1>8 DEF SensorNext

\* No alarm is reported clear that was not reported set before, over power
\* changes, removed sensors and restarts (checkProperties(), checkThresholds()).
THEOREM ClearsFollowSets == SensorSpec => ClearAfterSet
  <1>1. SensorInit => Reported
    BY DEF SensorInit, InitThreshold, InitBus, Reported
  <1>2. Reported /\ [SensorNext]_vars => Reported'
    BY ReportedStep
  <1>3. Reported /\ [SensorNext]_vars =>
          [\A a \in ThresholdAlarm :
             lastLog'[a] = "clear" => lastLog[a] \in {"set", "clear"}]_lastLog
    BY ReportedStep
  <1> QED
    BY <1>1, <1>2, <1>3, PTL DEF SensorSpec, ClearAfterSet

-----------------------------------------------------------------------------
(* What the logger remembers.                                              *)

\* The signals about an alarm, and those that tell how it is now.
About(a) ==
    {m \in Signal : \/ m.kind = "changed" /\ m.alarm = a
                    \/ m.kind \in {"added", "removed"} /\ m.iface = IfaceOf[a]}
TellsNow(a) ==
    {m \in Signal : \/ m.kind = "changed" /\ m.on = (a \in asserted)
                    \/ m.kind = "added" /\ (a \in m.set) = (a \in asserted)}

BusInv ==
    /\ SensorBusTypeOK
    /\ asserted \subseteq OnBus
    /\ ~alive => inbox = <<>>

\* An alarm on D-Bus is known as it is, or a signal that tells so waits.
Remembered(a) ==
    /\ LastTells(inbox, About(a), TellsNow(a))
    /\ Waits(inbox, About(a)) \/ (a \in DOMAIN cached /\ cached[a] = (a \in asserted))

CacheInv ==
    /\ ThresholdTypeOK
    /\ alive => \A a \in ThresholdAlarm \cap OnBus : Remembered(a)

\* A signal is of one kind.
LEMMA SignalKinds ==
    ASSUME NEW m \in Signal
    PROVE  /\ m.kind \in {"power", "changed", "added", "removed"}
           /\ m.kind = "power" => m.on \in BOOLEAN
           /\ m.kind = "changed" => m.alarm \in Alarm /\ m.on \in BOOLEAN
           /\ m.kind = "added" => m.iface \in Iface /\ m.set \in SUBSET Alarm
           /\ m.kind = "removed" => m.iface \in Iface
  BY DEF Signal, PowerSignal, PropertiesSignal, AddedSignal, RemovedSignal

\* A signal is sent, or nobody listens.
LEMMA SendKeeps ==
    ASSUME inbox \in Seq(Signal), ~alive => inbox = <<>>, NEW m \in Signal, Send(m)
    PROVE  /\ inbox' \in Seq(Signal)
           /\ alive => inbox' = Append(inbox, m)
           /\ ~alive => inbox' = <<>>
  BY AppendProperties DEF Send

\* The change that a signal tells of is remembered or waits, and those of
\* other alarms are as they were.
LEMMA ToldOrSame ==
    ASSUME inbox \in Seq(Signal), NEW m \in Signal, inbox' = Append(inbox, m),
           NEW a \in Alarm, cached' = cached,
           m \in About(a) => m \in TellsNow(a)',
           m \notin About(a) => Remembered(a) /\ (a \in asserted') = (a \in asserted)
    PROVE  Remembered(a)'
  <1>1. Waits(inbox', About(a)) <=> Waits(inbox, About(a)) \/ m \in About(a)
    BY AppendWaits
  <1>2. CASE m \in About(a)
    BY <1>1, <1>2, AppendTells DEF Remembered, About
  <1>3. CASE m \notin About(a)
    <2>1. TellsNow(a)' = TellsNow(a)
      BY <1>3 DEF TellsNow
    <2>2. LastTells(inbox', About(a), TellsNow(a))
      BY <1>3, AppendTells DEF Remembered
    <2> QED
      BY <1>1, <1>3, <2>1, <2>2 DEF Remembered, About
  <1> QED
    BY <1>2, <1>3

\* What changes on D-Bus is announced, unless it is gone.
LEMMA EnvironmentRemembers ==
    ASSUME BusInv, CacheInv, Environment, UNCHANGED <<cached, lastLog>>
    PROVE  BusInv' /\ CacheInv'
  <1> USE DEF BusInv, SensorBusTypeOK
  <1>0. ThresholdTypeOK'
    BY DEF CacheInv, ThresholdTypeOK
  <1>1. CASE SetPower
    <2> DEFINE m == [kind |-> "power", on |-> ~pgood]
    <2>1. m \in Signal /\ Send(m) /\ UNCHANGED <<alive, powerOn, pgoodUp, present, asserted>>
      BY <1>1 DEF SetPower, Signal, PowerSignal
    <2>2. BusInv'
      BY <1>1, <2>1, SendKeeps DEF SetPower, OnBus
    <2>3. ASSUME alive', NEW a \in ThresholdAlarm \cap OnBus' PROVE Remembered(a)'
      <3>1. m \notin About(a) /\ inbox' = Append(inbox, m) /\ Remembered(a)
        BY <2>1, <2>3, SendKeeps DEF About, CacheInv, OnBus
      <3> HIDE DEF m
      <3> QED
        BY <2>1, <3>1, ToldOrSame
    <2> QED
      BY <1>0, <2>2, <2>3 DEF CacheInv
  <1>2. CASE PgoodServiceStarts
    <2> DEFINE m == [kind |-> "power", on |-> TRUE]
    <2>1. m \in Signal /\ UNCHANGED <<alive, powerOn, pgood, present, asserted>> /\ pgoodUp'
      BY <1>2 DEF PgoodServiceStarts, Signal, PowerSignal
    <2>2. Send(m) \/ UNCHANGED inbox
      BY <1>2 DEF PgoodServiceStarts
    <2>3. BusInv'
      BY <2>1, <2>2, SendKeeps DEF OnBus
    <2>4. ASSUME alive', NEW a \in ThresholdAlarm \cap OnBus' PROVE Remembered(a)'
      <3>1. m \notin About(a) /\ Remembered(a)
        BY <2>1, <2>4 DEF About, CacheInv, OnBus
      <3>2. CASE Send(m)
        <4>1. inbox' = Append(inbox, m)
          BY <2>1, <2>4, <3>2, SendKeeps
        <4> HIDE DEF m
        <4> QED
          BY <2>1, <3>1, <4>1, ToldOrSame
      <3>3. CASE UNCHANGED inbox
        BY <2>1, <3>1, <3>3 DEF Remembered, About, TellsNow
      <3> QED
        BY <2>2, <3>2, <3>3
    <2> QED
      BY <1>0, <2>3, <2>4 DEF CacheInv
  <1>3. ASSUME NEW c \in Alarm, ChangeAlarm(c) PROVE BusInv' /\ CacheInv'
    <2> DEFINE m == [kind |-> "changed", alarm |-> c, on |-> c \notin asserted]
    <2>1. /\ m \in Signal /\ Send(m) /\ UNCHANGED <<alive, powerOn, pgood, pgoodUp, present>>
          /\ c \in OnBus
          /\ asserted' = IF c \in asserted THEN asserted \ {c} ELSE asserted \cup {c}
      BY <1>3 DEF ChangeAlarm, Signal, PropertiesSignal
    <2>2. BusInv'
      BY <2>1, SendKeeps DEF OnBus
    <2>3. ASSUME alive', NEW a \in ThresholdAlarm \cap OnBus' PROVE Remembered(a)'
      <3>1. inbox' = Append(inbox, m) /\ Remembered(a) /\ a \in Alarm
        BY <2>1, <2>3, SendKeeps DEF CacheInv, OnBus
      <3>2. m \in About(a) => a = c /\ m \in TellsNow(a)'
        BY <2>1 DEF About, TellsNow
      <3>3. m \notin About(a) => (a \in asserted') = (a \in asserted)
        BY <2>1 DEF About
      <3> HIDE DEF m
      <3> QED
        BY <2>1, <3>1, <3>2, <3>3, ToldOrSame
    <2> QED
      BY <1>0, <2>2, <2>3 DEF CacheInv
  <1>4. ASSUME NEW i \in Iface, NEW on \in SUBSET AlarmsOf(i), AddSensor(i, on)
        PROVE  BusInv' /\ CacheInv'
    <2> DEFINE m == [kind |-> "added", iface |-> i, set |-> on]
    <2>1. on \in SUBSET Alarm
      BY DEF AlarmsOf
    <2>2. /\ m \in Signal /\ Send(m) /\ UNCHANGED <<alive, powerOn, pgood, pgoodUp>>
          /\ i \notin present
          /\ present' = present \cup {i}
          /\ asserted' = asserted \cup on
      BY <1>4, <2>1 DEF AddSensor, Signal, AddedSignal
    <2>3. BusInv'
      BY <2>1, <2>2, SendKeeps DEF OnBus, AlarmsOf
    <2>4. ASSUME alive', NEW a \in ThresholdAlarm \cap OnBus' PROVE Remembered(a)'
      <3>1. inbox' = Append(inbox, m) /\ a \in Alarm
        BY <2>2, <2>4, SendKeeps DEF OnBus
      <3>2. m \in About(a) <=> IfaceOf[a] = i
        BY <2>2 DEF About
      <3>3. m \in About(a) => m \in TellsNow(a)'
        BY <2>2, <3>1, <3>2 DEF TellsNow, OnBus
      <3>4. m \notin About(a) => Remembered(a) /\ (a \in asserted') = (a \in asserted)
        BY <2>2, <2>4, <3>2 DEF CacheInv, OnBus, AlarmsOf
      <3> HIDE DEF m
      <3> QED
        BY <2>2, <3>1, <3>3, <3>4, ToldOrSame
    <2> QED
      BY <1>0, <2>3, <2>4 DEF CacheInv
  <1>5. ASSUME NEW i \in Iface, RemoveSensor(i) PROVE BusInv' /\ CacheInv'
    <2> DEFINE m == [kind |-> "removed", iface |-> i]
    <2>1. /\ m \in Signal /\ (Send(m) \/ UNCHANGED inbox)
          /\ UNCHANGED <<alive, powerOn, pgood, pgoodUp>>
          /\ present' = present \ {i}
          /\ asserted' = asserted \ AlarmsOf(i)
      BY <1>5 DEF RemoveSensor, Signal, RemovedSignal
    <2>2. m \in Signal
      BY DEF Signal, RemovedSignal
    <2>3. BusInv'
      BY <2>1, <2>2, SendKeeps DEF OnBus, AlarmsOf
    <2>4. ASSUME alive', NEW a \in ThresholdAlarm \cap OnBus' PROVE Remembered(a)'
      <3>1. /\ a \in Alarm /\ IfaceOf[a] # i /\ Remembered(a)
            /\ (a \in asserted') = (a \in asserted) /\ m \notin About(a)
        BY <2>1, <2>4 DEF OnBus, AlarmsOf, CacheInv, About
      <3>2. CASE Send(m)
        <4>1. inbox' = Append(inbox, m)
          BY <2>1, <2>2, <2>4, <3>2, SendKeeps
        <4> HIDE DEF m
        <4> QED
          BY <2>1, <2>2, <3>1, <4>1, ToldOrSame
      <3>3. CASE UNCHANGED inbox
        BY <2>1, <3>1, <3>3 DEF Remembered, About, TellsNow
      <3> QED
        BY <2>1, <3>2, <3>3
    <2> QED
      BY <1>0, <2>3, <2>4 DEF CacheInv
  <1> QED
    BY <1>1, <1>2, <1>3, <1>4, <1>5 DEF Environment

\* The values that a signal has of some alarms are remembered, the others stay.
LEMMA CheckRemembers ==
    ASSUME ThresholdTypeOK, NEW D \in SUBSET ThresholdAlarm, NEW on, CheckProperties(D, on)
    PROVE  /\ ThresholdTypeOK'
           /\ DOMAIN cached' = D \cup DOMAIN cached
           /\ \A a \in D : cached'[a] = (a \in on)
           /\ \A a \in DOMAIN cached \ D : cached'[a] = cached[a]
  <1>1. PICK C \in SUBSET ThresholdAlarm : cached \in [C -> BOOLEAN]
    BY DEF ThresholdTypeOK
  <1>2. cached' = [a \in D \cup C |-> IF a \in D THEN a \in on ELSE cached[a]]
    BY <1>1 DEF CheckProperties
  <1>3. cached' \in [D \cup C -> BOOLEAN] /\ D \cup C \in SUBSET ThresholdAlarm
    <2>1. \A a \in D \cup C : (IF a \in D THEN a \in on ELSE cached[a]) \in BOOLEAN
      <3>1. \A a \in C : cached[a] \in BOOLEAN
        BY <1>1
      <3>2. \A a \in D : (a \in on) \in BOOLEAN
        OBVIOUS
      <3> QED
        BY <3>1, <3>2
    <2> QED
      BY <1>2, <2>1
  <1>4. lastLog' \in [ThresholdAlarm -> {"none", "set", "clear"}]
    BY DEF CheckProperties, Log, ThresholdTypeOK
  <1> QED
    BY <1>1, <1>2, <1>3, <1>4 DEF ThresholdTypeOK

\* The logger starts with what is on D-Bus, and no signal waits.
LEMMA StartRemembers ==
    ASSUME BusInv, CacheInv, Start
    PROVE  BusInv' /\ CacheInv'
  <1>1. /\ alive' /\ inbox' = <<>> /\ powerOn' = PowerRead
        /\ UNCHANGED <<pgood, pgoodUp, present, asserted>>
        /\ inbox = <<>>
    BY DEF Start, StartBus, BusInv
  <1>2. BusInv'
    BY <1>1 DEF BusInv, SensorBusTypeOK, PowerRead, OnBus
  <1>3. /\ cached' = [a \in ThresholdAlarm \cap OnBus |-> a \in asserted]
        /\ ThresholdTypeOK'
    <2>1. cached' = [a \in ThresholdAlarm \cap OnBus |-> a \in asserted]
      BY DEF Start, LoggerStarts
    <2>2. cached' \in [ThresholdAlarm \cap OnBus -> BOOLEAN]
      BY <2>1
    <2>3. lastLog' \in [ThresholdAlarm -> {"none", "set", "clear"}]
      BY DEF Start, LoggerStarts, Log
    <2> QED
      BY <2>1, <2>2, <2>3 DEF ThresholdTypeOK
  <1>4. ASSUME NEW a \in ThresholdAlarm \cap OnBus' PROVE Remembered(a)'
    <2>1. LastTells(inbox', About(a)', TellsNow(a)')
      BY <1>1, EmptyTells
    <2>2. a \in DOMAIN cached' /\ cached'[a] = (a \in asserted')
      BY <1>1, <1>3 DEF OnBus
    <2> QED
      BY <2>1, <2>2 DEF Remembered
  <1> QED
    BY <1>2, <1>3, <1>4 DEF CacheInv

\* The last signal about an alarm leaves the logger with the alarm as it is.
LEMMA ReceiveRemembers ==
    ASSUME BusInv, CacheInv, Receive
    PROVE  BusInv' /\ CacheInv'
  <1>1. PICK m \in Signal : Deliver(m) /\ ThresholdHandles(m)
    BY DEF Receive
  <1>2. /\ alive /\ inbox # <<>> /\ m = Head(inbox) /\ inbox' = Tail(inbox)
        /\ UNCHANGED <<alive, pgood, pgoodUp, present, asserted>>
    BY <1>1 DEF Deliver
  <1>3. inbox \in Seq(Signal)
    BY DEF BusInv, SensorBusTypeOK
  <1>4. BusInv'
    <2>1. powerOn' \in BOOLEAN
      BY <1>1, SignalKinds DEF Deliver, BusInv, SensorBusTypeOK
    <2>2. inbox' \in Seq(Signal)
      BY <1>2, <1>3, HeadTailProperties
    <2> QED
      BY <1>2, <2>1, <2>2 DEF BusInv, SensorBusTypeOK, OnBus
  <1> DEFINE Learns(a) ==
        /\ m \in About(a) /\ m \in TellsNow(a) =>
             a \in DOMAIN cached' /\ cached'[a] = (a \in asserted)
        /\ m \notin About(a) /\ a \in DOMAIN cached =>
             a \in DOMAIN cached' /\ cached'[a] = cached[a]
  <1>5. ThresholdTypeOK' /\ \A a \in ThresholdAlarm \cap OnBus : Learns(a)
    <2>0. ThresholdTypeOK
      BY DEF CacheInv
    <2>1. CASE PowerChanges(m) /\ m.on /\ ThresholdPowerOn
      <3> DEFINE set == {a \in DOMAIN cached : cached[a]}
                 gone == {IfaceOf[a] : a \in set \ OnBus}
                 C == {b \in DOMAIN cached : IfaceOf[b] \notin gone}
      <3>1. PICK B \in SUBSET ThresholdAlarm : cached \in [B -> BOOLEAN]
        BY <2>0 DEF ThresholdTypeOK
      <3>2. cached' = [a \in C |-> cached[a]]
        BY <2>1 DEF ThresholdPowerOn
      <3>3. \A a \in ThresholdAlarm \cap OnBus : a \in DOMAIN cached => a \in C
        BY <3>1 DEF OnBus
      <3>4. C \in SUBSET ThresholdAlarm /\ C \subseteq B
        BY <3>1
      <3> HIDE DEF C
      <3>5. cached' \in [C -> BOOLEAN]
        BY <3>1, <3>2, <3>4
      <3>6. lastLog' \in [ThresholdAlarm -> {"none", "set", "clear"}]
        BY <2>1 DEF ThresholdPowerOn, Log
      <3>7. ThresholdTypeOK'
        BY <3>4, <3>5, <3>6 DEF ThresholdTypeOK
      <3>8. \A a \in ThresholdAlarm : m \notin About(a)
        BY <2>1 DEF About, PowerChanges
      <3> QED
        BY <3>2, <3>3, <3>7, <3>8
    <2>2. CASE m.kind = "changed" /\ IsThresholdSignal(m) /\ PropertiesChanged(m)
      <3>1. {m.alarm} \in SUBSET ThresholdAlarm
        BY <2>2 DEF IsThresholdSignal
      <3>2. CheckProperties({m.alarm}, {a \in {m.alarm} : m.on})
        BY <2>2 DEF PropertiesChanged
      <3>3. /\ ThresholdTypeOK'
            /\ DOMAIN cached' = {m.alarm} \cup DOMAIN cached
            /\ cached'[m.alarm] = (m.alarm \in {a \in {m.alarm} : m.on})
            /\ \A a \in DOMAIN cached \ {m.alarm} : cached'[a] = cached[a]
        BY <2>0, <3>1, <3>2, CheckRemembers
      <3>4. \A a \in ThresholdAlarm : m \in About(a) <=> a = m.alarm
        BY <2>2 DEF About
      <3>5. cached'[m.alarm] = m.on
        BY <2>2, <3>3, SignalKinds
      <3>6. \A a \in ThresholdAlarm : m \in TellsNow(a) => m.on = (a \in asserted)
        BY <2>2 DEF TellsNow
      <3> QED
        BY <3>3, <3>4, <3>5, <3>6
    <2>3. CASE m.kind = "added" /\ InterfacesAdded(m)
      <3> DEFINE D == AlarmsOf(m.iface) \cap ThresholdAlarm
      <3>1. /\ ThresholdTypeOK'
            /\ DOMAIN cached' = D \cup DOMAIN cached
            /\ \A a \in D : cached'[a] = (a \in m.set)
            /\ \A a \in DOMAIN cached \ D : cached'[a] = cached[a]
        BY <2>0, <2>3, CheckRemembers DEF InterfacesAdded
      <3>2. \A a \in ThresholdAlarm : m \in About(a) <=> a \in D
        BY <2>3 DEF About, AlarmsOf
      <3>3. \A a \in ThresholdAlarm : m \in TellsNow(a) => (a \in m.set) = (a \in asserted)
        BY <2>3 DEF TellsNow
      <3> QED
        BY <3>1, <3>2, <3>3
    <2>4. CASE m.kind = "removed" /\ InterfacesRemoved(m)
      <3> DEFINE C == DOMAIN cached \ AlarmsOf(m.iface)
      <3>1. PICK B \in SUBSET ThresholdAlarm : cached \in [B -> BOOLEAN]
        BY <2>0 DEF ThresholdTypeOK
      <3>2. cached' = [a \in C |-> cached[a]]
        BY <2>4 DEF InterfacesRemoved
      <3>3. C \in SUBSET ThresholdAlarm /\ C \subseteq B
        BY <3>1
      <3>4. \A a \in ThresholdAlarm : m \in About(a) <=> a \in AlarmsOf(m.iface)
        BY <2>4 DEF About, AlarmsOf
      <3>5. \A a \in ThresholdAlarm : m \notin TellsNow(a)
        BY <2>4 DEF TellsNow
      <3>6. cached' \in [C -> BOOLEAN]
        BY <3>1, <3>2, <3>3
      <3>7. lastLog' \in [ThresholdAlarm -> {"none", "set", "clear"}]
        BY <2>0, <2>4 DEF InterfacesRemoved, ThresholdTypeOK
      <3> QED
        BY <3>2, <3>3, <3>4, <3>5, <3>6, <3>7 DEF ThresholdTypeOK
    <2>5. CASE ~IsThresholdSignal(m) /\ UNCHANGED thresholdVars
      <3>1. \A a \in ThresholdAlarm : m \notin About(a)
        BY <2>5 DEF About, IsThresholdSignal
      <3> QED
        BY <2>0, <2>5, <3>1 DEF thresholdVars, ThresholdTypeOK
    <2> QED
      BY <1>1, <2>1, <2>2, <2>3, <2>4, <2>5 DEF ThresholdHandles
  <1> HIDE DEF Learns
  <1>6. ASSUME NEW a \in ThresholdAlarm \cap OnBus' PROVE Remembered(a)'
    <2>1. a \in ThresholdAlarm \cap OnBus /\ Remembered(a)
      BY <1>2, <1>6 DEF OnBus, CacheInv
    <2>2. /\ LastTells(inbox', About(a), TellsNow(a))
          /\ m \in About(a) /\ ~Waits(inbox', About(a)) => m \in TellsNow(a)
      BY <1>2, <1>3, <2>1, TailTells DEF Remembered
    <2>3. Waits(inbox, About(a)) <=> m \in About(a) \/ Waits(inbox', About(a))
      BY <1>2, <1>3, TailWaits
    <2>4. Learns(a)
      BY <1>5, <2>1
    <2>5. TellsNow(a)' = TellsNow(a)
      BY <1>2 DEF TellsNow
    <2>6. ~Waits(inbox', About(a)) => a \in DOMAIN cached' /\ cached'[a] = (a \in asserted)
      BY <2>1, <2>2, <2>3, <2>4 DEF Learns, Remembered
    <2> QED
      BY <1>2, <2>2, <2>5, <2>6 DEF Remembered, About
  <1> QED
    BY <1>4, <1>5, <1>6 DEF CacheInv

\* The daemon dies: nothing is remembered, and nothing waits.
LEMMA DeathForgets ==
    ASSUME BusInv, DieBus, LoggerDies
    PROVE  BusInv' /\ CacheInv'
  <1>1. cached' \in [{} -> BOOLEAN] /\ {} \in SUBSET ThresholdAlarm
    BY DEF LoggerDies
  <1>2. lastLog' \in [ThresholdAlarm -> {"none", "set", "clear"}]
    BY DEF LoggerDies
  <1>3. ThresholdTypeOK'
    BY <1>1, <1>2 DEF ThresholdTypeOK
  <1>4. BusInv'
    <2>1. inbox' \in Seq(Signal)
      BY EmptySeq DEF DieBus
    <2> QED
      BY <2>1 DEF BusInv, DieBus, SensorBusTypeOK, OnBus
  <1>5. ~alive'
    BY DEF DieBus
  <1> QED
    BY <1>3, <1>4, <1>5 DEF CacheInv

LEMMA CacheInvInit == SensorInit => BusInv /\ CacheInv
  <1> SUFFICES ASSUME SensorInit PROVE BusInv /\ CacheInv
    OBVIOUS
  <1>1. cached \in [{} -> BOOLEAN] /\ {} \in SUBSET ThresholdAlarm
    BY DEF SensorInit, InitThreshold
  <1>2. lastLog \in [ThresholdAlarm -> {"none", "set", "clear"}]
    BY DEF SensorInit, InitThreshold
  <1>3. ThresholdTypeOK
    BY <1>1, <1>2 DEF ThresholdTypeOK
  <1>4. BusInv
    <2>1. inbox \in Seq(Signal) /\ inbox = <<>>
      BY EmptySeq DEF SensorInit, InitBus
    <2>2. asserted \subseteq OnBus /\ asserted \in SUBSET Alarm
      BY DEF SensorInit, InitBus, OnBus
    <2> QED
      BY <2>1, <2>2 DEF BusInv, SensorInit, InitBus, SensorBusTypeOK
  <1>5. ~alive
    BY DEF SensorInit, InitBus
  <1> QED
    BY <1>3, <1>4, <1>5 DEF CacheInv

LEMMA CacheInvStep == BusInv /\ CacheInv /\ [SensorNext]_vars => BusInv' /\ CacheInv'
  <1> SUFFICES ASSUME BusInv, CacheInv, [SensorNext]_vars PROVE BusInv' /\ CacheInv'
    OBVIOUS
  <1>1. CASE ShutdownEnvironment /\ UNCHANGED thresholdVars
    BY <1>1, EnvironmentRemembers DEF ShutdownEnvironment, thresholdVars
  <1>2. CASE Start
    BY <1>2, StartRemembers
  <1>3. CASE Receive
    BY <1>3, ReceiveRemembers
  <1>4. ASSUME UNCHANGED <<busVars, thresholdVars>> PROVE BusInv' /\ CacheInv'
    BY <1>4 DEF busVars, thresholdVars, BusInv, CacheInv, SensorBusTypeOK, ThresholdTypeOK,
                OnBus, Remembered, About, TellsNow
  <1>5. ASSUME NEW a \in ShutdownAlarm, Expire(a) PROVE BusInv' /\ CacheInv'
    BY <1>4, <1>5, DeathForgets DEF Expire
  <1>6. CASE Dies
    BY <1>6, DeathForgets DEF Dies
  <1>7. CASE Time
    BY <1>4, <1>7 DEF Time
  <1>8. CASE UNCHANGED vars
    BY <1>4, <1>8 DEF vars
  <1> QED
    BY <1>1, <1>2, <1>3, <1>5, <1>6, <1>7, <1>8 DEF SensorNext

\* Timers that expired are those of shutdown alarms.
LEMMA ExpiredStep ==
    ASSUME expired \in SUBSET ShutdownAlarm, [SensorNext]_vars
    PROVE  expired' \in SUBSET ShutdownAlarm
  <1>1. CASE Receive
    BY <1>1 DEF Receive, ShutdownHandles, PowerOnAlarms, PowerOffAlarms, AlarmChanged,
                CheckAlarms, shutdownVars
  <1>2. ASSUME NEW a \in ShutdownAlarm, Expire(a) PROVE expired' \in SUBSET ShutdownAlarm
    BY <1>2 DEF Expire, TimerExpires, DiesExpiring, MemoryLost
  <1>3. CASE ~Receive /\ ~(\E a \in ShutdownAlarm : Expire(a))
    BY <1>3 DEF SensorNext, ShutdownEnvironment, Start, MonitorStarts, Dies, DiesIdle,
                DiesChecking, MemoryLost, Time, Tick, ClockSetBack, ClockSetForward, vars, shutdownVars
  <1> QED
    BY <1>1, <1>2, <1>3

LoggerIInv ==
    DelayInv /\ BusInv /\ CacheInv /\ Reported /\ expired \in SUBSET ShutdownAlarm

\* The logger knows every alarm on D-Bus as it is once all signals are handled,
\* and with the power on has logged all that are set, whatever the order of
\* sensors that come and go, services that die unannounced and power changes
\* (checkProperties(), checkThresholds(), interfacesRemoved()).
THEOREM LoggerFollows == SensorSpec => []LoggerInv
  <1>1. SensorInit => LoggerIInv
    <2>1. SensorInit => Reported /\ expired \in SUBSET ShutdownAlarm
      BY DEF SensorInit, InitThreshold, InitBus, InitShutdown, Reported
    <2> QED
      BY <2>1, DelayInvInit, CacheInvInit DEF LoggerIInv
  <1>2. LoggerIInv /\ [SensorNext]_vars => LoggerIInv'
    BY DelayInvStep, CacheInvStep, ReportedStep, ExpiredStep DEF LoggerIInv
  <1>3. LoggerIInv /\ PassedInv => LoggerInv
    <2> SUFFICES ASSUME LoggerIInv, PassedInv PROVE LoggerInv
      OBVIOUS
    <2> USE DEF LoggerIInv
    <2>1. SensorTypeOK
      <3>1. setBack \in SUBSET ShutdownAlarm
        BY DEF DelayInv, Timed, IsTimed, PassedInv, PassedTyped
      <3> QED
        BY <3>1 DEF SensorTypeOK, BusInv, CacheInv, DelayInv, Timed, ShutdownTypeOK,
                    PassedInv, PassedTyped
    <2>2. CacheCoherent
      <3> SUFFICES ASSUME alive, inbox = <<>>, NEW a \in ThresholdAlarm \cap OnBus
                   PROVE  a \in DOMAIN cached /\ cached[a] = (a \in asserted)
        BY DEF CacheCoherent
      <3>1. Remembered(a)
        BY DEF CacheInv
      <3>2. ~Waits(inbox, About(a))
        BY EmptyTells
      <3> QED
        BY <3>1, <3>2 DEF Remembered
    <2>3. ActiveReported
      BY <2>2 DEF ActiveReported, CacheCoherent, Reported
    <2> QED
      BY <2>1, <2>2, <2>3 DEF LoggerInv
  <1> QED
    BY <1>1, <1>2, <1>3, PassedInvariant, PTL DEF SensorSpec

=============================================================================
