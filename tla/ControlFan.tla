------------------------------ MODULE ControlFan ------------------------------
(***************************************************************************)
(* The fans of a zone of phosphor-fan-control (control/json/fan.cpp): the  *)
(* targets they are given and locked at, and the D-Bus properties written. *)
(*                                                                         *)
(* A fan has sensors, the D-Bus objects with a Target property.  Fans are  *)
(* described by two functions: `fan`, their _target, and `locks`, the      *)
(* override_fan_target actions whose targets are in their _lockedTargets.  *)
(***************************************************************************)
EXTENDS Naturals, Sequences

CONSTANTS
    Fan,           \* names of the fans
    FanSeq,        \* the fans in the order in which they join their zone
    Sensor,        \* D-Bus objects with a Target property
    SensorSeq,     \* the sensors in the order in which they are written
    FanOf,         \* the fan a sensor belongs to
    ReadFrom,      \* fan -> its last configured sensor
    MaxTarget,     \* the largest uint64_t
    Lock,          \* override_fan_target actions
    LockTarget,    \* "target" of such an action
    LockFans       \* "fans" of such an action, never empty

ASSUME ControlFanAssumption ==
    /\ FanSeq \in Seq(Fan)
    /\ SensorSeq \in Seq(Sensor)
    /\ FanOf \in [Sensor -> Fan]
    /\ ReadFrom \in [Fan -> Sensor]
    /\ MaxTarget \in Nat
    /\ LockTarget \in [Lock -> 0..MaxTarget]
    /\ LockFans \in [Lock -> SUBSET Fan]
    /\ \A l \in Lock : LockFans[l] # {}

ASSUME EveryFanJoins ==
    \A f \in Fan : \E i \in DOMAIN FanSeq : FanSeq[i] = f

ASSUME ReadsOwnSensor == \A f \in Fan : FanOf[ReadFrom[f]] = f

-----------------------------------------------------------------------------

\* The highest of a set of targets.
Highest(S) == CHOOSE t \in S : \A u \in S : u <= t

Position(s) == CHOOSE i \in DOMAIN SensorSeq : SensorSeq[i] = s

\* The highest target a fan is locked at by these actions.
HighestLock(L) == Highest({LockTarget[l] : l \in L})

\* Fan::setTarget() of every fan of the zone: a locked fan ignores it.
ZoneFans(fan, locks, t) ==
    [f \in Fan |-> IF locks[f] = {} THEN t ELSE fan[f]]

\* lockTarget(): the highest lock wins, only the first may lower the target.
LowerIgnored(fan, locks, l) == \* mutant: the first lock cannot lower either
    [f \in Fan |-> IF f \in LockFans[l] /\ LockTarget[l] >= fan[f]
                   THEN LockTarget[l] ELSE fan[f]]
LockedFans(fan, locks, l) ==
    [f \in Fan |-> IF /\ f \in LockFans[l]
                      /\ LockTarget[l] >= fan[f] \/ locks[f] = {}
                   THEN LockTarget[l] ELSE fan[f]]

\* unlockTarget() and the setTarget() that follows it: a fan that is still
\* locked goes to the highest of its other locks, else to the zone's target.
NotResumed(fan, locks, l, t) == \* mutant: the zone's target is not resumed
    [f \in Fan |-> LET left == locks[f] \ {l}
                   IN  IF f \in LockFans[l] /\ left # {}
                       THEN HighestLock(left) ELSE fan[f]]
UnlockedFans(fan, locks, l, t) ==
    [f \in Fan |-> LET left == locks[f] \ {l}
                   IN  IF f \notin LockFans[l] THEN fan[f]
                       ELSE IF left = {} THEN t ELSE HighestLock(left)]

-----------------------------------------------------------------------------

\* The properties on D-Bus after fans at `from` were set to `to`: the sensors
\* of a fan that has its target already are not written.
AfterWrites(written, from, to) ==
    [s \in Sensor |-> IF from[FanOf[s]] # to[FanOf[s]] THEN to[FanOf[s]]
                                                       ELSE written[s]]

\* The same when the write of one of the sensors fails: the exception leaves
\* those that follow it as they were.
FailedWrites(written, from, to) ==
    {[s \in Sensor |-> IF Position(s) < Position(bad)
                       THEN AfterWrites(written, from, to)[s] ELSE written[s]]
       : bad \in {s \in Sensor : from[FanOf[s]] # to[FanOf[s]]}}

\* What setSensors() reads of a fan at startup: all its sensors are taken to
\* have the target of one of them.
ReadTarget(written, f) == written[ReadFrom[f]]

=============================================================================
