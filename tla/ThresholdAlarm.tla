----------------------------- MODULE ThresholdAlarm -----------------------------
(***************************************************************************)
(* The ThresholdAlarmLogger of sensor-monitor                              *)
(* (threshold_alarm_logger.cpp): an event log for every alarm that is set  *)
(* or cleared while the power is on, and at power on for those that are    *)
(* already set.                                                            *)
(*                                                                         *)
(* A call that creates an event log and fails ends the daemon, as no       *)
(* handler catches it: `Deaths` of the composed model.                     *)
(***************************************************************************)
EXTENDS SensorBus

CONSTANTS
    ThresholdAlarm, \* the alarms of the warning, critical and perf loss interfaces
    NotLogged,      \* those of utilization sensors
    SkipPowerChecking   \* SKIP_POWER_CHECKING

ASSUME ThresholdAlarmAssumption ==
    /\ ThresholdAlarm \subseteq Alarm
    /\ NotLogged \subseteq ThresholdAlarm
    /\ SkipPowerChecking \in BOOLEAN

VARIABLES
    cached,     \* the map alarms: alarm -> the value last seen
    lastLog     \* history: the last log of each alarm since the daemon started, the
                \* power came on or its sensor was removed

thresholdVars == <<cached, lastLog>>

ThresholdTypeOK ==
    /\ cached \in UNION {[D -> BOOLEAN] : D \in SUBSET ThresholdAlarm}
    /\ lastLog \in [ThresholdAlarm -> {"none", "set", "clear"}]

-----------------------------------------------------------------------------

\* The value an alarm is taken to have had before: off, if it was never seen.
Was(a) == a \in DOMAIN cached /\ cached[a]

\* createEventLog() for the alarms of `set`, then of `clear`.
Log(old, set, clear) ==
    [a \in ThresholdAlarm |-> IF a \in set \ NotLogged THEN "set"
                              ELSE IF a \in clear \ NotLogged THEN "clear"
                              ELSE old[a]]

\* checkProperties(): the values D of which those in `on` are set.
CachedIfLogged(D, on) == \* mutant: without power the value is not kept
    LET new == {a \in D : (a \in on) # Was(a)}
    IN  /\ cached' = IF powerOn \/ SkipPowerChecking
                     THEN [a \in D \cup DOMAIN cached |->
                             IF a \in D THEN a \in on ELSE cached[a]]
                     ELSE cached
        /\ lastLog' = IF powerOn \/ SkipPowerChecking
                      THEN Log(lastLog, new \cap on, new \ on) ELSE lastLog
CheckProperties(D, on) ==
    LET new == {a \in D : (a \in on) # Was(a)}
    IN  /\ cached' = [a \in D \cup DOMAIN cached |->
                        IF a \in D THEN a \in on ELSE cached[a]]
        /\ lastLog' = IF powerOn \/ SkipPowerChecking
                      THEN Log(lastLog, new \cap on, new \ on) ELSE lastLog

\* propertiesChanged(), interfacesAdded()
PropertiesChanged(m) == CheckProperties({m.alarm}, {a \in {m.alarm} : m.on})
InterfacesAdded(m)   == CheckProperties(AlarmsOf(m.iface) \cap ThresholdAlarm, m.set)

\* interfacesRemoved(): a sensor that comes back is logged anew.
InterfacesRemoved(m) ==
    /\ cached' = [a \in DOMAIN cached \ AlarmsOf(m.iface) |-> cached[a]]
    /\ lastLog' = [a \in ThresholdAlarm |-> IF a \in AlarmsOf(m.iface) THEN "none" ELSE lastLog[a]]

\* powerStateChanged() and checkThresholds() at power on: cached alarms that
\* are set are logged, or forgotten with their interface if that is gone.
DeadKept == \* mutant: alarms of a service that died stay cached
    LET set  == {a \in DOMAIN cached : cached[a]}
    IN  /\ lastLog' = Log([a \in ThresholdAlarm |-> "none"], set \cap OnBus, {})
        /\ UNCHANGED cached
ThresholdPowerOn ==
    LET set  == {a \in DOMAIN cached : cached[a]}
        gone == {IfaceOf[a] : a \in set \ OnBus}
    IN  /\ lastLog' = Log([a \in ThresholdAlarm |-> "none"], set \cap OnBus, {})
        /\ cached' = [a \in {b \in DOMAIN cached : IfaceOf[b] \notin gone} |-> cached[a]]

IsThresholdSignal(m) ==
    \/ m.kind = "changed" /\ m.alarm \in ThresholdAlarm
    \/ m.kind \in {"added", "removed"}

\* What the logger does with a signal.
ThresholdHandles(m) ==
    \/ PowerChanges(m) /\ m.on /\ ThresholdPowerOn
    \/ m.kind = "changed" /\ IsThresholdSignal(m) /\ PropertiesChanged(m)
    \/ m.kind = "added" /\ InterfacesAdded(m)
    \/ m.kind = "removed" /\ InterfacesRemoved(m)
    \/ /\ ~IsThresholdSignal(m)
       /\ ~(PowerChanges(m) /\ m.on)
       /\ UNCHANGED thresholdVars

\* The constructor reads the alarms on D-Bus and logs those that are set.
LoggerStarts ==
    /\ cached' = [a \in ThresholdAlarm \cap OnBus |-> a \in asserted]
    /\ lastLog' = Log([a \in ThresholdAlarm |-> "none"],
                      IF PowerRead \/ SkipPowerChecking
                      THEN ThresholdAlarm \cap OnBus \cap asserted ELSE {}, {})

LoggerDies ==
    /\ cached' = [a \in {} |-> FALSE]
    /\ lastLog' = [a \in ThresholdAlarm |-> "none"]

InitThreshold ==
    /\ cached = [a \in {} |-> FALSE]
    /\ lastLog = [a \in ThresholdAlarm |-> "none"]

-----------------------------------------------------------------------------
(* Properties.                                                             *)

\* What the logger remembers of a sensor on D-Bus is right once all signals
\* are handled, though it is not told of services that die and come back
\* (checkProperties() against interfacesRemoved() and checkThresholds()).
CacheCoherent ==
    alive /\ inbox = <<>> =>
      \A a \in ThresholdAlarm \cap OnBus :
        a \in DOMAIN cached /\ cached[a] = (a \in asserted)

\* An alarm that is set on D-Bus while the power is on has an event log that
\* was made since the power came on, the daemon started or the sensor was
\* added, and no clear after it.
ActiveReported ==
    alive /\ powerOn /\ inbox = <<>> =>
      \A a \in (ThresholdAlarm \cap OnBus \cap asserted) \ NotLogged :
        lastLog[a] = "set"

\* An alarm is reported clear only if it was reported set before, in the same
\* power on and the same life of the daemon.
ClearAfterSet ==
    [][\A a \in ThresholdAlarm :
         lastLog'[a] = "clear" => lastLog[a] \in {"set", "clear"}]_lastLog

=============================================================================
