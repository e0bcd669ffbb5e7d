----------------------------- MODULE SensorMonitor -----------------------------
(***************************************************************************)
(* The daemon sensor-monitor (main.cpp): the shutdown alarm monitor and the*)
(* threshold alarm logger behind one event loop and one power state.       *)
(*                                                                         *)
(* A signal reaches the shutdown monitor first: its matches are registered *)
(* before those of the logger, and the callbacks of the power state are    *)
(* called in the order of their names.  An exception in either ends the    *)
(* process, and systemd starts it again.                                   *)
(***************************************************************************)
EXTENDS ShutdownAlarm, ThresholdAlarm

vars == <<busVars, shutdownVars, thresholdVars>>

SensorTypeOK == SensorBusTypeOK /\ ShutdownTypeOK /\ ThresholdTypeOK

Start == StartBus /\ MonitorStarts /\ LoggerStarts

Receive ==
    \E m \in Signal : Deliver(m) /\ ShutdownHandles(m) /\ ThresholdHandles(m)

\* A timer expires; reading the value of a sensor that is gone is an exception.
Expire(a) ==
    \/ alive /\ TimerExpires(a) /\ UNCHANGED <<busVars, thresholdVars>>
    \/ DieBus /\ LoggerDies /\ DiesExpiring(a)

Dies ==
    /\ DieBus
    /\ LoggerDies
    /\ DiesIdle \/ DiesChecking

Time ==
    /\ Tick \/ ClockSetBack \/ ClockSetForward
    /\ UNCHANGED <<busVars, thresholdVars>>

SensorInit == InitBus /\ InitShutdown /\ InitThreshold

SensorNext ==
    \/ ShutdownEnvironment /\ UNCHANGED thresholdVars
    \/ Start
    \/ Receive
    \/ \E a \in ShutdownAlarm : Expire(a)
    \/ Dies
    \/ Time

SensorSpec == SensorInit /\ [][SensorNext]_vars

\* The event loop goes on, and so does time.
SensorFairness ==
    /\ WF_vars(Receive)
    /\ WF_vars(Tick /\ UNCHANGED <<busVars, thresholdVars>>)
    /\ \A a \in ShutdownAlarm : WF_vars(Expire(a))

FairSensorSpec == SensorSpec /\ SensorFairness

\* What the logger remembers and has logged is what D-Bus shows of the alarms,
\* and the variables of both monitors keep their types.
LoggerInv == SensorTypeOK /\ CacheCoherent /\ ActiveReported

=============================================================================
