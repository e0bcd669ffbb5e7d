---------------------------- MODULE MCSensorMonitor ----------------------------
(***************************************************************************)
(* A small configuration of SensorMonitor for TLC: a sensor with two       *)
(* shutdown alarms and one with a threshold alarm.                         *)
(***************************************************************************)
EXTENDS SensorMonitor, TLC

CONSTANTS a1, a2, i1, i2

MCIfaceOf == (a1 :> i1) @@ (a2 :> i2) 
MCDelay == (a1 :> 2)

=============================================================================
