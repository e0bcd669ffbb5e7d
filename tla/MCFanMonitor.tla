---------------------------- MODULE MCFanMonitor ----------------------------
(***************************************************************************)
(* Small configurations of FanMonitor for TLC.                             *)
(***************************************************************************)
EXTENDS FanMonitor, TLC

CONSTANTS f1, f2, s1, s2, v1, v2

\* One fan with two rotors on one service; s2 has no target of its own.
OneFanOf      == (s1 :> f1) @@ (s2 :> f1)
OneServiceOf  == (s1 :> v1) @@ (s2 :> v1)
SharedTarget  == (s1 :> s1) @@ (s2 :> s1)

\* Two fans with one rotor each, on the same service.
TwoFanOf      == (s1 :> f1) @@ (s2 :> f2)
OwnTarget     == (s1 :> s1) @@ (s2 :> s2)

Threshold2 == [s \in Sensor |-> 2]

AllFansNeed1 == [f \in Fan |-> 1]

=============================================================================
