----------------------------- MODULE MCControlZone -----------------------------
(***************************************************************************)
(* Instances of ControlZone: two fans, the first with two sensors of which *)
(* the first one is read at startup, targets 1 to 4  with the ceiling at 4 *)
(* and one held target above it.                                           *)
(***************************************************************************)
EXTENDS ControlZone

CONSTANTS f1, f2, s1, s2, s3, l1, l2, h1, h2, n1, n2, g1

MCFanSeq == <<f1, f2>>

MCSensorSeq == <<s1, s2, s3>>

MCFanOf == [s \in {s1, s2, s3} |-> IF s = s3 THEN f2 ELSE f1]

MCReadFrom == [f \in {f1, f2} |-> IF f = f1 THEN s1 ELSE s3]

\* One action locks both fans, the other one only the second fan.
MCLockTarget == [l \in {l1, l2} |-> IF l = l1 THEN 2 ELSE 3]

MCLockFans == [l \in {l1, l2} |-> IF l = l1 THEN {f1, f2} ELSE {f2}]

\* A target below the ceiling and one above it.
MCHoldTarget == [h \in {h1, h2} |-> IF h = h1 THEN 2 ELSE 5]

=============================================================================
