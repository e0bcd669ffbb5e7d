----------------------------- MODULE MCMultiChassis -----------------------------
(***************************************************************************)
(* Two chassis with a zone each: the first is always there, the second     *)
(* uses the property Available.                                            *)
(***************************************************************************)
EXTENDS MultiChassis, TLC

CONSTANTS c0, c1, z0, z1, f0, f1, missing, epow

McChassisOf == (z0 :> c0) @@ (z1 :> c1)
McZoneOf == (f0 :> z0) @@ (f1 :> z1)

McType == (missing :> "hard") @@ (epow :> "epow")
McCause == (missing :> "missing_fan_frus") @@ (epow :> "nonfunc_fan_rotors")
McCount == [r \in Rule |-> 1]
McState == [r \in Rule |-> "runtime"]
McRuleZone == (missing :> z1) @@ (epow :> z0)

=============================================================================
