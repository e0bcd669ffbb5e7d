----------------------------- MODULE MCFanPresence -----------------------------
(***************************************************************************)
(* A small configuration of FanPresence for TLC: a fan with two            *)
(* tachometers of which any counts, and one with a GPIO backed by a        *)
(* tachometer.                                                             *)
(***************************************************************************)
EXTENDS FanPresence

CONSTANTS f1, f2, t1, t2, t3, g1, r1, r2, r3

MCTachOf == (r1 :> t1) @@ (r2 :> t2) @@ (r3 :> t3)
MCMethods == (f1 :> <<t1, t2>>) @@ (f2 :> <<g1, t3>>)
MCBefore == (f1 :> {}) @@ (f2 :> {f1})

=============================================================================
