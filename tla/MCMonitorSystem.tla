--------------------------- MODULE MCMonitorSystem ---------------------------
(***************************************************************************)
(* Small configurations of MonitorSystem for TLC: one fan with two rotors, *)
(* or two fans with one rotor each.                                        *)
(***************************************************************************)
EXTENDS MonitorSystem, TLC

CONSTANTS f1, f2, s1, s2, v1, v2, r1, r2, r3

OneFanOf     == (s1 :> f1) @@ (s2 :> f1)
TwoFanOf     == (s1 :> f1) @@ (s2 :> f2)
OneServiceOf == (s1 :> v1) @@ (s2 :> v1)
OwnTarget    == (s1 :> s1) @@ (s2 :> s2)

Threshold1   == [s \in Sensor |-> 1]
AllFansNeed1 == [f \in Fan |-> 1]
AllFansNeed2 == [f \in Fan |-> 2]

\* A hard power off for a missing fan, an epow for two nonfunctional rotors,
\* a soft power off at pgood for a fan with a nonfunctional rotor.
RuleType  == (r1 :> "hard") @@ (r2 :> "epow") @@ (r3 :> "soft")
RuleCause == (r1 :> "missing_fan_frus") @@ (r2 :> "nonfunc_fan_rotors")
                 @@ (r3 :> "fan_frus_with_nonfunc_rotors")
RuleCount == (r1 :> 1) @@ (r2 :> 2) @@ (r3 :> 1)
RuleState == (r1 :> "runtime") @@ (r2 :> "runtime") @@ (r3 :> "pgood")

\* The two rules valid at runtime: the states stay few enough for two fans.
TwoRuleType  == [r \in {r1, r2} |-> RuleType[r]]
TwoRuleCause == [r \in {r1, r2} |-> RuleCause[r]]
TwoRuleCount == [r \in {r1, r2} |-> RuleCount[r]]
TwoRuleState == [r \in {r1, r2} |-> RuleState[r]]

=============================================================================
