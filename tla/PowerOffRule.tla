----------------------------- MODULE PowerOffRule -----------------------------
(***************************************************************************)
(* The power off rules of phosphor-fan-monitor: a cause                    *)
(* (power_off_cause.hpp), the state the rule is valid for and its action   *)
(* (power_off_rule.hpp, power_off_action.hpp).                             *)
(*                                                                         *)
(* Rules do not share state except the thermal alert and the power         *)
(* requests, which only expired timers set, so a check of all the rules,   *)
(* one after the other, is one simultaneous update.                        *)
(***************************************************************************)
EXTENDS Naturals, FiniteSets

CONSTANTS
    Rule,         \* the configured power off rules
    Rotor,        \* tach sensors of all the fans
    Type,         \* rule -> "hard", "soft" or "epow"
    Cause,        \* rule -> its "cause"
    Count,        \* rule -> its "count"
    ValidState    \* rule -> its "state", "runtime" or "pgood"

PowerOffType  == {"hard", "soft", "epow"}
PowerOffCause == {"missing_fan_frus", "nonfunc_fan_rotors",
                  "fan_frus_with_nonfunc_rotors"}

ASSUME PowerOffRuleAssumption ==
    /\ Type \in [Rule -> PowerOffType]
    /\ Cause \in [Rule -> PowerOffCause]
    /\ Count \in [Rule -> Nat]
    /\ ValidState \in [Rule -> {"runtime", "pgood"}]

VARIABLES
    active,       \* rule -> _active
    delayTimer,   \* rule -> the delay timer runs (epow: service mode timer)
    meltdown,     \* rule -> the meltdown timer of an epow rule runs
    alert,        \* the thermal alert D-Bus property
    requested     \* kinds of power off requested since the last power off

ruleVars == <<active, delayTimer, meltdown, alert, requested>>

-----------------------------------------------------------------------------
(* Causes: fh maps a fan to its presence and its nonfunctional rotors      *)

MissingFans(fh)      == {f \in DOMAIN fh : ~fh[f].present}
FansWithNonfunc(fh)  == {f \in DOMAIN fh : fh[f].failed # {}}
NonfuncRotors(fh)    == {s \in Rotor : \E f \in DOMAIN fh : s \in fh[f].failed}

Satisfied(r, fh) ==
    Cardinality(CASE Cause[r] = "missing_fan_frus" -> MissingFans(fh)
                  [] Cause[r] = "nonfunc_fan_rotors" -> NonfuncRotors(fh)
                  [] Cause[r] = "fan_frus_with_nonfunc_rotors" ->
                        FansWithNonfunc(fh))
        >= Count[r]

-----------------------------------------------------------------------------
(* Operations on all the rules                                             *)

\* check(state, health) for each of the states, in turn.
Starts(r, states, fh) == ~active[r] /\ Satisfied(r, fh) /\ ValidState[r] \in states

\* A cancel() that is not forced leaves a running meltdown timer alone.
Stops(r, fh) == active[r] /\ ~Satisfied(r, fh)

StopsMeltdown(r, states, fh) == \* mutant: the rule forgets the meltdown
    Starts(r, states, fh) \/ (active[r] /\ ~Stops(r, fh))
ActiveAfter(r, states, fh) ==
    Starts(r, states, fh) \/ (active[r] /\ (Stops(r, fh) => meltdown[r]))

DelayAfter(r, states, fh) ==
    Starts(r, states, fh) \/ (delayTimer[r] /\ ~Stops(r, fh))

CheckRules(states, fh) ==
    /\ active' = [r \in Rule |-> ActiveAfter(r, states, fh)]
    /\ delayTimer' = [r \in Rule |-> DelayAfter(r, states, fh)]
    /\ UNCHANGED <<meltdown, alert, requested>>

CancelDelays == \* mutant: the cancel is not forced
    /\ active' = [r \in Rule |-> meltdown[r]]
    /\ delayTimer' = [r \in Rule |-> FALSE]
    /\ alert' = FALSE
    /\ requested' = {}
    /\ UNCHANGED meltdown
\* cancel() at power off is forced, and the thermal alert is withdrawn.
CancelRules ==
    /\ active' = [r \in Rule |-> FALSE]
    /\ delayTimer' = [r \in Rule |-> FALSE]
    /\ meltdown' = [r \in Rule |-> FALSE]
    /\ alert' = FALSE
    /\ requested' = {}

NewRulesUnchecked(power, fh) == \* mutant: a fan missing at startup is ignored
    /\ active' = [r \in Rule |-> FALSE]
    /\ delayTimer' = active'
    /\ meltdown' = [r \in Rule |-> FALSE]
    /\ UNCHANGED <<alert, requested>>
\* setFaultConfig() installs new rules, which load() checks if the power is on.
NewRules(power, fh) ==
    /\ active' = [r \in Rule |-> power /\ Satisfied(r, fh)
                                       /\ ValidState[r] = "runtime"]
    /\ delayTimer' = active'
    /\ meltdown' = [r \in Rule |-> FALSE]
    /\ UNCHANGED <<alert, requested>>

\* handleOfflineFanController() powers off without any rule.
OfflineController ==
    /\ requested' = requested \cup {"hard"}
    /\ UNCHANGED <<active, delayTimer, meltdown, alert>>

RuleInit(power, fh) ==
    /\ active = [r \in Rule |-> power /\ Satisfied(r, fh)
                                      /\ ValidState[r] = "runtime"]
    /\ delayTimer = active
    /\ meltdown = [r \in Rule |-> FALSE]
    /\ alert = FALSE
    /\ requested = {}

-----------------------------------------------------------------------------
(* Expired timers of a rule                                                *)

\* powerOff() of a hard or a soft power off.
PowerOffExpired(r) ==
    /\ delayTimer[r]
    /\ Type[r] # "epow"
    /\ delayTimer' = [delayTimer EXCEPT ![r] = FALSE]
    /\ requested' = requested \cup {Type[r]}
    /\ UNCHANGED <<active, meltdown, alert>>

ServiceModeExpired(r) ==
    /\ delayTimer[r]
    /\ Type[r] = "epow"
    /\ delayTimer' = [delayTimer EXCEPT ![r] = FALSE]
    /\ meltdown' = [meltdown EXCEPT ![r] = TRUE]
    /\ alert' = TRUE
    /\ UNCHANGED <<active, requested>>

MeltdownExpired(r) ==
    /\ meltdown[r]
    /\ meltdown' = [meltdown EXCEPT ![r] = FALSE]
    /\ requested' = requested \cup {"hard"}
    /\ UNCHANGED <<active, delayTimer, alert>>

RuleTimerExpired(r) ==
    PowerOffExpired(r) \/ ServiceModeExpired(r) \/ MeltdownExpired(r)

RuleTypeOK ==
    /\ active \in [Rule -> BOOLEAN]
    /\ delayTimer \in [Rule -> BOOLEAN]
    /\ meltdown \in [Rule -> BOOLEAN]
    /\ alert \in BOOLEAN
    /\ requested \subseteq {"hard", "soft"}

=============================================================================
