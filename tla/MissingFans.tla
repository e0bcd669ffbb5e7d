------------------------------ MODULE MissingFans ------------------------------
(***************************************************************************)
(* The ErrorReporter of fan presence (error_reporter.cpp): an error for a  *)
(* fan that was missing for some time with the power on.                   *)
(***************************************************************************)
CONSTANTS
    ErrorFan    \* the fans with fan_missing_error_time

VARIABLES
    reporter,   \* the reporter exists
    states,     \* _fanStates
    missing,    \* the fans whose timer _fanMissingTimers runs
    reported    \* history: the fans for which an error was created since they
                \* are missing with the power on

reporterVars == <<reporter, states, missing, reported>>

ReporterTypeOK ==
    /\ reporter \in BOOLEAN
    /\ states \in [ErrorFan -> BOOLEAN]
    /\ missing \in SUBSET ErrorFan
    /\ reported \in SUBSET ErrorFan

-----------------------------------------------------------------------------

\* checkFan() of the fans F, with the presence s and the power `on`.
StartsWithoutPower(F, s, on) == \* mutant: the power is not asked
    /\ missing' = (missing \ F) \cup {f \in F : ~s[f]}
    /\ reported' = {f \in reported : f \in F => ~s[f] /\ on}
CheckFans(F, s, on) ==
    /\ missing' = (missing \ F) \cup {f \in F : ~s[f] /\ on}
    /\ reported' = {f \in reported : f \in F => ~s[f] /\ on}

\* presenceChanged()
ReporterPresent(m, on) ==
    \/ /\ reporter
       /\ m.fan \in ErrorFan
       /\ states[m.fan] # m.on
       /\ states' = [states EXCEPT ![m.fan] = m.on]
       /\ CheckFans({m.fan}, states', on)
       /\ UNCHANGED reporter
    \/ /\ reporter /\ m.fan \in ErrorFan => states[m.fan] = m.on
       /\ UNCHANGED reporterVars

\* powerStateChanged()
ReporterPowerChanged(on) ==
    /\ CheckFans(ErrorFan, states, on)
    /\ UNCHANGED <<reporter, states>>

\* fanMissingTimerExpired(); it throws if the error cannot be created.
MissingTimerExpires(f) ==
    /\ f \in missing
    /\ missing' = missing \ {f}
    /\ reported' = reported \cup {f}
    /\ UNCHANGED <<reporter, states>>

\* The constructor, with the presence in the inventory and the power.
ReporterStarts(inventory, on) ==
    /\ reporter' = (ErrorFan # {})
    /\ states' = [f \in ErrorFan |-> inventory[f]]
    /\ missing' = {f \in ErrorFan : on /\ ~inventory[f]}
    /\ reported' = {}

\* It is destroyed.
ReporterGone ==
    /\ reporter' = FALSE
    /\ states' = [f \in ErrorFan |-> FALSE]
    /\ missing' = {}
    /\ reported' = {}

InitReporter ==
    /\ reporter = FALSE
    /\ states = [f \in ErrorFan |-> FALSE]
    /\ missing = {}
    /\ reported = {}

=============================================================================
