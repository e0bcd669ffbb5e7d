----------------------------- MODULE ShutdownDelay -----------------------------
(***************************************************************************)
(* What the shutdown alarms promise: the system is not shut down for an    *)
(* alarm before its delay has passed, counted from the moment the delay    *)
(* began, however often the daemon was restarted since.  A delay may end   *)
(* without a shutdown, and then begins anew.  What counts as time passed   *)
(* is said by who implements it.                                           *)
(***************************************************************************)
EXTENDS Naturals

CONSTANTS
    ShutdownAlarm,  \* alarms that shut the system down
    Delay           \* the delay of each

VARIABLES
    since,      \* alarm -> the time since its delay began, at most the delay
    requested   \* the alarms for which a shutdown was requested

delayVars == <<since, requested>>

DelayInit ==
    /\ since = [a \in {} |-> 0]
    /\ requested = {}

\* Delays begin, go on or end.
Continue(D) ==
    since' = [a \in D |-> IF a \in DOMAIN since THEN since[a] ELSE 0]

BeginOrEnd ==
    /\ \E D \in SUBSET ShutdownAlarm : Continue(D)
    /\ UNCHANGED requested

TimePasses ==
    /\ since' = [a \in DOMAIN since |->
                   IF since[a] < Delay[a] THEN since[a] + 1 ELSE since[a]]
    /\ UNCHANGED requested

ShutDown(a) ==
    /\ a \in DOMAIN since
    /\ since[a] >= Delay[a]
    /\ requested' = requested \cup {a}
    /\ \E D \in SUBSET DOMAIN since : Continue(D)

PoweredOff ==
    /\ requested' = {}
    /\ UNCHANGED since

DelayNext ==
    \/ BeginOrEnd
    \/ TimePasses
    \/ \E a \in ShutdownAlarm : ShutDown(a)
    \/ PoweredOff

DelaySpec == DelayInit /\ [][DelayNext]_delayVars

=============================================================================
