---------------------------- MODULE MonitorSystem ----------------------------
(***************************************************************************)
(* phosphor-fan-monitor as a whole: the fault detection of FanMonitor and  *)
(* the power off rules it drives.  `check` says what the System asks of    *)
(* the rules in a step, with the fan health that step leaves: the rules    *)
(* react in the same step, as the calls in system.cpp do.                  *)
(***************************************************************************)
EXTENDS FanMonitor, PowerOffRule

ASSUME RotorAssumption == Rotor = Sensor

allVars == <<vars, ruleVars>>

\* fanStatusChange(), powerStateChanged(), load().
RulesReact ==
    CASE check' = "none"    -> UNCHANGED ruleVars
      [] check' = "runtime" -> CheckRules({"runtime"}, health')
      [] check' = "pgood"   -> CheckRules({"pgood", "runtime"}, health')
      [] check' = "offline" -> OfflineController
      [] check' = "cancel"  -> CancelRules
      [] check' = "load"    -> NewRules(power', health')

SystemInit == Init /\ RuleInit(power, health)

MonitorStep == Next /\ RulesReact

RuleStep == Idle /\ UNCHANGED vars /\ \E r \in Rule : RuleTimerExpired(r)

SystemNext == MonitorStep \/ RuleStep

SystemSpec == SystemInit /\ [][SystemNext]_allVars

-----------------------------------------------------------------------------
(* Properties                                                              *)

\* Without power no power off is under way: no rule is active, no timer of
\* one is running and the host sees no thermal alert.
QuietWithoutPower ==
    ~power => /\ \A r \in Rule : ~active[r] /\ ~delayTimer[r] /\ ~meltdown[r]
              /\ ~alert
              /\ requested = {}

\* Every timer of a rule belongs to an active rule, and to one timer at a
\* time: a cause cannot start a second power off while one is under way.
OnePowerOffPerRule ==
    \A r \in Rule :
        /\ delayTimer[r] \/ meltdown[r] => active[r]
        /\ ~(delayTimer[r] /\ meltdown[r])
        /\ meltdown[r] => Type[r] = "epow" /\ alert

\* As long as the sensor services stay up, a delay only runs down while its
\* cause is met: a recovery always reaches the rule that waits on it.
ArmedWhileSatisfied ==
    \A r \in Rule : delayTimer[r] => Satisfied(r, health)

\* Missing fans are never overlooked: if the power is on and enough fans are
\* missing for a rule that is valid at runtime, that rule is active, or the
\* daemon gave up on the fan controller and already asked for a power off.
MissingFansActedOn ==
    \A r \in Rule :
        /\ power
        /\ Cause[r] = "missing_fan_frus"
        /\ ValidState[r] = "runtime"
        /\ Satisfied(r, health)
        => active[r] \/ "hard" \in requested

=============================================================================
