------------------------------ MODULE MultiChassis ------------------------------
(***************************************************************************)
(* phosphor-fan-monitor for systems of several chassis                     *)
(* (monitor/multichassis_system.cpp, chassis.cpp, zone.cpp): chassis that  *)
(* come and go with their property Available, the zones created for them,  *)
(* the fans and the power off rules of a zone, and the power states        *)
(* (power_state.hpp).                                                      *)
(*                                                                         *)
(* A fan has one rotor here, and what the fault detection makes of its     *)
(* tach is a choice (Judge): FanMonitor has the detection itself.  Signals *)
(* of power and availability arrive later than the change; those of the    *)
(* presence and of services arrive with it.                                *)
(***************************************************************************)
EXTENDS PowerOffRule, Sequences

CONSTANTS
    Chassis, Zone, Fan,
    ChassisOf,      \* the chassis of a zone
    ZoneOf,         \* the zone of a fan
    Main,           \* the chassis whose power is at /org/openbmc/control/power0
    UsesAvailable,  \* chassis whose configuration uses the property Available
    RuleZone,       \* the zone of a power off rule
    BeforeError,    \* num_nonfunc_rotors_before_error
    MaxChanges      \* bound: changes around the daemon, restarts and reloads

ASSUME MultiChassisAssumption ==
    /\ ChassisOf \in [Zone -> Chassis]
    /\ ZoneOf \in [Fan -> Zone]
    /\ Main \in Chassis /\ UsesAvailable \subseteq Chassis
    /\ Rotor = Fan /\ RuleZone \in [Rule -> Zone]
    /\ BeforeError \in Nat /\ MaxChanges \in Nat

ASSUME FiniteFans == IsFiniteSet(Fan)

VARIABLES
    pgood,      \* chassis -> its pgood on D-Bus
    available,  \* chassis -> "yes", "no" or "none"
    inventory,  \* the inventory service runs
    plugged,    \* the fans that are present in the inventory
    onBus,      \* the fans whose tach sensor is on D-Bus
    running,    \* the daemon runs
    power,      \* chassis -> the power state it knows
    zone,       \* "none", "waiting" for the inventory or "loaded"
    fan,        \* the state of a fan: see NewFan
    health,     \* fan -> its entry in the fan health of its zone
    subscribed, \* the fans whose services are watched
    offline,    \* zones that gave up on their fan controller
    lastError,  \* zone -> the last fan error
    inbox,      \* the signals received
    changes

env == <<pgood, available, inventory, plugged, onBus>>
monitor == <<running, power, zone, fan, health, subscribed, offline, lastError>>
vars == <<env, monitor, inbox, changes, ruleVars>>

Change == changes < MaxChanges /\ changes' = changes + 1

FansOf(z) == {f \in Fan : ZoneOf[f] = z}
PowerOf(f) == power[ChassisOf[ZoneOf[f]]]
Loaded(f) == zone[ZoneOf[f]] = "loaded"

-----------------------------------------------------------------------------
(* Rules: what each zone asks of its own in a step                         *)

PgoodOnly(ask) == {ask} \* mutant: at power on runtime rules are not checked
States(ask) == IF ask = "pgood" THEN {"pgood", "runtime"} ELSE {"runtime"}

\* ask: zone -> "keep", "runtime", "pgood", "cancel" or, as the zone is
\* created or destroyed, "new"; fh: fan -> health.
Asked(r, ask) == ask[RuleZone[r]]
HealthIn(r, fh) == [f \in FansOf(RuleZone[r]) |-> fh[f]]
StartsNew(r, fh) ==
    /\ zone'[RuleZone[r]] = "loaded" /\ power'[ChassisOf[RuleZone[r]]]
    /\ ValidState[r] = "runtime" /\ Satisfied(r, HealthIn(r, fh))

RulesReact(ask, fh) ==
    /\ active' = [r \in Rule |->
          CASE Asked(r, ask) = "keep" -> active[r]
            [] Asked(r, ask) = "cancel" -> FALSE
            [] Asked(r, ask) = "new" -> StartsNew(r, fh)
            [] OTHER -> ActiveAfter(r, States(Asked(r, ask)), HealthIn(r, fh))]
    /\ delayTimer' = [r \in Rule |->
          CASE Asked(r, ask) = "keep" -> delayTimer[r]
            [] Asked(r, ask) = "cancel" -> FALSE
            [] Asked(r, ask) = "new" -> StartsNew(r, fh)
            [] OTHER -> DelayAfter(r, States(Asked(r, ask)), HealthIn(r, fh))]
    /\ meltdown' = [r \in Rule |-> meltdown[r] /\ Asked(r, ask) \notin {"cancel", "new"}]

Ask(zones, what) == [z \in Zone |-> IF z \in zones THEN what ELSE "keep"]

-----------------------------------------------------------------------------
(* Fans                                                                    *)

NoFan == [present |-> FALSE, func |-> TRUE, owner |-> TRUE,
          phase |-> "off", missingTimer |-> FALSE, errorTimer |-> FALSE]

\* Fan::init()
NewFan(f, on) ==
    [NoFan EXCEPT !.present = f \in plugged, !.phase = IF on THEN "delay" ELSE "off",
                  !.missingTimer = on /\ f \notin plugged]

HealthOf(f, state) == [present |-> state.present, failed |-> IF state.func THEN {} ELSE {f}]

\* setFunctional()
SetFunctional(state, func, skipErrorTimer) ==
    [state EXCEPT !.func = func,
                  !.errorTimer = ~func /\ (@ \/ (state.present /\ ~skipErrorTimer))]

\* fanStatusChange(), unless it skips the check of the rules
FanStatusChange(f, state, skip) ==
    /\ fan' = [fan EXCEPT ![f] = state]
    /\ health' = [health EXCEPT ![f] = HealthOf(f, state)]
    /\ RulesReact(Ask(IF PowerOf(f) /\ ~skip THEN {ZoneOf[f]} ELSE {}, "runtime"), health')

-----------------------------------------------------------------------------
(* Zones                                                                   *)

ZonesOf(chassis) == {z \in Zone : ChassisOf[z] \in chassis}

StillSubscribed(zones) == {f \in subscribed : ZoneOf[f] \notin zones}

\* The zones of some chassis are replaced by new ones, or by none.  init()
\* records the fans, checks the rules and subscribes to the services of the
\* sensors before the fans are initialised; a zone waits for the inventory.
Replace(chassis, created) ==
    LET zones == ZonesOf(chassis)
        on(f) == power'[ChassisOf[ZoneOf[f]]]
        has(f) == ZoneOf[f] \in ZonesOf(created) /\ inventory
    IN  /\ zone' = [z \in Zone |-> IF z \notin zones THEN zone[z]
                                   ELSE IF z \notin ZonesOf(created) THEN "none"
                                   ELSE IF inventory THEN "loaded" ELSE "waiting"]
        /\ fan' = [f \in Fan |-> IF ZoneOf[f] \notin zones THEN fan[f]
                                 ELSE IF has(f) THEN NewFan(f, on(f)) ELSE NoFan]
        /\ health' = [f \in Fan |-> IF ZoneOf[f] \in zones THEN HealthOf(f, NoFan) ELSE health[f]]
        /\ subscribed' = StillSubscribed(zones)
        /\ offline' = offline \ zones
        /\ lastError' = [z \in Zone |-> IF z \in zones THEN "none" ELSE lastError[z]]
        /\ RulesReact(Ask(zones, "new"), health')

\* The constructor of Chassis reads its power, and init() the availability.
CreatedAtStart == {c \in Chassis : c \in UsesAvailable => available[c] = "yes"}

Start ==
    /\ ~running
    /\ running' = TRUE
    /\ power' = pgood
    /\ alert' = FALSE
    /\ inbox' = <<>>
    /\ Replace(Chassis, CreatedAtStart)
    /\ UNCHANGED <<env, requested, changes>>

\* sighupHandler() starts it again, and keeps the thermal alert.
SighupHandler ==
    /\ running /\ Change
    /\ power' = pgood
    /\ Replace(Chassis, CreatedAtStart)
    /\ UNCHANGED <<env, running, inbox, alert, requested>>

\* availableChanged() and availIfaceAdded()
CreatedAlways(c, value) == {c} \* mutant: the value of the property is not looked at
CreatedFor(c, value) == IF value = "yes" THEN {c} ELSE {}

AvailableChanged(c, value) ==
    /\ UNCHANGED <<running, power, alert, requested>>
    /\ Replace({c}, CreatedFor(c, value))

-----------------------------------------------------------------------------
(* Power                                                                   *)

Recovers(f) == f \in onBus /\ fan[f].present /\ ~fan[f].func
PowerOnFan(f) ==
    [(IF Recovers(f) THEN SetFunctional(fan[f], TRUE, FALSE) ELSE fan[f])
        EXCEPT !.phase = "delay", !.missingTimer = @ \/ ~fan[f].present]
PowerOffFan(f) == [fan[f] EXCEPT !.phase = "off", !.missingTimer = FALSE]

\* powerStateChanged() of zones that are loaded
PowerOn(zones) ==
    LET lost == {z \in zones : FansOf(z) \cap onBus = {}}
        new == {z \in zones \ lost : FansOf(z) \cap subscribed = {}}
    IN  /\ fan' = [f \in Fan |-> IF ZoneOf[f] \in zones THEN PowerOnFan(f) ELSE fan[f]]
        /\ health' = [f \in Fan |-> IF ZoneOf[f] \in zones /\ Recovers(f)
                                    THEN HealthOf(f, fan'[f]) ELSE health[f]]
        /\ offline' = offline \cup lost
        /\ requested' = IF lost = {} THEN requested ELSE requested \cup {"hard"}
        /\ subscribed' = subscribed \cup {f \in onBus : ZoneOf[f] \in new}
        /\ UNCHANGED alert
        /\ RulesReact(Ask(zones \ lost, "pgood"), health')

CancelZones(zones) ==
    /\ RulesReact(Ask(zones, "cancel"), health)
    /\ alert' = (alert /\ zones = {})

PowerOff(zones) ==
    /\ fan' = [f \in Fan |-> IF ZoneOf[f] \in zones THEN PowerOffFan(f) ELSE fan[f]]
    /\ offline' = offline \ zones
    /\ CancelZones(zones)
    /\ UNCHANGED <<health, subscribed, requested>>

Dies ==
    /\ running' = FALSE
    /\ power' = [c \in Chassis |-> FALSE]
    /\ alert' = FALSE
    /\ Replace(Chassis, {})
    /\ UNCHANGED requested

\* Every chassis reads its own pgood, but listens to that of power0.  A zone
\* that is not loaded when the power comes on ends the daemon.
PgoodChanged(value) ==
    LET changed == {c \in Chassis : power[c] # value}
        zones == {z \in ZonesOf(changed) : zone[z] # "none"}
    IN  IF value /\ \E z \in zones : zone[z] = "waiting" THEN Dies
        ELSE /\ power' = [c \in Chassis |-> value]
             /\ IF value THEN PowerOn(zones) ELSE PowerOff(zones)
             /\ UNCHANGED <<running, zone, lastError>>

Receive ==
    /\ running /\ inbox # <<>>
    /\ LET m == Head(inbox)
       IN  IF m.type = "pgood" THEN PgoodChanged(m.on) ELSE AvailableChanged(m.chassis, m.value)
    /\ inbox' = IF running' THEN Tail(inbox) ELSE <<>>
    /\ UNCHANGED <<env, changes>>

-----------------------------------------------------------------------------
(* What happens around the daemon                                          *)

Send(m, sent) == inbox' = IF running /\ sent THEN Append(inbox, m) ELSE inbox

PgoodChange(c) ==
    /\ Change
    /\ pgood' = [pgood EXCEPT ![c] = ~@]
    /\ Send([type |-> "pgood", on |-> ~pgood[c]], c = Main)
    /\ UNCHANGED <<available, inventory, plugged, onBus, monitor, ruleVars>>

AvailableChange(c, value) ==
    /\ Change
    /\ c \in UsesAvailable /\ available[c] # value
    /\ available' = [available EXCEPT ![c] = value]
    /\ Send([type |-> "available", chassis |-> c, value |-> value], TRUE)
    /\ UNCHANGED <<pgood, inventory, plugged, onBus, monitor, ruleVars>>

InventoryStops ==
    /\ Change
    /\ inventory /\ inventory' = FALSE
    /\ UNCHANGED <<pgood, available, plugged, onBus, monitor, inbox, ruleVars>>

InventoryStarts ==
    /\ Change
    /\ ~inventory /\ inventory' = TRUE
    /\ LET waiting == {z \in Zone : zone[z] = "waiting"}
           fans == {f \in Fan : ZoneOf[f] \in waiting}
       IN  /\ zone' = [z \in Zone |-> IF z \in waiting THEN "loaded" ELSE zone[z]]
           /\ fan' = [f \in Fan |-> IF f \in fans THEN NewFan(f, PowerOf(f)) ELSE fan[f]]
           /\ power' = power
           /\ RulesReact(Ask(waiting, "new"), health)
    /\ UNCHANGED <<pgood, available, plugged, onBus, running, health, subscribed, offline, lastError,
                   inbox, alert, requested>>

\* presenceChanged()
PresenceChange(f) ==
    /\ Change
    /\ plugged' = IF f \in plugged THEN plugged \ {f} ELSE plugged \cup {f}
    /\ IF Loaded(f)
       THEN FanStatusChange(f, [fan[f] EXCEPT !.present = f \in plugged',
                                              !.missingTimer = f \notin plugged' /\ (@ \/ PowerOf(f))],
                            FALSE)
       ELSE UNCHANGED <<fan, health, active, delayTimer, meltdown>>
    /\ UNCHANGED <<pgood, available, inventory, onBus, running, power, zone, subscribed, offline,
                   lastError, inbox, alert, requested>>

\* tachSignalOffline()
TachChange(f) ==
    /\ Change
    /\ onBus' = IF f \in onBus THEN onBus \ {f} ELSE onBus \cup {f}
    /\ fan' = [fan EXCEPT ![f].owner = IF f \in subscribed THEN f \in onBus' ELSE @]
    /\ UNCHANGED <<pgood, available, inventory, plugged, running, power, zone, health, subscribed,
                   offline, lastError, inbox, ruleVars>>

-----------------------------------------------------------------------------
(* Monitoring of a fan                                                     *)

FanStep(f) ==
    /\ Loaded(f)
    /\ UNCHANGED <<env, running, power, zone, subscribed, offline, inbox, changes, alert, requested>>

\* The monitor start delay has expired.
StartMonitor(f) ==
    /\ FanStep(f) /\ fan[f].phase = "delay"
    /\ LET ready == [fan[f] EXCEPT !.phase = "ready"]
       IN  IF f \in onBus
           THEN /\ fan' = [fan EXCEPT ![f] = ready]
                /\ UNCHANGED <<health, active, delayTimer, meltdown>>
           ELSE FanStatusChange(f, SetFunctional(ready, FALSE, TRUE), TRUE)
    /\ UNCHANGED lastError

\* updateState() at the end of the fault detection
Judge(f) ==
    /\ FanStep(f) /\ PowerOf(f) /\ (fan[f].phase = "ready" \/ f \in subscribed)
    /\ FanStatusChange(f, SetFunctional(fan[f], ~fan[f].func, ~fan[f].owner), ~fan[f].owner)
    /\ UNCHANGED lastError

MissingTimerExpired(f) ==
    /\ FanStep(f) /\ fan[f].missingTimer
    /\ fan' = [fan EXCEPT ![f].missingTimer = FALSE]
    /\ lastError' = [lastError EXCEPT ![ZoneOf[f]] = "missing"]
    /\ UNCHANGED <<health, active, delayTimer, meltdown>>

\* Nonfunctional sensors that have no error of their own yet are not counted.
Severity(z) ==
    LET counted == {f \in FansOf(z) : ~fan[f].func /\ ~fan'[f].errorTimer}
    IN  IF Cardinality(counted) < BeforeError THEN "informational" ELSE "error"

ErrorTimerExpired(f) ==
    /\ FanStep(f) /\ fan[f].errorTimer
    /\ fan' = [fan EXCEPT ![f].errorTimer = FALSE]
    /\ lastError' = IF fan[f].present /\ PowerOf(f)
                    THEN [lastError EXCEPT ![ZoneOf[f]] = Severity(ZoneOf[f])] ELSE lastError
    /\ UNCHANGED <<health, active, delayTimer, meltdown>>

-----------------------------------------------------------------------------
Init ==
    /\ pgood \in [Chassis -> BOOLEAN]
    /\ available = [c \in Chassis |-> IF c \in UsesAvailable THEN "none" ELSE "yes"]
    /\ inventory = TRUE
    /\ plugged \in {Fan, {}} /\ onBus = Fan
    /\ running = FALSE
    /\ power = [c \in Chassis |-> FALSE]
    /\ zone = [z \in Zone |-> "none"]
    /\ fan = [f \in Fan |-> NoFan]
    /\ health = [f \in Fan |-> HealthOf(f, NoFan)]
    /\ subscribed = {} /\ offline = {}
    /\ lastError = [z \in Zone |-> "none"]
    /\ inbox = <<>> /\ changes = 0
    /\ active = [r \in Rule |-> FALSE] /\ delayTimer = active /\ meltdown = active
    /\ alert = FALSE /\ requested = {}

Next ==
    \/ Start \/ SighupHandler \/ Receive
    \/ \E c \in Chassis : PgoodChange(c) \/ (\E v \in {"yes", "no"} : AvailableChange(c, v))
    \/ InventoryStops \/ InventoryStarts
    \/ \E f \in Fan : \/ PresenceChange(f) \/ TachChange(f)
                      \/ StartMonitor(f) \/ Judge(f) \/ MissingTimerExpired(f) \/ ErrorTimerExpired(f)
    \/ /\ \E r \in Rule : RuleTimerExpired(r)
       /\ UNCHANGED <<env, monitor, inbox, changes>>

Spec == Init /\ [][Next]_vars

-----------------------------------------------------------------------------
(* Properties                                                              *)

\* Every handler keeps the types, in whatever state a zone is, and a zone that
\* was destroyed leaves nothing behind.  (createZones(), _zones.clear())
ChassisTypeOK ==
    /\ RuleTypeOK
    /\ power \in [Chassis -> BOOLEAN]
    /\ zone \in [Zone -> {"none", "waiting", "loaded"}]
    /\ fan \in [Fan -> [present : BOOLEAN, func : BOOLEAN, owner : BOOLEAN,
                        phase : {"off", "delay", "ready"}, missingTimer : BOOLEAN, errorTimer : BOOLEAN]]
    /\ health \in [Fan -> [present : BOOLEAN, failed : SUBSET Fan]]
    /\ subscribed \subseteq {f \in Fan : Loaded(f)}
    /\ offline \subseteq {z \in Zone : zone[z] = "loaded"}
    /\ lastError \in [Zone -> {"none", "missing", "informational", "error"}]

\* When all signals are handled, a chassis that is available has zones and one
\* that is not has none, whatever was read at the start or over a reload.
\* (Chassis::init(), availableChanged(), availIfaceAdded())
MonitoredWhileAvailable ==
    running /\ inbox = <<>> =>
        \A z \in Zone :
            /\ available[ChassisOf[z]] = "yes" => zone[z] # "none"
            /\ available[ChassisOf[z]] = "no" => zone[z] = "none"

\* Fans are only monitored, missing fans only timed and rules only active
\* while the chassis of the zone is on and the zone exists.
\* (powerStateChanged(), createZones())
MonitoringNeedsPower ==
    /\ \A f \in Fan : fan[f].phase # "off" \/ fan[f].missingTimer => Loaded(f) /\ PowerOf(f)
    /\ \A r \in Rule : active[r] \/ delayTimer[r] \/ meltdown[r] =>
           zone[RuleZone[r]] = "loaded" /\ power[ChassisOf[RuleZone[r]]]

\* A zone is monitored while its chassis is there and on, and only then.
MonitoringFollows == MonitoredWhileAvailable /\ MonitoringNeedsPower

\* The fan health a zone decides on has the rotors as they are, and never a
\* fan that is missing as present.  (updateFanHealth())
HealthOfZone ==
    \A f \in Fan : /\ health[f].failed = (IF fan[f].func THEN {} ELSE {f})
                   /\ health[f].present => fan[f].present

\* With the power on, a rule for missing fans is active when enough fans of
\* its zone are missing, or the zone has already asked for a power off.
\* (fanStatusChange(), powerStateChanged(), init())
MissingFansOfZone ==
    \A r \in Rule :
        LET gone == {f \in FansOf(RuleZone[r]) : ~fan[f].present}
        IN  /\ zone[RuleZone[r]] = "loaded" /\ power[ChassisOf[RuleZone[r]]]
            /\ Cause[r] = "missing_fan_frus" /\ ValidState[r] = "runtime"
            /\ Cardinality(gone) >= Count[r]
            => active[r] \/ RuleZone[r] \in offline

\* The rules of a zone decide on its fans: the health is that of the fans, and
\* fans that are missing are acted on (fanStatusChange() of the zone).
RulesFollowFans == ChassisTypeOK /\ HealthOfZone /\ MissingFansOfZone

\* "Fans could be missing on startup, so check the power off rules." (zone.cpp:451)
\* A rule for missing fans starts only when enough fans are missing.
StartsForMissingFans ==
    [][\A r \in Rule :
         Cause[r] = "missing_fan_frus" /\ ~active[r] /\ active'[r]
         => Cardinality({f \in FansOf(RuleZone[r]) : ~fan'[f].present}) >= Count[r]]_vars

=============================================================================
