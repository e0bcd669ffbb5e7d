--------------------------- MODULE MultiChassisProofs ---------------------------
(***************************************************************************)
(* Theorems about MultiChassis: for any chassis, zones, fans and rules,    *)
(* the zones follow the availability of their chassis, the monitoring its  *)
(* power, and the rules the fans of their zone.                            *)
(***************************************************************************)
EXTENDS MultiChassis, SequenceProofs, FiniteSetTheorems

USE MultiChassisAssumption, PowerOffRuleAssumption, FiniteFans

-----------------------------------------------------------------------------
(* Types                                                                   *)

FanState == [present : BOOLEAN, func : BOOLEAN, owner : BOOLEAN,
             phase : {"off", "delay", "ready"}, missingTimer : BOOLEAN, errorTimer : BOOLEAN]
FanHealth == [present : BOOLEAN, failed : SUBSET Fan]

PgoodMessage == [type : {"pgood"}, on : BOOLEAN]
AvailableMessage == [type : {"available"}, chassis : Chassis, value : {"yes", "no"}]
Message == PgoodMessage \cup AvailableMessage

\* The types of what is around the daemon.
EnvTypeOK ==
    /\ pgood \in [Chassis -> BOOLEAN]
    /\ available \in [Chassis -> {"yes", "no", "none"}]
    /\ inventory \in BOOLEAN
    /\ plugged \subseteq Fan /\ onBus \subseteq Fan
    /\ running \in BOOLEAN
    /\ inbox \in Seq(Message)

Asks == [Zone -> {"keep", "runtime", "pgood", "cancel", "new"}]

LEMMA AskType ==
    ASSUME NEW zones, NEW what \in {"runtime", "pgood", "cancel", "new"}
    PROVE  /\ Ask(zones, what) \in Asks
           /\ \A r \in Rule : Asked(r, Ask(zones, what)) = (IF RuleZone[r] \in zones THEN what ELSE "keep")
  BY DEF Ask, Asks, Asked

LEMMA HealthType ==
    ASSUME NEW f \in Fan, NEW state \in FanState
    PROVE  HealthOf(f, state) \in FanHealth
  BY DEF HealthOf, FanState, FanHealth

LEMMA NewFanType ==
    ASSUME NEW f \in Fan, NEW on \in BOOLEAN
    PROVE  /\ NoFan \in FanState /\ NewFan(f, on) \in FanState
           /\ NewFan(f, on).func /\ NewFan(f, on).phase = (IF on THEN "delay" ELSE "off")
           /\ NewFan(f, on).missingTimer => on
           /\ NewFan(f, on).present = (f \in plugged)
           /\ NoFan.func /\ ~NoFan.present /\ NoFan.phase = "off" /\ ~NoFan.missingTimer
  <1>1. /\ NoFan \in FanState
        /\ NoFan.func /\ ~NoFan.present /\ NoFan.phase = "off" /\ ~NoFan.missingTimer
    BY DEF NoFan, FanState
  <1>2. NewFan(f, on) \in FanState
    <2> DEFINE E(p, ph, m) == [NoFan EXCEPT !.present = p, !.phase = ph, !.missingTimer = m]
    <2>1. \A p, m \in BOOLEAN : \A ph \in {"off", "delay"} : E(p, ph, m) \in FanState
      BY DEF NoFan, FanState
    <2>2. (f \in plugged) \in BOOLEAN /\ (on /\ f \notin plugged) \in BOOLEAN
      OBVIOUS
    <2>3. NewFan(f, on) = E(f \in plugged, IF on THEN "delay" ELSE "off", on /\ f \notin plugged)
      BY DEF NewFan
    <2> HIDE DEF E
    <2> QED
      BY <2>1, <2>2, <2>3
  <1>3. NewFan(f, on).func /\ NewFan(f, on).phase = (IF on THEN "delay" ELSE "off")
    BY DEF NoFan, NewFan
  <1>4. NewFan(f, on).missingTimer => on
    BY DEF NoFan, NewFan
  <1>5. NewFan(f, on).present = (f \in plugged)
    BY DEF NoFan, NewFan
  <1> QED
    BY <1>1, <1>2, <1>3, <1>4, <1>5

LEMMA NoFanHealth ==
    ASSUME NEW f \in Fan
    PROVE  HealthOf(f, NoFan) \in FanHealth /\ ~HealthOf(f, NoFan).present /\ HealthOf(f, NoFan).failed = {}
  BY DEF HealthOf, NoFan, FanHealth

LEMMA SetFunctionalType ==
    ASSUME NEW state \in FanState, NEW func \in BOOLEAN, NEW skip \in BOOLEAN
    PROVE  /\ SetFunctional(state, func, skip) \in FanState
           /\ SetFunctional(state, func, skip).func = func
           /\ SetFunctional(state, func, skip).present = state.present
           /\ SetFunctional(state, func, skip).owner = state.owner
           /\ SetFunctional(state, func, skip).phase = state.phase
           /\ SetFunctional(state, func, skip).missingTimer = state.missingTimer
  BY DEF SetFunctional, FanState

-----------------------------------------------------------------------------
(* Rules                                                                   *)

\* A rule for missing fans is satisfied by a health that has enough of them.
LEMMA EnoughMissing ==
    ASSUME NEW r \in Rule, Cause[r] = "missing_fan_frus", NEW fh,
           NEW gone, Cardinality(gone) >= Count[r],
           \A f \in gone : f \in FansOf(RuleZone[r]) /\ ~fh[f].present
    PROVE  Satisfied(r, HealthIn(r, fh))
  <1> DEFINE M == {f \in FansOf(RuleZone[r]) : ~fh[f].present}
  <1>1. MissingFans(HealthIn(r, fh)) = M
    BY DEF MissingFans, HealthIn
  <1>2. M \in SUBSET Fan /\ gone \in SUBSET M
    BY DEF FansOf
  <1>3. IsFiniteSet(M)
    BY <1>2, FS_Subset
  <1>4. /\ Cardinality(gone) <= Cardinality(M)
        /\ Cardinality(gone) \in Nat /\ Cardinality(M) \in Nat
    BY <1>2, <1>3, FS_Subset, FS_CardinalityType
  <1>5. Count[r] \in Nat
    OBVIOUS
  <1>6. Cardinality(M) >= Count[r]
    BY <1>4, <1>5
  <1> QED
    BY <1>1, <1>6 DEF Satisfied

\* What is asked of a rule decides on all its state.
LEMMA RuleReacts ==
    ASSUME RuleTypeOK, NEW ask \in Asks, NEW fh, RulesReact(ask, fh), NEW r \in Rule
    PROVE  /\ Asked(r, ask) = "keep" =>
                active'[r] = active[r] /\ delayTimer'[r] = delayTimer[r] /\ meltdown'[r] = meltdown[r]
           /\ Asked(r, ask) = "cancel" => ~active'[r] /\ ~delayTimer'[r] /\ ~meltdown'[r]
           /\ Asked(r, ask) = "new" =>
                active'[r] = StartsNew(r, fh) /\ delayTimer'[r] = StartsNew(r, fh) /\ ~meltdown'[r]
           /\ Asked(r, ask) \in {"runtime", "pgood"} =>
                /\ active'[r] = ActiveAfter(r, States(Asked(r, ask)), HealthIn(r, fh))
                /\ delayTimer'[r] = DelayAfter(r, States(Asked(r, ask)), HealthIn(r, fh))
                /\ meltdown'[r] = meltdown[r]
           /\ Asked(r, ask) \in {"keep", "cancel", "new", "runtime", "pgood"}
  <1>1. Asked(r, ask) \in {"keep", "cancel", "new", "runtime", "pgood"}
    BY DEF Asked, Asks
  <1>2. meltdown'[r] = (meltdown[r] /\ Asked(r, ask) \notin {"cancel", "new"}) /\ meltdown[r] \in BOOLEAN
    BY DEF RulesReact, RuleTypeOK
  <1>3. CASE Asked(r, ask) = "keep"
    BY <1>2, <1>3 DEF RulesReact
  <1>4. CASE Asked(r, ask) = "cancel"
    BY <1>2, <1>4 DEF RulesReact
  <1>5. CASE Asked(r, ask) = "new"
    BY <1>2, <1>5 DEF RulesReact
  <1>6. CASE Asked(r, ask) = "runtime"
    BY <1>2, <1>6 DEF RulesReact
  <1>7. CASE Asked(r, ask) = "pgood"
    BY <1>2, <1>7 DEF RulesReact
  <1> QED
    BY <1>1, <1>3, <1>4, <1>5, <1>6, <1>7

LEMMA RulesReactType ==
    ASSUME RuleTypeOK, NEW ask \in Asks, NEW fh, RulesReact(ask, fh)
    PROVE  /\ active' \in [Rule -> BOOLEAN]
           /\ delayTimer' \in [Rule -> BOOLEAN]
           /\ meltdown' \in [Rule -> BOOLEAN]
  <1>1. active' = [r \in Rule |-> active'[r]] /\ delayTimer' = [r \in Rule |-> delayTimer'[r]]
        /\ meltdown' = [r \in Rule |-> meltdown'[r]]
    BY DEF RulesReact
  <1>2. ASSUME NEW r \in Rule PROVE active'[r] \in BOOLEAN /\ delayTimer'[r] \in BOOLEAN /\ meltdown'[r] \in BOOLEAN
    <2>1. active[r] \in BOOLEAN /\ delayTimer[r] \in BOOLEAN /\ meltdown[r] \in BOOLEAN
      BY DEF RuleTypeOK
    <2>2. StartsNew(r, fh) \in BOOLEAN
      BY DEF StartsNew
    <2>3. /\ ActiveAfter(r, States(Asked(r, ask)), HealthIn(r, fh)) \in BOOLEAN
          /\ DelayAfter(r, States(Asked(r, ask)), HealthIn(r, fh)) \in BOOLEAN
      BY DEF ActiveAfter, DelayAfter
    <2>4. CASE Asked(r, ask) = "keep"
      BY <2>1, <2>4, RuleReacts
    <2>5. CASE Asked(r, ask) = "cancel"
      BY <2>5, RuleReacts DEF RulesReact
    <2>6. CASE Asked(r, ask) = "new"
      BY <2>2, <2>6, RuleReacts DEF RulesReact
    <2>7. CASE Asked(r, ask) \in {"runtime", "pgood"}
      BY <2>1, <2>3, <2>7, RuleReacts
    <2> QED
      BY <2>4, <2>5, <2>6, <2>7, RuleReacts
  <1> QED
    BY <1>1, <1>2

\* A rule for missing fans that is checked with enough of them is active.
LEMMA CheckedActive ==
    ASSUME RuleTypeOK, NEW ask \in Asks, NEW fh, RulesReact(ask, fh), NEW r \in Rule,
           Asked(r, ask) \in {"runtime", "pgood"},
           ValidState[r] = "runtime", Satisfied(r, HealthIn(r, fh))
    PROVE  active'[r]
  <1>1. active'[r] = ActiveAfter(r, States(Asked(r, ask)), HealthIn(r, fh))
    BY RuleReacts
  <1>2. "runtime" \in States(Asked(r, ask))
    BY DEF States
  <1>3. Starts(r, States(Asked(r, ask)), HealthIn(r, fh)) \/ (active[r] /\ ~Stops(r, HealthIn(r, fh)))
    BY <1>2 DEF Starts, Stops
  <1> QED
    BY <1>1, <1>3 DEF ActiveAfter

-----------------------------------------------------------------------------
(* The zones, as a step leaves them                                        *)

\* Fans of a zone that is not loaded have nothing recorded.
NotLoaded == \A f \in Fan : ~Loaded(f) => ~health[f].present /\ health[f].failed = {}

ChassisInv == ChassisTypeOK /\ MonitoringNeedsPower /\ HealthOfZone /\ NotLoaded /\ MissingFansOfZone

\* Zones are replaced: what stays belongs to other zones, and new rules for
\* missing fans see every fan of the new zone as missing.
LEMMA ReplaceInv ==
    ASSUME ChassisInv, EnvTypeOK, NEW chassis \in SUBSET Chassis, NEW created,
           power' \in [Chassis -> BOOLEAN], chassis = Chassis \/ power' = power,
           alert' \in BOOLEAN, requested' = requested,
           Replace(chassis, created)
    PROVE  ChassisInv'
  <1> DEFINE zones == ZonesOf(chassis)
             ask == Ask(zones, "new")
  <1>1. ASSUME NEW z \in Zone, z \notin zones PROVE power'[ChassisOf[z]] = power[ChassisOf[z]]
    BY <1>1 DEF ZonesOf
  <1>2. /\ zone' \in [Zone -> {"none", "waiting", "loaded"}]
        /\ \A z \in Zone : z \notin zones => zone'[z] = zone[z]
    BY DEF Replace, ChassisInv, ChassisTypeOK
  <1>3. ASSUME NEW f \in Fan, ZoneOf[f] \in zones
        PROVE  /\ health'[f] = HealthOf(f, NoFan)
               /\ \/ fan'[f] = NoFan
                  \/ fan'[f] = NewFan(f, power'[ChassisOf[ZoneOf[f]]]) /\ zone'[ZoneOf[f]] = "loaded"
    BY <1>3 DEF Replace
  <1>4. ASSUME NEW f \in Fan, ZoneOf[f] \notin zones
        PROVE  /\ fan'[f] = fan[f] /\ health'[f] = health[f] /\ Loaded(f)' = Loaded(f)
               /\ PowerOf(f)' = PowerOf(f)
    BY <1>1, <1>2, <1>4 DEF Replace, Loaded, PowerOf
  <1>5. ask \in Asks /\ RulesReact(ask, health') /\ RuleTypeOK
    BY AskType DEF Replace, ChassisInv, ChassisTypeOK
  <1>6. ASSUME NEW r \in Rule, RuleZone[r] \in zones
        PROVE  active'[r] = StartsNew(r, health') /\ delayTimer'[r] = StartsNew(r, health') /\ ~meltdown'[r]
    BY <1>5, <1>6, AskType, RuleReacts
  <1>7. ASSUME NEW r \in Rule, RuleZone[r] \notin zones
        PROVE  active'[r] = active[r] /\ delayTimer'[r] = delayTimer[r] /\ meltdown'[r] = meltdown[r]
    BY <1>5, <1>7, AskType, RuleReacts
  <1>8. ASSUME NEW f \in Fan
        PROVE  fan'[f] \in FanState /\ health'[f] \in FanHealth
    <2>1. CASE ZoneOf[f] \in zones
      <3>1. power'[ChassisOf[ZoneOf[f]]] \in BOOLEAN
        OBVIOUS
      <3> QED
        BY <1>3, <2>1, <3>1, NewFanType, HealthType
    <2>2. CASE ZoneOf[f] \notin zones
      BY <1>4, <2>2 DEF ChassisInv, ChassisTypeOK, FanState, FanHealth
    <2> QED
      BY <2>1, <2>2
  <1>9. ChassisTypeOK'
    <2>1. RuleTypeOK'
      BY <1>5, RulesReactType DEF RuleTypeOK
    <2>2. fan' \in [Fan -> FanState] /\ health' \in [Fan -> FanHealth]
      <3>1. fan' = [f \in Fan |-> fan'[f]] /\ health' = [f \in Fan |-> health'[f]]
        BY DEF Replace
      <3> QED
        BY <1>8, <3>1
    <2>3. subscribed' \subseteq {f \in Fan : Loaded(f)'}
      BY <1>4 DEF Replace, StillSubscribed, ChassisInv, ChassisTypeOK
    <2>4. offline' \subseteq {z \in Zone : zone'[z] = "loaded"}
      BY <1>2 DEF Replace, ChassisInv, ChassisTypeOK
    <2>5. lastError' \in [Zone -> {"none", "missing", "informational", "error"}]
      BY DEF Replace, ChassisInv, ChassisTypeOK
    <2> QED
      BY <1>2, <2>1, <2>2, <2>3, <2>4, <2>5 DEF ChassisTypeOK, FanState, FanHealth
  <1>10. MonitoringNeedsPower'
    <2>1. ASSUME NEW f \in Fan, fan'[f].phase # "off" \/ fan'[f].missingTimer
          PROVE  Loaded(f)' /\ PowerOf(f)'
      <3>1. CASE ZoneOf[f] \in zones
        <4>1. power'[ChassisOf[ZoneOf[f]]] \in BOOLEAN
          OBVIOUS
        <4> QED
          BY <1>3, <2>1, <3>1, <4>1, NewFanType DEF Loaded, PowerOf
      <3>2. CASE ZoneOf[f] \notin zones
        BY <1>4, <2>1, <3>2 DEF ChassisInv, MonitoringNeedsPower
      <3> QED
        BY <3>1, <3>2
    <2>2. ASSUME NEW r \in Rule, active'[r] \/ delayTimer'[r] \/ meltdown'[r]
          PROVE  zone'[RuleZone[r]] = "loaded" /\ power'[ChassisOf[RuleZone[r]]]
      <3>1. CASE RuleZone[r] \in zones
        BY <1>6, <2>2, <3>1 DEF StartsNew
      <3>2. CASE RuleZone[r] \notin zones
        BY <1>1, <1>2, <1>7, <2>2, <3>2 DEF ChassisInv, MonitoringNeedsPower
      <3> QED
        BY <3>1, <3>2
    <2> QED
      BY <2>1, <2>2 DEF MonitoringNeedsPower
  <1>11. HealthOfZone' /\ NotLoaded'
    <2>1. ASSUME NEW f \in Fan
          PROVE  /\ health'[f].failed = (IF fan'[f].func THEN {} ELSE {f})
                 /\ health'[f].present => fan'[f].present
                 /\ ~Loaded(f)' => ~health'[f].present /\ health'[f].failed = {}
      <3>1. CASE ZoneOf[f] \in zones
        <4>1. power'[ChassisOf[ZoneOf[f]]] \in BOOLEAN
          OBVIOUS
        <4>2. health'[f] = HealthOf(f, NoFan)
          BY <1>3, <3>1
        <4>3. ~health'[f].present /\ health'[f].failed = {}
          BY <4>2, NoFanHealth
        <4>4. fan'[f].func
          BY <1>3, <3>1, <4>1, NewFanType
        <4> QED
          BY <4>3, <4>4
      <3>2. CASE ZoneOf[f] \notin zones
        BY <1>4, <3>2 DEF ChassisInv, HealthOfZone, NotLoaded
      <3> QED
        BY <3>1, <3>2
    <2> QED
      BY <2>1 DEF HealthOfZone, NotLoaded
  <1>12. MissingFansOfZone'
    <2> SUFFICES ASSUME NEW r \in Rule,
                        zone'[RuleZone[r]] = "loaded", power'[ChassisOf[RuleZone[r]]],
                        Cause[r] = "missing_fan_frus", ValidState[r] = "runtime",
                        Cardinality({f \in FansOf(RuleZone[r]) : ~fan'[f].present}) >= Count[r]
                 PROVE  active'[r] \/ RuleZone[r] \in offline'
      BY DEF MissingFansOfZone
    <2> DEFINE gone == {f \in FansOf(RuleZone[r]) : ~fan'[f].present}
    <2>1. CASE RuleZone[r] \in zones
      <3>1. ASSUME NEW f \in gone PROVE f \in FansOf(RuleZone[r]) /\ ~health'[f].present
        BY <1>3, <2>1, NoFanHealth DEF FansOf
      <3>2. Satisfied(r, HealthIn(r, health'))
        BY <3>1, EnoughMissing
      <3> QED
        BY <1>6, <2>1, <3>2 DEF StartsNew
    <2>2. CASE RuleZone[r] \notin zones
      <3>1. gone = {f \in FansOf(RuleZone[r]) : ~fan[f].present}
        BY <1>4, <2>2 DEF FansOf
      <3>2. active[r] \/ RuleZone[r] \in offline
        BY <1>1, <1>2, <2>2, <3>1 DEF ChassisInv, MissingFansOfZone
      <3> QED
        BY <1>7, <2>2, <3>2 DEF Replace
    <2> QED
      BY <2>1, <2>2
  <1> QED
    BY <1>9, <1>10, <1>11, <1>12 DEF ChassisInv

\* What is around the daemon changes, and nothing it keeps.
LEMMA Undisturbed ==
    ASSUME ChassisInv,
           UNCHANGED <<power, zone, fan, health, subscribed, offline, lastError, ruleVars>>
    PROVE  ChassisInv'
  <1>1. ChassisTypeOK'
    BY DEF ChassisInv, ChassisTypeOK, RuleTypeOK, Loaded, ruleVars
  <1>2. MonitoringNeedsPower'
    BY DEF ChassisInv, MonitoringNeedsPower, Loaded, PowerOf, ruleVars
  <1>3. HealthOfZone' /\ NotLoaded'
    BY DEF ChassisInv, HealthOfZone, NotLoaded, Loaded
  <1>4. MissingFansOfZone'
    BY DEF ChassisInv, MissingFansOfZone, Loaded, PowerOf, ruleVars
  <1> QED
    BY <1>1, <1>2, <1>3, <1>4 DEF ChassisInv

\* The state of a fan changes and its zone checks the rules, unless nothing
\* they could be about has changed.
LEMMA FanStatusInv ==
    ASSUME ChassisInv, NEW f \in Fan, NEW state \in FanState, NEW skip \in BOOLEAN,
           FanStatusChange(f, state, skip), Loaded(f),
           state.phase # "off" \/ state.missingTimer => PowerOf(f),
           state.present # fan[f].present => ~skip,
           UNCHANGED <<power, zone, subscribed, offline, lastError, alert, requested>>
    PROVE  ChassisInv'
  <1> DEFINE ask == Ask(IF PowerOf(f) /\ ~skip THEN {ZoneOf[f]} ELSE {}, "runtime")
  <1>1. /\ fan' = [fan EXCEPT ![f] = state] /\ health' = [health EXCEPT ![f] = HealthOf(f, state)]
        /\ ask \in Asks /\ RulesReact(ask, health') /\ RuleTypeOK
        /\ fan \in [Fan -> FanState] /\ health \in [Fan -> FanHealth]
    BY AskType DEF FanStatusChange, ChassisInv, ChassisTypeOK, FanState, FanHealth
  <1>2. ASSUME NEW r \in Rule
        PROVE  Asked(r, ask) = IF PowerOf(f) /\ ~skip /\ RuleZone[r] = ZoneOf[f] THEN "runtime" ELSE "keep"
    BY <1>2, AskType
  <1> HIDE DEF ask
  <1>3. ChassisTypeOK'
    <2>1. RuleTypeOK'
      BY <1>1, RulesReactType DEF RuleTypeOK
    <2>2. fan' \in [Fan -> FanState] /\ health' \in [Fan -> FanHealth]
      BY <1>1, HealthType
    <2> QED
      BY <2>1, <2>2 DEF ChassisInv, ChassisTypeOK, FanState, FanHealth, Loaded
  <1>4. MonitoringNeedsPower'
    <2>1. ASSUME NEW g \in Fan, fan'[g].phase # "off" \/ fan'[g].missingTimer
          PROVE  Loaded(g)' /\ PowerOf(g)'
      BY <1>1, <2>1 DEF ChassisInv, MonitoringNeedsPower, Loaded, PowerOf
    <2>2. ASSUME NEW r \in Rule, active'[r] \/ delayTimer'[r] \/ meltdown'[r]
          PROVE  zone'[RuleZone[r]] = "loaded" /\ power'[ChassisOf[RuleZone[r]]]
      <3>1. CASE Asked(r, ask) = "keep"
        BY <1>1, <2>2, <3>1, RuleReacts DEF ChassisInv, MonitoringNeedsPower
      <3>2. CASE Asked(r, ask) = "runtime"
        BY <1>2, <3>2 DEF Loaded, PowerOf
      <3> QED
        BY <1>2, <3>1, <3>2
    <2> QED
      BY <2>1, <2>2 DEF MonitoringNeedsPower
  <1>5. HealthOfZone' /\ NotLoaded'
    <2>1. ASSUME NEW g \in Fan
          PROVE  /\ health'[g].failed = (IF fan'[g].func THEN {} ELSE {g})
                 /\ health'[g].present => fan'[g].present
                 /\ ~Loaded(g)' => ~health'[g].present /\ health'[g].failed = {}
      <3>1. CASE g = f
        BY <1>1, <3>1 DEF HealthOf, Loaded
      <3>2. CASE g # f
        BY <1>1, <3>2 DEF ChassisInv, HealthOfZone, NotLoaded, Loaded
      <3> QED
        BY <3>1, <3>2
    <2> QED
      BY <2>1 DEF HealthOfZone, NotLoaded
  <1>6. MissingFansOfZone'
    <2> SUFFICES ASSUME NEW r \in Rule,
                        zone'[RuleZone[r]] = "loaded", power'[ChassisOf[RuleZone[r]]],
                        Cause[r] = "missing_fan_frus", ValidState[r] = "runtime",
                        Cardinality({g \in FansOf(RuleZone[r]) : ~fan'[g].present}) >= Count[r]
                 PROVE  active'[r] \/ RuleZone[r] \in offline'
      BY DEF MissingFansOfZone
    <2> DEFINE gone == {g \in FansOf(RuleZone[r]) : ~fan'[g].present}
    <2>1. CASE Asked(r, ask) = "keep"
      <3>1. \A g \in FansOf(RuleZone[r]) : fan'[g].present = fan[g].present
        BY <1>1, <1>2, <2>1 DEF FansOf, PowerOf
      <3>2. gone = {g \in FansOf(RuleZone[r]) : ~fan[g].present}
        BY <3>1
      <3>3. active[r] \/ RuleZone[r] \in offline
        BY <3>2 DEF ChassisInv, MissingFansOfZone
      <3> QED
        BY <1>1, <2>1, <3>3, RuleReacts
    <2>2. CASE Asked(r, ask) = "runtime"
      <3>1. ASSUME NEW g \in gone PROVE g \in FansOf(RuleZone[r]) /\ ~health'[g].present
        BY <1>5 DEF FansOf, HealthOfZone
      <3>2. Satisfied(r, HealthIn(r, health'))
        BY <3>1, EnoughMissing
      <3> QED
        BY <1>1, <2>2, <3>2, CheckedActive
    <2> QED
      BY <1>2, <2>1, <2>2
  <1> QED
    BY <1>3, <1>4, <1>5, <1>6 DEF ChassisInv

\* Timers of a fan and the owner of its sensor are of no matter to the rules.
LEMMA FanTimerInv ==
    ASSUME ChassisInv, NEW f \in Fan, NEW state \in FanState, fan' = [fan EXCEPT ![f] = state],
           state.present = fan[f].present, state.func = fan[f].func,
           state.phase # "off" => fan[f].phase # "off", state.missingTimer => fan[f].missingTimer,
           lastError' \in [Zone -> {"none", "missing", "informational", "error"}],
           UNCHANGED <<power, zone, health, subscribed, offline, ruleVars>>
    PROVE  ChassisInv'
  <1>1. \A g \in Fan : /\ fan'[g] \in FanState
                       /\ fan'[g].present = fan[g].present /\ fan'[g].func = fan[g].func
                       /\ fan'[g].phase # "off" => fan[g].phase # "off"
                       /\ fan'[g].missingTimer => fan[g].missingTimer
    BY DEF ChassisInv, ChassisTypeOK, FanState
  <1>2. ChassisTypeOK'
    <2>1. fan' \in [Fan -> FanState]
      BY <1>1 DEF ChassisInv, ChassisTypeOK
    <2>2. RuleTypeOK'
      BY DEF ruleVars, RuleTypeOK, ChassisInv, ChassisTypeOK
    <2> QED
      BY <2>1, <2>2 DEF ChassisInv, ChassisTypeOK, FanState, FanHealth, Loaded
  <1>3. MonitoringNeedsPower' /\ HealthOfZone' /\ NotLoaded'
    <2>1. MonitoringNeedsPower'
      BY <1>1 DEF ChassisInv, MonitoringNeedsPower, Loaded, PowerOf, ruleVars
    <2>2. HealthOfZone' /\ NotLoaded'
      BY <1>1 DEF ChassisInv, HealthOfZone, NotLoaded, Loaded
    <2> QED
      BY <2>1, <2>2
  <1>4. MissingFansOfZone'
    <2>1. \A r \in Rule : {g \in FansOf(RuleZone[r]) : ~fan'[g].present}
                           = {g \in FansOf(RuleZone[r]) : ~fan[g].present}
      BY <1>1 DEF FansOf
    <2> QED
      BY <2>1 DEF ChassisInv, MissingFansOfZone, ruleVars, FansOf
  <1> QED
    BY <1>2, <1>3, <1>4 DEF ChassisInv

\* A timer of a rule only runs in a zone that is loaded and on.
LEMMA RuleTimerInv ==
    ASSUME ChassisInv, NEW r \in Rule, RuleTimerExpired(r), UNCHANGED monitor
    PROVE  ChassisInv'
  <1>1. /\ active' = active
        /\ \A q \in Rule : delayTimer'[q] => delayTimer[q]
        /\ \A q \in Rule : meltdown'[q] => delayTimer[q] \/ meltdown[q]
        /\ RuleTypeOK'
    <2>1. RuleTypeOK
      BY DEF ChassisInv, ChassisTypeOK
    <2>2. CASE PowerOffExpired(r)
      BY <2>1, <2>2 DEF PowerOffExpired, RuleTypeOK, PowerOffType
    <2>3. CASE ServiceModeExpired(r)
      BY <2>1, <2>3 DEF ServiceModeExpired, RuleTypeOK, PowerOffType
    <2>4. CASE MeltdownExpired(r)
      BY <2>1, <2>4 DEF MeltdownExpired, RuleTypeOK, PowerOffType
    <2> QED
      BY <2>2, <2>3, <2>4 DEF RuleTimerExpired
  <1>2. ChassisTypeOK'
    BY <1>1 DEF ChassisInv, ChassisTypeOK, monitor, Loaded
  <1>3. MonitoringNeedsPower'
    BY <1>1 DEF ChassisInv, MonitoringNeedsPower, monitor, Loaded, PowerOf
  <1>4. HealthOfZone' /\ NotLoaded' /\ MissingFansOfZone'
    BY <1>1 DEF ChassisInv, HealthOfZone, NotLoaded, MissingFansOfZone, monitor, Loaded, PowerOf
  <1> QED
    BY <1>2, <1>3, <1>4 DEF ChassisInv

\* A fan whose power comes on, or goes.
LEMMA PowerFans ==
    ASSUME ChassisInv, NEW f \in Fan
    PROVE  /\ PowerOnFan(f) \in FanState
           /\ PowerOnFan(f).present = fan[f].present
           /\ PowerOnFan(f).func = (fan[f].func \/ Recovers(f))
           /\ PowerOffFan(f) \in FanState
           /\ PowerOffFan(f).present = fan[f].present
           /\ PowerOffFan(f).func = fan[f].func
           /\ PowerOffFan(f).phase = "off" /\ ~PowerOffFan(f).missingTimer
  <1>1. fan[f] \in FanState
    BY DEF ChassisInv, ChassisTypeOK, FanState
  <1>2. /\ SetFunctional(fan[f], TRUE, FALSE) \in FanState
        /\ SetFunctional(fan[f], TRUE, FALSE).present = fan[f].present
        /\ SetFunctional(fan[f], TRUE, FALSE).func = TRUE
    BY <1>1, SetFunctionalType
  <1> DEFINE On(state) == [state EXCEPT !.phase = "delay", !.missingTimer = @ \/ ~fan[f].present]
  <1>3. \A state \in FanState :
          On(state) \in FanState /\ On(state).present = state.present /\ On(state).func = state.func
    BY DEF FanState
  <1>4. PowerOnFan(f) = On(IF Recovers(f) THEN SetFunctional(fan[f], TRUE, FALSE) ELSE fan[f])
    BY DEF PowerOnFan
  <1> HIDE DEF On
  <1>5. fan[f].func \in BOOLEAN
    BY <1>1 DEF FanState
  <1>6. /\ PowerOffFan(f) \in FanState
        /\ PowerOffFan(f).present = fan[f].present /\ PowerOffFan(f).func = fan[f].func
        /\ PowerOffFan(f).phase = "off" /\ ~PowerOffFan(f).missingTimer
    BY <1>1 DEF PowerOffFan, FanState
  <1>7. CASE Recovers(f)
    <2>1. PowerOnFan(f) = On(SetFunctional(fan[f], TRUE, FALSE))
      BY <1>4, <1>7
    <2> QED
      BY <1>2, <1>3, <1>6, <1>7, <2>1
  <1>8. CASE ~Recovers(f)
    <2>1. PowerOnFan(f) = On(fan[f])
      BY <1>4, <1>8
    <2> QED
      BY <1>1, <1>3, <1>5, <1>6, <1>8, <2>1
  <1> QED
    BY <1>7, <1>8

\* The power comes on, and every zone of the chassis is loaded: the rules of
\* its zones are checked with what is then recorded, or it asks to power off.
LEMMA PowerOnInv ==
    ASSUME ChassisInv, NEW changed \in SUBSET Chassis, NEW zones \in SUBSET Zone,
           changed = {c \in Chassis : ~power[c]},
           zones = {z \in ZonesOf(changed) : zone[z] # "none"},
           \A z \in zones : zone[z] # "waiting", onBus \subseteq Fan,
           power' = [c \in Chassis |-> TRUE], PowerOn(zones), UNCHANGED <<zone, lastError>>
    PROVE  ChassisInv'
  <1> DEFINE lost == {z \in zones : FansOf(z) \cap onBus = {}}
             new == {z \in zones \ lost : FansOf(z) \cap subscribed = {}}
             ask == Ask(zones \ lost, "pgood")
  <1>1. \A z \in zones : zone[z] = "loaded"
    BY DEF ChassisInv, ChassisTypeOK
  <1>2. \A z \in Zone : z \notin zones => zone[z] = "none" \/ power[ChassisOf[z]]
    BY DEF ZonesOf
  <1>3. /\ ask \in Asks /\ RulesReact(ask, health') /\ RuleTypeOK
        /\ fan \in [Fan -> FanState] /\ health \in [Fan -> FanHealth]
    BY AskType DEF PowerOn, ChassisInv, ChassisTypeOK, FanState, FanHealth
  <1>4. \A r \in Rule : Asked(r, ask) = IF RuleZone[r] \in zones \ lost THEN "pgood" ELSE "keep"
    <2> HIDE DEF lost
    <2> QED
      BY AskType
  <1>5. ASSUME NEW f \in Fan
        PROVE  /\ fan'[f] \in FanState /\ health'[f] \in FanHealth
               /\ fan'[f].present = fan[f].present
               /\ health'[f] = HealthOf(f, fan'[f])
                    \/ (health'[f] = health[f] /\ fan'[f].func = fan[f].func)
               /\ ZoneOf[f] \notin zones => fan'[f] = fan[f] /\ health'[f] = health[f]
    <2>1. CASE ZoneOf[f] \in zones
      <3>1. fan'[f] = PowerOnFan(f)
        BY <2>1 DEF PowerOn
      <3>2. health'[f] = IF Recovers(f) THEN HealthOf(f, fan'[f]) ELSE health[f]
        BY <2>1 DEF PowerOn
      <3>3. fan[f].func \in BOOLEAN
        BY <1>3 DEF FanState
      <3> QED
        BY <1>3, <2>1, <3>1, <3>2, <3>3, PowerFans, HealthType
    <2>2. CASE ZoneOf[f] \notin zones
      BY <1>3, <2>2 DEF PowerOn
    <2> QED
      BY <2>1, <2>2
  <1>6. ChassisTypeOK'
    <2>1. fan' \in [Fan -> FanState] /\ health' \in [Fan -> FanHealth]
      <3>1. fan' = [f \in Fan |-> fan'[f]] /\ health' = [f \in Fan |-> health'[f]]
        BY <1>3 DEF PowerOn
      <3> QED
        BY <1>5, <3>1
    <2>2. offline' \subseteq {z \in Zone : zone'[z] = "loaded"}
      BY <1>1 DEF PowerOn, ChassisInv, ChassisTypeOK
    <2>3. subscribed' \subseteq {f \in Fan : Loaded(f)'}
      <3>1. subscribed' \subseteq subscribed \cup {f \in Fan : ZoneOf[f] \in zones}
        <4>1. subscribed' = subscribed \cup {f \in onBus : ZoneOf[f] \in new}
          BY DEF PowerOn
        <4>2. new \subseteq zones
          OBVIOUS
        <4> QED
          BY <4>1, <4>2
      <3> QED
        BY <1>1, <3>1 DEF Loaded, ChassisInv, ChassisTypeOK
    <2>4. RuleTypeOK'
      BY <1>3, RulesReactType DEF RuleTypeOK, PowerOn
    <2> QED
      BY <2>1, <2>2, <2>3, <2>4 DEF ChassisInv, ChassisTypeOK, FanState, FanHealth
  <1>7. MonitoringNeedsPower'
    <2>1. ASSUME NEW f \in Fan, fan'[f].phase # "off" \/ fan'[f].missingTimer
          PROVE  Loaded(f)' /\ PowerOf(f)'
      <3>1. PowerOf(f)'
        BY DEF PowerOf
      <3>2. Loaded(f)
        <4>1. CASE ZoneOf[f] \in zones
          BY <1>1, <4>1 DEF Loaded
        <4>2. CASE ZoneOf[f] \notin zones
          BY <1>5, <2>1, <4>2 DEF ChassisInv, MonitoringNeedsPower
        <4> QED
          BY <4>1, <4>2
      <3> QED
        BY <3>1, <3>2 DEF Loaded
    <2>2. ASSUME NEW r \in Rule, active'[r] \/ delayTimer'[r] \/ meltdown'[r]
          PROVE  zone'[RuleZone[r]] = "loaded" /\ power'[ChassisOf[RuleZone[r]]]
      <3>1. CASE Asked(r, ask) = "keep"
        BY <1>3, <2>2, <3>1, RuleReacts DEF ChassisInv, MonitoringNeedsPower
      <3>2. CASE RuleZone[r] \in zones
        BY <1>1, <3>2
      <3> QED
        BY <1>4, <3>1, <3>2
    <2> QED
      BY <2>1, <2>2 DEF MonitoringNeedsPower
  <1>8. HealthOfZone' /\ NotLoaded'
    <2>1. ASSUME NEW f \in Fan
          PROVE  /\ health'[f].failed = (IF fan'[f].func THEN {} ELSE {f})
                 /\ health'[f].present => fan'[f].present
                 /\ ~Loaded(f)' => ~health'[f].present /\ health'[f].failed = {}
      <3>1. CASE health'[f] = HealthOf(f, fan'[f]) /\ ZoneOf[f] \in zones
        BY <1>1, <3>1 DEF HealthOf, Loaded
      <3>2. CASE health'[f] = health[f] /\ fan'[f].func = fan[f].func
        BY <1>5, <3>2 DEF ChassisInv, HealthOfZone, NotLoaded, Loaded
      <3> QED
        BY <1>5, <3>1, <3>2
    <2> QED
      BY <2>1 DEF HealthOfZone, NotLoaded
  <1>9. MissingFansOfZone'
    <2> SUFFICES ASSUME NEW r \in Rule,
                        zone'[RuleZone[r]] = "loaded", power'[ChassisOf[RuleZone[r]]],
                        Cause[r] = "missing_fan_frus", ValidState[r] = "runtime",
                        Cardinality({g \in FansOf(RuleZone[r]) : ~fan'[g].present}) >= Count[r]
                 PROVE  active'[r] \/ RuleZone[r] \in offline'
      BY DEF MissingFansOfZone
    <2> DEFINE gone == {g \in FansOf(RuleZone[r]) : ~fan'[g].present}
    <2>1. CASE RuleZone[r] \notin zones
      <3>1. gone = {g \in FansOf(RuleZone[r]) : ~fan[g].present}
        BY <1>5 DEF FansOf
      <3>2. active[r] \/ RuleZone[r] \in offline
        BY <1>2, <2>1, <3>1 DEF ChassisInv, MissingFansOfZone
      <3> QED
        BY <1>3, <1>4, <2>1, <3>2, RuleReacts DEF PowerOn
    <2>2. CASE RuleZone[r] \in lost
      BY <2>2 DEF PowerOn
    <2>3. CASE RuleZone[r] \in zones \ lost
      <3>1. ASSUME NEW g \in gone PROVE g \in FansOf(RuleZone[r]) /\ ~health'[g].present
        BY <1>8 DEF FansOf, HealthOfZone
      <3>2. Satisfied(r, HealthIn(r, health'))
        BY <3>1, EnoughMissing
      <3> QED
        BY <1>3, <1>4, <2>3, <3>2, CheckedActive
    <2> QED
      BY <2>1, <2>2, <2>3
  <1> QED
    BY <1>6, <1>7, <1>8, <1>9 DEF ChassisInv

\* The power goes: nothing of the zones goes on.
LEMMA PowerOffInv ==
    ASSUME ChassisInv, NEW changed \in SUBSET Chassis, NEW zones \in SUBSET Zone,
           changed = {c \in Chassis : power[c]},
           zones = {z \in ZonesOf(changed) : zone[z] # "none"},
           power' = [c \in Chassis |-> FALSE], PowerOff(zones), UNCHANGED <<zone, lastError>>
    PROVE  ChassisInv'
  <1> DEFINE ask == Ask(zones, "cancel")
  <1>1. \A z \in Zone : z \notin zones => zone[z] = "none" \/ ~power[ChassisOf[z]]
    BY DEF ZonesOf
  <1>2. /\ ask \in Asks /\ RulesReact(ask, health) /\ RuleTypeOK
        /\ fan \in [Fan -> FanState] /\ health' = health
    BY AskType DEF PowerOff, CancelZones, ChassisInv, ChassisTypeOK, FanState
  <1>3. ASSUME NEW f \in Fan
        PROVE  /\ fan'[f] \in FanState
               /\ fan'[f].present = fan[f].present /\ fan'[f].func = fan[f].func
               /\ fan'[f].phase = "off" /\ ~fan'[f].missingTimer
    <2>1. CASE ZoneOf[f] \in zones
      BY <2>1, PowerFans DEF PowerOff
    <2>2. CASE ZoneOf[f] \notin zones
      <3>1. fan'[f] = fan[f]
        BY <2>2 DEF PowerOff
      <3> QED
        BY <1>1, <1>2, <2>2, <3>1 DEF ChassisInv, MonitoringNeedsPower, Loaded, PowerOf
    <2> QED
      BY <2>1, <2>2
  <1>4. ASSUME NEW r \in Rule PROVE ~active'[r] /\ ~delayTimer'[r] /\ ~meltdown'[r]
    <2>1. CASE RuleZone[r] \in zones
      BY <1>2, <2>1, AskType, RuleReacts
    <2>2. CASE RuleZone[r] \notin zones
      <3>1. ~active[r] /\ ~delayTimer[r] /\ ~meltdown[r]
        BY <1>1, <2>2 DEF ChassisInv, MonitoringNeedsPower
      <3> QED
        BY <1>2, <2>2, <3>1, AskType, RuleReacts
    <2> QED
      BY <2>1, <2>2
  <1>5. ChassisTypeOK'
    <2>1. fan' \in [Fan -> FanState]
      <3>1. fan' = [f \in Fan |-> fan'[f]]
        BY DEF PowerOff
      <3> QED
        BY <1>3, <3>1
    <2>2. RuleTypeOK'
      <3>1. alert' \in BOOLEAN /\ requested' = requested
        BY DEF PowerOff, CancelZones, ChassisInv, ChassisTypeOK, RuleTypeOK
      <3> QED
        BY <1>2, <3>1, RulesReactType DEF RuleTypeOK
    <2> QED
      BY <2>1, <2>2 DEF ChassisInv, ChassisTypeOK, FanState, PowerOff, Loaded
  <1>6. MonitoringNeedsPower' /\ MissingFansOfZone'
    BY <1>3, <1>4 DEF MonitoringNeedsPower, MissingFansOfZone
  <1>7. HealthOfZone' /\ NotLoaded'
    BY <1>2, <1>3 DEF ChassisInv, HealthOfZone, NotLoaded, Loaded
  <1> QED
    BY <1>5, <1>6, <1>7 DEF ChassisInv

\* The inventory starts: zones that waited for it are loaded, and see every
\* fan as missing until its presence changes.
LEMMA InventoryInv ==
    ASSUME ChassisInv, EnvTypeOK, InventoryStarts
    PROVE  ChassisInv'
  <1> DEFINE waiting == {z \in Zone : zone[z] = "waiting"}
             ask == Ask(waiting, "new")
  <1>1. /\ zone' = [z \in Zone |-> IF z \in waiting THEN "loaded" ELSE zone[z]]
        /\ fan' = [f \in Fan |-> IF ZoneOf[f] \in waiting THEN NewFan(f, PowerOf(f)) ELSE fan[f]]
        /\ UNCHANGED <<power, health, subscribed, offline, lastError, alert, requested>>
        /\ RulesReact(ask, health)
    BY DEF InventoryStarts
  <1>2. /\ ask \in Asks /\ RuleTypeOK /\ power \in [Chassis -> BOOLEAN]
        /\ zone \in [Zone -> {"none", "waiting", "loaded"}]
        /\ fan \in [Fan -> FanState]
    BY AskType DEF ChassisInv, ChassisTypeOK, FanState
  <1>3. \A r \in Rule : Asked(r, ask) = IF RuleZone[r] \in waiting THEN "new" ELSE "keep"
    <2> HIDE DEF waiting
    <2> QED
      BY AskType
  <1>4. ASSUME NEW f \in Fan, ZoneOf[f] \in waiting
        PROVE  /\ fan'[f] \in FanState /\ fan'[f].func
               /\ fan'[f].phase # "off" \/ fan'[f].missingTimer => PowerOf(f)
               /\ ~health[f].present /\ health[f].failed = {}
               /\ Loaded(f)'
    <2>1. PowerOf(f) \in BOOLEAN /\ fan'[f] = NewFan(f, PowerOf(f)) /\ Loaded(f)' /\ ~Loaded(f)
      BY <1>1, <1>2, <1>4 DEF PowerOf, Loaded
    <2> QED
      BY <2>1, NewFanType DEF ChassisInv, NotLoaded
  <1>5. ASSUME NEW f \in Fan, ZoneOf[f] \notin waiting
        PROVE  fan'[f] = fan[f] /\ Loaded(f)' = Loaded(f)
    BY <1>1, <1>5 DEF Loaded
  <1>6. \A z \in Zone : zone[z] = "loaded" => zone'[z] = "loaded"
    BY <1>1
  <1>7. ChassisTypeOK'
    <2>1. fan' \in [Fan -> FanState]
      BY <1>1, <1>2, <1>4, <1>5
    <2>2. RuleTypeOK'
      BY <1>1, <1>2, RulesReactType DEF RuleTypeOK
    <2>3. subscribed' \subseteq {f \in Fan : Loaded(f)'}
      BY <1>1, <1>6 DEF ChassisInv, ChassisTypeOK, Loaded
    <2>4. zone' \in [Zone -> {"none", "waiting", "loaded"}] /\ offline' \subseteq {z \in Zone : zone'[z] = "loaded"}
      BY <1>1, <1>2, <1>6 DEF ChassisInv, ChassisTypeOK
    <2> QED
      BY <1>1, <2>1, <2>2, <2>3, <2>4 DEF ChassisInv, ChassisTypeOK, FanState
  <1>8. MonitoringNeedsPower'
    <2>1. ASSUME NEW f \in Fan, fan'[f].phase # "off" \/ fan'[f].missingTimer
          PROVE  Loaded(f)' /\ PowerOf(f)'
      BY <1>1, <1>4, <1>5, <2>1 DEF ChassisInv, MonitoringNeedsPower, PowerOf
    <2>2. ASSUME NEW r \in Rule, active'[r] \/ delayTimer'[r] \/ meltdown'[r]
          PROVE  zone'[RuleZone[r]] = "loaded" /\ power'[ChassisOf[RuleZone[r]]]
      <3>1. CASE Asked(r, ask) = "keep"
        BY <1>1, <1>2, <1>6, <2>2, <3>1, RuleReacts DEF ChassisInv, MonitoringNeedsPower
      <3>2. CASE Asked(r, ask) = "new"
        BY <1>1, <1>2, <2>2, <3>2, RuleReacts DEF StartsNew
      <3> QED
        BY <1>3, <3>1, <3>2
    <2> QED
      BY <2>1, <2>2 DEF MonitoringNeedsPower
  <1>9. HealthOfZone' /\ NotLoaded'
    <2>1. ASSUME NEW f \in Fan
          PROVE  /\ health'[f].failed = (IF fan'[f].func THEN {} ELSE {f})
                 /\ health'[f].present => fan'[f].present
                 /\ ~Loaded(f)' => ~health'[f].present /\ health'[f].failed = {}
      <3>1. CASE ZoneOf[f] \in waiting
        BY <1>1, <1>4, <3>1
      <3>2. CASE ZoneOf[f] \notin waiting
        BY <1>1, <1>5, <3>2 DEF ChassisInv, HealthOfZone, NotLoaded
      <3> QED
        BY <3>1, <3>2
    <2> QED
      BY <2>1 DEF HealthOfZone, NotLoaded
  <1>10. MissingFansOfZone'
    <2> SUFFICES ASSUME NEW r \in Rule,
                        zone'[RuleZone[r]] = "loaded", power'[ChassisOf[RuleZone[r]]],
                        Cause[r] = "missing_fan_frus", ValidState[r] = "runtime",
                        Cardinality({g \in FansOf(RuleZone[r]) : ~fan'[g].present}) >= Count[r]
                 PROVE  active'[r] \/ RuleZone[r] \in offline'
      BY DEF MissingFansOfZone
    <2> DEFINE gone == {g \in FansOf(RuleZone[r]) : ~fan'[g].present}
    <2>1. CASE RuleZone[r] \in waiting
      <3>1. ASSUME NEW g \in gone PROVE g \in FansOf(RuleZone[r]) /\ ~health[g].present
        BY <1>4, <2>1 DEF FansOf
      <3>2. Satisfied(r, HealthIn(r, health))
        BY <3>1, EnoughMissing
      <3>3. active'[r] = StartsNew(r, health)
        BY <1>1, <1>2, <1>3, <2>1, RuleReacts
      <3> QED
        BY <3>2, <3>3 DEF StartsNew
    <2>2. CASE RuleZone[r] \notin waiting
      <3>1. gone = {g \in FansOf(RuleZone[r]) : ~fan[g].present}
        BY <1>5, <2>2 DEF FansOf
      <3>2. active[r] \/ RuleZone[r] \in offline
        BY <1>1, <2>2, <3>1 DEF ChassisInv, MissingFansOfZone
      <3> QED
        BY <1>1, <1>2, <1>3, <2>2, <3>2, RuleReacts
    <2> QED
      BY <2>1, <2>2
  <1> QED
    BY <1>7, <1>8, <1>9, <1>10 DEF ChassisInv

-----------------------------------------------------------------------------
(* Every step keeps the zones in order                                     *)

\* The judgement of a fan, its timers, and the changes around it.
LEMMA FanStepInv ==
    ASSUME ChassisInv, EnvTypeOK, NEW f \in Fan,
           \/ PresenceChange(f) \/ TachChange(f)
           \/ StartMonitor(f) \/ Judge(f) \/ MissingTimerExpired(f) \/ ErrorTimerExpired(f)
    PROVE  ChassisInv'
  <1>1. /\ fan[f] \in FanState /\ PowerOf(f) \in BOOLEAN
        /\ lastError \in [Zone -> {"none", "missing", "informational", "error"}]
        /\ fan[f].phase # "off" \/ fan[f].missingTimer => PowerOf(f)
        /\ \A func, skip \in BOOLEAN :
             /\ SetFunctional(fan[f], func, skip) \in FanState
             /\ SetFunctional(fan[f], func, skip).present = fan[f].present
             /\ SetFunctional(fan[f], func, skip).phase = fan[f].phase
             /\ SetFunctional(fan[f], func, skip).missingTimer = fan[f].missingTimer
    BY SetFunctionalType DEF ChassisInv, ChassisTypeOK, FanState, MonitoringNeedsPower, PowerOf
  <1>2. CASE PresenceChange(f) /\ Loaded(f)
    <2> DEFINE state == [fan[f] EXCEPT !.present = f \in plugged',
                                       !.missingTimer = f \notin plugged' /\ (@ \/ PowerOf(f))]
    <2>1. FanStatusChange(f, state, FALSE)
      BY <1>2 DEF PresenceChange
    <2>2. \A p, m \in BOOLEAN : [fan[f] EXCEPT !.present = p, !.missingTimer = m] \in FanState
      BY <1>1 DEF FanState
    <2>3. state \in FanState
      <3> DEFINE timed == f \notin plugged' /\ (fan[f].missingTimer \/ PowerOf(f))
      <3>1. state = [fan[f] EXCEPT !.present = f \in plugged', !.missingTimer = timed]
        OBVIOUS
      <3>2. (f \in plugged') \in BOOLEAN /\ timed \in BOOLEAN
        OBVIOUS
      <3> HIDE DEF timed
      <3> QED
        BY <2>2, <3>1, <3>2
    <2>4. state.phase # "off" \/ state.missingTimer => PowerOf(f)
      BY <1>1 DEF FanState
    <2>5. UNCHANGED <<power, zone, subscribed, offline, lastError, alert, requested>>
      BY <1>2 DEF PresenceChange
    <2> HIDE DEF state
    <2> QED
      BY <1>2, <2>1, <2>3, <2>4, <2>5, FanStatusInv
  <1>3. CASE PresenceChange(f) /\ ~Loaded(f)
    <2>1. UNCHANGED <<power, zone, fan, health, subscribed, offline, lastError, ruleVars>>
      BY <1>3 DEF PresenceChange, ruleVars
    <2> QED
      BY <2>1, Undisturbed
  <1>4. CASE TachChange(f)
    <2>1. PICK o \in BOOLEAN : fan' = [fan EXCEPT ![f] = [fan[f] EXCEPT !.owner = o]]
      <3>1. (f \in onBus') \in BOOLEAN /\ fan[f].owner \in BOOLEAN
        BY <1>1 DEF FanState
      <3>2. fan' = [fan EXCEPT ![f].owner = IF f \in subscribed THEN f \in onBus' ELSE @]
        BY <1>4 DEF TachChange
      <3>3. CASE f \in subscribed
        <4>1. fan' = [fan EXCEPT ![f] = [fan[f] EXCEPT !.owner = (f \in onBus')]]
          BY <3>2, <3>3
        <4> QED
          BY <3>1, <4>1
      <3>4. CASE f \notin subscribed
        <4>1. fan' = [fan EXCEPT ![f] = [fan[f] EXCEPT !.owner = fan[f].owner]]
          BY <3>2, <3>4
        <4> QED
          BY <3>1, <4>1
      <3> QED
        BY <3>3, <3>4
    <2> DEFINE state == [fan[f] EXCEPT !.owner = o]
    <2>2. /\ state \in FanState /\ state.present = fan[f].present /\ state.func = fan[f].func
          /\ state.phase = fan[f].phase /\ state.missingTimer = fan[f].missingTimer
      BY <1>1 DEF FanState
    <2>3. fan' = [fan EXCEPT ![f] = state]
      BY <2>1
    <2>4. UNCHANGED <<power, zone, health, subscribed, offline, lastError, ruleVars>>
      BY <1>4 DEF TachChange
    <2> HIDE DEF state
    <2> QED
      BY <1>1, <2>2, <2>3, <2>4, FanTimerInv
  <1>5. CASE StartMonitor(f)
    <2> DEFINE ready == [fan[f] EXCEPT !.phase = "ready"]
    <2>1. /\ Loaded(f) /\ fan[f].phase = "delay" /\ PowerOf(f)
          /\ UNCHANGED <<power, zone, subscribed, offline, lastError, alert, requested>>
          /\ IF f \in onBus
             THEN fan' = [fan EXCEPT ![f] = ready] /\ UNCHANGED <<health, active, delayTimer, meltdown>>
             ELSE FanStatusChange(f, SetFunctional(ready, FALSE, TRUE), TRUE)
      BY <1>1, <1>5 DEF StartMonitor, FanStep
    <2>2. /\ ready \in FanState /\ ready.present = fan[f].present /\ ready.func = fan[f].func
          /\ ready.missingTimer = fan[f].missingTimer
      BY <1>1 DEF FanState
    <2> HIDE DEF ready
    <2>3. CASE f \in onBus
      BY <1>1, <2>1, <2>2, <2>3, FanTimerInv DEF ruleVars
    <2>4. CASE f \notin onBus
      <3> DEFINE state == SetFunctional(ready, FALSE, TRUE)
      <3>1. state \in FanState /\ state.present = fan[f].present
        BY <2>2, SetFunctionalType
      <3>2. FanStatusChange(f, state, TRUE)
        BY <2>1, <2>4
      <3> HIDE DEF state
      <3> QED
        BY <2>1, <3>1, <3>2, FanStatusInv
    <2> QED
      BY <2>3, <2>4
  <1>6. CASE Judge(f)
    <2> DEFINE skip == ~fan[f].owner
               state == SetFunctional(fan[f], ~fan[f].func, skip)
    <2>1. /\ Loaded(f) /\ PowerOf(f) /\ FanStatusChange(f, state, skip)
          /\ UNCHANGED <<power, zone, subscribed, offline, lastError, alert, requested>>
      BY <1>6 DEF Judge, FanStep
    <2>2. skip \in BOOLEAN /\ state \in FanState /\ state.present = fan[f].present
      BY <1>1
    <2> HIDE DEF skip, state
    <2> QED
      BY <2>1, <2>2, FanStatusInv
  <1>7. CASE MissingTimerExpired(f)
    <2> DEFINE state == [fan[f] EXCEPT !.missingTimer = FALSE]
    <2>1. /\ state \in FanState /\ state.present = fan[f].present /\ state.func = fan[f].func
          /\ state.phase = fan[f].phase /\ ~state.missingTimer
      BY <1>1 DEF FanState
    <2>2. fan' = [fan EXCEPT ![f] = state]
      BY <1>7 DEF MissingTimerExpired
    <2>3. lastError' \in [Zone -> {"none", "missing", "informational", "error"}]
      BY <1>1, <1>7 DEF MissingTimerExpired
    <2>4. UNCHANGED <<power, zone, health, subscribed, offline, ruleVars>>
      BY <1>7 DEF MissingTimerExpired, FanStep, ruleVars
    <2> HIDE DEF state
    <2> QED
      BY <1>1, <2>1, <2>2, <2>3, <2>4, FanTimerInv
  <1>8. CASE ErrorTimerExpired(f)
    <2> DEFINE state == [fan[f] EXCEPT !.errorTimer = FALSE]
    <2>1. /\ state \in FanState /\ state.present = fan[f].present /\ state.func = fan[f].func
          /\ state.phase = fan[f].phase /\ state.missingTimer = fan[f].missingTimer
      BY <1>1 DEF FanState
    <2>2. fan' = [fan EXCEPT ![f] = state]
      BY <1>8 DEF ErrorTimerExpired
    <2>3. lastError' \in [Zone -> {"none", "missing", "informational", "error"}]
      BY <1>1, <1>8 DEF ErrorTimerExpired, Severity
    <2>4. UNCHANGED <<power, zone, health, subscribed, offline, ruleVars>>
      BY <1>8 DEF ErrorTimerExpired, FanStep, ruleVars
    <2> HIDE DEF state
    <2> QED
      BY <1>1, <2>1, <2>2, <2>3, <2>4, FanTimerInv
  <1> QED
    BY <1>2, <1>3, <1>4, <1>5, <1>6, <1>7, <1>8

LEMMA PgoodInv ==
    ASSUME ChassisInv, EnvTypeOK, NEW value \in BOOLEAN, PgoodChanged(value), UNCHANGED plugged
    PROVE  ChassisInv'
  <1> DEFINE changed == {c \in Chassis : power[c] # value}
             zones == {z \in ZonesOf(changed) : zone[z] # "none"}
  <1>1. power \in [Chassis -> BOOLEAN] /\ alert \in BOOLEAN
    BY DEF ChassisInv, ChassisTypeOK, RuleTypeOK
  <1>2. zones \in SUBSET Zone /\ changed \in SUBSET Chassis
    BY DEF ZonesOf
  <1>3. CASE value /\ \E z \in zones : zone[z] = "waiting"
    <2>1. Dies
      BY <1>3 DEF PgoodChanged
    <2>2. /\ power' \in [Chassis -> BOOLEAN] /\ alert' \in BOOLEAN /\ requested' = requested
          /\ Replace(Chassis, {})
      BY <2>1 DEF Dies
    <2> QED
      BY <2>2, ReplaceInv
  <1>4. CASE value /\ ~(\E z \in zones : zone[z] = "waiting")
    <2>1. changed = {c \in Chassis : ~power[c]}
      BY <1>1, <1>4
    <2>2. /\ power' = [c \in Chassis |-> TRUE] /\ PowerOn(zones) /\ UNCHANGED <<zone, lastError>>
          /\ \A z \in zones : zone[z] # "waiting"
      BY <1>4 DEF PgoodChanged
    <2>3. zones = {z \in ZonesOf(changed) : zone[z] # "none"} /\ onBus \subseteq Fan
      BY DEF EnvTypeOK
    <2> HIDE DEF zones, changed
    <2> QED
      BY <1>2, <2>1, <2>2, <2>3, PowerOnInv
  <1>5. CASE ~value
    <2>1. changed = {c \in Chassis : power[c]}
      BY <1>1, <1>5
    <2>2. power' = [c \in Chassis |-> FALSE] /\ PowerOff(zones) /\ UNCHANGED <<zone, lastError>>
      BY <1>5 DEF PgoodChanged
    <2>3. zones = {z \in ZonesOf(changed) : zone[z] # "none"}
      OBVIOUS
    <2> HIDE DEF zones, changed
    <2> QED
      BY <1>2, <2>1, <2>2, <2>3, PowerOffInv
  <1> QED
    BY <1>3, <1>4, <1>5

\* A signal that the daemon received is of one of two types.
LEMMA MessageTypes ==
    ASSUME NEW m \in Message
    PROVE  /\ m.type = "pgood" => m \in PgoodMessage /\ m.on \in BOOLEAN
           /\ m.type # "pgood" => /\ m \in AvailableMessage /\ m.type = "available"
                                 /\ m.chassis \in Chassis /\ m.value \in {"yes", "no"}
  BY DEF Message, PgoodMessage, AvailableMessage

LEMMA ReceiveInv ==
    ASSUME ChassisInv, EnvTypeOK, Receive
    PROVE  ChassisInv'
  <1> DEFINE m == Head(inbox)
  <1>1. /\ m \in Message
        /\ m.type = "pgood" => PgoodChanged(m.on)
        /\ m.type # "pgood" => AvailableChanged(m.chassis, m.value)
        /\ UNCHANGED plugged
    BY HeadTailProperties DEF Receive, EnvTypeOK, env
  <1> HIDE DEF m
  <1>2. CASE m.type = "pgood"
    BY <1>1, <1>2, MessageTypes, PgoodInv
  <1>3. CASE m.type # "pgood"
    <2>1. {m.chassis} \in SUBSET Chassis
      BY <1>1, <1>3, MessageTypes
    <2>2. /\ power' \in [Chassis -> BOOLEAN] /\ power' = power
          /\ alert' \in BOOLEAN /\ requested' = requested
          /\ Replace({m.chassis}, CreatedFor(m.chassis, m.value))
      BY <1>1, <1>3 DEF AvailableChanged, ChassisInv, ChassisTypeOK, RuleTypeOK
    <2> QED
      BY <2>1, <2>2, ReplaceInv
  <1> QED
    BY <1>2, <1>3

LEMMA ChassisInvStep ==
    ASSUME ChassisInv, EnvTypeOK, [Next]_vars
    PROVE  ChassisInv'
  <1>1. CASE Start \/ SighupHandler
    <2>1. /\ power' \in [Chassis -> BOOLEAN] /\ alert' \in BOOLEAN /\ requested' = requested
          /\ Replace(Chassis, CreatedAtStart)
      BY <1>1 DEF Start, SighupHandler, EnvTypeOK, ChassisInv, ChassisTypeOK, RuleTypeOK
    <2> QED
      BY <2>1, ReplaceInv
  <1>2. CASE Receive
    BY <1>2, ReceiveInv
  <1>3. ASSUME NEW c \in Chassis, PgoodChange(c) \/ (\E v \in {"yes", "no"} : AvailableChange(c, v))
        PROVE  ChassisInv'
    <2>1. UNCHANGED <<power, zone, fan, health, subscribed, offline, lastError, ruleVars>>
      BY <1>3 DEF PgoodChange, AvailableChange, monitor
    <2> QED
      BY <2>1, Undisturbed
  <1>4. CASE InventoryStops
    <2>1. UNCHANGED <<power, zone, fan, health, subscribed, offline, lastError, ruleVars>>
      BY <1>4 DEF InventoryStops, monitor
    <2> QED
      BY <2>1, Undisturbed
  <1>5. CASE InventoryStarts
    BY <1>5, InventoryInv
  <1>6. ASSUME NEW f \in Fan,
               \/ PresenceChange(f) \/ TachChange(f)
               \/ StartMonitor(f) \/ Judge(f) \/ MissingTimerExpired(f) \/ ErrorTimerExpired(f)
        PROVE  ChassisInv'
    BY <1>6, FanStepInv
  <1>7. ASSUME NEW r \in Rule, RuleTimerExpired(r), UNCHANGED <<env, monitor, inbox, changes>>
        PROVE  ChassisInv'
    BY <1>7, RuleTimerInv
  <1>8. CASE UNCHANGED vars
    BY <1>8, Undisturbed DEF vars, monitor
  <1> QED
    BY <1>1, <1>2, <1>3, <1>4, <1>5, <1>6, <1>7, <1>8 DEF Next

LEMMA ChassisInvInit == Init => ChassisInv
  <1> SUFFICES ASSUME Init PROVE ChassisInv
    OBVIOUS
  <1>1. \A f \in Fan : fan[f] = NoFan /\ health[f] = HealthOf(f, NoFan) /\ zone[ZoneOf[f]] = "none"
    BY DEF Init
  <1>2. NoFan \in FanState /\ NoFan.func /\ NoFan.phase = "off" /\ ~NoFan.missingTimer
    BY DEF NoFan, FanState
  <1>3. ChassisTypeOK
    <2>1. fan \in [Fan -> FanState]
      BY <1>2 DEF Init
    <2>2. health \in [Fan -> FanHealth]
      BY NoFanHealth DEF Init
    <2> QED
      BY <2>1, <2>2 DEF Init, ChassisTypeOK, RuleTypeOK, FanState, FanHealth
  <1>4. MonitoringNeedsPower /\ MissingFansOfZone
    BY <1>1, <1>2 DEF Init, MonitoringNeedsPower, MissingFansOfZone
  <1>5. HealthOfZone /\ NotLoaded
    BY <1>1, <1>2, NoFanHealth DEF HealthOfZone, NotLoaded
  <1> QED
    BY <1>3, <1>4, <1>5 DEF ChassisInv

-----------------------------------------------------------------------------
(* Zones and the availability of their chassis                             *)

\* The signals about the availability of a chassis, and those that tell it
\* as it is.
About(c) == {m \in Message : m.type = "available" /\ m.chassis = c}
TellsNow(c) == {m \in About(c) : m.value = available[c]}

\* A zone is there exactly while its chassis is available, or a signal waits
\* that will make it so.
Follows(z) ==
    LET c == ChassisOf[z]
    IN  /\ LastTells(inbox, About(c), TellsNow(c))
        /\ Waits(inbox, About(c)) \/ (zone[z] # "none" <=> available[c] = "yes")

AvailInv ==
    /\ EnvTypeOK
    /\ \A c \in Chassis \ UsesAvailable : available[c] = "yes"
    /\ running => \A z \in Zone : Follows(z)

LEMMA AvailInvInit == Init => AvailInv
  <1> SUFFICES ASSUME Init PROVE AvailInv
    OBVIOUS
  <1>1. inbox \in Seq(Message)
    BY EmptySeq DEF Init
  <1>2. plugged \subseteq Fan /\ onBus \subseteq Fan
    BY DEF Init
  <1>3. available \in [Chassis -> {"yes", "no", "none"}]
    BY DEF Init
  <1> QED
    BY <1>1, <1>2, <1>3 DEF Init, AvailInv, EnvTypeOK

\* A zone that stays there, or not, still follows its chassis.
LEMMA StillFollows ==
    ASSUME NEW z \in Zone, Follows(z), UNCHANGED <<available, inbox>>,
           (zone'[z] # "none") = (zone[z] # "none")
    PROVE  Follows(z)'
  BY DEF Follows, About, TellsNow

\* Zones that were just created, or not, are as their chassis is.
LEMMA StartFollows ==
    ASSUME AvailInv, Replace(Chassis, CreatedAtStart), UNCHANGED env,
           inbox' = <<>> \/ (running /\ inbox' = inbox)
    PROVE  \A z \in Zone : Follows(z)'
  <1> SUFFICES ASSUME NEW z \in Zone PROVE Follows(z)'
    OBVIOUS
  <1> DEFINE c == ChassisOf[z]
  <1>1. zone'[z] # "none" <=> available'[c] = "yes"
    BY DEF Replace, ZonesOf, CreatedAtStart, AvailInv, env
  <1>2. About(c)' = About(c) /\ TellsNow(c)' = TellsNow(c)
    BY DEF About, TellsNow, env
  <1>3. LastTells(inbox', About(c), TellsNow(c))
    BY EmptyTells DEF AvailInv, Follows
  <1> QED
    BY <1>1, <1>2, <1>3 DEF Follows

\* A signal is sent, and tells of the change that was made.
LEMMA SentFollows ==
    ASSUME AvailInv, running, NEW m \in Message, inbox' = Append(inbox, m), zone' = zone,
           NEW z \in Zone,
           m \in About(ChassisOf[z]) => m.value = available'[ChassisOf[z]],
           m \notin About(ChassisOf[z]) => available'[ChassisOf[z]] = available[ChassisOf[z]]
    PROVE  Follows(z)'
  <1> DEFINE c == ChassisOf[z]
  <1>0. inbox \in Seq(Message) /\ Follows(z) /\ About(c)' = About(c)
    BY DEF AvailInv, EnvTypeOK, About
  <1>1. Waits(inbox', About(c)) <=> Waits(inbox, About(c)) \/ m \in About(c)
    BY <1>0, AppendWaits
  <1>2. CASE m \in About(c)
    <2>1. m \in TellsNow(c)'
      BY <1>0, <1>2 DEF TellsNow
    <2>2. LastTells(inbox', About(c), TellsNow(c)')
      BY <1>0, <1>2, <2>1, AppendTells
    <2> QED
      BY <1>0, <1>1, <1>2, <2>2 DEF Follows
  <1>3. CASE m \notin About(c)
    <2>1. TellsNow(c)' = TellsNow(c)
      BY <1>0, <1>3 DEF TellsNow
    <2>2. LastTells(inbox', About(c), TellsNow(c))
      BY <1>0, <1>3, AppendTells DEF Follows
    <2> QED
      BY <1>0, <1>1, <1>3, <2>1, <2>2 DEF Follows
  <1> QED
    BY <1>2, <1>3

\* The last signal about a chassis leaves its zones as it is.
LEMMA ReceiveFollows ==
    ASSUME AvailInv, Receive, running', NEW z \in Zone
    PROVE  Follows(z)'
  <1> DEFINE m == Head(inbox)
             c == ChassisOf[z]
  <1>1. /\ inbox # <<>> /\ inbox' = Tail(inbox) /\ inbox \in Seq(Message) /\ m \in Message
        /\ m.type = "pgood" => PgoodChanged(m.on)
        /\ m.type # "pgood" => AvailableChanged(m.chassis, m.value)
        /\ UNCHANGED available /\ running
    BY HeadTailProperties DEF Receive, AvailInv, EnvTypeOK, env
  <1>2. Follows(z) /\ About(c)' = About(c) /\ TellsNow(c)' = TellsNow(c)
    BY <1>1 DEF AvailInv, About, TellsNow
  <1>3. /\ LastTells(inbox', About(c), TellsNow(c))
        /\ m \in About(c) /\ ~Waits(inbox', About(c)) => m \in TellsNow(c)
    BY <1>1, <1>2, TailTells DEF Follows
  <1>4. Waits(inbox, About(c)) <=> m \in About(c) \/ Waits(inbox', About(c))
    BY <1>1, TailWaits
  <1> HIDE DEF m
  <1>5. m \notin About(c) => (zone'[z] # "none") = (zone[z] # "none")
    <2>1. CASE m.type = "pgood"
      BY <1>1, <2>1 DEF PgoodChanged, Dies
    <2>2. CASE m.type # "pgood"
      BY <1>1, <2>2, MessageTypes DEF AvailableChanged, Replace, ZonesOf, About
    <2> QED
      BY <2>1, <2>2
  <1>6. m \in TellsNow(c) => (zone'[z] # "none" <=> available[c] = "yes")
    <2> SUFFICES ASSUME m \in TellsNow(c) PROVE zone'[z] # "none" <=> available[c] = "yes"
      OBVIOUS
    <2>1. m.type # "pgood" /\ m.chassis = c /\ m.value = available[c]
      BY DEF TellsNow, About
    <2>2. Replace({c}, CreatedFor(c, available[c]))
      BY <1>1, <2>1 DEF AvailableChanged
    <2>3. z \in ZonesOf({c})
      BY DEF ZonesOf
    <2>4. zone'[z] # "none" <=> z \in ZonesOf(CreatedFor(c, available[c]))
      BY <2>2, <2>3 DEF Replace
    <2> QED
      BY <2>4 DEF ZonesOf, CreatedFor
  <1> QED
    BY <1>1, <1>2, <1>3, <1>4, <1>5, <1>6 DEF Follows

LEMMA AvailInvStep ==
    ASSUME AvailInv, ChassisInv, [Next]_vars
    PROVE  AvailInv'
  <1> USE DEF AvailInv
  <1>1. CASE Start
    <2>1. EnvTypeOK' /\ UNCHANGED env
      BY <1>1, EmptySeq DEF Start, EnvTypeOK, env
    <2>2. \A z \in Zone : Follows(z)'
      BY <1>1, <2>1, StartFollows DEF Start
    <2> QED
      BY <2>1, <2>2 DEF env
  <1>2. CASE SighupHandler
    <2>1. EnvTypeOK' /\ UNCHANGED env
      BY <1>2 DEF SighupHandler, EnvTypeOK, env
    <2>2. \A z \in Zone : Follows(z)'
      BY <1>2, <2>1, StartFollows DEF SighupHandler
    <2> QED
      BY <2>1, <2>2 DEF env
  <1>3. CASE Receive
    <2>1. UNCHANGED env /\ running' \in BOOLEAN
      BY <1>3 DEF Receive, PgoodChanged, Dies, AvailableChanged, EnvTypeOK
    <2>2. inbox' \in Seq(Message)
      BY <1>3, HeadTailProperties, EmptySeq DEF Receive, EnvTypeOK
    <2>3. running' => \A z \in Zone : Follows(z)'
      BY <1>3, ReceiveFollows
    <2> QED
      BY <2>1, <2>2, <2>3 DEF EnvTypeOK, env
  <1>4. ASSUME NEW c \in Chassis, PgoodChange(c) PROVE AvailInv'
    <2> DEFINE m == [type |-> "pgood", on |-> ~pgood[c]]
    <2>1. m \in Message
      BY DEF Message, PgoodMessage
    <2>2. /\ inbox' = IF running /\ c = Main THEN Append(inbox, m) ELSE inbox
          /\ UNCHANGED <<available, running, zone, inventory, plugged, onBus>>
          /\ pgood' \in [Chassis -> BOOLEAN]
      BY <1>4 DEF PgoodChange, Send, monitor, EnvTypeOK
    <2>3. \A d \in Chassis : m \notin About(d)
      BY DEF About
    <2> HIDE DEF m
    <2>4. EnvTypeOK'
      BY <2>1, <2>2, AppendProperties DEF EnvTypeOK
    <2>5. ASSUME running, NEW z \in Zone PROVE Follows(z)'
      <3>1. CASE c = Main
        BY <2>1, <2>2, <2>3, <2>5, <3>1, SentFollows
      <3>2. CASE c # Main
        BY <2>2, <2>5, <3>2, StillFollows
      <3> QED
        BY <3>1, <3>2
    <2> QED
      BY <2>2, <2>4, <2>5
  <1>5. ASSUME NEW c \in Chassis, NEW v \in {"yes", "no"}, AvailableChange(c, v) PROVE AvailInv'
    <2> DEFINE m == [type |-> "available", chassis |-> c, value |-> v]
    <2>1. m \in Message
      BY DEF Message, AvailableMessage
    <2>2. /\ inbox' = IF running THEN Append(inbox, m) ELSE inbox
          /\ available' = [available EXCEPT ![c] = v] /\ c \in UsesAvailable
          /\ UNCHANGED <<pgood, running, zone, inventory, plugged, onBus>>
      BY <1>5 DEF AvailableChange, Send, monitor
    <2>3. \A d \in Chassis : m \in About(d) <=> d = c
      BY <2>1 DEF About
    <2>4. m.value = v
      OBVIOUS
    <2> HIDE DEF m
    <2>5. EnvTypeOK'
      BY <2>1, <2>2, AppendProperties DEF EnvTypeOK
    <2>6. ASSUME running, NEW z \in Zone PROVE Follows(z)'
      <3>1. available'[c] = v /\ \A d \in Chassis \ {c} : available'[d] = available[d]
        BY <2>2 DEF EnvTypeOK
      <3>2. /\ m \in About(ChassisOf[z]) => m.value = available'[ChassisOf[z]]
            /\ m \notin About(ChassisOf[z]) => available'[ChassisOf[z]] = available[ChassisOf[z]]
        BY <2>3, <2>4, <3>1
      <3> QED
        BY <2>1, <2>2, <2>6, <3>2, SentFollows
    <2> QED
      BY <2>2, <2>5, <2>6 DEF EnvTypeOK
  <1>6. CASE InventoryStops \/ InventoryStarts
    <2>1. /\ EnvTypeOK' /\ UNCHANGED <<available, running, inbox>>
          /\ \A z \in Zone : (zone'[z] # "none") = (zone[z] # "none")
      BY <1>6 DEF InventoryStops, InventoryStarts, EnvTypeOK, monitor
    <2> QED
      BY <2>1, StillFollows
  <1>7. ASSUME NEW f \in Fan,
               \/ PresenceChange(f) \/ TachChange(f)
               \/ StartMonitor(f) \/ Judge(f) \/ MissingTimerExpired(f) \/ ErrorTimerExpired(f)
        PROVE  AvailInv'
    <2>1. EnvTypeOK' /\ UNCHANGED <<available, running, inbox, zone>>
      BY <1>7 DEF PresenceChange, TachChange, StartMonitor, Judge, MissingTimerExpired,
                  ErrorTimerExpired, FanStep, EnvTypeOK, env
    <2> QED
      BY <2>1, StillFollows
  <1>8. CASE UNCHANGED <<env, monitor, inbox>>
    <2>1. EnvTypeOK' /\ UNCHANGED <<available, running, inbox, zone>>
      BY <1>8 DEF EnvTypeOK, env, monitor
    <2> QED
      BY <2>1, StillFollows
  <1> QED
    BY <1>1, <1>2, <1>3, <1>4, <1>5, <1>6, <1>7, <1>8 DEF Next, vars

-----------------------------------------------------------------------------

LEMMA SystemInv == Spec => [](ChassisInv /\ AvailInv)
  <1>1. Init => ChassisInv /\ AvailInv
    BY ChassisInvInit, AvailInvInit
  <1>2. ChassisInv /\ AvailInv /\ [Next]_vars => ChassisInv' /\ AvailInv'
    BY ChassisInvStep, AvailInvStep DEF AvailInv
  <1> QED
    BY <1>1, <1>2, PTL DEF Spec

\* Once its signals are handled, a chassis has zones exactly while it is
\* available, and nothing is monitored, timed or acted on in a zone that is
\* not there or has no power, whatever restarts, reloads and late signals came
\* before (availableChanged(), init(), powerStateChanged(), createZones()).
THEOREM ZonesFollow == Spec => []MonitoringFollows
  <1>1. ChassisInv /\ AvailInv => MonitoringFollows
    <2> SUFFICES ASSUME ChassisInv, AvailInv PROVE MonitoringFollows
      OBVIOUS
    <2>1. ASSUME running, inbox = <<>>, NEW z \in Zone
          PROVE  zone[z] # "none" <=> available[ChassisOf[z]] = "yes"
      BY <2>1, EmptyTells DEF AvailInv, Follows
    <2> QED
      BY <2>1 DEF MonitoringFollows, MonitoredWhileAvailable, ChassisInv
  <1> QED
    BY <1>1, SystemInv, PTL

\* The rules of a zone decide on its fans as they are, and one for missing
\* fans is active whenever enough of them are missing on a powered chassis,
\* unless the zone has asked for a power off already (fanStatusChange(),
\* powerStateChanged(), init()).
THEOREM RulesOfZones == Spec => []RulesFollowFans
  <1>1. ChassisInv => RulesFollowFans
    BY DEF ChassisInv, RulesFollowFans
  <1> QED
    BY <1>1, SystemInv, PTL

=============================================================================
