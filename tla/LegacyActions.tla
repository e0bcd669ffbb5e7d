----------------------------- MODULE LegacyActions -----------------------------
(***************************************************************************)
(* The zone of phosphor-fan-control as it is built from a YAML             *)
(* configuration (control/zone.cpp), the actions of its events             *)
(* (control/actions.hpp, actions.cpp) and their preconditions              *)
(* (control/preconditions.cpp).                                            *)
(*                                                                         *)
(* They take and return the record z of the zone's state:                  *)
(*   target, floor, defFloor, ceiling, base    speeds; base 0 is none      *)
(*   incDelta, decDelta, incTimer   pending increase and decrease          *)
(*   ceilingKey       the value the ceiling was last chosen for            *)
(*   props            member -> the value cached for it                    *)
(*   tree             the members whose service is cached                  *)
(*   matched          the members whose service is watched                 *)
(*   holding, floorFixed, noDecrease   groups that do not allow active     *)
(*                    control, changes of the floor, or decreases          *)
(*   defaulted        history: the floor is the default for a missing      *)
(*                    owner, and no value has set it since                 *)
(*   enabled          event -> how often its signals are subscribed to     *)
(*   timed            the timers of call_actions_based_on_timer            *)
(***************************************************************************)
EXTENDS Integers, FiniteSets, SequencesExt

CONSTANTS
    Member,     \* the properties of objects that groups consist of
    Service,
    ServiceOf,  \* the service of a member
    InterfaceOf,\* its interface: services are looked up for all objects with one
    Value,
    NoValue,
    Event,
    Def,        \* event -> its definition, a record of group, triggers and parts
    FullSpeed,
    DefaultFloor

\* What the configuration says of an action.
IsSimple(a) ==
    /\ a.type \in {"count_state", "missing_owner", "default_floor", "floor_average", "floor_median",
                  "ceiling", "increase", "decrease", "base", "update_floor"}
    /\ a.type \in {"count_state", "missing_owner", "update_floor"} => a.speed \in Nat
    /\ a.type \in {"floor_average", "floor_median", "ceiling"} => a.speeds \in Seq(Nat \X Nat)
    /\ a.type = "ceiling" =>
          a.speeds # <<>> /\ \A i, j \in DOMAIN a.speeds : i < j => a.speeds[i][1] < a.speeds[j][1]
    /\ a.type \in {"increase", "decrease"} =>
          a.state \in Nat /\ a.factor \in Nat \ {0} /\ a.delta \in Nat
IsTimer(a) ==
    /\ a.type = "timer" /\ a.oneshot \in BOOLEAN
    /\ a.actions \in Seq(Range(a.actions)) /\ \A b \in Range(a.actions) : IsSimple(b)

IsPlain(a) == IsSimple(a) \/ IsTimer(a)

\* The events that an action enables or disables: they enable none themselves.
PlainEvent ==
    {e \in Event : \A p \in Range(Def[e].parts) : \A a \in Range(p.actions) : IsPlain(a)}
Nested(a) ==
    CASE a.type = "alternate" -> Range(a.def) \cup Range(a.alt)
      [] a.type \in {"states_match", "services_missing", "use"} -> Range(a.events)
      [] OTHER -> {}
IsNesting(a) ==
    /\ a.type \in {"states_match", "services_missing", "alternate", "use"}
    /\ IF a.type = "alternate" THEN a.def \in Seq(PlainEvent) /\ a.alt \in Seq(PlainEvent)
       ELSE a.events \in Seq(PlainEvent)

IsPart(p) ==
    /\ p.group \in Seq(Member) /\ p.actions \in Seq(Range(p.actions))
    /\ \A a \in Range(p.actions) : IsPlain(a) \/ IsNesting(a)

ASSUME LegacyActionsAssumption ==
    /\ ServiceOf \in [Member -> Service]
    /\ Value \subseteq Nat /\ NoValue \notin Value
    /\ IsFiniteSet(Event) /\ DOMAIN Def = Event
    /\ \A e \in Event : /\ Def[e].group \in Seq(Member)
                        /\ Def[e].parts \in Seq(Range(Def[e].parts))
                        /\ \A p \in Range(Def[e].parts) : IsPart(p)
    /\ FullSpeed \in Nat \ {0} /\ DefaultFloor \in Nat

VARIABLES
    bus,        \* member -> its value on D-Bus
    up          \* the services that have an owner

TargetOf(speeds, v) == \* the speed of the first key above v
    LET above == {k \in DOMAIN speeds : v < speeds[k][1]}
    IN  IF above = {} THEN NoValue ELSE speeds[Min(above)][2]

-----------------------------------------------------------------------------
(* The zone                                                                *)

Active(z) == z.holding = {}

Allow(groups, g, allowed) == IF allowed THEN groups \ {g} ELSE groups \cup {g}
SetActiveAllow(z, g, allowed) == [z EXCEPT !.holding = Allow(@, g, allowed)]

SetAlways(z, speed) == [z EXCEPT !.target = speed] \* mutant: also while a group holds it
SetSpeed(z, speed) == IF Active(z) THEN [z EXCEPT !.target = speed] ELSE z

SetFullSpeed(z) == [z EXCEPT !.target = FullSpeed]

RequestSpeedBase(z) == IF z.base # 0 THEN z.base ELSE z.target

RequestSpeedIncrease(z, delta) ==
    IF delta <= z.incDelta \/ z.target >= z.ceiling THEN z
    ELSE [SetSpeed(z, Min({delta - z.incDelta + RequestSpeedBase(z), z.ceiling}))
            EXCEPT !.incDelta = delta, !.incTimer = TRUE]

RequestSpeedDecrease(z, delta) ==
    IF z.decDelta = 0 \/ delta < z.decDelta THEN [z EXCEPT !.decDelta = delta] ELSE z

SetFloor(z, speed) ==
    IF z.floorFixed # {} THEN z
    ELSE LET y == [z EXCEPT !.floor = speed]
         IN  IF y.target < speed THEN RequestSpeedIncrease(y, speed - y.target) ELSE y

-----------------------------------------------------------------------------
(* The actions, with the group g they are run for                          *)

\* setPropertyValue() of the cache, and removeObjectInterface()
Cached(z, m, v) == [z EXCEPT !.props[m] = v]
Dropped(z, m) == [z EXCEPT !.props[m] = NoValue]

Known(z, g) == {k \in DOMAIN g : z.props[g[k]] # NoValue}
Values(z, g) == {z.props[g[k]] : k \in Known(z, g)}
AllAt(z, g, state) == \A k \in DOMAIN g : z.props[g[k]] = state

\* getService() of members: one that is not cached is looked up, and all that
\* are on D-Bus with its interface are cached.  Some object always has it.
LookUp(z, members) ==
    [z EXCEPT !.tree = @ \cup {n \in Member : /\ bus[n] # NoValue
                                             /\ \E m \in members \ z.tree : InterfaceOf[m] = InterfaceOf[n]}]

\* setServices() asks for the owners whenever an action needs them; a member
\* whose service is not known counts as one without.
KnownOwnerMissing(z, g) == \E m \in Range(g) : m \in z.tree /\ ServiceOf[m] \notin up \* mutant: no service is no owner missing
MissingOwner(z, g) == \E m \in Range(g) : m \notin z.tree \/ ServiceOf[m] \notin up

CountStateBeforeSpeed(z, g, a) ==
    LET reached == Cardinality({k \in DOMAIN g : z.props[g[k]] = a.state}) >= a.count
    IN  SetActiveAllow(IF reached THEN SetSpeed(z, a.speed) ELSE z, g, ~reached)

SetSpeedOnMissingOwner(z, g, a) ==
    LET y == LookUp(z, Range(g))
    IN  SetActiveAllow(IF MissingOwner(y, g) THEN SetSpeed(y, a.speed) ELSE y, g, ~MissingOwner(y, g))

DefaultFloorOnMissingOwner(z, g) ==
    LET y == LookUp(z, Range(g))
        x == IF MissingOwner(y, g) THEN [SetFloor(y, y.defFloor) EXCEPT !.defaulted = TRUE] ELSE y
    IN  [x EXCEPT !.floorFixed = Allow(@, g, ~MissingOwner(y, g))]

Average(z, g) ==
    FoldSet(LAMBDA k, sum : sum + z.props[g[k]], 0, Known(z, g)) \div Cardinality(Known(z, g))

\* With two values the highest is taken, with an even number the mean of the middle two.
Median(z, g, a) ==
    LET valid == SelectSeq([k \in DOMAIN g |-> z.props[g[k]]],
                           LAMBDA v : v # NoValue /\ a.lower <= v /\ v <= a.upper)
        sorted == SortSeq(valid, LAMBDA v, w : v < w)
        n == Len(valid)
    IN  IF n = 0 THEN NoValue
        ELSE IF n = 2 THEN sorted[2]
        ELSE IF n % 2 = 1 THEN sorted[(n + 1) \div 2]
        ELSE (sorted[n \div 2] + sorted[n \div 2 + 1]) \div 2

FloorFor(z, speeds, v) ==
    IF v = NoValue \/ TargetOf(speeds, v) = NoValue THEN z.defFloor ELSE TargetOf(speeds, v)

FloorByValue(z, speed) == [SetFloor(z, speed) EXCEPT !.defaulted = @ /\ z.floorFixed # {}]

SetFloorFromAverage(z, g, a) ==
    FloorByValue(z, FloorFor(z, a.speeds, IF Known(z, g) = {} THEN NoValue ELSE Average(z, g)))

SetFloorFromMedian(z, g, a) == FloorByValue(z, FloorFor(z, a.speeds, Median(z, g, a)))

\* The ceiling changes when a value crosses a key, in the direction it moves.
CeilingFor(speeds, v, prev, ceiling) ==
    LET n == Len(speeds)
        fallen == {k \in 1..n : v < speeds[k][1] /\ speeds[k][1] <= prev}
        risen == {k \in 1..n : v > speeds[k][1] /\ speeds[k][1] >= prev}
    IN  CASE v = prev -> ceiling
          [] v < prev /\ v >= speeds[n][1] -> speeds[n][2]
          [] v < prev /\ v < speeds[n][1] /\ v <= speeds[1][1] -> speeds[1][2]
          [] v > prev /\ v <= speeds[1][1] -> speeds[1][2]
          [] v > prev /\ v > speeds[1][1] /\ v >= speeds[n][1] -> speeds[n][2]
          [] OTHER -> IF fallen \cup risen = {} THEN ceiling
                      ELSE IF v < prev THEN speeds[Min(fallen)][2] ELSE speeds[Max(risen)][2]

KeyNotSwapped(z, g, a) == \* mutant: the value is compared with the first one
    IF Known(z, g) = {} THEN z
    ELSE [z EXCEPT !.ceiling = CeilingFor(a.speeds, Average(z, g), z.ceilingKey, @),
                   !.ceilingKey = IF @ = 0 THEN Average(z, g) ELSE @]
SetCeilingFromAverage(z, g, a) ==
    IF Known(z, g) = {} THEN z
    ELSE [z EXCEPT !.ceiling = CeilingFor(a.speeds, Average(z, g), z.ceilingKey, @),
                   !.ceilingKey = Average(z, g)]

Increases(z, g, a) ==
    {(Max({v - a.state, a.factor}) \div a.factor) * a.delta : v \in {v \in Values(z, g) : v >= a.state}}
SetNetIncreaseSpeed(z, g, a) == RequestSpeedIncrease(z, Max({z.incDelta} \cup Increases(z, g, a)))

\* A member whose decrease is 0 does not keep the next one from setting it.
NetDecrease(z, g, a) ==
    IF \E v \in Values(z, g) : v >= a.state THEN 0
    ELSE FoldLeft(LAMBDA net, m :
                    IF z.props[m] = NoValue THEN net
                    ELSE LET own == ((a.state - z.props[m]) \div a.factor) * a.delta
                         IN  IF net = 0 THEN own ELSE Min({net, own}),
                  z.decDelta, g)
SetNetDecreaseSpeed(z, g, a) ==
    RequestSpeedDecrease([z EXCEPT !.noDecrease = Allow(@, g, NetDecrease(z, g, a) # 0)],
                         NetDecrease(z, g, a))

SetRequestSpeedBaseWithMax(z, g) == [z EXCEPT !.base = Max({0} \cup Values(z, g))]

UpdateDefaultFloor(z, g, a) == IF AllAt(z, g, a.state) THEN [z EXCEPT !.defFloor = a.speed] ELSE z

\* A timer goes by its group and the types of its actions.
FindTimer(z, g, a) ==
    LET types(t) == [k \in DOMAIN t.actions |-> t.actions[k].type]
    IN  {t \in z.timed : t.group = g /\ types(t) = types(a)}

\* It is kept when it has expired, and the next call removes it.
CallActionsBasedOnTimer(z, g, a) ==
    LET same == FindTimer(z, g, a)
        new == [group |-> g, actions |-> a.actions, oneshot |-> a.oneshot, armed |-> TRUE]
    IN  [z EXCEPT !.timed = IF same = {} THEN @ \cup {new} ELSE @ \ same]

Act(z, g, a) ==
    CASE a.type = "count_state" -> CountStateBeforeSpeed(z, g, a)
      [] a.type = "missing_owner" -> SetSpeedOnMissingOwner(z, g, a)
      [] a.type = "default_floor" -> DefaultFloorOnMissingOwner(z, g)
      [] a.type = "floor_average" -> SetFloorFromAverage(z, g, a)
      [] a.type = "floor_median" -> SetFloorFromMedian(z, g, a)
      [] a.type = "ceiling" -> SetCeilingFromAverage(z, g, a)
      [] a.type = "increase" -> SetNetIncreaseSpeed(z, g, a)
      [] a.type = "decrease" -> SetNetDecreaseSpeed(z, g, a)
      [] a.type = "base" -> SetRequestSpeedBaseWithMax(z, g)
      [] a.type = "update_floor" -> UpdateDefaultFloor(z, g, a)
      [] a.type = "timer" -> CallActionsBasedOnTimer(z, g, a)

ActAll(z, g, actions) == FoldLeft(LAMBDA y, a : Act(y, g, a), z, actions)

-----------------------------------------------------------------------------
(* Events: each part of an event is a group and the actions run for it.    *)

\* getPropertyByName() looks the service up, throws for a property that is not
\* on D-Bus, and the value cached for it stays.
PropertyByName(z, m) ==
    IF bus[m] = NoValue THEN LookUp(z, {m}) ELSE Cached(LookUp(z, {m}), m, bus[m])

GetProperties(z, g) == FoldLeft(PropertyByName, z, g)

Inits(e) == Contains(Def[e].triggers, "init")

SubscribedTo(z, e) == [z EXCEPT !.enabled[e] = @ + 1]

\* initEvent() of an event whose actions do not themselves enable events.
InitPart(z, p) == ActAll(GetProperties(z, p.group), p.group, p.actions)
InitEvent(z, e) == SubscribedTo(IF Inits(e) THEN FoldLeft(InitPart, z, Def[e].parts) ELSE z, e)

\* removeEvent(): the timers of its actions go by another name and stay.
RemoveEvent(z, e) == [z EXCEPT !.enabled[e] = 0]

InitEvents(z, events) == FoldLeft(InitEvent, z, events)
RemoveEvents(z, events) == FoldLeft(RemoveEvent, z, events)

-----------------------------------------------------------------------------
(* The actions that enable events, and preconditions                       *)

PropertyStatesMatch(z, g, a) ==
    LET match == \A s \in a.states : z.props[s[1]] = s[2]
        y == IF match THEN InitEvents(z, a.events)
             ELSE SetFullSpeed(RemoveEvents(z, a.events))
    IN  SetActiveAllow(y, g, match)

ServicesMissingOwner(z, g, a) ==
    LET y == LookUp(z, Range(g))
    IN  IF MissingOwner(y, g) THEN InitEvents(y, a.events) ELSE RemoveEvents(y, a.events)

AltNotRemoved(z, g, a) == \* mutant: the events of the other set stay
    InitEvents(z, IF AllAt(z, g, a.state) THEN a.alt ELSE a.def)
UseAlternateEventsOnState(z, g, a) ==
    IF AllAt(z, g, a.state) THEN InitEvents(RemoveEvents(z, a.def), a.alt)
    ELSE InitEvents(RemoveEvents(z, a.alt), a.def)

UseEventsOnState(z, g, a) ==
    IF AllAt(z, g, a.state) THEN InitEvents(z, a.events) ELSE RemoveEvents(z, a.events)

Run(z, g, a) ==
    CASE a.type = "states_match" -> PropertyStatesMatch(z, g, a)
      [] a.type = "services_missing" -> ServicesMissingOwner(z, g, a)
      [] a.type = "alternate" -> UseAlternateEventsOnState(z, g, a)
      [] a.type = "use" -> UseEventsOnState(z, g, a)
      [] OTHER -> Act(z, g, a)

RunAll(z, g, actions) == FoldLeft(LAMBDA y, a : Run(y, g, a), z, actions)

\* initEvent() of an event of the zone's definition
InitTopPart(z, p) == RunAll(GetProperties(z, p.group), p.group, p.actions)
InitTopEvent(z, e) == SubscribedTo(IF Inits(e) THEN FoldLeft(InitTopPart, z, Def[e].parts) ELSE z, e)

=============================================================================
