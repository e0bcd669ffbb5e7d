---------------------------- MODULE ControlActions ----------------------------
(***************************************************************************)
(* The actions of fan control's events that hold a target or a floor, or   *)
(* set a parameter (control/json/actions): set_target_on_missing_owner,    *)
(* count_state_floor, mapped_floor, set_parameter_from_group_max,          *)
(* pcie_card_floors and call_actions_based_on_timer.                       *)
(*                                                                         *)
(* They take and return the record d of the daemon's state:                *)
(*   tree, owned, objects  the caches (ObjectCache)                        *)
(*   params                the parameters (_parameters)                    *)
(*   triggers              <<parameter, event>>: _parameterTriggers        *)
(*   dangling              parameters that also trigger destroyed actions  *)
(*   faulted               a destroyed action was run                      *)
(*   targets               <<group, zone>>: the target holds               *)
(*   floors                event -> zone -> the floor held                 *)
(*   delays, settling, timed   events whose action has its timer running   *)
(*   cards                 event -> the PCIe cards that were found         *)
(*                                                                         *)
(* All values are numbers, and an event has one action.                    *)
(***************************************************************************)
EXTENDS ObjectCache

CONSTANTS
    Event,
    Zone,
    FirstZone,  \* the zone an action is run for first
    Param,
    Group,      \* event -> its objects, in order
    Action,     \* event -> its action, a record with the field type
    NoFloor,
    NoParam

\* What the configuration may say of an action: floors are not negative.
Entry == [param : Param \cup {NoParam}, objects : SUBSET Object, floors : Seq(Int \X Nat)]
Table == [key : Int, default : Nat \cup {NoFloor}, offset : Param \cup {NoParam},
          entries : Seq(Entry)]
IsModifier(m) ==
    /\ m.op \in {"none", "minus", "less_than"}
    /\ m.op = "minus" => m.value \in Int
    /\ m.op = "less_than" => m.ranges \in Seq(Int \X Int) /\ m.default \in Int
IsAction(a) ==
    /\ a.type \in {"missing", "count", "mapped", "param", "pcie", "timed"}
    /\ a.type = "count" => a.floor \in Nat /\ a.count \in Nat /\ a.state # NoValue
    /\ a.type = "mapped" => /\ a.key \in SUBSET Object /\ a.default \in Nat
                            /\ a.tables \in Seq(Table)
    /\ a.type \in {"param", "pcie"} => a.param \in Param
    /\ a.type = "param" => IsModifier(a.modifier)
    /\ a.type = "pcie" => IsFiniteSet(DOMAIN a.card) /\ \A c \in DOMAIN a.card : a.card[c] \in Int

ASSUME ControlActionsAssumption ==
    /\ FirstZone \in Zone
    /\ IsFiniteSet(Event) /\ IsFiniteSet(Param)
    /\ Group \in [Event -> Seq(Object)]
    /\ DOMAIN Action = Event /\ \A e \in Event : IsAction(Action[e])
    /\ NoFloor \notin Nat /\ NoParam \notin Param

Members(e) == Range(Group[e])

\* A hold goes by the name of the group: events may share it.
HoldsOf(e) == {Group[e]} \X Zone

EventsOf(types) == {e \in Event : Action[e].type \in types}

\* The events that a parameter may trigger.
FloorEvent == EventsOf({"missing", "count", "mapped"})

DaemonState ==
    [tree : SUBSET Iface, owned : SUBSET Iface,
     objects : [Object -> Value \cup {NoValue}],
     params : [Param -> Int \cup {NoValue}],
     triggers : SUBSET (Param \X FloorEvent), dangling : SUBSET Param, faulted : BOOLEAN,
     targets : SUBSET UNION {HoldsOf(e) : e \in Event},
     floors : [Event -> [Zone -> Nat \cup {NoFloor}]],
     delays : SUBSET EventsOf({"count"}), settling : SUBSET EventsOf({"pcie"}),
     timed : SUBSET EventsOf({"timed"}),
     cards : [Event -> SUBSET Iface]]

HoldFloor(d, e, Z, floor) ==
    [d EXCEPT !.floors[e] = [z \in Zone |-> IF z \in Z THEN floor ELSE @[z]]]

\* getObjValueVariant() of all members
ValuesOf(d, objs) == {d.objects[o] : o \in objs} \ {NoValue}
GroupMax(d, objs) ==
    IF ValuesOf(d, objs) = {} THEN NoValue ELSE Max(ValuesOf(d, objs))

-----------------------------------------------------------------------------
(* set_target_on_missing_owner                                             *)

MissingOwner(d, e) == \E o \in Members(e) : ~HasOwner(d, o)

HoldMissing(d, e) ==
    [d EXCEPT !.targets = IF MissingOwner(d, e) THEN @ \cup HoldsOf(e)
                          ELSE @ \ HoldsOf(e)]

-----------------------------------------------------------------------------
(* count_state_floor                                                       *)

AtState(d, e) ==
    {k \in DOMAIN Group[e] : d.objects[Group[e][k]] = Action[e].state}
CountReached(d, e) ==
    /\ AtState(d, e) # {}
    /\ Cardinality(AtState(d, e)) >= Action[e].count

CountedFloor(d, e) == IF CountReached(d, e) THEN Action[e].floor ELSE NoFloor

DelayLeft(d, e) == \* mutant: the timer is not stopped when the count falls
    IF ~Action[e].delay \/ ~CountReached(d, e) THEN HoldFloor(d, e, Zone, CountedFloor(d, e))
    ELSE IF \A z \in Zone : d.floors[e][z] # NoFloor THEN d
    ELSE [d EXCEPT !.delays = @ \cup {e}]
CountFloor(d, e) ==
    IF ~Action[e].delay THEN HoldFloor(d, e, Zone, CountedFloor(d, e))
    ELSE IF ~CountReached(d, e)
    THEN [HoldFloor(d, e, Zone, NoFloor) EXCEPT !.delays = @ \ {e}]
    ELSE IF \A z \in Zone : d.floors[e][z] # NoFloor THEN d
    ELSE [d EXCEPT !.delays = @ \cup {e}]

\* The timer was made for the first zone that had no hold.
DelayExpired(d, e) ==
    [HoldFloor(d, e, {FirstZone}, CountedFloor(d, e)) EXCEPT !.delays = @ \ {e}]

-----------------------------------------------------------------------------
(* mapped_floor: action.tables is a sequence of records with the fields    *)
(* key, default, offset and entries; an entry names the objects of a group *)
(* or a parameter and lists pairs of a limit and a floor.                  *)

MeetsCondition(d, c) == c.op = "none" \/ ((d.objects[c.object] = c.value) <=> (c.op = "equal"))

\* A floor of an entry whose value is above all limits is the default.
EntryFloor(v, entry, default) ==
    LET fit == {k \in DOMAIN entry.floors : v # NoValue /\ v <= entry.floors[k][1]}
    IN  IF fit = {} THEN default ELSE entry.floors[Min(fit)][2]

AddFloorOffset(floor, offset) ==
    IF offset = NoValue \/ floor + offset < 0 THEN floor ELSE floor + offset

ApplyFloorOffset(d, t, floor) ==
    AddFloorOffset(floor, IF t.offset = NoParam THEN NoValue ELSE d.params[t.offset])

TableFloor(d, t, default) ==
    LET other == IF t.default = NoFloor THEN default ELSE t.default
        value(n) == IF n.param = NoParam THEN GroupMax(d, n.objects) ELSE d.params[n.param]
        found == {EntryFloor(value(n), n, other) :
                    n \in {n \in Range(t.entries) : n.param = NoParam \/ value(n) # NoValue}}
        floor == IF found = {} THEN t.default ELSE Max(found)
    IN  IF floor = NoFloor THEN default
        ELSE ApplyFloorOffset(d, t, floor)

\* The first table whose key is above the value of the key group is used.
MappedFloor(d, a) ==
    LET key == GroupMax(d, a.key)
        fit == {k \in DOMAIN a.tables : key # NoValue /\ key < a.tables[k].key}
    IN  IF ~MeetsCondition(d, a.condition) THEN NoFloor
        ELSE IF fit = {} THEN a.default
        ELSE TableFloor(d, a.tables[Min(fit)], a.default)

-----------------------------------------------------------------------------
(* The actions that a parameter triggers, and the actions that set one.    *)

RunFloor(d, e) ==
    CASE Action[e].type = "missing" -> HoldMissing(d, e)
      [] Action[e].type = "count" -> CountFloor(d, e)
      [] Action[e].type = "mapped" -> HoldFloor(d, e, Zone, MappedFloor(d, Action[e]))

RunParameterActions(d, p) ==
    FoldSet(LAMBDA t, e : RunFloor(e, t[2]),
            [d EXCEPT !.faulted = @ \/ p \in d.dangling],
            {t \in d.triggers : t[1] = p})

AddParameterTrigger(d, e, params) ==
    [d EXCEPT !.triggers = @ \cup {<<p, e>> : p \in params}]

RemoveQuietly(d, p, v) == \* mutant: a parameter that is removed triggers nothing
    IF v \in {NoValue, d.params[p]} THEN [d EXCEPT !.params[p] = v]
    ELSE RunParameterActions([d EXCEPT !.params[p] = v], p)
SetParameter(d, p, v) ==
    IF d.params[p] = v THEN d ELSE RunParameterActions([d EXCEPT !.params[p] = v], p)

\* Modifier::doOp()
Modify(m, v) ==
    LET above == {k \in DOMAIN m.ranges : v < m.ranges[k][1]}
    IN  CASE m.op = "none" -> v
          [] m.op = "minus" -> v - m.value
          [] m.op = "less_than" -> IF above = {} THEN m.default ELSE m.ranges[Min(above)][2]

GroupParameter(d, e) ==
    LET max == GroupMax(d, Members(e))
    IN  IF max = NoValue THEN NoValue ELSE Modify(Action[e].modifier, max)

-----------------------------------------------------------------------------
(* pcie_card_floors: action.slots pairs the object of the power state of a *)
(* slot with the objects that identify its card; action.card gives floor   *)
(* indexes by the values of these.                                         *)

\* getFloorIndexFromSlot(): what identifies the card of a slot.
CardId(d, s) == [k \in DOMAIN s.id |-> d.objects[s.id[k]]]
Powered(d, a) == {s \in a.slots : d.objects[s.power] = a.on}

\* The floor indexes of the cards in slots with power.
HotCards(d, a) == {a.card[c] : c \in {CardId(d, s) : s \in Powered(d, a)} \cap DOMAIN a.card}
FloorIndex(d, a) == IF HotCards(d, a) = {} THEN NoValue ELSE Max(HotCards(d, a))

CardIface(s) == IfaceOf[s.id[1]]

\* execute(): a slot with power whose card is not among those found once throws.
SettleExpired(d, e) ==
    LET a == Action[e]
        inUse == Powered(d, a)
        cards == IF d.cards[e] # {} \/ inUse = {} THEN d.cards[e]
                 ELSE {CardIface(s) : s \in a.slots} \cap present
        f == [d EXCEPT !.settling = @ \ {e}, !.cards[e] = cards]
    IN  IF \E s \in inUse : CardIface(s) \notin cards THEN f
        ELSE SetParameter(f, a.param, FloorIndex(f, a))

-----------------------------------------------------------------------------
(* call_actions_based_on_timer, here around set_target_on_missing_owner.   *)

StartsTimer(d, e) ==
    IF Action[e].byOwner THEN MissingOwner(d, e)
    ELSE \A o \in Members(e) : d.objects[o] = Action[e].value

\* The second zone finds the timer stopped by the first.
RunTimed(d, e) ==
    IF StartsTimer(d, e) THEN [d EXCEPT !.timed = @ \cup {e}]
    ELSE IF e \in d.timed /\ Cardinality(Zone) = 1 THEN [d EXCEPT !.timed = @ \ {e}]
    ELSE HoldMissing([d EXCEPT !.timed = @ \ {e}], e)

TimedExpired(d, e) ==
    HoldMissing([d EXCEPT !.timed = IF Action[e].oneshot THEN @ \ {e} ELSE @], e)

StartSettling(d, e) == [d EXCEPT !.settling = @ \cup {e}]

\* ActionBase::run()
Run(d, e) ==
    CASE Action[e].type = "param" -> SetParameter(d, Action[e].param, GroupParameter(d, e))
      [] Action[e].type = "pcie" -> StartSettling(d, e)
      [] Action[e].type = "timed" -> RunTimed(d, e)
      [] OTHER -> RunFloor(d, e)

=============================================================================
