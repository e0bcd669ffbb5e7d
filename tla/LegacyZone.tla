------------------------------- MODULE LegacyZone -------------------------------
(***************************************************************************)
(* phosphor-fan-control built with a YAML configuration (control/main.cpp, *)
(* manager.cpp, zone.cpp): the program that sets the fans to full speed at *)
(* power on, the start of the zone that enables its events one by one, and *)
(* signals, timers and the mode set on D-Bus after that.                   *)
(*                                                                         *)
(* The writes to the fans do not fail (ControlZone has those that do), so  *)
(* the fans are at the target of the zone.                                 *)
(***************************************************************************)
EXTENDS LegacyActions

CONSTANTS
    Configs,    \* the zone definitions: sequences of events
    Buses,      \* the values on D-Bus before power on
    Mode,       \* the member that is the zone's own mode
    Supported,  \* the modes that can be set
    DefaultMode,\* what the zone's handler sets
    MaxChanges  \* bound: changes on D-Bus, of the mode and of the daemon

ASSUME LegacyZoneAssumption ==
    /\ \A c \in Configs : c \in Seq(Event)
    /\ \A b \in Buses : b \in [Member -> Value \cup {NoValue}] /\ b[Mode] = DefaultMode
    /\ Mode \in Member /\ Supported \subseteq Value /\ DefaultMode \in Supported
    /\ Cardinality({e \in Event : Contains(Def[e].triggers, "mode")}) <= 1
    /\ MaxChanges \in Nat

VARIABLES
    status,     \* "off", "full" (after --init), "starting", "on" or "failed"
    config,     \* the zone definition of this system
    todo,       \* the events that are still to be enabled
    z,          \* the zone (LegacyActions)
    file,       \* the mode saved, or NoValue
    inbox,      \* the signals received
    changes

vars == <<bus, up, status, config, todo, z, file, inbox, changes>>

\* The services that are watched are those of the objects that are on D-Bus
\* when the program starts: the matches are built with its configuration.
OnBus == {m \in Member : bus[m] # NoValue}
NewZone(target, matched) ==
    [target |-> target, floor |-> DefaultFloor, defFloor |-> DefaultFloor,
     ceiling |-> FullSpeed, ceilingKey |-> 0, base |-> 0,
     incDelta |-> 0, decDelta |-> 0, incTimer |-> FALSE,
     props |-> [m \in Member |-> NoValue], tree |-> {}, matched |-> matched,
     holding |-> {}, floorFixed |-> {}, noDecrease |-> {}, defaulted |-> FALSE,
     enabled |-> [e \in Event |-> 0], timed |-> {}]

Change == changes < MaxChanges /\ changes' = changes + 1

-----------------------------------------------------------------------------
(* Start                                                                   *)

\* Manager::doInit(), then the unit of the control program is started.
DoInit ==
    /\ status = "off"
    /\ status' = "full"
    /\ z' = NewZone(FullSpeed, {})
    /\ UNCHANGED <<bus, up, config, todo, file, inbox, changes>>

\* The zone's handler sets the default mode before it is a persisted one;
\* then the saved mode is restored, and saved.
DefaultSaved == DefaultMode \* mutant: the property is persisted before the default is set
Restored == IF file = NoValue THEN DefaultMode ELSE file

Start ==
    /\ status \in {"full", "failed"}
    /\ status' = "starting"
    /\ z' = NewZone(z.target, OnBus)
    /\ bus' = [bus EXCEPT ![Mode] = Restored]
    /\ file' = IF Restored = DefaultMode THEN file ELSE Restored
    /\ todo' = config
    /\ UNCHANGED <<up, config, inbox, changes>>

EnableEvent ==
    /\ status = "starting" /\ todo # <<>>
    /\ z' = InitTopEvent(z, Head(todo))
    /\ todo' = Tail(todo)
    /\ UNCHANGED <<bus, up, status, config, file, inbox, changes>>

Started ==
    /\ status = "starting" /\ todo = <<>>
    /\ status' = "on"
    /\ UNCHANGED <<bus, up, config, todo, z, file, inbox, changes>>

\* It is started again when it fails, and after --init at the next power on.
Ends ==
    /\ status \in {"starting", "on"} /\ Change
    /\ status' \in {"failed", "off"}
    /\ z' = NewZone(z.target, {})
    /\ todo' = <<>> /\ inbox' = <<>>
    /\ UNCHANGED <<bus, up, config, file>>

-----------------------------------------------------------------------------
(* D-Bus                                                                   *)

\* A group hears of the owners of the services of its members that are watched.
HearsOwner(y, g, s) == \E m \in Range(g) : m \in y.matched /\ ServiceOf[m] = s

Handles(e, m) ==
    /\ Contains(Def[e].triggers, m.type)
    /\ IF m.type = "owner" THEN HearsOwner(z, Def[e].group, m.service)
       ELSE m.member \in Range(Def[e].group)
Subscribers(m) == {e \in Event : z.enabled[e] > 0 /\ Handles(e, m)}

Send(m) ==
    /\ status # "off" /\ Change
    /\ inbox' = IF Subscribers(m) = {} THEN inbox ELSE Append(inbox, m)
    /\ UNCHANGED <<status, config, todo, z, file>>

NestedIn(e) == UNION {UNION {Nested(a) : a \in Range(p.actions)} : p \in Range(Def[e].parts)}

EventsOf(c) == Range(c) \cup UNION {NestedIn(e) : e \in Range(c)}

\* Bound: only what an event uses changes.
Watched ==
    (UNION {Range(Def[e].group) : e \in EventsOf(config)}) \ {Mode}

ChangeValue(m, v) ==
    /\ NoValue \notin {bus[m], v} /\ v # bus[m]
    /\ bus' = [bus EXCEPT ![m] = v]
    /\ UNCHANGED up
    /\ Send([type |-> "changed", member |-> m, value |-> v])

Appear(m, v) ==
    /\ bus[m] = NoValue /\ ServiceOf[m] \in up
    /\ bus' = [bus EXCEPT ![m] = v]
    /\ UNCHANGED up
    /\ Send([type |-> "added", member |-> m, value |-> v])

Disappear(m) ==
    /\ bus[m] # NoValue
    /\ bus' = [bus EXCEPT ![m] = NoValue]
    /\ UNCHANGED up
    /\ Send([type |-> "removed", member |-> m])

\* Objects of a service that ends are not announced.
ServiceStops(s) ==
    /\ s \in up /\ s # ServiceOf[Mode]
    /\ up' = up \ {s}
    /\ bus' = [m \in Member |-> IF ServiceOf[m] = s THEN NoValue ELSE bus[m]]
    /\ Send([type |-> "owner", service |-> s])

ServiceStarts(s) ==
    /\ s \in Service \ up
    /\ up' = up \cup {s}
    /\ UNCHANGED bus
    /\ Send([type |-> "owner", service |-> s])

-----------------------------------------------------------------------------
(* Callbacks                                                               *)

\* The handler of a signal: setProperty(), setService() or removeInterface()
Handler(y, m) ==
    CASE m.type = "owner" -> y
      [] m.type = "removed" -> Dropped(y, m.member)
      [] OTHER -> Cached(y, m.member, m.value)

\* Each subscription of an event updates the cache and runs the actions of its part.
HandlePart(y, p, m) == RunAll(Handler(y, m), p.group, p.actions)
HandleParts(y, e, m) == FoldLeft(LAMBDA x, p : HandlePart(x, p, m), y, Def[e].parts)
HandleEvent(y, e, m) ==
    FoldLeft(LAMBDA x, k : HandleParts(x, e, m), y, [k \in 1..y.enabled[e] |-> k])

\* The subscriptions to a signal are called in any order.
Receive ==
    /\ status = "on" /\ inbox # <<>>
    /\ \E order \in SetToSeqs(Subscribers(Head(inbox))) :
         z' = FoldLeft(LAMBDA y, e : HandleEvent(y, e, Head(inbox)), z, order)
    /\ inbox' = Tail(inbox)
    /\ UNCHANGED <<bus, up, status, config, todo, file, changes>>

\* Zone::current() of a mode that is supported: it is saved, and the event
\* of the mode handled.
Settable == Supported
SetMode(v) ==
    /\ status = "on" /\ Change
    /\ v \in Settable \ {bus[Mode]}
    /\ bus' = [bus EXCEPT ![Mode] = v]
    /\ file' = v
    /\ LET m == [type |-> "mode", member |-> Mode, value |-> v]
       IN  z' = FoldSet(LAMBDA e, y : HandleEvent(y, e, m), z, Subscribers(m))
    /\ UNCHANGED <<up, status, config, todo, inbox>>

\* A timer expired.
Expired(y) ==
    /\ status = "on"
    /\ z' = y
    /\ UNCHANGED <<bus, up, status, config, todo, file, inbox, changes>>

IncTimerExpired == z.incTimer /\ Expired([z EXCEPT !.incDelta = 0, !.incTimer = FALSE])

DecreaseAllowed(y) == y.noDecrease = {} /\ y.decDelta # 0 /\ y.incDelta = 0 /\ ~y.incTimer
Decreased(y) ==
    LET base == Min({RequestSpeedBase(y), y.ceiling})
    IN  IF base < y.decDelta \/ base - y.decDelta < y.floor THEN y.floor ELSE base - y.decDelta
DecTimerExpired ==
    Expired([(IF DecreaseAllowed(z) THEN SetSpeed(z, Decreased(z)) ELSE z) EXCEPT !.decDelta = 0])

\* A repeating timer of an event
TimerExpired(e, k) ==
    /\ z.enabled[e] > 0 /\ Contains(Def[e].triggers, "timer")
    /\ Expired(RunAll(z, Def[e].parts[k].group, Def[e].parts[k].actions))

ActionTimerExpired(t) ==
    /\ t.armed
    /\ LET y == IF t.oneshot
                THEN [z EXCEPT !.timed = (@ \ {t}) \cup {[t EXCEPT !.armed = FALSE]}] ELSE z
       IN  Expired(RunAll(y, t.group, t.actions))

-----------------------------------------------------------------------------
Init ==
    /\ up = Service
    /\ bus \in Buses
    /\ status = "off"
    /\ config \in Configs
    /\ todo = <<>>
    /\ z = NewZone(FullSpeed, {})
    /\ file = NoValue
    /\ inbox = <<>>
    /\ changes = 0

Environment ==
    /\ changes < MaxChanges
    /\ \/ \E m \in Watched :
             Disappear(m) \/ \E v \in Value : ChangeValue(m, v) \/ Appear(m, v)
       \/ \E s \in Service : ServiceStops(s) \/ ServiceStarts(s)

Daemon ==
    \/ DoInit \/ Start \/ EnableEvent \/ Started \/ Ends
    \/ Receive
    \/ \E v \in Value : SetMode(v)
    \/ IncTimerExpired \/ DecTimerExpired
    \/ \E e \in Event : \E k \in DOMAIN Def[e].parts : TimerExpired(e, k)
    \/ \E t \in z.timed : ActionTimerExpired(t)

Next == Environment \/ Daemon

Spec == Init /\ [][Next]_vars

-----------------------------------------------------------------------------
(* Properties                                                              *)

Quiet == status = "on" /\ inbox = <<>>
ActionsOf(e) ==
    UNION {{[group |-> p.group, action |-> a] : a \in Range(p.actions)} : p \in Range(Def[e].parts)}
InUse == UNION {ActionsOf(e) : e \in {e \in Event : z.enabled[e] > 0}}

\* Every callback keeps the types, and a saved mode is one that can be set.
LegacyTypeOK ==
    /\ bus \in [Member -> Value \cup {NoValue}]
    /\ up \subseteq Service
    /\ status \in {"off", "full", "starting", "on", "failed"}
    /\ file \in Supported \cup {NoValue}
    /\ {z.target, z.floor, z.defFloor, z.ceiling, z.base, z.incDelta, z.decDelta} \subseteq Nat
    /\ z.props \in [Member -> Value \cup {NoValue}]
    /\ z.tree \cup z.matched \subseteq Member
    /\ z.holding \cup z.floorFixed \cup z.noDecrease
         \subseteq {p.group : p \in UNION {Range(Def[e].parts) : e \in Event}}
    /\ z.enabled \in [Event -> Nat]

\* The events that switch other events on and off.
Switch ==
    {e \in Event : \E p \in Range(Def[e].parts) : \E a \in Range(p.actions) :
                      a.type \in {"states_match", "alternate"}}
GroupOf(e) == Def[e].parts[1].group
ActionOf(e) == Def[e].parts[1].actions[1]
Uses(e) == Range(Def[e].group) \cup UNION {Range(p.group) : p \in Range(Def[e].parts)}

\* A switch does one thing, from the start on, and what it reads and what it
\* switches are its own: no other event caches its members, lets go of its
\* group or enables its events.
SwitchesAlone ==
    \A e \in Switch :
        /\ Inits(e) /\ Len(Def[e].parts) = 1 /\ Len(Def[e].parts[1].actions) = 1
        /\ GroupOf(e) # <<>>
        /\ ActionOf(e).type = "states_match" =>
              \A s \in ActionOf(e).states : s[1] \in Range(GroupOf(e))
        /\ ActionOf(e).type = "alternate" =>
              Range(ActionOf(e).def) \cap Range(ActionOf(e).alt) = {}
        /\ \A f \in Event \ {e} : /\ Uses(f) \cap Range(GroupOf(e)) = {}
                                  /\ NestedIn(f) \cap NestedIn(e) = {}
        /\ \A c \in Configs : Range(c) \cap NestedIn(e) = {}

\* While the properties of a precondition do not match, the fans are at full
\* speed and the events of the precondition are not enabled.
\* (property_states_match, setActiveAllow() of other groups, setSpeed())
FullWhenUnmatched ==
    Quiet => \A u \in InUse :
        u.action.type = "states_match" =>
            IF \A s \in u.action.states : z.props[s[1]] = s[2]
            THEN \A e \in Range(u.action.events) : z.enabled[e] > 0
            ELSE z.target = FullSpeed /\ \A e \in Range(u.action.events) : z.enabled[e] = 0

\* Exactly one of the two sets of events is enabled, and the one for a state
\* only at that state.  (use_alternate_events_on_state)
EventsFollowState ==
    Quiet => \A u \in InUse :
        u.action.type = "alternate" =>
            \A e \in Range(u.action.alt), f \in Range(u.action.def) :
                /\ z.enabled[e] > 0 <=> AllAt(z, u.group, u.action.state)
                /\ z.enabled[f] = 0 <=> AllAt(z, u.group, u.action.state)

\* A member of the group g has no service that is known, or one without an
\* owner that the group would hear of.
OwnerMissed(y, g) ==
    \E m \in Range(g) : m \notin y.tree \/ (ServiceOf[m] \notin up /\ HearsOwner(y, g, ServiceOf[m]))

\* While an owner is missing the floor is the default, and it stays until the
\* values set it again; otherwise the floor follows the values.
\* (default_floor_on_missing_owner, setServices(), setFloor())
FloorFollows ==
    Quiet => \A u \in InUse :
        /\ u.action.type = "default_floor" /\ OwnerMissed(z, u.group) => z.floor = z.defFloor
        /\ u.action.type = "floor_median" =>
              z.floor = IF z.defaulted THEN z.defFloor
                        ELSE FloorFor(z, u.action.speeds, Median(z, u.group, u.action))

\* The keys next to a value: itself and its neighbours, or the last or the first.
NextTo(speeds, v) ==
    LET below == {k \in DOMAIN speeds : speeds[k][1] < v}
        above == {k \in DOMAIN speeds : speeds[k][1] > v}
    IN  CASE v >= speeds[Len(speeds)][1] -> {Len(speeds)}
          [] v <= speeds[1][1] -> {1}
          [] OTHER -> Max(below)..Min(above)

\* The ceiling is the speed of a key next to the value, whatever the values
\* were before.  A value of 0 is taken for the one the zone starts with.
\* (set_ceiling_from_average_sensor_value, swapCeilingKeyValue())
CeilingFollows ==
    Quiet => \A u \in InUse :
        u.action.type = "ceiling" /\ Known(z, u.group) # {} =>
            LET v == Average(z, u.group)
                speeds == u.action.speeds
            IN  v # 0 => z.ceiling \in {speeds[k][2] : k \in NextTo(speeds, v)}

\* Floor and ceiling follow the values that set them, and what is set is of
\* its type: no mode that is not supported gets into the file.
LimitsFollow == LegacyTypeOK /\ FloorFollows /\ CeilingFollows

\* What sets a limit, and what else would change it.
Limits == {"default_floor", "floor_median", "ceiling"}
Rivals(type) ==
    CASE type = "ceiling" -> {"ceiling"}
      [] type = "floor_median" -> {"floor_average", "floor_median", "update_floor"}
      [] type = "default_floor" -> {"update_floor"}
TypesOf(e) == UNION {{a.type : a \in Range(p.actions)} : p \in Range(Def[e].parts)}

\* The event e sees the values that its group has from the start on: no other
\* event that has a member of it is enabled by an action or hears of values.
SeesAll(c, e) ==
    /\ \A type \in {"added", "changed"} : Contains(Def[e].triggers, type)
    /\ \A f \in EventsOf(c) \ {e} :
          \/ Uses(f) \cap Range(GroupOf(e)) = {}
          \/ /\ \A n \in Range(c) : f \notin NestedIn(n)
             /\ \A type \in {"added", "changed", "removed", "mode"} : ~Contains(Def[f].triggers, type)

\* A limit of a zone is set by one event of the zone's list, from the start
\* on, and by nothing else; timers set none.
LimitsAlone ==
    /\ \A e \in Event : \A p \in Range(Def[e].parts) : \A a \in Range(p.actions) :
          a.type = "timer" =>
             \A b \in Range(a.actions) : \A type \in Limits : b.type \notin Rivals(type)
    /\ \A c \in Configs : \A e \in EventsOf(c) : \A type \in TypesOf(e) \cap Limits :
          /\ Inits(e) /\ Len(Def[e].parts) = 1 /\ Range(GroupOf(e)) \subseteq Range(Def[e].group)
          /\ \A n \in Range(c) : e \notin NestedIn(n)
          /\ \A f \in EventsOf(c) \ {e} : TypesOf(f) \cap Rivals(type) = {}
          /\ LET actions == Def[e].parts[1].actions
             IN  \A i, j \in {k \in DOMAIN actions : actions[k].type \in {type} \cup Rivals(type)} : i = j
          /\ IF type = "default_floor" THEN Contains(Def[e].triggers, "owner") ELSE SeesAll(c, e)

\* A mode that was set is kept over the end of the daemon and not replaced by
\* the default.  (saveCurrentMode(), restoreCurrentMode(), setZoneProperty())
ModePersists == [][bus'[Mode] # bus[Mode] => status = "on"]_vars

=============================================================================
