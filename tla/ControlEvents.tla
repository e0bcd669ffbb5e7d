----------------------------- MODULE ControlEvents -----------------------------
(***************************************************************************)
(* The events of phosphor-fan-control (control/json/event.cpp, triggers/): *)
(* load() enables their triggers one by one, while the services on D-Bus   *)
(* go on changing; after that signals, timers and power changes run their  *)
(* actions.  A signal reaches the daemon only if a trigger subscribed to   *)
(* it before it was sent.                                                  *)
(***************************************************************************)
EXTENDS ControlActions

CONSTANTS
    Triggers,       \* event -> the classes of its triggers, in order
    ParamsOf,       \* event -> the parameters its triggers watch
    Preloads,       \* the events whose timer trigger preloads its groups
    Configs,        \* the configurations: sequences of events
    MaxDisturbances \* bound: changes of the services and the power, and reloads

ASSUME ControlEventsAssumption ==
    /\ Object \cap Service = {}
    \* An event has a name of its own.
    /\ \A c \in Configs : c \in Seq(Event) /\ IsInjective(c)
    /\ Triggers \in [Event -> Seq({"properties", "owners", "changed", "added", "removed", "owner",
                                  "param", "once", "repeat", "poweron", "poweroff"})]
    /\ ParamsOf \in [Event -> SUBSET Param]
    \* Bound: an action that sets a parameter is not triggered by one.
    /\ \A e \in Event : Contains(Triggers[e], "param") => e \in FloorEvent
    /\ Preloads \subseteq Event
    /\ MaxDisturbances \in Nat

VARIABLES
    status,     \* "off", "loading" or "on"
    power,
    changes,    \* how often a service or the power changed
    reloads,
    config,
    todo,       \* the triggers load() still enables, by their positions
    done,       \* <<event, trigger>>: those it has enabled
    owners,     \* <<event, service>>: the owners that are watched
    timers,     \* _timers: records of event, trigger and armed
    inbox,      \* the signals that were received
    d,          \* the caches, parameters and actions (ControlActions)
    lost,       \* history: objects and services whose last change no handler saw
    dropped,    \* history: objects left out of the cache by interfacesAdded()
    behind      \* history: events whose objects were read for another event only

daemonVars == <<status, reloads, config, todo, done, owners, timers, d>>
vars == <<busVars, power, changes, daemonVars, inbox, lost, dropped, behind>>

NoDaemon ==
    [tree |-> {}, owned |-> {}, objects |-> [o \in Object |-> NoValue],
     params |-> [p \in Param |-> NoValue], triggers |-> {}, dangling |-> {},
     faulted |-> FALSE, targets |-> {},
     floors |-> [e \in Event |-> [z \in Zone |-> NoFloor]],
     delays |-> {}, settling |-> {}, timed |-> {}, cards |-> [e \in Event |-> {}]]

Watching(e, t) == <<e, t>> \in done
Watchers(t, objs) == {e \in Range(config) : Watching(e, t) /\ Members(e) \cap objs # {}}
OwnerWatchers(s) == {e \in Range(config) : <<e, s>> \in owners}
ObjectsOfService(s) == {o \in Object : ServiceOf[IfaceOf[o]] = s}

About(m) == CASE m.type = "changed" -> {m.object}
              [] m.type \in {"added", "removed"} -> ObjectsOf(m.iface)
              [] m.type = "owner" -> ObjectsOfService(m.service) \cup {m.service}

\* The caches show what is on D-Bus, and no signal is about to change that.
Current(x) ==
    /\ IF x \in Object THEN d.objects[x] = bus[x]
       ELSE \A i \in d.tree : ServiceOf[i] = x => (i \in d.owned <=> x \in up)
    /\ \A m \in Range(inbox) : x \notin About(m)
Lose(objs) == lost' = {o \in lost \cup objs : ~Current(o)'}
Drop(objs) == dropped' = {o \in dropped \cup objs : ~Current(o)'}
Read(ran) ==
    /\ Lose({}) /\ Drop({})
    /\ behind' = {e \in Event \ ran :
                    e \in behind \/ \E o \in Members(e) : d'.objects[o] # d.objects[o]}
Handled(E, unheard, left) ==
    /\ Lose(unheard) /\ Drop(left)
    /\ behind' = behind \ E

-----------------------------------------------------------------------------
(* The services on D-Bus.                                                  *)

\* Bound: other objects do not change.
Watched == UNION {Members(e) : e \in Range(config)}

Send(m, heard) ==
    /\ changes' = changes + 1
    /\ inbox' = IF heard THEN Append(inbox, m) ELSE inbox
    /\ UNCHANGED <<power, daemonVars>>
    /\ Lose(IF heard THEN {} ELSE About(m))
    /\ Drop({})
    /\ UNCHANGED behind

ChangeValue(o, v) ==
    /\ o \in Watched /\ IfaceOf[o] \in present /\ v # bus[o]
    /\ bus' = [bus EXCEPT ![o] = v]
    /\ UNCHANGED <<up, present>>
    /\ Send([type |-> "changed", object |-> o, value |-> v], Watchers("changed", {o}) # {})

AddIface(i, values) ==
    /\ i \in {IfaceOf[o] : o \in Watched} \ present
    /\ ServiceOf[i] \in up
    /\ present' = present \cup {i}
    /\ bus' = [o \in Object |-> IF IfaceOf[o] = i THEN values[o] ELSE bus[o]]
    /\ UNCHANGED up
    /\ Send([type |-> "added", iface |-> i, values |-> values],
            Watchers("added", ObjectsOf(i)) # {})

RemoveIface(i) ==
    /\ i \in {IfaceOf[o] : o \in Watched} \cap present
    /\ present' = present \ {i}
    /\ bus' = [o \in Object |-> IF IfaceOf[o] = i THEN NoValue ELSE bus[o]]
    /\ UNCHANGED up
    /\ Send([type |-> "removed", iface |-> i], Watchers("removed", ObjectsOf(i)) # {})

ServiceStarts(s) ==
    /\ s \in {ServiceOf[IfaceOf[o]] : o \in Watched} \ up
    /\ up' = up \cup {s}
    /\ UNCHANGED <<present, bus>>
    /\ Send([type |-> "owner", service |-> s, on |-> TRUE], OwnerWatchers(s) # {})

ServiceStops(s) ==
    /\ s \in {ServiceOf[IfaceOf[o]] : o \in Watched} \cap up
    /\ up' = up \ {s}
    /\ present' = {i \in present : ServiceOf[i] # s}
    /\ bus' = [o \in Object |-> IF o \in ObjectsOfService(s) THEN NoValue ELSE bus[o]]
    /\ Send([type |-> "owner", service |-> s, on |-> FALSE], OwnerWatchers(s) # {})

-----------------------------------------------------------------------------
(* load()                                                                  *)

OnPower(t) == t \in {"poweron", "poweroff"}

\* The triggers of a configuration, by the positions of event and trigger.
Steps(c) ==
    UNION {{<<k, j>> : j \in {j \in DOMAIN Triggers[c[k]] : ~OnPower(Triggers[c[k]][j])}} :
           k \in DOMAIN c}
IsNext(s) == \A r \in todo : s[1] < r[1] \/ (s[1] = r[1] /\ s[2] <= r[2])

\* Zones, events, timers and subscriptions are replaced, the caches are kept.
Renewed(c) ==
    [d EXCEPT !.triggers = {}, !.dangling = @ \cup {t[1] : t \in d.triggers},
              !.targets = {}, !.floors = NoDaemon.floors, !.delays = {},
              !.settling = {}, !.timed = {}, !.cards = NoDaemon.cards]

Load(c) ==
    /\ status' = "loading"
    /\ config' = c
    /\ todo' = Steps(c)
    /\ done' = {} /\ owners' = {} /\ timers' = <<>>

Start(c) ==
    /\ status = "off"
    /\ Load(c)
    /\ reloads' = 0
    /\ d' = NoDaemon
    /\ inbox' = <<>>
    /\ lost' = Object /\ dropped' = {} /\ behind' = {}
    /\ UNCHANGED <<busVars, power, changes>>

SighupHandler(c) ==
    /\ status = "on" /\ changes + reloads < MaxDisturbances
    /\ Load(c)
    /\ reloads' = reloads + 1
    /\ d' = Renewed(c)
    /\ behind' = {}
    /\ UNCHANGED <<busVars, power, changes, inbox, lost, dropped>>

\* The actions of the events E are run in the order of the configuration.
RunAll(f, E) == FoldLeft(LAMBDA g, e : IF e \in E THEN Run(g, e) ELSE g, f, config)

GetServices(objs) == FoldLeft(LAMBDA f, o : GetService(f, IfaceOf[o]), d, objs)

\* What a trigger does to the caches and actions when it is enabled.
Enabled(e, t) ==
    CASE t \in {"properties", "poweron", "poweroff"} -> Run(GetProperties(d, Group[e]), e)
      [] t = "owners" -> Run(NameHasOwner(d, Group[e]), e)
      [] t = "owner" -> GetServices(Group[e])
      [] t = "param" -> AddParameterTrigger(d, e, ParamsOf[e])
      [] OTHER -> d

\* nameOwnerChanged() watches the services it finds.
WatchOwners(e, t) ==
    IF t # "owner" THEN owners
    ELSE owners \cup {<<e, ServiceOf[i]>> : i \in {IfaceOf[o] : o \in Members(e)} \cap d'.tree}

AddTimer(e, t) ==
    IF t \notin {"once", "repeat"} THEN timers
    ELSE Append(timers, [event |-> e, trigger |-> t, armed |-> TRUE])

Enable ==
    /\ status = "loading"
    /\ UNCHANGED <<busVars, power, changes, status, reloads, config, inbox>>
    /\ \E s \in todo :
         LET e == config[s[1]]
             t == Triggers[e][s[2]]
         IN  /\ IsNext(s)
             /\ d' = Enabled(e, t)
             /\ done' = done \cup {<<e, t>>}
             /\ owners' = WatchOwners(e, t)
             /\ timers' = AddTimer(e, t)
             /\ todo' = todo \ {s}
             /\ Read({e})

Loaded ==
    /\ status = "loading" /\ todo = {}
    /\ status' = "on"
    /\ UNCHANGED <<busVars, power, changes, reloads, config, todo, done, owners, timers, inbox, d,
                   lost, dropped, behind>>

\* The mapper fails on a member whose service is not known.  At the start
\* the daemon ends; a reload is given up with the triggers enabled so far.
LoadFails ==
    /\ status = "loading"
    /\ \E s \in todo :
         LET e == config[s[1]]
             t == Triggers[e][s[2]]
         IN  /\ IsNext(s) /\ t \in {"owners", "owner"}
             /\ \E k \in DOMAIN Group[e] :
                  LET before == SubSeq(Group[e], 1, k - 1)
                      f == IF t = "owners" THEN NameHasOwner(d, before) ELSE GetServices(before)
                  IN  /\ IfaceOf[Group[e][k]] \notin f.tree
                      /\ d' = f
    /\ status' = IF reloads = 0 THEN "off" ELSE "on"
    /\ todo' = {}
    /\ UNCHANGED <<busVars, power, changes, reloads, config, done, owners, timers, inbox, lost, dropped, behind>>

-----------------------------------------------------------------------------
(* handleSignal(): the handlers, then the actions of the events.           *)

PropertiesChanged(m) ==
    LET E == Watchers("changed", {m.object})
    IN  /\ m.type = "changed"
        /\ d' = IF E = {} THEN d ELSE RunAll(SetProperty(d, m.object, m.value), E)
        /\ Handled(E, IF E = {} THEN {m.object} ELSE {}, {})

FirstOf(E) == config[Min({k \in DOMAIN config : config[k] \in E})]
FirstObject(e, i) == Group[e][Min({k \in DOMAIN Group[e] : IfaceOf[Group[e][k]] = i})]

\* Only the property of the first subscription to an interface is cached.
InterfacesAdded(m) ==
    LET E == Watchers("added", ObjectsOf(m.iface))
        first == FirstObject(FirstOf(E), m.iface)
    IN  /\ m.type = "added"
        /\ d' = IF E = {} THEN d ELSE RunAll(SetProperty(d, first, m.values[first]), E)
        /\ IF E = {} THEN Handled(E, ObjectsOf(m.iface), {})
           ELSE Handled(E, {}, ObjectsOf(m.iface) \ {first})

InterfacesRemoved(m) ==
    LET E == Watchers("removed", ObjectsOf(m.iface))
    IN  /\ m.type = "removed"
        /\ d' = IF E = {} THEN d ELSE RunAll(RemoveInterface(d, m.iface), E)
        /\ Handled(E, IF E = {} THEN ObjectsOf(m.iface) ELSE {}, {})

\* Objects that came with a signal only are not known to be its.
NameOwnerChanged(m) ==
    LET E == OwnerWatchers(m.service)
    IN  /\ m.type = "owner"
        /\ d' = IF E = {} THEN d ELSE RunAll(SetOwner(d, m.service, m.on), E)
        /\ Handled(E, {o \in ObjectsOfService(m.service) :
                            ~m.on /\ (E = {} \/ IfaceOf[o] \notin d.tree)}, {})

HandleSignal ==
    /\ status = "on" /\ inbox # <<>>
    /\ inbox' = Tail(inbox)
    /\ UNCHANGED <<busVars, power, changes, status, reloads, config, todo, done, owners, timers>>
    /\ LET m == Head(inbox)
       IN  \/ PropertiesChanged(m)
           \/ InterfacesAdded(m)
           \/ InterfacesRemoved(m)
           \/ NameOwnerChanged(m)

-----------------------------------------------------------------------------
(* Timers, power changes and the end of the daemon.                        *)

\* The daemon's actions ran outside of a load or signal.
Ran(e, ran) ==
    /\ status = "on"
    /\ d' = e
    /\ UNCHANGED <<busVars, status, reloads, config, todo, done, owners, inbox>>
    /\ Read(ran)

\* A oneshot timer removes the first oneshot timer of its event.
TimerExpired(k) ==
    LET t == timers[k]
        same == {j \in DOMAIN timers : timers[j].event = t.event /\ timers[j].trigger = "once"}
        rest == [timers EXCEPT ![k].armed = (t.trigger = "repeat")]
    IN  /\ t.armed
        /\ timers' = IF t.trigger = "once" THEN RemoveAt(rest, Min(same)) ELSE timers
        /\ Ran(Run(IF t.event \in Preloads THEN AddGroups(d, Group[t.event]) ELSE d, t.event),
               {t.event})
        /\ UNCHANGED <<power, changes>>

ActionTimerExpired(e) ==
    /\ \/ e \in d.delays /\ Ran(DelayExpired(d, e), {})
       \/ e \in d.settling /\ Ran(SettleExpired(d, e), {})
       \/ e \in d.timed /\ Ran(TimedExpired(d, e), {})
    /\ UNCHANGED <<power, changes, timers>>

PowerEvents(on) ==
    {e \in Range(config) : Contains(Triggers[e], IF on THEN "poweron" ELSE "poweroff")}

ReadAndRun(E) ==
    FoldLeft(LAMBDA f, e : IF e \in E THEN Run(GetProperties(f, Group[e]), e) ELSE f, d, config)

PowerStateChanged ==
    /\ status = "on" /\ changes + reloads < MaxDisturbances
    /\ PowerEvents(TRUE) \cup PowerEvents(FALSE) # {}
    /\ power' = ~power
    /\ changes' = changes + 1
    /\ Ran(ReadAndRun(PowerEvents(~power)), PowerEvents(~power))
    /\ UNCHANGED timers

\* Running destroyed actions goes on, or ends the daemon.
Dies ==
    /\ status = "on" /\ d.faulted
    /\ status' = "off"
    /\ UNCHANGED <<busVars, power, changes, reloads, config, todo, done, owners, timers, inbox, d,
                   lost, dropped, behind>>

-----------------------------------------------------------------------------
Init ==
    /\ up = Service
    /\ present \in {{}, Iface}
    /\ bus = [o \in Object |-> IF IfaceOf[o] \in present THEN Min(Value) ELSE NoValue]
    /\ status = "off" /\ power = FALSE /\ reloads = 0 /\ changes = 0
    /\ config = <<>> /\ todo = {} /\ done = {} /\ owners = {} /\ timers = <<>>
    /\ inbox = <<>>
    /\ d = NoDaemon
    /\ lost = Object /\ dropped = {} /\ behind = {}

Environment ==
    /\ status # "off" /\ changes + reloads < MaxDisturbances
    /\ \/ \E o \in Object, v \in Value \cup {NoValue} : ChangeValue(o, v)
       \/ \E i \in Iface : \/ \E values \in [ObjectsOf(i) -> Value] : AddIface(i, values)
                           \/ RemoveIface(i)
       \/ \E s \in Service : ServiceStarts(s) \/ ServiceStops(s)

Daemon ==
    \/ Enable \/ Loaded \/ LoadFails
    \/ HandleSignal
    \/ \E k \in DOMAIN timers : TimerExpired(k)
    \/ \E e \in Event : ActionTimerExpired(e)
    \/ PowerStateChanged

Next ==
    \/ Environment
    \/ \E c \in Configs : Start(c) \/ SighupHandler(c)
    \/ Daemon
    \/ Dies

Spec == Init /\ [][Next]_vars

-----------------------------------------------------------------------------
(* Properties                                                              *)

\* The state has its type; only services in the cache are known to have an owner.
TypeOK ==
    /\ BusTypeOK
    /\ status \in {"off", "loading", "on"}
    /\ power \in BOOLEAN
    /\ config \in Configs \cup {<<>>}
    /\ todo \subseteq Steps(config)
    /\ done \subseteq {s \in Event \X {"properties", "owners", "changed", "added", "removed",
                                       "owner", "param", "once", "repeat"} :
                        Contains(Triggers[s[1]], s[2])}
    /\ owners \subseteq Event \X Service
    /\ timers \in Seq([event : Event, trigger : {"once", "repeat"}, armed : BOOLEAN])
    /\ {changes, reloads} \subseteq 0..MaxDisturbances /\ Len(inbox) <= changes
    /\ d \in DaemonState /\ d.owned \subseteq d.tree

Quiet == status = "on" /\ inbox = <<>>
Complete(e) == \A t \in Range(Triggers[e]) : OnPower(t) \/ Watching(e, t)
Known(o) == o \notin lost \cup dropped

\* Once all signals are handled the cache shows what is on D-Bus, whatever
\* changed while a load read the properties, except for objects of which no
\* handler saw the last change.  (Manager::setProperty(), setOwner(),
\* removeInterface() and the order of the triggers)
CacheFollows ==
    Quiet => \A o \in Object : Known(o) => d.objects[o] = bus[o]

\* The cache is that of D-Bus, and what the actions compute from it keeps its
\* type: a negative offset never wraps a floor.  (AddFloorOffset)
CacheInv == TypeOK /\ CacheFollows

\* The events that hold a target, or start a timer, while an owner is missing.
OwnerEvent ==
    {e \in Event : Action[e].type = "missing" \/ (Action[e].type = "timed" /\ Action[e].byOwner)}

\* What a configuration has to say: an event that watches owners has an action
\* that depends on them, and asks for the owners after it has begun to watch.
OwnerEventsHold ==
    \A e \in Event : Contains(Triggers[e], "owner") =>
        /\ e \in OwnerEvent /\ Contains(Triggers[e], "owners")
        /\ \A j, k \in DOMAIN Triggers[e] :
              Triggers[e][j] = "owner" /\ Triggers[e][k] = "owners" => j < k

\* While a service an event watches has no owner the event holds its target,
\* or waits for the timer that makes it do so.  (NameHasOwner, NameOwnerChanged,
\* TimerBasedActions::run(), MissingOwnerTarget::run())
MissingServicesHeld ==
    Quiet => \A e \in Range(config) :
        /\ Complete(e) /\ Contains(Triggers[e], "owner")
        /\ \E s \in Service \ (up \cup lost) : <<e, s>> \in owners
        => HoldsOf(e) \subseteq d.targets \/ e \in d.timed

\* What a configuration has to say: an event that counts is told of the changes
\* of its group, and reads it when it is loaded, but not when the power changes.
CountEventsHear ==
    \A e \in Event : Action[e].type = "count" =>
        /\ {"properties", "changed", "added"} \subseteq Range(Triggers[e])
        /\ Range(Triggers[e]) \cap {"poweron", "poweroff"} = {}

\* A floor is held, or its delay is running, while enough members are at the
\* state, and neither once they are not; when a value or a service is lost the
\* floor may stay as it is.  (CountStateFloor::run(), its timer)
CountHeld ==
    Quiet => \A e \in Range(config) :
        Complete(e) /\ Action[e].type = "count" /\ e \notin behind /\ (\A o \in Members(e) : Known(o)) =>
            IF CountReached([d EXCEPT !.objects = bus], e)
            THEN d.floors[e][FirstZone] = Action[e].floor \/ e \in d.delays
            ELSE (\A o \in Members(e) : bus[o] # NoValue) =>
                 (\A z \in Zone : d.floors[e][z] = NoFloor) /\ e \notin d.delays

\* The values of the parameters by what is on D-Bus.
ParamSetters(p) == {e \in Range(config) : Action[e].type \in {"param", "pcie"} /\ Action[e].param = p}
Shown == [d EXCEPT !.objects = bus]
ShownParams ==
    [p \in Param |->
        IF ParamSetters(p) = {} THEN d.params[p]
        ELSE LET e == CHOOSE e \in ParamSetters(p) : TRUE
             IN  IF Action[e].type = "param" THEN GroupParameter(Shown, e)
                 ELSE FloorIndex(Shown, Action[e])]
CardsKnown(e) ==
    Action[e].type = "pcie" =>
        \A s \in Action[e].slots : d.objects[s.power] = Action[e].on => CardIface(s) \in d.cards[e]

\* What the floor of a mapped_floor is computed from, and the floor index of cards.
FloorObjects(a) ==
    a.key \cup (UNION {UNION {n.objects : n \in Range(t.entries)} : t \in Range(a.tables)})
          \cup (IF a.condition.op = "none" THEN {} ELSE {a.condition.object})
FloorParams(a) ==
    (UNION {{n.param : n \in Range(t.entries)} \cup {t.offset} : t \in Range(a.tables)}) \ {NoParam}
CardObjects(a) == {s.power : s \in a.slots} \cup (UNION {Range(s.id) : s \in a.slots})

\* What a configuration has to say: the events that map a floor or set a
\* parameter are told of all it is computed from, and no signal or power change
\* that is for another event only takes a value away or reads one after them.
FloorEventsHear ==
    \A c \in Configs : \A e \in Range(c) : Action[e].type \in {"mapped", "param", "pcie"} =>
        /\ {"properties", "changed", "added"} \subseteq Range(Triggers[e])
        /\ Action[e].type = "mapped" =>
              /\ FloorObjects(Action[e]) \subseteq Members(e)
              /\ FloorParams(Action[e]) \subseteq ParamsOf[e]
              /\ FloorParams(Action[e]) # {} => Contains(Triggers[e], "param")
        /\ Action[e].type = "pcie" => CardObjects(Action[e]) \subseteq Members(e)
        /\ \A f \in Range(c) \ {e} :
              /\ {Action[e].type, Action[f].type} \subseteq {"param", "pcie"}
                    => Action[e].param # Action[f].param
              /\ Contains(Triggers[f], "removed") /\ ~Contains(Triggers[e], "removed")
                    => \A o \in Members(e), m \in Members(f) : IfaceOf[o] # IfaceOf[m]
              /\ Contains(Triggers[f], "owner")
                    => \A o \in Members(e), m \in Members(f) :
                          ServiceOf[IfaceOf[o]] # ServiceOf[IfaceOf[m]]
              /\ Range(Triggers[e]) \cap Range(Triggers[f]) \cap {"poweron", "poweroff"} = {}

\* The floor follows the values on D-Bus, also those that reach it through the
\* parameters other events set, when these are removed again, and over reloads.
\* (MappedFloor::run(), setParameter(), the parameter triggers)
FloorsFollow ==
    Quiet /\ d.settling = {} =>
        \A e \in Range(config) :
            /\ Action[e].type = "mapped"
            /\ \A f \in Range(config) : /\ Complete(f) /\ CardsKnown(f) /\ f \notin behind
                                        /\ \A o \in Members(f) : Known(o)
            => \A z \in Zone :
                d.floors[e][z] = MappedFloor([Shown EXCEPT !.params = ShownParams], Action[e])

=============================================================================
