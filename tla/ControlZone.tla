------------------------------ MODULE ControlZone ------------------------------
(***************************************************************************)
(* A zone of phosphor-fan-control (control/json/zone.cpp) with its fans,   *)
(* the actions of events.json that act on it, and the power, restart and   *)
(* reload handling of control/json/manager.cpp.                            *)
(*                                                                         *)
(* Every action of this module is a callback of the daemon's event loop.   *)
(* What an event action computes from its groups is an input here: which   *)
(* delta it asks for, whether its count is reached, whether an owner is    *)
(* missing.                                                                *)
(*                                                                         *)
(* A write to D-Bus may fail.  The exception leaves the event loop, the    *)
(* daemon exits and is started again (control/main.cpp): the properties    *)
(* written so far remain, all else is forgotten.                           *)
(***************************************************************************)
EXTENDS ControlFan

CONSTANTS
    PoweronTarget,  \* "poweron_target" of the zone
    Ceiling,        \* "default_ceiling"
    DefaultFloor,   \* "default_floor"
    AutoTargets,    \* the targets a target_from_group_max action may set
    IncDeltas,      \* what net_target_increase actions ask for
    DecDeltas,      \* what net_target_decrease actions ask for
    Bases,          \* what request_target_base actions set, 0 for none
    FloorTargets,   \* the floors that actions hold
    Hold,           \* actions and groups that hold a target
    HoldTarget,     \* the target each of them holds
    FloorHolder,    \* actions that hold a floor
    Group,          \* groups that gate floor changes or decreases
    FirstTargets    \* the target of all fans when the BMC boots

ASSUME ControlZoneAssumption ==
    /\ PoweronTarget \in Nat
    /\ Ceiling \in Nat
    /\ DefaultFloor \in 0..Ceiling   \* ensured by the constructor
    /\ AutoTargets \subseteq Nat
    /\ IncDeltas \subseteq Nat
    /\ DecDeltas \subseteq Nat
    /\ Bases \subseteq Nat
    /\ FloorTargets \subseteq Nat
    /\ HoldTarget \in [Hold -> 0..MaxTarget]
    /\ FirstTargets \subseteq Nat

VARIABLES
    running,      \* the daemon is up
    zone,         \* the Zone object and its fans, see Zone
    written,      \* sensor -> its Target property on D-Bus
    reloadFailed  \* history: a reload has failed since the zone was loaded

vars == <<running, zone, written, reloadFailed>>

Zone == [
    target       : Nat,                \* _target
    floor        : 0..Ceiling,         \* _floor
    incDelta     : Nat,                \* _incDelta
    incTimer     : BOOLEAN,            \* is _incTimer enabled?
    decDelta     : Nat,                \* _decDelta
    base         : Nat,                \* _requestTargetBase
    active       : BOOLEAN,            \* _isActive
    targetHolds  : SUBSET Hold,        \* the keys of _targetHolds
    floorHolds   : UNION {[D -> 0..Ceiling] : D \in SUBSET FloorHolder},
    floorBlocked : SUBSET Group,       \* the false entries of _floorChange
    decBlocked   : SUBSET Group,       \* the false entries of _decAllowed
    fan          : [Fan -> Nat],       \* _target of the fans
    locks        : [Fan -> SUBSET Lock]]

-----------------------------------------------------------------------------
(* Operations of the zone, from the old object to the new one.             *)

Least(a, b) == IF a < b THEN a ELSE b

SetTargetAlways(z, t) == \* mutant: holds do not stop the automatic control
    [z EXCEPT !.target = t, !.fan = ZoneFans(@, z.locks, t)]
SetTarget(z, t) ==
    IF z.active
    THEN [z EXCEPT !.target = t, !.fan = ZoneFans(@, z.locks, t)]
    ELSE z

RequestTargetBase(z) == IF z.base # 0 THEN z.base ELSE z.target

\* requestIncrease(): only the part above the pending increase is added.
IncreaseUntimed(z, d) == \* mutant: the delay starts with a new target only
    IF d > z.incDelta /\ z.target < Ceiling
    THEN LET t == Least((d - z.incDelta) + RequestTargetBase(z), Ceiling)
         IN  SetTarget([z EXCEPT !.incDelta = d, !.incTimer = z.active], t)
    ELSE z
IncreaseUnbounded(z, d) == \* mutant: the ceiling is forgotten
    IF d > z.incDelta /\ z.target < Ceiling
    THEN SetTarget([z EXCEPT !.incDelta = d, !.incTimer = TRUE],
                   (d - z.incDelta) + RequestTargetBase(z))
    ELSE z
Increase(z, d) ==
    IF d > z.incDelta /\ z.target < Ceiling
    THEN LET t == Least((d - z.incDelta) + RequestTargetBase(z), Ceiling)
         IN  SetTarget([z EXCEPT !.incDelta = d, !.incTimer = TRUE], t)
    ELSE z

\* The floor is changed, the target follows it.
ToFloor(z, t) ==
    LET y == [z EXCEPT !.floor = t]
    IN  IF y.target < t THEN Increase(y, t - y.target) ELSE y

\* setFloor(), allowed while no group blocks it.
SetFloor(z, t) ==
    IF z.floorBlocked = {} THEN ToFloor(z, Least(t, Ceiling)) ELSE z

\* setFloorHold(): the holds are kept up to date even while they are blocked.
HeldFloor(holds) ==
    IF DOMAIN holds = {} THEN DefaultFloor
    ELSE Highest({holds[h] : h \in DOMAIN holds})
WithHold(holds, h, t) ==
    [k \in DOMAIN holds \cup {h} |-> IF k = h THEN t ELSE holds[k]]
WithoutHold(holds, h) == [k \in DOMAIN holds \ {h} |-> holds[k]]

SetFloorHold(z, h, t, hold) ==
    LET holds == IF hold THEN WithHold(z.floorHolds, h, Least(t, Ceiling))
                         ELSE WithoutHold(z.floorHolds, h)
        y     == [z EXCEPT !.floorHolds = holds]
    IN  IF z.floorBlocked = {} THEN ToFloor(y, HeldFloor(holds)) ELSE y

\* setTargetHold(): the fans go to the highest hold; the last hold removed
\* leaves the target and makes the automatic control active again.
SetTargetHold(z, h, hold) ==
    LET holds == IF hold THEN z.targetHolds \cup {h} ELSE z.targetHolds \ {h}
        y     == [z EXCEPT !.targetHolds = holds, !.active = (holds = {})]
    IN  IF holds = {} THEN y
        ELSE SetTargetAlways(y, Highest({HoldTarget[k] : k \in holds}))

\* decTimerExpired(): nothing is decreased while an increase is under way.
Decrease(z) ==
    LET t == Least(RequestTargetBase(z), Ceiling)
        y == [z EXCEPT !.decDelta = 0]
    IN  IF /\ z.decBlocked = {}
           /\ z.decDelta # 0
           /\ z.incDelta = 0
           /\ ~z.incTimer
        THEN SetTarget(y, IF t < z.decDelta \/ t - z.decDelta < z.floor
                          THEN z.floor ELSE t - z.decDelta)
        ELSE y

-----------------------------------------------------------------------------
(* The daemon.                                                             *)

\* The object the constructor makes; the fans are read before they join it.
NewZone(fan) ==
    [target |-> 0, floor |-> DefaultFloor, incDelta |-> 0, incTimer |-> FALSE,
     decDelta |-> 0, base |-> 0, active |-> TRUE, targetHolds |-> {},
     floorHolds |-> [h \in {} |-> 0], floorBlocked |-> {}, decBlocked |-> {},
     fan |-> fan, locks |-> [f \in Fan |-> {}]]

\* The exception that ends the event loop.
Exit ==
    /\ running' = FALSE
    /\ zone' = NewZone([f \in Fan |-> 0])
    /\ reloadFailed' = FALSE

\* A callback ends with the zone z, after its writes or at the one that fails.
Returns(z) ==
    /\ running
    /\ \/ /\ zone' = z
          /\ written' = AfterWrites(written, zone.fan, z.fan)
          /\ UNCHANGED <<running, reloadFailed>>
       \/ /\ written' \in FailedWrites(written, zone.fan, z.fan)
          /\ Exit

\* load(): the fans join the zone one by one, and each one whose target is not
\* 0 nor that of the zone sets the zone, and the fans that joined before, to
\* its own.  JoinedTarget(i) is the target of the zone after i fans joined.
JoinedTarget(i) ==
    LET moving == {j \in 1..i : ReadTarget(written, FanSeq[j]) # 0}
    IN  IF moving = {} THEN 0 ELSE ReadTarget(written, FanSeq[Highest(moving)])

SetsTarget(i) ==
    /\ ReadTarget(written, FanSeq[i]) # 0
    /\ ReadTarget(written, FanSeq[i]) # JoinedTarget(i - 1)

\* The fans that were set by one that joined after them.
Rewritten(i) ==
    {f \in Fan : \E k \in 1..i : \E j \in 1..(k - 1) :
                   FanSeq[j] = f /\ SetsTarget(k)}

Loaded(i) ==
    [target  |-> JoinedTarget(i),
     fan     |-> [f \in Fan |-> IF f \in Rewritten(i) THEN JoinedTarget(i)
                                ELSE ReadTarget(written, f)],
     written |-> [s \in Sensor |-> IF FanOf[s] \in Rewritten(i)
                                   THEN JoinedTarget(i) ELSE written[s]]]

LoadedUnread == \* mutant: the zone starts without the target of its fans
    Loaded(0)
AllLoaded == Loaded(Len(FanSeq))

\* The daemon starts, or reloads its configuration at SIGHUP.  The actions
\* that the init triggers of the events run are the callbacks below.
Load ==
    /\ running' = TRUE
    /\ zone' = [NewZone(AllLoaded.fan) EXCEPT !.target = AllLoaded.target]
    /\ written' = AllLoaded.written
    /\ reloadFailed' = FALSE

\* A write fails during load(): at SIGHUP the old zone is kept, at startup the
\* daemon exits.
LoadFails ==
    /\ \E i \in 1..Len(FanSeq) :
         written' \in FailedWrites(Loaded(i - 1).written,
                                   Loaded(i - 1).fan, Loaded(i).fan)
    /\ reloadFailed' = running
    /\ UNCHANGED <<running, zone>>

-----------------------------------------------------------------------------
(* The callbacks.                                                          *)

\* powerStateChanged()
PowerOn == Returns(SetTarget(zone, PoweronTarget))

\* TargetFromGroupMax::run()
TargetFromGroupMax(t) == Returns(SetTarget(zone, t))

\* NetTargetIncrease::run()
NetTargetIncrease(d) == Returns(Increase(zone, d))

IncTimerExpired ==
    /\ zone.incTimer
    /\ Returns([zone EXCEPT !.incDelta = 0, !.incTimer = FALSE])

\* NetTargetDecrease::run(): the net delta of the group is the lowest one
\* requested, unchanged if the group says nothing, and 0 blocks decreases.
NetDecreases(d) ==
    {0, zone.decDelta, IF zone.decDelta = 0 THEN d ELSE Least(zone.decDelta, d)}
NetTargetDecrease(g, d) ==
    \E net \in NetDecreases(d) :
      Returns([zone EXCEPT
        !.decBlocked = IF net = 0 THEN @ \cup {g} ELSE @ \ {g},
        !.decDelta   = IF @ = 0 THEN net ELSE Least(@, net)])

DecTimerExpired == Returns(Decrease(zone))

\* RequestTargetBase::run()
SetRequestTargetBase(b) == Returns([zone EXCEPT !.base = b])

\* DefaultFloor::run()
OwnerMissing(g) ==
    LET z == SetFloor(zone, DefaultFloor)
    IN  Returns([z EXCEPT !.floorBlocked = @ \cup {g}])
OwnerPresent(g) == Returns([zone EXCEPT !.floorBlocked = @ \ {g}])

\* CountStateFloor::run(), its delay timer, and MappedFloor
FloorHold(h, t)     == Returns(SetFloorHold(zone, h, t, TRUE))
FloorHoldRemoved(h) == Returns(SetFloorHold(zone, h, 0, FALSE))

\* MissingOwnerTarget::run() and CountStateTarget::run()
TargetHold(h)        == Returns(SetTargetHold(zone, h, TRUE))
TargetHoldRemoved(h) == Returns(SetTargetHold(zone, h, FALSE))

\* OverrideFanTarget::run(): the action has locked its fans or it has not.
HasLocked(l) == \E f \in Fan : l \in zone.locks[f]

LockFanTargets(l) ==
    /\ ~HasLocked(l)
    /\ Returns([zone EXCEPT
         !.fan   = LockedFans(@, zone.locks, l),
         !.locks = [f \in Fan |-> IF f \in LockFans[l] THEN @[f] \cup {l}
                                                       ELSE @[f]]])

UnlockFanTargets(l) ==
    /\ HasLocked(l)
    /\ Returns([zone EXCEPT
         !.fan   = UnlockedFans(@, zone.locks, l, zone.target),
         !.locks = [f \in Fan |-> IF f \in LockFans[l] THEN @[f] \ {l}
                                                       ELSE @[f]]])

-----------------------------------------------------------------------------

\* The daemon has not started yet.
Init ==
    /\ running = FALSE
    /\ zone = NewZone([f \in Fan |-> 0])
    /\ reloadFailed = FALSE
    /\ \E t \in FirstTargets : written = [s \in Sensor |-> t]

AutoStep ==
    \/ PowerOn
    \/ \E t \in AutoTargets : TargetFromGroupMax(t)
    \/ \E d \in IncDeltas : NetTargetIncrease(d)
    \/ IncTimerExpired
    \/ \E g \in Group, d \in DecDeltas : NetTargetDecrease(g, d)
    \/ DecTimerExpired
    \/ \E b \in Bases : SetRequestTargetBase(b)

HoldStep ==
    \/ \E g \in Group : OwnerMissing(g) \/ OwnerPresent(g)
    \/ \E h \in FloorHolder, t \in FloorTargets : FloorHold(h, t)
    \/ \E h \in FloorHolder : FloorHoldRemoved(h)
    \/ \E h \in Hold : TargetHold(h) \/ TargetHoldRemoved(h)
    \/ \E l \in Lock : LockFanTargets(l) \/ UnlockFanTargets(l)

Next ==
    \/ AutoStep
    \/ HoldStep
    \/ Load
    \/ LoadFails

ZoneSpec == Init /\ [][Next]_vars

-----------------------------------------------------------------------------
(* Properties.                                                             *)

\* Every handler keeps the types: a floor is never above the ceiling.
ZoneTypeOK ==
    /\ running \in BOOLEAN
    /\ zone \in Zone
    /\ written \in [Sensor -> Nat]
    /\ reloadFailed \in BOOLEAN

\* While a target is held the automatic control is off and the zone is at the
\* highest hold, whatever else asks for; without a hold it is on
\* (setTargetHold() against setTarget(), requestIncrease(), decTimerExpired(),
\* a reload).
HoldsWin ==
    IF zone.targetHolds = {}
    THEN zone.active
    ELSE /\ ~zone.active
         /\ zone.target = Highest({HoldTarget[h] : h \in zone.targetHolds})

\* The fans of a zone that are not locked are at the target of the zone, and
\* locked ones at their highest lock (setTarget(), lockTarget(),
\* unlockTarget() and load(), which all set some of the fans).
FansFollowZone ==
    running => \A f \in Fan :
                 zone.locks[f] = {} => zone.fan[f] = zone.target
LockedAtHighest ==
    \A f \in Fan :
      zone.locks[f] # {} => zone.fan[f] = HighestLock(zone.locks[f])

\* An increase is pending exactly while the timer that will end it runs, so
\* that decreases are not blocked for ever (requestIncrease() and
\* incTimerExpired(), also while a hold is set).
IncreaseSettles == zone.incDelta # 0 <=> zone.incTimer

\* The target the automatic control reaches on its own is between the floor
\* and the ceiling: an increase does not pass the ceiling, a decrease does not
\* pass the floor, whatever base they start from (requestIncrease() and
\* decTimerExpired()).
AutoWithinBounds ==
    [][zone'.target # zone.target =>
         /\ (\E d \in IncDeltas : NetTargetIncrease(d)) /\ running'
              => zone'.target <= Ceiling
         /\ DecTimerExpired /\ running'
              => zone'.target \in zone.floor..Ceiling]_vars

\* While no fan is locked, a restart or a reload would change nothing: load()
\* would find the target of the zone and write to no fan, also if the start
\* failed half way before.  A reload that failed is left out: if a fan was
\* locked it may have written targets that the zone it keeps knows nothing of.
ReloadKeepsTarget ==
    running /\ ~reloadFailed /\ (\A f \in Fan : zone.locks[f] = {})
      => AllLoaded.target = zone.target /\ AllLoaded.written = written

\* zone.cpp:318 "Floor above target, update target to floor": when the floor
\* is raised under automatic control, the target is not left below it.
FloorReached ==
    [][(\E h \in FloorHolder, t \in FloorTargets : FloorHold(h, t))
         /\ running' /\ zone.active /\ zone'.floor > zone.floor
         => zone'.target >= zone'.floor]_vars

=============================================================================
