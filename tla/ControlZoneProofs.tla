--------------------------- MODULE ControlZoneProofs ---------------------------
(***************************************************************************)
(* Theorems about ControlZone, for any fans, sensors, holds and locks.     *)
(*                                                                         *)
(* That the fans follow the zone, the second half, is true only if no      *)
(* configured target is 0: load() takes a fan that reads 0 for one without *)
(* a target, and does not set it to the target of the zone.                *)
(***************************************************************************)
EXTENDS ControlZone, WellFoundedInduction, TLAPS

USE ControlFanAssumption, ControlZoneAssumption

-----------------------------------------------------------------------------
(* Maxima                                                                  *)

\* A nonempty set of bounded targets has a highest one.
LEMMA HighestExists ==
    ASSUME NEW m \in Nat, NEW S \in SUBSET (0..m), S # {}
    PROVE  /\ Highest(S) \in S
           /\ \A u \in S : u <= Highest(S)
  <1> DEFINE T == {m - t : t \in S}
  <1>1. T \subseteq Nat /\ T # {}
    OBVIOUS
  <1>2. PICK x \in T : \A y \in T : <<y, x>> \notin OpToRel(<, Nat)
    BY <1>1, WFMin, NatLessThanWellFounded
  <1>3. \A y \in T : ~(y < x)
    BY <1>1, <1>2 DEF OpToRel
  <1>4. PICK t \in S : x = m - t
    BY <1>2
  <1>5. ASSUME NEW u \in S
        PROVE  u <= t
    <2>1. ~(m - u < m - t)
      BY <1>3, <1>4, <1>5
    <2> QED
      BY <2>1
  <1>6. \E v \in S : \A u \in S : u <= v
    BY <1>5
  <1> QED
    BY <1>6 DEF Highest

\* The highest lock of a locked fan is a target, and no lock is above it.
LEMMA HighestLockExists ==
    ASSUME NEW L \in SUBSET Lock, L # {}
    PROVE  /\ HighestLock(L) \in {LockTarget[l] : l \in L}
           /\ HighestLock(L) \in Nat
           /\ \A l \in L : LockTarget[l] <= HighestLock(L)
  <1>1. {LockTarget[l] : l \in L} \in SUBSET (0..MaxTarget)
    OBVIOUS
  <1> PICK k \in L : TRUE
    OBVIOUS
  <1>2. LockTarget[k] \in {LockTarget[l] : l \in L}
    OBVIOUS
  <1>3. /\ HighestLock(L) \in {LockTarget[l] : l \in L}
        /\ \A u \in {LockTarget[l] : l \in L} : u <= HighestLock(L)
    BY <1>1, <1>2, HighestExists DEF HighestLock
  <1> QED
    BY <1>3

\* What decides on the highest lock.
LEMMA HighestLockIs ==
    ASSUME NEW L \in SUBSET Lock, NEW l \in L,
           \A k \in L : LockTarget[k] <= LockTarget[l]
    PROVE  HighestLock(L) = LockTarget[l]
  <1>1. /\ HighestLock(L) \in {LockTarget[k] : k \in L}
        /\ LockTarget[l] <= HighestLock(L)
    BY HighestLockExists
  <1>2. PICK k \in L : HighestLock(L) = LockTarget[k]
    BY <1>1
  <1> QED
    BY <1>1, <1>2

-----------------------------------------------------------------------------
(* The invariant of the Zone object, and the operations that keep it       *)

HoldsOK(z) ==
    IF z.targetHolds = {}
    THEN z.active
    ELSE /\ ~z.active
         /\ z.target = Highest({HoldTarget[h] : h \in z.targetHolds})

LocksOK(z) ==
    \A f \in Fan : z.locks[f] # {} => z.fan[f] = HighestLock(z.locks[f])

IncOK(z) == z.incDelta # 0 <=> z.incTimer

ZoneOK(z) == z \in Zone /\ HoldsOK(z) /\ LocksOK(z) /\ IncOK(z)

\* Setting the fans of the zone keeps the types and the locked fans.
LEMMA SetTargetAlwaysKeeps ==
    ASSUME NEW z \in Zone, LocksOK(z), NEW t \in Nat
    PROVE  SetTargetAlways(z, t) \in Zone /\ LocksOK(SetTargetAlways(z, t))
  BY DEF SetTargetAlways, ZoneFans, Zone, LocksOK

LEMMA SetTargetKeeps ==
    ASSUME NEW z, ZoneOK(z), NEW t \in Nat
    PROVE  ZoneOK(SetTarget(z, t))
  <1>1. CASE z.active
    <2> DEFINE y == SetTargetAlways(z, t)
    <2>1. SetTarget(z, t) = y
      BY <1>1 DEF SetTarget, SetTargetAlways
    <2>2. y \in Zone /\ LocksOK(y)
      BY SetTargetAlwaysKeeps DEF ZoneOK
    <2>3. HoldsOK(y) /\ IncOK(y)
      BY <1>1 DEF SetTargetAlways, ZoneOK, HoldsOK, IncOK, Zone
    <2> QED
      BY <2>1, <2>2, <2>3 DEF ZoneOK
  <1>2. CASE ~z.active
    BY <1>2 DEF SetTarget
  <1> QED
    BY <1>1, <1>2

LEMMA IncreaseKeeps ==
    ASSUME NEW z, ZoneOK(z), NEW d \in Nat
    PROVE  ZoneOK(Increase(z, d))
  <1>1. CASE d > z.incDelta /\ z.target < Ceiling
    <2> DEFINE y == [z EXCEPT !.incDelta = d, !.incTimer = TRUE]
               t == Least((d - z.incDelta) + RequestTargetBase(z), Ceiling)
    <2>1. y \in Zone
      BY DEF ZoneOK, Zone
    <2>2. HoldsOK(y)
      BY DEF ZoneOK, Zone, HoldsOK
    <2>3. LocksOK(y)
      BY DEF ZoneOK, Zone, LocksOK
    <2>4. IncOK(y)
      BY <1>1 DEF ZoneOK, Zone, IncOK
    <2>5. ZoneOK(y)
      BY <2>1, <2>2, <2>3, <2>4 DEF ZoneOK
    <2>6. t \in Nat
      BY <1>1 DEF ZoneOK, Zone, RequestTargetBase, Least
    <2>7. Increase(z, d) = SetTarget(y, t)
      BY <1>1 DEF Increase
    <2> HIDE DEF y, t
    <2> QED
      BY <2>5, <2>6, <2>7, SetTargetKeeps
  <1>2. CASE ~(d > z.incDelta /\ z.target < Ceiling)
    BY <1>2 DEF Increase
  <1> QED
    BY <1>1, <1>2

LEMMA ToFloorKeeps ==
    ASSUME NEW z, ZoneOK(z), NEW t \in 0..Ceiling
    PROVE  ZoneOK(ToFloor(z, t))
  <1> DEFINE y == [z EXCEPT !.floor = t]
  <1>1. ZoneOK(y)
    BY DEF ZoneOK, Zone, HoldsOK, LocksOK, IncOK
  <1>2. y.target \in Nat
    BY DEF ZoneOK, Zone
  <1>3. ToFloor(z, t) = IF y.target < t THEN Increase(y, t - y.target) ELSE y
    BY DEF ToFloor
  <1> HIDE DEF y
  <1>4. CASE y.target < t
    <2>1. t - y.target \in Nat
      BY <1>2, <1>4
    <2> QED
      BY <1>1, <1>3, <1>4, <2>1, IncreaseKeeps
  <1> QED
    BY <1>1, <1>3, <1>4

LEMMA SetFloorKeeps ==
    ASSUME NEW z, ZoneOK(z), NEW t \in Nat
    PROVE  ZoneOK(SetFloor(z, t))
  <1>1. Least(t, Ceiling) \in 0..Ceiling
    BY DEF Least
  <1> QED
    BY <1>1, ToFloorKeeps DEF SetFloor

\* The held floor is one of the holds or the default, so within the ceiling.
LEMMA HeldFloorType ==
    ASSUME NEW D, NEW holds \in [D -> 0..Ceiling]
    PROVE  HeldFloor(holds) \in 0..Ceiling
  <1>1. CASE D = {}
    BY <1>1 DEF HeldFloor
  <1>2. CASE D # {}
    <2> DEFINE S == {holds[h] : h \in D}
    <2>1. S \in SUBSET (0..Ceiling) /\ S # {}
      BY <1>2
    <2>2. Highest(S) \in S
      BY <2>1, HighestExists
    <2> QED
      BY <1>2, <2>1, <2>2 DEF HeldFloor
  <1> QED
    BY <1>1, <1>2

LEMMA SetFloorHoldKeeps ==
    ASSUME NEW z, ZoneOK(z), NEW h \in FloorHolder, NEW t \in Nat,
           NEW hold \in BOOLEAN
    PROVE  ZoneOK(SetFloorHold(z, h, t, hold))
  <1> DEFINE holds == IF hold THEN WithHold(z.floorHolds, h, Least(t, Ceiling))
                              ELSE WithoutHold(z.floorHolds, h)
             y     == [z EXCEPT !.floorHolds = holds]
  <1>1. Least(t, Ceiling) \in 0..Ceiling
    BY DEF Least
  <1>2. PICK D \in SUBSET FloorHolder : z.floorHolds \in [D -> 0..Ceiling]
    BY DEF ZoneOK, Zone
  <1>3. PICK E \in SUBSET FloorHolder : holds \in [E -> 0..Ceiling]
    <2>1. CASE hold
      <3>1. holds \in [D \cup {h} -> 0..Ceiling]
        BY <1>1, <1>2, <2>1 DEF WithHold
      <3> QED
        BY <3>1
    <2>2. CASE ~hold
      <3>1. holds \in [D \ {h} -> 0..Ceiling]
        BY <1>2, <2>2 DEF WithoutHold
      <3> QED
        BY <3>1
    <2> QED
      BY <2>1, <2>2
  <1>4. HeldFloor(holds) \in 0..Ceiling
    BY <1>3, HeldFloorType
  <1> HIDE DEF holds
  <1>5. ZoneOK(y)
    <2>1. holds \in UNION {[C -> 0..Ceiling] : C \in SUBSET FloorHolder}
      BY <1>3
    <2>2. y \in Zone
      BY <2>1 DEF ZoneOK, Zone
    <2> QED
      BY <2>2 DEF ZoneOK, Zone, HoldsOK, LocksOK, IncOK
  <1>6. SetFloorHold(z, h, t, hold) =
          IF z.floorBlocked = {} THEN ToFloor(y, HeldFloor(holds)) ELSE y
    BY DEF SetFloorHold, holds
  <1> HIDE DEF y
  <1> QED
    BY <1>4, <1>5, <1>6, ToFloorKeeps

LEMMA SetTargetHoldKeeps ==
    ASSUME NEW z, ZoneOK(z), NEW h \in Hold, NEW hold \in BOOLEAN
    PROVE  ZoneOK(SetTargetHold(z, h, hold))
  <1> DEFINE holds == IF hold THEN z.targetHolds \cup {h}
                              ELSE z.targetHolds \ {h}
             y     == [z EXCEPT !.targetHolds = holds, !.active = (holds = {})]
             t     == Highest({HoldTarget[k] : k \in holds})
  <1>1. holds \in SUBSET Hold
    BY DEF ZoneOK, Zone
  <1>2. SetTargetHold(z, h, hold) =
          IF holds = {} THEN y ELSE SetTargetAlways(y, t)
    BY DEF SetTargetHold
  <1> HIDE DEF holds
  <1>3. y \in Zone /\ LocksOK(y) /\ IncOK(y)
    <2>1. y \in Zone
      BY <1>1 DEF ZoneOK, Zone
    <2> QED
      BY <2>1 DEF ZoneOK, Zone, LocksOK, IncOK
  <1>4. y.targetHolds = holds /\ y.active = (holds = {})
    BY DEF ZoneOK, Zone
  <1> HIDE DEF y
  <1>5. CASE holds = {}
    BY <1>2, <1>3, <1>4, <1>5 DEF ZoneOK, HoldsOK
  <1>6. CASE holds # {}
    <2>1. t \in Nat
      <3> PICK k \in holds : TRUE
        BY <1>6
      <3>1. /\ {HoldTarget[j] : j \in holds} \in SUBSET (0..MaxTarget)
            /\ HoldTarget[k] \in {HoldTarget[j] : j \in holds}
        BY <1>1
      <3> DEFINE T == {HoldTarget[j] : j \in holds}
      <3>2. T \in SUBSET (0..MaxTarget) /\ T # {} /\ t = Highest(T)
        BY <3>1
      <3> HIDE DEF T, t
      <3>3. t \in T
        BY <3>2, HighestExists
      <3> QED
        BY <3>2, <3>3
    <2> HIDE DEF t
    <2> DEFINE x == SetTargetAlways(y, t)
    <2>2. x \in Zone /\ LocksOK(x)
      BY <1>3, <2>1, SetTargetAlwaysKeeps
    <2>3. /\ x.target = t /\ x.targetHolds = holds /\ x.active = (holds = {})
          /\ IncOK(x)
      BY <1>3, <1>4 DEF SetTargetAlways, Zone, IncOK
    <2>4. HoldsOK(x)
      BY <1>6, <2>3 DEF HoldsOK, t
    <2> QED
      BY <1>2, <1>6, <2>2, <2>3, <2>4 DEF ZoneOK
  <1> QED
    BY <1>5, <1>6

LEMMA DecreaseKeeps ==
    ASSUME NEW z, ZoneOK(z)
    PROVE  ZoneOK(Decrease(z))
  <1> DEFINE t == Least(RequestTargetBase(z), Ceiling)
             y == [z EXCEPT !.decDelta = 0]
             u == IF t < z.decDelta \/ t - z.decDelta < z.floor
                  THEN z.floor ELSE t - z.decDelta
  <1>1. ZoneOK(y)
    BY DEF ZoneOK, Zone, HoldsOK, LocksOK, IncOK
  <1>2. t \in Nat
    BY DEF ZoneOK, Zone, RequestTargetBase, Least
  <1>3. z.decDelta \in Nat /\ z.floor \in Nat
    BY DEF ZoneOK, Zone
  <1>4. u \in Nat
    <2> HIDE DEF t
    <2> QED
      BY <1>2, <1>3
  <1>5. Decrease(z) \in {SetTarget(y, u), y}
    BY DEF Decrease
  <1> HIDE DEF t, u, y
  <1> QED
    BY <1>1, <1>4, <1>5, SetTargetKeeps

\* The object the constructor makes.
LEMMA NewZoneOK ==
    ASSUME NEW fan \in [Fan -> Nat], NEW t \in Nat
    PROVE  ZoneOK([NewZone(fan) EXCEPT !.target = t]) /\ ZoneOK(NewZone(fan))
  <1>1. [h \in {} |-> 0] \in
          UNION {[D -> 0..Ceiling] : D \in SUBSET FloorHolder}
    <2>1. [h \in {} |-> 0] \in [{} -> 0..Ceiling]
      OBVIOUS
    <2> QED
      BY <2>1
  <1>2. NewZone(fan) \in Zone
    BY <1>1 DEF NewZone, Zone
  <1>3. [NewZone(fan) EXCEPT !.target = t] \in Zone
    BY <1>2 DEF Zone
  <1> QED
    BY <1>2, <1>3 DEF ZoneOK, NewZone, HoldsOK, LocksOK, IncOK

\* A lock that is added: the fan is at the higher of it and the locks it had.
LEMMA LockKeeps ==
    ASSUME NEW z, ZoneOK(z), NEW l \in Lock
    PROVE  ZoneOK([z EXCEPT
             !.fan   = LockedFans(@, z.locks, l),
             !.locks = [f \in Fan |-> IF f \in LockFans[l] THEN @[f] \cup {l}
                                                           ELSE @[f]]])
  <1> DEFINE fan   == LockedFans(z.fan, z.locks, l)
             locks == [f \in Fan |-> IF f \in LockFans[l]
                                     THEN z.locks[f] \cup {l} ELSE z.locks[f]]
             y     == [z EXCEPT !.fan = fan, !.locks = locks]
  <1>1. /\ z \in Zone
        /\ z.fan \in [Fan -> Nat]
        /\ z.locks \in [Fan -> SUBSET Lock]
    BY DEF ZoneOK, Zone
  <1>2. fan \in [Fan -> Nat] /\ locks \in [Fan -> SUBSET Lock]
    <2>1. LockTarget[l] \in Nat
      OBVIOUS
    <2>2. fan \in [Fan -> Nat]
      BY <1>1, <2>1 DEF LockedFans
    <2>3. locks \in [Fan -> SUBSET Lock]
      BY <1>1
    <2> QED
      BY <2>2, <2>3
  <1>3. ASSUME NEW f \in Fan, locks[f] # {}
        PROVE  fan[f] = HighestLock(locks[f])
    <2> DEFINE old == z.locks[f]
    <2>1. old \in SUBSET Lock /\ (old # {} => z.fan[f] = HighestLock(old))
      BY <1>1 DEF ZoneOK, LocksOK
    <2>2. CASE f \notin LockFans[l]
      BY <1>1, <1>3, <2>1, <2>2 DEF LockedFans
    <2>3. CASE f \in LockFans[l] /\ old = {}
      <3>1. fan[f] = LockTarget[l] /\ locks[f] = {l}
        BY <2>3 DEF LockedFans
      <3>2. HighestLock({l}) = LockTarget[l]
        <4>1. /\ {l} \in SUBSET Lock /\ l \in {l}
              /\ \A k \in {l} : LockTarget[k] <= LockTarget[l]
          OBVIOUS
        <4> QED
          BY <4>1, HighestLockIs
      <3> QED
        BY <3>1, <3>2
    <2>4. CASE f \in LockFans[l] /\ old # {}
      <3>1. /\ locks[f] = old \cup {l}
            /\ HighestLock(old) \in {LockTarget[k] : k \in old}
            /\ \A k \in old : LockTarget[k] <= HighestLock(old)
            /\ z.fan[f] = HighestLock(old)
        BY <2>1, <2>4, HighestLockExists
      <3>2. PICK m \in old : HighestLock(old) = LockTarget[m]
        BY <3>1
      <3>3. CASE LockTarget[l] >= z.fan[f]
        <4>1. \A k \in old \cup {l} : LockTarget[k] <= LockTarget[l]
          <5> TAKE k \in old \cup {l}
          <5>1. /\ LockTarget[k] \in Nat /\ LockTarget[l] \in Nat
                /\ LockTarget[m] \in Nat
            BY <2>1
          <5>2. CASE k = l
            BY <5>1, <5>2
          <5>3. CASE k \in old
            <6>1. LockTarget[k] <= LockTarget[m]
              BY <3>1, <3>2, <5>3
            <6>2. LockTarget[m] <= LockTarget[l]
              BY <3>1, <3>2, <3>3
            <6> QED
              BY <5>1, <6>1, <6>2
          <5> QED
            BY <5>2, <5>3
        <4>2. HighestLock(old \cup {l}) = LockTarget[l]
          BY <2>1, <4>1, HighestLockIs
        <4> QED
          BY <2>4, <3>1, <3>3, <4>2 DEF LockedFans
      <3>4. CASE ~(LockTarget[l] >= z.fan[f])
        <4>1. \A k \in old \cup {l} : LockTarget[k] <= LockTarget[m]
          BY <2>1, <3>1, <3>2, <3>4
        <4>2. HighestLock(old \cup {l}) = LockTarget[m]
          BY <2>1, <4>1, HighestLockIs
        <4> QED
          BY <2>4, <3>1, <3>2, <3>4, <4>2 DEF LockedFans
      <3> QED
        BY <3>3, <3>4
    <2> QED
      BY <2>2, <2>3, <2>4
  <1> HIDE DEF fan, locks
  <1>4. y \in Zone /\ y.fan = fan /\ y.locks = locks
    BY <1>1, <1>2 DEF Zone
  <1>5. HoldsOK(y) /\ IncOK(y) /\ LocksOK(y)
    BY <1>1, <1>3, <1>4 DEF ZoneOK, HoldsOK, IncOK, LocksOK, Zone
  <1>6. y = [z EXCEPT
             !.fan   = LockedFans(@, z.locks, l),
             !.locks = [f \in Fan |-> IF f \in LockFans[l] THEN @[f] \cup {l}
                                                           ELSE @[f]]]
    BY DEF fan, locks
  <1> QED
    BY <1>4, <1>5, <1>6 DEF ZoneOK

\* A lock that is removed: the fan is at the highest lock left, or unlocked.
LEMMA UnlockKeeps ==
    ASSUME NEW z, ZoneOK(z), NEW l \in Lock
    PROVE  ZoneOK([z EXCEPT
             !.fan   = UnlockedFans(@, z.locks, l, z.target),
             !.locks = [f \in Fan |-> IF f \in LockFans[l] THEN @[f] \ {l}
                                                           ELSE @[f]]])
  <1> DEFINE fan   == UnlockedFans(z.fan, z.locks, l, z.target)
             locks == [f \in Fan |-> IF f \in LockFans[l]
                                     THEN z.locks[f] \ {l} ELSE z.locks[f]]
             y     == [z EXCEPT !.fan = fan, !.locks = locks]
  <1>1. /\ z \in Zone
        /\ z.fan \in [Fan -> Nat]
        /\ z.target \in Nat
        /\ z.locks \in [Fan -> SUBSET Lock]
    BY DEF ZoneOK, Zone
  <1>2. fan \in [Fan -> Nat] /\ locks \in [Fan -> SUBSET Lock]
    <2>1. \A f \in Fan : z.locks[f] \ {l} # {} =>
            HighestLock(z.locks[f] \ {l}) \in Nat
      <3> TAKE f \in Fan
      <3>1. z.locks[f] \ {l} \in SUBSET Lock
        BY <1>1
      <3> QED
        BY <3>1, HighestLockExists
    <2> QED
      BY <1>1, <2>1 DEF UnlockedFans
  <1>3. \A f \in Fan : locks[f] # {} => fan[f] = HighestLock(locks[f])
    BY <1>1 DEF UnlockedFans, ZoneOK, LocksOK
  <1> HIDE DEF fan, locks
  <1>4. y \in Zone /\ y.fan = fan /\ y.locks = locks
    BY <1>1, <1>2 DEF Zone
  <1>5. HoldsOK(y) /\ IncOK(y) /\ LocksOK(y)
    BY <1>1, <1>3, <1>4 DEF ZoneOK, HoldsOK, IncOK, LocksOK, Zone
  <1>6. y = [z EXCEPT
             !.fan   = UnlockedFans(@, z.locks, l, z.target),
             !.locks = [f \in Fan |-> IF f \in LockFans[l] THEN @[f] \ {l}
                                                           ELSE @[f]]]
    BY DEF fan, locks
  <1> QED
    BY <1>4, <1>5, <1>6 DEF ZoneOK

-----------------------------------------------------------------------------
(* Loading, and the writes on D-Bus                                        *)

LEMMA JoinedTargetType ==
    ASSUME written \in [Sensor -> Nat], NEW i \in 0..Len(FanSeq)
    PROVE  JoinedTarget(i) \in Nat
  <1> DEFINE moving == {j \in 1..i : ReadTarget(written, FanSeq[j]) # 0}
  <1>1. CASE moving = {}
    BY <1>1 DEF JoinedTarget
  <1>2. CASE moving # {}
    <2>1. Len(FanSeq) \in Nat /\ moving \in SUBSET (0..Len(FanSeq))
      <3>1. Len(FanSeq) \in Nat
        OBVIOUS
      <3>2. 1..i \in SUBSET (0..Len(FanSeq))
        BY <3>1
      <3>3. moving \in SUBSET (1..i)
        OBVIOUS
      <3> QED
        BY <3>1, <3>2, <3>3
    <2>2. moving # {}
      BY <1>2
    <2> HIDE DEF moving
    <2>3. Highest(moving) \in moving
      BY <2>1, <2>2, HighestExists
    <2> USE DEF moving
    <2>4. FanSeq[Highest(moving)] \in Fan
      BY <2>3
    <2>5. ReadTarget(written, FanSeq[Highest(moving)]) \in Nat
      BY <2>4 DEF ReadTarget
    <2> QED
      BY <1>2, <2>5 DEF JoinedTarget
  <1> QED
    BY <1>1, <1>2

LEMMA LoadedType ==
    ASSUME written \in [Sensor -> Nat], NEW i \in 0..Len(FanSeq)
    PROVE  /\ Loaded(i).target \in Nat
           /\ Loaded(i).fan \in [Fan -> Nat]
           /\ Loaded(i).written \in [Sensor -> Nat]
  BY JoinedTargetType DEF Loaded, ReadTarget

LEMMA WritesType ==
    ASSUME NEW w \in [Sensor -> Nat],
           NEW from \in [Fan -> Nat], NEW to \in [Fan -> Nat]
    PROVE  /\ AfterWrites(w, from, to) \in [Sensor -> Nat]
           /\ FailedWrites(w, from, to) \subseteq [Sensor -> Nat]
  <1>1. AfterWrites(w, from, to) \in [Sensor -> Nat]
    BY DEF AfterWrites
  <1>2. FailedWrites(w, from, to) \subseteq [Sensor -> Nat]
    BY <1>1 DEF FailedWrites
  <1> QED
    BY <1>1, <1>2

-----------------------------------------------------------------------------
(* The inductive invariant                                                 *)

ZoneInv ==
    /\ running \in BOOLEAN /\ reloadFailed \in BOOLEAN
    /\ written \in [Sensor -> Nat]
    /\ ZoneOK(zone)

\* A callback that ends with a good zone keeps the invariant, whether its
\* writes succeed or not.
LEMMA ReturnsKeeps ==
    ASSUME ZoneInv, NEW z, ZoneOK(z), Returns(z)
    PROVE  ZoneInv'
  <1>1. zone.fan \in [Fan -> Nat] /\ z.fan \in [Fan -> Nat]
    BY DEF ZoneInv, ZoneOK, Zone
  <1>2. /\ AfterWrites(written, zone.fan, z.fan) \in [Sensor -> Nat]
        /\ FailedWrites(written, zone.fan, z.fan) \subseteq [Sensor -> Nat]
    BY <1>1, WritesType DEF ZoneInv
  <1>3. written' \in [Sensor -> Nat]
    BY <1>2 DEF Returns
  <1>4. ZoneOK(NewZone([f \in Fan |-> 0]))
    BY NewZoneOK
  <1> QED
    BY <1>3, <1>4 DEF Returns, Exit, ZoneInv

LEMMA LoadKeeps ==
    ASSUME ZoneInv, Load \/ LoadFails
    PROVE  ZoneInv'
  <1>1. CASE Load
    <2>1. Len(FanSeq) \in 0..Len(FanSeq)
      OBVIOUS
    <2>2. /\ AllLoaded.target \in Nat
          /\ AllLoaded.fan \in [Fan -> Nat]
          /\ AllLoaded.written \in [Sensor -> Nat]
      BY <2>1, LoadedType DEF AllLoaded, ZoneInv
    <2> QED
      BY <1>1, <2>2, NewZoneOK DEF Load, ZoneInv
  <1>2. CASE LoadFails
    <2>1. PICK i \in 1..Len(FanSeq) :
            written' \in FailedWrites(Loaded(i - 1).written,
                                      Loaded(i - 1).fan, Loaded(i).fan)
      BY <1>2 DEF LoadFails
    <2>2. i - 1 \in 0..Len(FanSeq) /\ i \in 0..Len(FanSeq)
      OBVIOUS
    <2>3. /\ Loaded(i - 1).written \in [Sensor -> Nat]
          /\ Loaded(i - 1).fan \in [Fan -> Nat]
          /\ Loaded(i).fan \in [Fan -> Nat]
      BY <2>2, LoadedType DEF ZoneInv
    <2>4. written' \in [Sensor -> Nat]
      BY <2>1, <2>3, WritesType
    <2> QED
      BY <1>2, <2>4 DEF LoadFails, ZoneInv
  <1> QED
    BY <1>1, <1>2

\* The callbacks of the automatic control.
LEMMA AutoStepKeeps ==
    ASSUME ZoneInv, AutoStep
    PROVE  ZoneInv'
  <1> ZoneOK(zone) /\ zone \in Zone
    BY DEF ZoneInv, ZoneOK
  <1>1. CASE PowerOn
    BY <1>1, SetTargetKeeps, ReturnsKeeps DEF PowerOn
  <1>2. ASSUME NEW t \in AutoTargets, TargetFromGroupMax(t)
        PROVE  ZoneInv'
    <2>1. t \in Nat
      OBVIOUS
    <2> QED
      BY <1>2, <2>1, SetTargetKeeps, ReturnsKeeps DEF TargetFromGroupMax
  <1>3. ASSUME NEW d \in IncDeltas, NetTargetIncrease(d)
        PROVE  ZoneInv'
    <2>1. d \in Nat
      OBVIOUS
    <2> QED
      BY <1>3, <2>1, IncreaseKeeps, ReturnsKeeps DEF NetTargetIncrease
  <1>4. CASE IncTimerExpired
    <2> DEFINE z == [zone EXCEPT !.incDelta = 0, !.incTimer = FALSE]
    <2>1. z \in Zone
      BY DEF Zone
    <2>2. ZoneOK(z)
      BY <2>1 DEF ZoneOK, Zone, HoldsOK, LocksOK, IncOK
    <2> QED
      BY <1>4, <2>2, ReturnsKeeps DEF IncTimerExpired
  <1>5. ASSUME NEW g \in Group, NEW d \in DecDeltas, NetTargetDecrease(g, d)
        PROVE  ZoneInv'
    <2>1. PICK net \in NetDecreases(d) :
            Returns([zone EXCEPT
              !.decBlocked = IF net = 0 THEN @ \cup {g} ELSE @ \ {g},
              !.decDelta   = IF @ = 0 THEN net ELSE Least(@, net)])
      BY <1>5 DEF NetTargetDecrease
    <2> DEFINE z == [zone EXCEPT
              !.decBlocked = IF net = 0 THEN @ \cup {g} ELSE @ \ {g},
              !.decDelta   = IF @ = 0 THEN net ELSE Least(@, net)]
    <2>2. net \in Nat
      <3>1. d \in Nat /\ zone.decDelta \in Nat
        BY DEF Zone
      <3> QED
        BY <3>1 DEF NetDecreases, Least
    <2>3. z \in Zone
      BY <2>2 DEF Zone, Least
    <2>4. ZoneOK(z)
      BY <2>3 DEF ZoneOK, Zone, HoldsOK, LocksOK, IncOK
    <2> QED
      BY <2>1, <2>4, ReturnsKeeps
  <1>6. CASE DecTimerExpired
    BY <1>6, DecreaseKeeps, ReturnsKeeps DEF DecTimerExpired
  <1>7. ASSUME NEW b \in Bases, SetRequestTargetBase(b)
        PROVE  ZoneInv'
    <2> DEFINE z == [zone EXCEPT !.base = b]
    <2>1. z \in Zone
      BY DEF Zone
    <2>2. ZoneOK(z)
      BY <2>1 DEF ZoneOK, Zone, HoldsOK, LocksOK, IncOK
    <2> QED
      BY <1>7, <2>2, ReturnsKeeps DEF SetRequestTargetBase
  <1> QED
    BY <1>1, <1>2, <1>3, <1>4, <1>5, <1>6, <1>7 DEF AutoStep

\* The callbacks that hold targets and floors, and lock fans.
LEMMA HoldStepKeeps ==
    ASSUME ZoneInv, HoldStep
    PROVE  ZoneInv'
  <1> ZoneOK(zone) /\ zone \in Zone
    BY DEF ZoneInv, ZoneOK
  <1>1. ASSUME NEW g \in Group, OwnerMissing(g)
        PROVE  ZoneInv'
    <2> DEFINE y == SetFloor(zone, DefaultFloor)
               z == [y EXCEPT !.floorBlocked = @ \cup {g}]
    <2>1. ZoneOK(y)
      BY SetFloorKeeps
    <2>2. Returns(z)
      BY <1>1 DEF OwnerMissing
    <2> HIDE DEF y
    <2>3. z \in Zone
      BY <2>1 DEF ZoneOK, Zone
    <2>4. ZoneOK(z)
      BY <2>1, <2>3 DEF ZoneOK, Zone, HoldsOK, LocksOK, IncOK
    <2> QED
      BY <2>2, <2>4, ReturnsKeeps
  <1>2. ASSUME NEW g \in Group, OwnerPresent(g)
        PROVE  ZoneInv'
    <2> DEFINE z == [zone EXCEPT !.floorBlocked = @ \ {g}]
    <2>1. z \in Zone
      BY DEF Zone
    <2>2. ZoneOK(z)
      BY <2>1 DEF ZoneOK, Zone, HoldsOK, LocksOK, IncOK
    <2> QED
      BY <1>2, <2>2, ReturnsKeeps DEF OwnerPresent
  <1>3. ASSUME NEW h \in FloorHolder, NEW t \in FloorTargets, FloorHold(h, t)
        PROVE  ZoneInv'
    <2>1. t \in Nat
      OBVIOUS
    <2>2. ZoneOK(SetFloorHold(zone, h, t, TRUE))
      BY <2>1, SetFloorHoldKeeps
    <2> QED
      BY <1>3, <2>2, ReturnsKeeps DEF FloorHold
  <1>4. ASSUME NEW h \in FloorHolder, FloorHoldRemoved(h)
        PROVE  ZoneInv'
    <2>1. ZoneOK(SetFloorHold(zone, h, 0, FALSE))
      BY SetFloorHoldKeeps
    <2> QED
      BY <1>4, <2>1, ReturnsKeeps DEF FloorHoldRemoved
  <1>5. ASSUME NEW h \in Hold, TargetHold(h) \/ TargetHoldRemoved(h)
        PROVE  ZoneInv'
    <2>1. /\ ZoneOK(SetTargetHold(zone, h, TRUE))
          /\ ZoneOK(SetTargetHold(zone, h, FALSE))
      BY SetTargetHoldKeeps
    <2> QED
      BY <1>5, <2>1, ReturnsKeeps DEF TargetHold, TargetHoldRemoved
  <1>6. ASSUME NEW l \in Lock, LockFanTargets(l)
        PROVE  ZoneInv'
    BY <1>6, LockKeeps, ReturnsKeeps DEF LockFanTargets
  <1>7. ASSUME NEW l \in Lock, UnlockFanTargets(l)
        PROVE  ZoneInv'
    BY <1>7, UnlockKeeps, ReturnsKeeps DEF UnlockFanTargets
  <1> QED
    BY <1>1, <1>2, <1>3, <1>4, <1>5, <1>6, <1>7 DEF HoldStep

\* The invariant holds in every state.
LEMMA ZoneInvariant == ZoneSpec => []ZoneInv
  <1>1. Init => ZoneInv
    BY NewZoneOK DEF Init, ZoneInv
  <1>2. ZoneInv /\ [Next]_vars => ZoneInv'
    <2> SUFFICES ASSUME ZoneInv, [Next]_vars
                 PROVE  ZoneInv'
      OBVIOUS
    <2>1. CASE UNCHANGED vars
      BY <2>1 DEF vars, ZoneInv
    <2> QED
      BY <2>1, AutoStepKeeps, HoldStepKeeps, LoadKeeps DEF Next
  <1> QED
    BY <1>1, <1>2, PTL DEF ZoneSpec

-----------------------------------------------------------------------------
(* The theorems                                                            *)

\* Every callback keeps the types, and the floor is never above the ceiling.
THEOREM ZoneTypeCorrect == ZoneSpec => []ZoneTypeOK
  <1>1. ZoneInv => ZoneTypeOK
    BY DEF ZoneInv, ZoneOK, ZoneTypeOK
  <1> QED
    BY <1>1, ZoneInvariant, PTL

\* Target holds win over the automatic control, through power changes,
\* failing writes, restarts and reloads.
THEOREM HoldsAreKept == ZoneSpec => []HoldsWin
  <1>1. ZoneInv => HoldsWin
    BY DEF ZoneInv, ZoneOK, HoldsOK, HoldsWin
  <1> QED
    BY <1>1, ZoneInvariant, PTL

\* A locked fan is at the highest of its locks, whatever the order in which
\* they were set and withdrawn, and whatever the zone was set to meanwhile.
THEOREM LocksAreKept == ZoneSpec => []LockedAtHighest
  <1>1. ZoneInv => LockedAtHighest
    BY DEF ZoneInv, ZoneOK, LocksOK, LockedAtHighest
  <1> QED
    BY <1>1, ZoneInvariant, PTL

\* An increase is pending exactly while its timer runs.
THEOREM IncreasesSettle == ZoneSpec => []IncreaseSettles
  <1>1. ZoneInv => IncreaseSettles
    BY DEF ZoneInv, ZoneOK, IncOK, IncreaseSettles
  <1> QED
    BY <1>1, ZoneInvariant, PTL

-----------------------------------------------------------------------------
(* The bounds of the automatic control                                     *)

\* A callback after which the daemon still runs has done all its writes.
LEMMA ReturnedZone ==
    ASSUME NEW z, Returns(z), running'
    PROVE  zone' = z
  BY DEF Returns, Exit

\* An increase leaves the target or sets one that is not above the ceiling.
LEMMA IncreaseBound ==
    ASSUME NEW z \in Zone, NEW d \in Nat, Increase(z, d).target # z.target
    PROVE  Increase(z, d).target <= Ceiling
  <1> DEFINE t == Least((d - z.incDelta) + RequestTargetBase(z), Ceiling)
             y == [z EXCEPT !.incDelta = d, !.incTimer = TRUE]
  <1>1. d > z.incDelta /\ z.target < Ceiling
    BY DEF Increase
  <1>2. Increase(z, d) = SetTarget(y, t)
    BY <1>1 DEF Increase
  <1>3. t <= Ceiling
    BY <1>1 DEF Least, RequestTargetBase, Zone
  <1> HIDE DEF t
  <1>4. SetTarget(y, t).target \in {z.target, t}
    BY DEF SetTarget, Zone
  <1> QED
    BY <1>2, <1>3, <1>4

\* A decrease leaves the target or sets one between the floor and the ceiling.
LEMMA DecreaseBound ==
    ASSUME NEW z \in Zone, Decrease(z).target # z.target
    PROVE  Decrease(z).target \in z.floor..Ceiling
  <1> DEFINE t == Least(RequestTargetBase(z), Ceiling)
             y == [z EXCEPT !.decDelta = 0]
             u == IF t < z.decDelta \/ t - z.decDelta < z.floor
                  THEN z.floor ELSE t - z.decDelta
  <1>1. t \in 0..Ceiling /\ z.decDelta \in Nat /\ z.floor \in 0..Ceiling
    BY DEF Least, RequestTargetBase, Zone
  <1>2. u \in z.floor..Ceiling
    <2> HIDE DEF t
    <2> QED
      BY <1>1
  <1>3. Decrease(z) \in {SetTarget(y, u), y}
    BY DEF Decrease
  <1> HIDE DEF t, u
  <1>4. SetTarget(y, u).target \in {z.target, u} /\ y.target = z.target
    BY DEF SetTarget, Zone
  <1> QED
    BY <1>2, <1>3, <1>4

\* The automatic control stays within the floor and the ceiling.
THEOREM AutoIsBounded == ZoneSpec => AutoWithinBounds
  <1>1. ZoneInv /\ [Next]_vars =>
          [zone'.target # zone.target =>
             /\ (\E d \in IncDeltas : NetTargetIncrease(d)) /\ running'
                  => zone'.target <= Ceiling
             /\ DecTimerExpired /\ running'
                  => zone'.target \in zone.floor..Ceiling]_vars
    <2> SUFFICES ASSUME ZoneInv, zone'.target # zone.target
                 PROVE  /\ (\E d \in IncDeltas : NetTargetIncrease(d)) /\ running'
                             => zone'.target <= Ceiling
                        /\ DecTimerExpired /\ running'
                             => zone'.target \in zone.floor..Ceiling
      OBVIOUS
    <2>1. zone \in Zone
      BY DEF ZoneInv, ZoneOK
    <2>2. ASSUME NEW d \in IncDeltas, NetTargetIncrease(d), running'
          PROVE  zone'.target <= Ceiling
      <3>1. d \in Nat /\ zone' = Increase(zone, d)
        BY <2>2, ReturnedZone DEF NetTargetIncrease
      <3> QED
        BY <2>1, <3>1, IncreaseBound
    <2>3. ASSUME DecTimerExpired, running'
          PROVE  zone'.target \in zone.floor..Ceiling
      <3>1. zone' = Decrease(zone)
        BY <2>3, ReturnedZone DEF DecTimerExpired
      <3> QED
        BY <2>1, <3>1, DecreaseBound
    <2> QED
      BY <2>2, <2>3
  <1> QED
    BY <1>1, ZoneInvariant, PTL DEF ZoneSpec, AutoWithinBounds

-----------------------------------------------------------------------------
(* The fans follow the zone                                                *)

PositiveTargets ==
    /\ PoweronTarget > 0
    /\ Ceiling > 0
    /\ DefaultFloor > 0
    /\ 0 \notin AutoTargets \cup FloorTargets \cup FirstTargets
    /\ \A h \in Hold : HoldTarget[h] > 0
    /\ \A l \in Lock : LockTarget[l] > 0

Positive(z) ==
    /\ z.target > 0
    /\ z.floor > 0
    /\ \A h \in DOMAIN z.floorHolds : z.floorHolds[h] > 0
    /\ \A f \in Fan : z.fan[f] > 0

Follows(z) == \A f \in Fan : z.locks[f] = {} => z.fan[f] = z.target

GoodZone(z) == ZoneOK(z) /\ Positive(z) /\ Follows(z)

-----------------------------------------------------------------------------
(* The operations of the zone                                              *)

LEMMA SetTargetAlwaysFollows ==
    ASSUME NEW z \in Zone, Positive(z), NEW t \in Nat \ {0}
    PROVE  /\ Positive(SetTargetAlways(z, t))
           /\ Follows(SetTargetAlways(z, t))
  <1> DEFINE y == SetTargetAlways(z, t)
  <1>1. /\ y.target = t /\ y.floor = z.floor /\ y.floorHolds = z.floorHolds
        /\ y.locks = z.locks
        /\ \A f \in Fan : y.fan[f] = IF z.locks[f] = {} THEN t ELSE z.fan[f]
    BY DEF SetTargetAlways, ZoneFans, Zone
  <1> HIDE DEF y
  <1>2. Positive(y)
    <2>1. \A f \in Fan : y.fan[f] \in {t, z.fan[f]} /\ z.fan[f] > 0
      BY <1>1, Zenon DEF Positive
    <2>2. t > 0
      OBVIOUS
    <2>3. /\ z.floor > 0
          /\ \A h \in DOMAIN z.floorHolds : z.floorHolds[h] > 0
      BY DEF Positive
    <2> QED
      BY <1>1, <2>1, <2>2, <2>3, Zenon DEF Positive
  <1>3. Follows(y)
    BY <1>1 DEF Follows
  <1> QED
    BY <1>2, <1>3 DEF y

LEMMA SetTargetFollows ==
    ASSUME NEW z, GoodZone(z), NEW t \in Nat \ {0}
    PROVE  GoodZone(SetTarget(z, t))
  <1>1. ZoneOK(SetTarget(z, t))
    BY SetTargetKeeps DEF GoodZone
  <1>2. SetTarget(z, t) \in {SetTargetAlways(z, t), z}
    BY DEF SetTarget, SetTargetAlways
  <1>3. z \in Zone /\ Positive(z) /\ Follows(z)
    BY DEF GoodZone, ZoneOK
  <1> QED
    BY <1>1, <1>2, <1>3, SetTargetAlwaysFollows DEF GoodZone

LEMMA IncreaseFollows ==
    ASSUME PositiveTargets, NEW z, GoodZone(z), NEW d \in Nat
    PROVE  GoodZone(Increase(z, d))
  <1>1. CASE d > z.incDelta /\ z.target < Ceiling
    <2> DEFINE y == [z EXCEPT !.incDelta = d, !.incTimer = TRUE]
               t == Least((d - z.incDelta) + RequestTargetBase(z), Ceiling)
    <2>1. z \in Zone
      BY DEF GoodZone, ZoneOK
    <2>2. y \in Zone
      BY <2>1 DEF Zone
    <2>3. ZoneOK(y)
      <3>1. HoldsOK(y)
        BY <2>1 DEF GoodZone, ZoneOK, Zone, HoldsOK
      <3>2. LocksOK(y)
        BY <2>1 DEF GoodZone, ZoneOK, Zone, LocksOK
      <3>3. IncOK(y)
        BY <1>1, <2>1 DEF Zone, IncOK
      <3> QED
        BY <2>2, <3>1, <3>2, <3>3 DEF ZoneOK
    <2>4. Positive(y) /\ Follows(y)
      BY <2>1 DEF GoodZone, Zone, Positive, Follows
    <2>5. t \in Nat \ {0}
      <3>1. RequestTargetBase(z) \in Nat
        BY <2>1 DEF Zone, RequestTargetBase
      <3>2. d - z.incDelta \in Nat \ {0}
        BY <1>1, <2>1 DEF Zone
      <3> QED
        BY <3>1, <3>2 DEF Least, PositiveTargets
    <2>6. Increase(z, d) = SetTarget(y, t)
      BY <1>1 DEF Increase
    <2> HIDE DEF y, t
    <2> QED
      BY <2>3, <2>4, <2>5, <2>6, SetTargetFollows DEF GoodZone
  <1>2. CASE ~(d > z.incDelta /\ z.target < Ceiling)
    BY <1>2 DEF Increase
  <1> QED
    BY <1>1, <1>2

LEMMA ToFloorFollows ==
    ASSUME PositiveTargets, NEW z, GoodZone(z), NEW t \in 1..Ceiling
    PROVE  GoodZone(ToFloor(z, t))
  <1> DEFINE y == [z EXCEPT !.floor = t]
  <1>1. z \in Zone
    BY DEF GoodZone, ZoneOK
  <1>2. GoodZone(y)
    <2>1. y \in Zone
      <3>1. t \in 0..Ceiling
        OBVIOUS
      <3> QED
        BY <1>1, <3>1 DEF Zone
    <2>2. HoldsOK(y) /\ LocksOK(y) /\ IncOK(y)
      BY <1>1 DEF GoodZone, ZoneOK, Zone, HoldsOK, LocksOK, IncOK
    <2>3. Positive(y) /\ Follows(y)
      BY <1>1 DEF GoodZone, Zone, Positive, Follows
    <2> QED
      BY <2>1, <2>2, <2>3 DEF GoodZone, ZoneOK
  <1>3. y.target \in Nat
    BY <1>1 DEF Zone
  <1>4. ToFloor(z, t) = IF y.target < t THEN Increase(y, t - y.target) ELSE y
    BY DEF ToFloor
  <1> HIDE DEF y
  <1>5. CASE y.target < t
    <2>1. t - y.target \in Nat
      BY <1>3, <1>5
    <2> QED
      BY <1>2, <1>4, <1>5, <2>1, IncreaseFollows
  <1> QED
    BY <1>2, <1>4, <1>5

LEMMA SetFloorFollows ==
    ASSUME PositiveTargets, NEW z, GoodZone(z), NEW t \in Nat \ {0}
    PROVE  GoodZone(SetFloor(z, t))
  <1>1. Least(t, Ceiling) \in 1..Ceiling
    BY DEF Least, PositiveTargets
  <1> QED
    BY <1>1, ToFloorFollows DEF SetFloor

LEMMA SetFloorHoldFollows ==
    ASSUME PositiveTargets, NEW z, GoodZone(z), NEW h \in FloorHolder,
           NEW t \in Nat, NEW hold \in BOOLEAN, hold => t > 0
    PROVE  GoodZone(SetFloorHold(z, h, t, hold))
  <1> DEFINE holds == IF hold THEN WithHold(z.floorHolds, h, Least(t, Ceiling))
                              ELSE WithoutHold(z.floorHolds, h)
             y     == [z EXCEPT !.floorHolds = holds]
  <1>1. z \in Zone
    BY DEF GoodZone, ZoneOK
  <1>2. PICK D \in SUBSET FloorHolder : z.floorHolds \in [D -> 0..Ceiling]
    BY <1>1 DEF Zone
  <1>3. z.floorHolds \in [D -> 1..Ceiling]
    BY <1>2 DEF GoodZone, Positive
  <1>4. PICK E \in SUBSET FloorHolder : holds \in [E -> 1..Ceiling]
    <2>1. CASE hold
      <3>1. Least(t, Ceiling) \in 1..Ceiling
        BY <2>1 DEF Least, PositiveTargets
      <3>2. holds \in [D \cup {h} -> 1..Ceiling]
        BY <1>3, <2>1, <3>1 DEF WithHold
      <3> QED
        BY <3>2
    <2>2. CASE ~hold
      <3>1. holds \in [D \ {h} -> 1..Ceiling]
        BY <1>3, <2>2 DEF WithoutHold
      <3> QED
        BY <3>1
    <2> QED
      BY <2>1, <2>2
  <1> HIDE DEF holds
  <1>5. HeldFloor(holds) \in 1..Ceiling
    <2>1. CASE E = {}
      BY <1>4, <2>1 DEF HeldFloor, PositiveTargets
    <2>2. CASE E # {}
      <3> DEFINE S == {holds[k] : k \in E}
      <3>1. S \in SUBSET (1..Ceiling) /\ S \in SUBSET (0..Ceiling) /\ S # {}
        BY <1>4, <2>2
      <3>2. HeldFloor(holds) = Highest(S)
        BY <1>4, <2>2 DEF HeldFloor
      <3> HIDE DEF S
      <3>3. Highest(S) \in S
        BY <3>1, HighestExists
      <3> QED
        BY <3>1, <3>2, <3>3
    <2> QED
      BY <2>1, <2>2
  <1>6. GoodZone(y)
    <2>1. holds \in [E -> 0..Ceiling]
      BY <1>4
    <2>2. holds \in UNION {[C -> 0..Ceiling] : C \in SUBSET FloorHolder}
      BY <2>1
    <2>3. y \in Zone
      BY <1>1, <2>2 DEF Zone
    <2>4. ZoneOK(y)
      BY <2>3 DEF GoodZone, ZoneOK, Zone, HoldsOK, LocksOK, IncOK
    <2>5. Follows(y)
      BY <1>1 DEF GoodZone, Zone, Follows
    <2>6. y.floorHolds = holds /\ y.target = z.target /\ y.floor = z.floor
          /\ y.fan = z.fan
      BY <1>1 DEF Zone
    <2>7. Positive(y)
      BY <1>4, <2>6 DEF GoodZone, Positive
    <2> QED
      BY <2>4, <2>5, <2>7 DEF GoodZone
  <1>7. SetFloorHold(z, h, t, hold) =
          IF z.floorBlocked = {} THEN ToFloor(y, HeldFloor(holds)) ELSE y
    BY DEF SetFloorHold, holds
  <1> HIDE DEF y
  <1> QED
    BY <1>5, <1>6, <1>7, ToFloorFollows

LEMMA SetTargetHoldFollows ==
    ASSUME PositiveTargets, NEW z, GoodZone(z), NEW h \in Hold,
           NEW hold \in BOOLEAN
    PROVE  GoodZone(SetTargetHold(z, h, hold))
  <1> DEFINE holds == IF hold THEN z.targetHolds \cup {h}
                              ELSE z.targetHolds \ {h}
             y     == [z EXCEPT !.targetHolds = holds, !.active = (holds = {})]
             t     == Highest({HoldTarget[k] : k \in holds})
  <1>1. z \in Zone
    BY DEF GoodZone, ZoneOK
  <1>2. holds \in SUBSET Hold
    BY <1>1 DEF Zone
  <1>3. SetTargetHold(z, h, hold) =
          IF holds = {} THEN y ELSE SetTargetAlways(y, t)
    BY DEF SetTargetHold
  <1> HIDE DEF holds
  <1>4. y \in Zone /\ Positive(y) /\ Follows(y)
    <2>1. y \in Zone
      BY <1>1, <1>2 DEF Zone
    <2> QED
      BY <1>1, <2>1 DEF GoodZone, Zone, Positive, Follows
  <1>5. holds # {} => t \in Nat \ {0}
    <2> SUFFICES ASSUME NEW k \in holds
                 PROVE  t \in Nat \ {0}
      OBVIOUS
    <2> DEFINE T == {HoldTarget[j] : j \in holds}
    <2>1. /\ T \in SUBSET (0..MaxTarget) /\ HoldTarget[k] \in T
          /\ 0 \notin T
          /\ t = Highest(T)
      BY <1>2 DEF PositiveTargets
    <2> HIDE DEF T, t
    <2>2. t \in T
      BY <2>1, HighestExists
    <2> QED
      BY <2>1, <2>2
  <1> HIDE DEF y, t
  <1>6. Positive(SetTargetHold(z, h, hold)) /\ Follows(SetTargetHold(z, h, hold))
    BY <1>3, <1>4, <1>5, SetTargetAlwaysFollows
  <1> QED
    BY <1>6, SetTargetHoldKeeps DEF GoodZone

LEMMA DecreaseFollows ==
    ASSUME NEW z, GoodZone(z)
    PROVE  GoodZone(Decrease(z))
  <1> DEFINE t == Least(RequestTargetBase(z), Ceiling)
             y == [z EXCEPT !.decDelta = 0]
             u == IF t < z.decDelta \/ t - z.decDelta < z.floor
                  THEN z.floor ELSE t - z.decDelta
  <1>1. z \in Zone /\ z.floor > 0
    BY DEF GoodZone, ZoneOK, Positive
  <1>2. GoodZone(y)
    <2>1. ZoneOK(y)
      BY DEF GoodZone, ZoneOK, Zone, HoldsOK, LocksOK, IncOK
    <2>2. Positive(y) /\ Follows(y)
      BY <1>1 DEF GoodZone, Zone, Positive, Follows
    <2> QED
      BY <2>1, <2>2 DEF GoodZone
  <1>3. t \in Nat /\ z.decDelta \in Nat /\ z.floor \in Nat
    BY <1>1 DEF Zone, RequestTargetBase, Least
  <1>4. u \in Nat \ {0}
    <2> HIDE DEF t
    <2> QED
      BY <1>1, <1>3
  <1>5. Decrease(z) \in {SetTarget(y, u), y}
    BY DEF Decrease
  <1> HIDE DEF t, u, y
  <1> QED
    BY <1>2, <1>4, <1>5, SetTargetFollows

LEMMA LockFollows ==
    ASSUME PositiveTargets, NEW z, GoodZone(z), NEW l \in Lock
    PROVE  GoodZone([z EXCEPT
             !.fan   = LockedFans(@, z.locks, l),
             !.locks = [f \in Fan |-> IF f \in LockFans[l] THEN @[f] \cup {l}
                                                           ELSE @[f]]])
  <1> DEFINE y == [z EXCEPT
             !.fan   = LockedFans(@, z.locks, l),
             !.locks = [f \in Fan |-> IF f \in LockFans[l] THEN @[f] \cup {l}
                                                           ELSE @[f]]]
  <1>1. ZoneOK(y)
    BY LockKeeps DEF GoodZone
  <1>2. z \in Zone /\ Positive(z) /\ Follows(z)
    BY DEF GoodZone, ZoneOK
  <1>3. /\ y.target = z.target /\ y.floor = z.floor
        /\ y.floorHolds = z.floorHolds
        /\ \A f \in Fan :
             /\ f \in LockFans[l] => /\ y.locks[f] # {}
                                     /\ y.fan[f] \in {LockTarget[l], z.fan[f]}
             /\ f \notin LockFans[l] => /\ y.locks[f] = z.locks[f]
                                        /\ y.fan[f] = z.fan[f]
    BY <1>2 DEF Zone, LockedFans
  <1>4. LockTarget[l] > 0
    BY DEF PositiveTargets
  <1> HIDE DEF y
  <1>5. Positive(y) /\ Follows(y)
    BY <1>2, <1>3, <1>4 DEF Positive, Follows
  <1>6. GoodZone(y)
    BY <1>1, <1>5 DEF GoodZone
  <1> QED
    BY <1>6 DEF y

LEMMA UnlockFollows ==
    ASSUME PositiveTargets, NEW z, GoodZone(z), NEW l \in Lock
    PROVE  GoodZone([z EXCEPT
             !.fan   = UnlockedFans(@, z.locks, l, z.target),
             !.locks = [f \in Fan |-> IF f \in LockFans[l] THEN @[f] \ {l}
                                                           ELSE @[f]]])
  <1> DEFINE y == [z EXCEPT
             !.fan   = UnlockedFans(@, z.locks, l, z.target),
             !.locks = [f \in Fan |-> IF f \in LockFans[l] THEN @[f] \ {l}
                                                           ELSE @[f]]]
  <1>1. ZoneOK(y)
    BY UnlockKeeps DEF GoodZone
  <1>2. z \in Zone /\ Positive(z) /\ Follows(z)
    BY DEF GoodZone, ZoneOK
  <1>3. /\ y.target = z.target /\ y.floor = z.floor
        /\ y.floorHolds = z.floorHolds
        /\ \A f \in Fan :
             /\ f \in LockFans[l] =>
                  /\ y.locks[f] = z.locks[f] \ {l}
                  /\ y.locks[f] = {} => y.fan[f] = z.target
                  /\ y.locks[f] # {} => y.fan[f] = HighestLock(y.locks[f])
             /\ f \notin LockFans[l] => /\ y.locks[f] = z.locks[f]
                                        /\ y.fan[f] = z.fan[f]
    BY <1>2 DEF Zone, UnlockedFans
  <1> HIDE DEF y
  <1>4. \A f \in Fan : y.locks[f] # {} => HighestLock(y.locks[f]) > 0
    <2> SUFFICES ASSUME NEW f \in Fan, y.locks[f] # {}
                 PROVE  HighestLock(y.locks[f]) > 0
      OBVIOUS
    <2>1. y.locks[f] \in SUBSET Lock
      BY <1>1 DEF ZoneOK, Zone
    <2>2. HighestLock(y.locks[f]) \in {LockTarget[k] : k \in y.locks[f]}
      BY <2>1, HighestLockExists
    <2> QED
      BY <2>1, <2>2 DEF PositiveTargets
  <1>5. Positive(y) /\ Follows(y)
    BY <1>2, <1>3, <1>4 DEF Positive, Follows
  <1>6. GoodZone(y)
    BY <1>1, <1>5 DEF GoodZone
  <1> QED
    BY <1>6 DEF y

\* What does not touch the target, the floors and the fans.
LEMMA OthersFollow ==
    ASSUME NEW z, GoodZone(z), NEW y, ZoneOK(y),
           y.target = z.target, y.floor = z.floor, y.fan = z.fan,
           y.floorHolds = z.floorHolds, y.locks = z.locks
    PROVE  GoodZone(y)
  BY DEF GoodZone, Positive, Follows

-----------------------------------------------------------------------------
(* Loading                                                                 *)

WrittenPositive ==
    /\ written \in [Sensor -> Nat]
    /\ \A s \in Sensor : written[s] > 0

\* The last fan that joined has moved the zone.
LEMMA JoinedTargetIs ==
    ASSUME WrittenPositive, NEW i \in 1..Len(FanSeq)
    PROVE  /\ JoinedTarget(i) = ReadTarget(written, FanSeq[i])
           /\ JoinedTarget(i) \in Nat \ {0}
  <1> DEFINE moving == {j \in 1..i : ReadTarget(written, FanSeq[j]) # 0}
  <1>1. \A j \in 1..i : ReadTarget(written, FanSeq[j]) \in Nat \ {0}
    <2> TAKE j \in 1..i
    <2>1. FanSeq[j] \in Fan
      OBVIOUS
    <2> QED
      BY <2>1 DEF ReadTarget, WrittenPositive
  <1>2. i \in Nat /\ moving = 1..i /\ i \in moving
    BY <1>1
  <1>3. moving \in SUBSET (0..i) /\ moving # {}
    <2>1. 1..i \in SUBSET (0..i)
      BY <1>2
    <2> HIDE DEF moving
    <2> QED
      BY <1>2, <2>1
  <1>4. JoinedTarget(i) = ReadTarget(written, FanSeq[Highest(moving)])
    BY <1>3 DEF JoinedTarget
  <1>5. Highest(moving) = i
    <2> HIDE DEF moving
    <2>1. Highest(moving) \in moving /\ \A u \in moving : u <= Highest(moving)
      BY <1>2, <1>3, HighestExists
    <2> QED
      BY <1>2, <2>1
  <1> QED
    BY <1>1, <1>2, <1>4, <1>5

\* A fan with another target than the last one was set by one after it.
LEMMA RewrittenFan ==
    ASSUME WrittenPositive, NEW f \in Fan,
           ReadTarget(written, f) # JoinedTarget(Len(FanSeq))
    PROVE  f \in Rewritten(Len(FanSeq))
  <1> DEFINE n == Len(FanSeq)
             R(k) == ReadTarget(written, FanSeq[k])
  <1>1. PICK j \in 1..n : FanSeq[j] = f
    BY EveryFanJoins
  <1>2. n \in Nat /\ n \in 1..n
    BY <1>1
  <1> DEFINE S == {k \in j..n : R(k) = R(j)}
             m == Highest(S)
  <1>3. S \in SUBSET (0..n) /\ S # {}
    <2>1. j \in S
      BY <1>1, <1>2
    <2>2. j..n \in SUBSET (0..n)
      BY <1>1, <1>2
    <2> QED
      BY <2>1, <2>2
  <1>4. m \in S /\ \A u \in S : u <= m
    <2> HIDE DEF S
    <2> QED
      BY <1>2, <1>3, HighestExists
  <1>5. n \notin S
    BY <1>1, <1>2, JoinedTargetIs
  <1>6. m \in j..n /\ R(m) = R(j) /\ m # n /\ m + 1 \notin S
    <2>1. m \in j..n /\ R(m) = R(j) /\ m # n
      BY <1>4, <1>5
    <2> HIDE DEF m, S
    <2> QED
      BY <1>4, <2>1
  <1> HIDE DEF m
  <1>7. m \in 1..n /\ m + 1 \in j..n /\ m + 1 \in 1..n /\ j \in 1..m
    BY <1>1, <1>6
  <1>8. R(m + 1) # R(m)
    BY <1>6, <1>7
  <1>9. SetsTarget(m + 1)
    <2>1. JoinedTarget(m) = R(m)
      BY <1>7, JoinedTargetIs
    <2>2. R(m + 1) # 0
      BY <1>7, JoinedTargetIs
    <2>3. (m + 1) - 1 = m
      BY <1>7
    <2> QED
      BY <1>8, <2>1, <2>2, <2>3 DEF SetsTarget
  <1>10. m + 1 \in 1..n /\ j \in 1..((m + 1) - 1)
    BY <1>7
  <1> QED
    BY <1>1, <1>9, <1>10 DEF Rewritten

\* No target is 0 while the fans join.
LEMMA LoadedPositive ==
    ASSUME WrittenPositive, NEW i \in 0..Len(FanSeq)
    PROVE  /\ \A f \in Fan : Loaded(i).fan[f] > 0
           /\ \A s \in Sensor : Loaded(i).written[s] > 0
  <1>1. ASSUME Rewritten(i) # {}
        PROVE  JoinedTarget(i) > 0
    <2>1. i \in 1..Len(FanSeq)
      BY <1>1 DEF Rewritten
    <2> QED
      BY <2>1, JoinedTargetIs
  <1>2. \A f \in Fan : ReadTarget(written, f) > 0
    BY DEF ReadTarget, WrittenPositive
  <1> QED
    BY <1>1, <1>2 DEF Loaded, WrittenPositive

\* The loaded zone is good.
LEMMA LoadedFollows ==
    ASSUME PositiveTargets, Fan # {}, WrittenPositive
    PROVE  GoodZone([NewZone(AllLoaded.fan) EXCEPT !.target = AllLoaded.target])
  <1> DEFINE n == Len(FanSeq)
             z == [NewZone(AllLoaded.fan) EXCEPT !.target = AllLoaded.target]
  <1>1. n \in 0..n /\ n \in 1..n
    <2> PICK f \in Fan : TRUE
      OBVIOUS
    <2>1. \E i \in 1..n : FanSeq[i] = f
      BY EveryFanJoins
    <2> QED
      BY <2>1
  <1>2. /\ AllLoaded.fan \in [Fan -> Nat]
        /\ AllLoaded.target = JoinedTarget(n)
        /\ AllLoaded.target \in Nat \ {0}
        /\ \A f \in Fan : AllLoaded.fan[f] > 0
    <2>1. Loaded(n).fan \in [Fan -> Nat]
      BY <1>1, LoadedType DEF WrittenPositive
    <2>2. Loaded(n).target = JoinedTarget(n)
      BY DEF Loaded
    <2> QED
      BY <1>1, <2>1, <2>2, JoinedTargetIs, LoadedPositive DEF AllLoaded
  <1>3. \A f \in Fan : AllLoaded.fan[f] = JoinedTarget(n)
    <2> TAKE f \in Fan
    <2>1. AllLoaded.fan[f] = IF f \in Rewritten(n) THEN JoinedTarget(n)
                                                   ELSE ReadTarget(written, f)
      BY DEF AllLoaded, Loaded
    <2> QED
      BY <2>1, RewrittenFan
  <1>4. ZoneOK(z)
    BY <1>2, NewZoneOK
  <1>5. /\ z.target = JoinedTarget(n) /\ z.floor = DefaultFloor
        /\ DOMAIN z.floorHolds = {}
        /\ z.fan = AllLoaded.fan
    BY <1>2 DEF NewZone
  <1> HIDE DEF z
  <1>6. Positive(z)
    BY <1>2, <1>5 DEF Positive, PositiveTargets
  <1>7. Follows(z)
    BY <1>3, <1>5 DEF Follows
  <1>8. GoodZone(z)
    BY <1>4, <1>6, <1>7 DEF GoodZone
  <1> QED
    BY <1>8 DEF z

-----------------------------------------------------------------------------
(* The inductive invariant                                                 *)

FollowInv == ZoneInv /\ WrittenPositive /\ (running => GoodZone(zone))

\* Writes of targets that are not 0, whether they succeed or not.
LEMMA WritesPositive ==
    ASSUME NEW w \in [Sensor -> Nat], \A s \in Sensor : w[s] > 0,
           NEW from \in [Fan -> Nat],
           NEW to \in [Fan -> Nat], \A f \in Fan : to[f] > 0
    PROVE  /\ \A s \in Sensor : AfterWrites(w, from, to)[s] > 0
           /\ \A v \in FailedWrites(w, from, to) : \A s \in Sensor : v[s] > 0
  <1>1. \A s \in Sensor : AfterWrites(w, from, to)[s] > 0
    BY DEF AfterWrites
  <1>2. \A v \in FailedWrites(w, from, to) : \A s \in Sensor : v[s] > 0
    <2> TAKE v \in FailedWrites(w, from, to)
    <2>1. PICK bad \in Sensor :
            v = [s \in Sensor |-> IF Position(s) < Position(bad)
                                  THEN AfterWrites(w, from, to)[s] ELSE w[s]]
      BY DEF FailedWrites
    <2> QED
      BY <1>1, <2>1
  <1> QED
    BY <1>1, <1>2

LEMMA ReturnsFollows ==
    ASSUME FollowInv, NEW z, GoodZone(z), Returns(z)
    PROVE  FollowInv'
  <1>1. running /\ GoodZone(zone)
    BY DEF Returns, FollowInv
  <1>2. ZoneInv'
    BY ReturnsKeeps DEF FollowInv, GoodZone
  <1>3. WrittenPositive'
    <2>1. /\ zone.fan \in [Fan -> Nat] /\ z.fan \in [Fan -> Nat]
          /\ \A f \in Fan : z.fan[f] > 0
      BY <1>1 DEF GoodZone, ZoneOK, Zone, Positive
    <2>2. /\ \A s \in Sensor : AfterWrites(written, zone.fan, z.fan)[s] > 0
          /\ \A v \in FailedWrites(written, zone.fan, z.fan) :
               \A s \in Sensor : v[s] > 0
      BY <2>1, WritesPositive DEF FollowInv, WrittenPositive
    <2>3. \A s \in Sensor : written'[s] > 0
      BY <2>2 DEF Returns
    <2> QED
      BY <1>2, <2>3 DEF ZoneInv, WrittenPositive
  <1>4. running' => zone' = z
    BY ReturnedZone
  <1> QED
    BY <1>2, <1>3, <1>4 DEF FollowInv

LEMMA LoadFollows ==
    ASSUME PositiveTargets, Fan # {}, FollowInv, Load \/ LoadFails
    PROVE  FollowInv'
  <1>1. ZoneInv'
    BY LoadKeeps DEF FollowInv
  <1>2. CASE Load
    <2>1. Len(FanSeq) \in 0..Len(FanSeq)
      OBVIOUS
    <2>2. \A s \in Sensor : written'[s] > 0
      BY <1>2, <2>1, LoadedPositive DEF Load, AllLoaded, FollowInv
    <2>3. GoodZone(zone')
      BY <1>2, LoadedFollows DEF Load, FollowInv
    <2> QED
      BY <1>1, <2>2, <2>3 DEF FollowInv, ZoneInv, WrittenPositive
  <1>3. CASE LoadFails
    <2>1. PICK i \in 1..Len(FanSeq) :
            written' \in FailedWrites(Loaded(i - 1).written,
                                      Loaded(i - 1).fan, Loaded(i).fan)
      BY <1>3 DEF LoadFails
    <2>2. i - 1 \in 0..Len(FanSeq) /\ i \in 0..Len(FanSeq)
      OBVIOUS
    <2>3. /\ Loaded(i - 1).written \in [Sensor -> Nat]
          /\ Loaded(i - 1).fan \in [Fan -> Nat]
          /\ Loaded(i).fan \in [Fan -> Nat]
      BY <2>2, LoadedType DEF FollowInv, WrittenPositive
    <2>4. /\ \A s \in Sensor : Loaded(i - 1).written[s] > 0
          /\ \A f \in Fan : Loaded(i).fan[f] > 0
      BY <2>2, LoadedPositive DEF FollowInv
    <2>5. \A s \in Sensor : written'[s] > 0
      BY <2>1, <2>3, <2>4, WritesPositive
    <2> QED
      BY <1>1, <1>3, <2>5 DEF LoadFails, FollowInv, ZoneInv, WrittenPositive
  <1> QED
    BY <1>2, <1>3

\* The callbacks of the automatic control.
LEMMA AutoStepFollows ==
    ASSUME PositiveTargets, FollowInv, AutoStep
    PROVE  FollowInv'
  <1>1. running
    BY DEF AutoStep, PowerOn, TargetFromGroupMax, NetTargetIncrease,
           IncTimerExpired, NetTargetDecrease, DecTimerExpired,
           SetRequestTargetBase, Returns
  <1>2. GoodZone(zone) /\ ZoneOK(zone) /\ zone \in Zone
    BY <1>1 DEF FollowInv, GoodZone, ZoneOK
  <1>3. CASE PowerOn
    <2>1. PoweronTarget \in Nat \ {0}
      BY DEF PositiveTargets
    <2> QED
      BY <1>2, <1>3, <2>1, SetTargetFollows, ReturnsFollows DEF PowerOn
  <1>4. ASSUME NEW t \in AutoTargets, TargetFromGroupMax(t)
        PROVE  FollowInv'
    <2>1. t \in Nat \ {0}
      BY DEF PositiveTargets
    <2> QED
      BY <1>2, <1>4, <2>1, SetTargetFollows, ReturnsFollows
         DEF TargetFromGroupMax
  <1>5. ASSUME NEW d \in IncDeltas, NetTargetIncrease(d)
        PROVE  FollowInv'
    <2>1. d \in Nat
      OBVIOUS
    <2> QED
      BY <1>2, <1>5, <2>1, IncreaseFollows, ReturnsFollows
         DEF NetTargetIncrease
  <1>6. CASE IncTimerExpired
    <2> DEFINE z == [zone EXCEPT !.incDelta = 0, !.incTimer = FALSE]
    <2>1. ZoneOK(z)
      BY <1>2 DEF ZoneOK, Zone, HoldsOK, LocksOK, IncOK
    <2>2. GoodZone(z)
      BY <1>2, <2>1, OthersFollow DEF Zone
    <2> QED
      BY <1>6, <2>2, ReturnsFollows DEF IncTimerExpired
  <1>7. ASSUME NEW g \in Group, NEW d \in DecDeltas, NetTargetDecrease(g, d)
        PROVE  FollowInv'
    <2>1. PICK net \in NetDecreases(d) :
            Returns([zone EXCEPT
              !.decBlocked = IF net = 0 THEN @ \cup {g} ELSE @ \ {g},
              !.decDelta   = IF @ = 0 THEN net ELSE Least(@, net)])
      BY <1>7 DEF NetTargetDecrease
    <2> DEFINE z == [zone EXCEPT
              !.decBlocked = IF net = 0 THEN @ \cup {g} ELSE @ \ {g},
              !.decDelta   = IF @ = 0 THEN net ELSE Least(@, net)]
    <2>2. net \in Nat
      <3>1. d \in Nat /\ zone.decDelta \in Nat
        BY <1>2 DEF Zone
      <3> QED
        BY <3>1 DEF NetDecreases, Least
    <2>3. z \in Zone
      BY <1>2, <2>2 DEF Zone, Least
    <2>4. ZoneOK(z)
      BY <1>2, <2>3 DEF ZoneOK, Zone, HoldsOK, LocksOK, IncOK
    <2>5. GoodZone(z)
      BY <1>2, <2>4, OthersFollow DEF Zone
    <2> QED
      BY <2>1, <2>5, ReturnsFollows
  <1>8. CASE DecTimerExpired
    BY <1>2, <1>8, DecreaseFollows, ReturnsFollows DEF DecTimerExpired
  <1>9. ASSUME NEW b \in Bases, SetRequestTargetBase(b)
        PROVE  FollowInv'
    <2> DEFINE z == [zone EXCEPT !.base = b]
    <2>1. ZoneOK(z)
      BY <1>2 DEF ZoneOK, Zone, HoldsOK, LocksOK, IncOK
    <2>2. GoodZone(z)
      BY <1>2, <2>1, OthersFollow DEF Zone
    <2> QED
      BY <1>9, <2>2, ReturnsFollows DEF SetRequestTargetBase
  <1> QED
    BY <1>3, <1>4, <1>5, <1>6, <1>7, <1>8, <1>9 DEF AutoStep

\* The callbacks that hold targets and floors, and lock fans.
LEMMA HoldStepFollows ==
    ASSUME PositiveTargets, FollowInv, HoldStep
    PROVE  FollowInv'
  <1>1. running
    BY DEF HoldStep, OwnerMissing, OwnerPresent, FloorHold, FloorHoldRemoved,
           TargetHold, TargetHoldRemoved, LockFanTargets, UnlockFanTargets,
           Returns
  <1>2. GoodZone(zone) /\ ZoneOK(zone) /\ zone \in Zone
    BY <1>1 DEF FollowInv, GoodZone, ZoneOK
  <1>3. ASSUME NEW g \in Group, OwnerMissing(g)
        PROVE  FollowInv'
    <2> DEFINE y == SetFloor(zone, DefaultFloor)
               z == [y EXCEPT !.floorBlocked = @ \cup {g}]
    <2>1. GoodZone(y)
      <3>1. DefaultFloor \in Nat \ {0}
        BY DEF PositiveTargets
      <3> QED
        BY <1>2, <3>1, SetFloorFollows
    <2>2. Returns(z)
      BY <1>3 DEF OwnerMissing
    <2> HIDE DEF y
    <2>3. z \in Zone
      BY <2>1 DEF GoodZone, ZoneOK, Zone
    <2>4. ZoneOK(z)
      BY <2>1, <2>3 DEF GoodZone, ZoneOK, Zone, HoldsOK, LocksOK, IncOK
    <2>5. GoodZone(z)
      BY <2>1, <2>4, OthersFollow DEF GoodZone, ZoneOK, Zone
    <2> QED
      BY <2>2, <2>5, ReturnsFollows
  <1>4. ASSUME NEW g \in Group, OwnerPresent(g)
        PROVE  FollowInv'
    <2> DEFINE z == [zone EXCEPT !.floorBlocked = @ \ {g}]
    <2>1. ZoneOK(z)
      BY <1>2 DEF ZoneOK, Zone, HoldsOK, LocksOK, IncOK
    <2>2. GoodZone(z)
      BY <1>2, <2>1, OthersFollow DEF Zone
    <2> QED
      BY <1>4, <2>2, ReturnsFollows DEF OwnerPresent
  <1>5. ASSUME NEW h \in FloorHolder, NEW t \in FloorTargets, FloorHold(h, t)
        PROVE  FollowInv'
    <2>1. t \in Nat /\ t > 0
      BY DEF PositiveTargets
    <2>2. GoodZone(SetFloorHold(zone, h, t, TRUE))
      BY <1>2, <2>1, SetFloorHoldFollows
    <2> QED
      BY <1>5, <2>2, ReturnsFollows DEF FloorHold
  <1>6. ASSUME NEW h \in FloorHolder, FloorHoldRemoved(h)
        PROVE  FollowInv'
    <2>1. GoodZone(SetFloorHold(zone, h, 0, FALSE))
      BY <1>2, SetFloorHoldFollows
    <2> QED
      BY <1>6, <2>1, ReturnsFollows DEF FloorHoldRemoved
  <1>7. ASSUME NEW h \in Hold, TargetHold(h) \/ TargetHoldRemoved(h)
        PROVE  FollowInv'
    <2>1. /\ GoodZone(SetTargetHold(zone, h, TRUE))
          /\ GoodZone(SetTargetHold(zone, h, FALSE))
      BY <1>2, SetTargetHoldFollows
    <2> QED
      BY <1>7, <2>1, ReturnsFollows DEF TargetHold, TargetHoldRemoved
  <1>8. ASSUME NEW l \in Lock, LockFanTargets(l)
        PROVE  FollowInv'
    BY <1>2, <1>8, LockFollows, ReturnsFollows DEF LockFanTargets
  <1>9. ASSUME NEW l \in Lock, UnlockFanTargets(l)
        PROVE  FollowInv'
    BY <1>2, <1>9, UnlockFollows, ReturnsFollows DEF UnlockFanTargets
  <1> QED
    BY <1>3, <1>4, <1>5, <1>6, <1>7, <1>8, <1>9 DEF HoldStep

LEMMA InitFollows ==
    ASSUME PositiveTargets, Init
    PROVE  FollowInv
  <1>1. ZoneInv
    BY NewZoneOK DEF Init, ZoneInv
  <1>2. \A s \in Sensor : written[s] > 0
    BY DEF Init, PositiveTargets
  <1> QED
    BY <1>1, <1>2 DEF FollowInv, ZoneInv, WrittenPositive, Init

LEMMA NextFollows ==
    ASSUME PositiveTargets, Fan # {}, FollowInv, [Next]_vars
    PROVE  FollowInv'
  <1>1. CASE UNCHANGED vars
    BY <1>1 DEF vars, FollowInv, ZoneInv, WrittenPositive
  <1> QED
    BY <1>1, AutoStepFollows, HoldStepFollows, LoadFollows DEF Next

-----------------------------------------------------------------------------
(* The theorem                                                             *)

\* The fans that are not locked follow the zone, in every order of holds,
\* locks, target changes, failing writes, restarts and reloads, as long as no
\* target is 0.
THEOREM FansFollow ==
    ASSUME PositiveTargets
    PROVE  ZoneSpec => []FansFollowZone
  <1>1. CASE Fan = {}
    <2>1. FansFollowZone
      BY <1>1 DEF FansFollowZone
    <2> QED
      BY <2>1, PTL
  <1>2. CASE Fan # {}
    <2>1. Init => FollowInv
      BY InitFollows
    <2>2. FollowInv /\ [Next]_vars => FollowInv'
      BY <1>2, NextFollows
    <2>3. FollowInv => FansFollowZone
      BY DEF FollowInv, GoodZone, Follows, FansFollowZone
    <2> QED
      BY <2>1, <2>2, <2>3, PTL DEF ZoneSpec
  <1> QED
    BY <1>1, <1>2

-----------------------------------------------------------------------------
(* Reloads that change nothing                                             *)

\* The sensor a reload would read has the target of its fan.
InSync == \A f \in Fan : ReadTarget(written, f) = zone.fan[f]

SyncInv == running /\ ~reloadFailed => InSync

\* A callback that ends writes every fan it set to another target.
LEMMA ReturnsInSync ==
    ASSUME SyncInv, NEW z, Returns(z)
    PROVE  SyncInv'
  <1> SUFFICES ASSUME running', ~reloadFailed'
               PROVE  InSync'
    BY DEF SyncInv
  <1>1. /\ running /\ ~reloadFailed /\ zone' = z
        /\ written' = AfterWrites(written, zone.fan, z.fan)
    BY DEF Returns, Exit
  <1>2. ASSUME NEW f \in Fan
        PROVE  written'[ReadFrom[f]] = z.fan[f]
    <2>1. ReadFrom[f] \in Sensor /\ FanOf[ReadFrom[f]] = f
      BY ReadsOwnSensor
    <2>2. written'[ReadFrom[f]] = IF zone.fan[f] # z.fan[f] THEN z.fan[f]
                                  ELSE written[ReadFrom[f]]
      BY <1>1, <2>1 DEF AfterWrites
    <2>3. written[ReadFrom[f]] = zone.fan[f]
      BY <1>1 DEF SyncInv, InSync, ReadTarget
    <2> QED
      BY <2>2, <2>3
  <1> QED
    BY <1>1, <1>2 DEF InSync, ReadTarget

\* load() takes over what it reads, and writes what it sets.
LEMMA LoadInSync ==
    ASSUME Load
    PROVE  InSync'
  <1> DEFINE n == Len(FanSeq)
  <1>1. zone'.fan = AllLoaded.fan /\ written' = AllLoaded.written
    BY DEF Load, NewZone
  <1>2. ASSUME NEW f \in Fan
        PROVE  AllLoaded.written[ReadFrom[f]] = AllLoaded.fan[f]
    <2>1. ReadFrom[f] \in Sensor /\ FanOf[ReadFrom[f]] = f
      BY ReadsOwnSensor
    <2> QED
      BY <2>1 DEF AllLoaded, Loaded, ReadTarget
  <1> QED
    BY <1>1, <1>2 DEF InSync, ReadTarget

LEMMA NextInSync ==
    ASSUME SyncInv, [Next]_vars
    PROVE  SyncInv'
  <1>1. CASE AutoStep
    BY <1>1, ReturnsInSync
       DEF AutoStep, PowerOn, TargetFromGroupMax, NetTargetIncrease,
           IncTimerExpired, NetTargetDecrease, DecTimerExpired,
           SetRequestTargetBase
  <1>2. CASE HoldStep
    BY <1>2, ReturnsInSync
       DEF HoldStep, OwnerMissing, OwnerPresent, FloorHold, FloorHoldRemoved,
           TargetHold, TargetHoldRemoved, LockFanTargets, UnlockFanTargets
  <1>3. CASE Load
    BY <1>3, LoadInSync DEF SyncInv
  <1>4. CASE LoadFails
    BY <1>4 DEF LoadFails, SyncInv
  <1>5. CASE UNCHANGED vars
    BY <1>5 DEF vars, SyncInv, InSync, ReadTarget
  <1> QED
    BY <1>1, <1>2, <1>3, <1>4, <1>5 DEF Next

\* Fans that are all read at one target are set by none that joins.
LEMMA SyncedReload ==
    ASSUME WrittenPositive, Fan # {}, NEW t,
           \A f \in Fan : ReadTarget(written, f) = t
    PROVE  AllLoaded.target = t /\ AllLoaded.written = written
  <1> DEFINE n == Len(FanSeq)
  <1>1. n \in 1..n
    <2> PICK f \in Fan : TRUE
      OBVIOUS
    <2>1. \E i \in 1..n : FanSeq[i] = f
      BY EveryFanJoins
    <2> QED
      BY <2>1
  <1>2. \A i \in 1..n : JoinedTarget(i) = t
    <2> TAKE i \in 1..n
    <2>1. FanSeq[i] \in Fan
      OBVIOUS
    <2> QED
      BY <2>1, JoinedTargetIs
  <1>3. Rewritten(n) = {}
    <2> SUFFICES ASSUME NEW k \in 1..n, NEW j \in 1..(k - 1), SetsTarget(k)
                 PROVE  FALSE
      BY DEF Rewritten
    <2>1. k - 1 \in 1..n /\ FanSeq[k] \in Fan
      OBVIOUS
    <2>2. JoinedTarget(k - 1) = t /\ ReadTarget(written, FanSeq[k]) = t
      BY <1>2, <2>1
    <2> QED
      BY <2>2 DEF SetsTarget
  <1>4. AllLoaded.target = t
    BY <1>1, <1>2 DEF AllLoaded, Loaded
  <1>5. AllLoaded.written = [s \in Sensor |-> written[s]]
    BY <1>3 DEF AllLoaded, Loaded
  <1> QED
    BY <1>4, <1>5 DEF WrittenPositive

\* While no fan is locked a restart or a reload changes no target, neither of
\* the zone nor on D-Bus, unless a reload failed before (load(), addFan(),
\* setTarget()).  A zone without fans has no target to be read.
THEOREM ReloadsKeepTarget ==
    ASSUME PositiveTargets, Fan # {}
    PROVE  ZoneSpec => []ReloadKeepsTarget
  <1>1. Init => FollowInv /\ SyncInv
    <2>1. Init => SyncInv
      BY DEF Init, SyncInv
    <2> QED
      BY <2>1, InitFollows
  <1>2. FollowInv /\ SyncInv /\ [Next]_vars => FollowInv' /\ SyncInv'
    BY NextFollows, NextInSync
  <1>3. FollowInv /\ SyncInv => ReloadKeepsTarget
    <2> SUFFICES ASSUME FollowInv, SyncInv, running, ~reloadFailed,
                        \A f \in Fan : zone.locks[f] = {}
                 PROVE  /\ AllLoaded.target = zone.target
                        /\ AllLoaded.written = written
      BY DEF ReloadKeepsTarget
    <2>1. \A f \in Fan : ReadTarget(written, f) = zone.target
      BY DEF FollowInv, GoodZone, Follows, SyncInv, InSync
    <2> QED
      BY <2>1, SyncedReload DEF FollowInv
  <1> QED
    BY <1>1, <1>2, <1>3, PTL DEF ZoneSpec

=============================================================================
