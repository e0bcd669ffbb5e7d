---------------------------- MODULE LegacyZoneProofs ----------------------------
(***************************************************************************)
(* Theorems about LegacyZone, for any definitions of zones and any values  *)
(* on D-Bus: every callback keeps the types, a start keeps the mode, the   *)
(* events and the full speed that preconditions and                        *)
(* use_alternate_events_on_state switch are as the values cached have it,  *)
(* and so are the floor and the ceiling.                                   *)
(*                                                                         *)
(* Every operation on the zone has a lemma that says where it leads:       *)
(* Steps(y, G, C) are the zones that keep what is cached and held for the  *)
(* groups of G, and the events outside C.  What is done for one event is   *)
(* such a step for the groups and events that another one switches.        *)
(* The lemmas on a floor or ceiling are about sets X of zones instead: the *)
(* zones in which that limit is right, or may still be made right.         *)
(***************************************************************************)
EXTENDS LegacyZone, SequenceProofs

-----------------------------------------------------------------------------
(* The states of the zone                                                  *)

Part == UNION {Range(Def[e].parts) : e \in Event}
Group == {p.group : p \in Part}

\* What a timer of call_actions_based_on_timer has.
TimerPart == {p \in Part : \E a \in Range(p.actions) : IsTimer(a)}
TimerActions ==
    UNION {{a.actions : a \in {a \in Range(p.actions) : IsTimer(a)}} : p \in TimerPart}
Timer ==
    [group : {p.group : p \in TimerPart}, actions : TimerActions, oneshot : BOOLEAN, armed : BOOLEAN]

Zones ==
    [target : Nat, floor : Nat, defFloor : Nat, ceiling : Nat, ceilingKey : Nat, base : Nat,
     incDelta : Nat, decDelta : Nat, incTimer : BOOLEAN,
     props : [Member -> Value \cup {NoValue}], tree : SUBSET Member, matched : SUBSET Member,
     holding : SUBSET Group, floorFixed : SUBSET Group, noDecrease : SUBSET Group,
     defaulted : BOOLEAN, enabled : [Event -> Nat], timed : SUBSET Timer]

\* From y to x the values cached for the group g stay, and what it holds.
Kept(y, x, g) ==
    /\ \A m \in Range(g) : x.props[m] = y.props[m]
    /\ g \in y.holding => g \in x.holding /\ (y.target = FullSpeed => x.target = FullSpeed)

\* Where y may go with the groups of G kept, and no events but those of C
\* switched on or off.
Steps(y, G, C) ==
    {x \in Zones : /\ x.matched = y.matched
                   /\ \A g \in G : Kept(y, x, g)
                   /\ \A n \in Event \ C : x.enabled[n] = y.enabled[n]}

\* What is done for the group h does not concern those of G.
Elsewhere(h, G) == \A g \in G : h # g /\ Range(h) \cap Range(g) = {}

LEMMA StepsRefl ==
    ASSUME NEW y \in Zones, NEW G, NEW C
    PROVE  y \in Steps(y, G, C)
  BY DEF Steps, Kept

LEMMA StepsTrans ==
    ASSUME NEW y, NEW G, NEW C, NEW x \in Steps(y, G, C), NEW w \in Steps(x, G, C)
    PROVE  w \in Steps(y, G, C)
  BY DEF Steps, Kept

LEMMA StepsMore ==
    ASSUME NEW y, NEW G, NEW C, NEW D, C \subseteq D, NEW x \in Steps(y, G, C)
    PROVE  x \in Steps(y, G, D)
  BY DEF Steps

LEMMA StepsZones ==
    ASSUME NEW y, NEW G, NEW C
    PROVE  Steps(y, G, C) \subseteq Zones
  BY DEF Steps

\* What changes neither the cache, what is held, the target nor what is enabled.
LEMMA SameSteps ==
    ASSUME NEW y \in Zones, NEW x \in Zones, NEW G, NEW C,
           x.props = y.props, x.holding = y.holding, x.target = y.target, x.enabled = y.enabled,
           x.matched = y.matched
    PROVE  x \in Steps(y, G, C)
  BY DEF Steps, Kept

-----------------------------------------------------------------------------
(* Requests for speeds                                                     *)

LEMMA SetSpeedSteps ==
    ASSUME NEW y \in Zones, NEW speed \in Nat, NEW G
    PROVE  SetSpeed(y, speed) \in Steps(y, G, {})
  <1> DEFINE x == [y EXCEPT !.target = speed]
  <1>1. /\ x \in Zones
        /\ x.props = y.props /\ x.holding = y.holding /\ x.enabled = y.enabled /\ x.matched = y.matched
    BY DEF Zones
  <1> HIDE DEF x
  <1>2. CASE Active(y)
    <2>1. SetSpeed(y, speed) = x /\ y.holding = {}
      BY <1>2 DEF SetSpeed, Active, x
    <2> QED
      BY <1>1, <2>1 DEF Steps, Kept
  <1>3. CASE ~Active(y)
    BY <1>3, StepsRefl DEF SetSpeed
  <1> QED
    BY <1>2, <1>3

LEMMA MinOfTwo ==
    ASSUME NEW m \in Nat, NEW n \in Nat
    PROVE  Min({m, n}) \in {m, n} /\ Min({m, n}) <= m /\ Min({m, n}) <= n
  <1>1. \E x \in {m, n} : \A y \in {m, n} : x <= y
    OBVIOUS
  <1> QED
    BY <1>1 DEF Min

LEMMA IncreaseSteps ==
    ASSUME NEW y \in Zones, NEW delta \in Nat, NEW G
    PROVE  RequestSpeedIncrease(y, delta) \in Steps(y, G, {})
  <1> DEFINE speed == Min({delta - y.incDelta + RequestSpeedBase(y), y.ceiling})
             x == SetSpeed(y, speed)
             w == [x EXCEPT !.incDelta = delta, !.incTimer = TRUE]
  <1>1. CASE delta <= y.incDelta \/ y.target >= y.ceiling
    BY <1>1, StepsRefl DEF RequestSpeedIncrease
  <1>2. CASE ~(delta <= y.incDelta \/ y.target >= y.ceiling)
    <2>1. /\ delta - y.incDelta + RequestSpeedBase(y) \in Nat
          /\ y.ceiling \in Nat
      BY <1>2 DEF Zones, RequestSpeedBase
    <2>2. speed \in Nat
      BY <2>1, MinOfTwo
    <2> HIDE DEF speed
    <2>3. x \in Steps(y, G, {})
      BY <2>2, SetSpeedSteps
    <2> HIDE DEF x
    <2>4. x \in Zones
      BY <2>3 DEF Steps
    <2>5. /\ w \in Zones /\ w.props = x.props /\ w.holding = x.holding
          /\ w.target = x.target /\ w.enabled = x.enabled /\ w.matched = x.matched
      BY <2>4 DEF Zones
    <2>6. RequestSpeedIncrease(y, delta) = w
      BY <1>2 DEF RequestSpeedIncrease, x, speed
    <2> HIDE DEF w
    <2> QED
      BY <2>3, <2>4, <2>5, <2>6, SameSteps, StepsTrans
  <1> QED
    BY <1>1, <1>2

LEMMA DecreaseSteps ==
    ASSUME NEW y \in Zones, NEW delta \in Nat, NEW G
    PROVE  RequestSpeedDecrease(y, delta) \in Steps(y, G, {})
  <1> DEFINE x == [y EXCEPT !.decDelta = delta]
  <1>1. /\ x \in Zones /\ x.props = y.props /\ x.holding = y.holding
        /\ x.target = y.target /\ x.enabled = y.enabled /\ x.matched = y.matched
    BY DEF Zones
  <1>2. RequestSpeedDecrease(y, delta) \in {x, y}
    BY DEF RequestSpeedDecrease
  <1> HIDE DEF x
  <1> QED
    BY <1>1, <1>2, SameSteps, StepsRefl

LEMMA SetFloorSteps ==
    ASSUME NEW y \in Zones, NEW speed \in Nat, NEW G
    PROVE  SetFloor(y, speed) \in Steps(y, G, {})
  <1> DEFINE x == [y EXCEPT !.floor = speed]
  <1>1. /\ x \in Zones /\ x.props = y.props /\ x.holding = y.holding
        /\ x.target = y.target /\ x.enabled = y.enabled /\ x.matched = y.matched
    BY DEF Zones
  <1>2. SetFloor(y, speed) = IF y.floorFixed # {} THEN y
                             ELSE IF x.target < speed THEN RequestSpeedIncrease(x, speed - x.target)
                             ELSE x
    BY DEF SetFloor
  <1> HIDE DEF x
  <1>3. x \in Steps(y, G, {})
    BY <1>1, SameSteps
  <1>4. CASE x.target < speed
    <2>1. speed - x.target \in Nat
      BY <1>1, <1>4 DEF Zones
    <2>2. RequestSpeedIncrease(x, speed - x.target) \in Steps(x, G, {})
      BY <1>1, <2>1, IncreaseSteps
    <2> QED
      BY <1>2, <1>3, <1>4, <2>2, StepsTrans, StepsRefl
  <1> QED
    BY <1>2, <1>3, <1>4, StepsRefl

LEMMA FloorByValueSteps ==
    ASSUME NEW y \in Zones, NEW speed \in Nat, NEW G
    PROVE  FloorByValue(y, speed) \in Steps(y, G, {})
  <1> DEFINE x == SetFloor(y, speed)
             w == [x EXCEPT !.defaulted = @ /\ y.floorFixed # {}]
  <1>1. x \in Steps(y, G, {})
    BY SetFloorSteps
  <1>2. FloorByValue(y, speed) = w
    BY DEF FloorByValue
  <1> HIDE DEF x
  <1>3. x \in Zones
    BY <1>1, StepsZones
  <1>4. /\ w \in Zones /\ w.props = x.props /\ w.holding = x.holding
        /\ w.target = x.target /\ w.enabled = x.enabled /\ w.matched = x.matched
    BY <1>3 DEF Zones
  <1> HIDE DEF w
  <1> QED
    BY <1>1, <1>2, <1>3, <1>4, SameSteps, StepsTrans

\* A look-up of services changes nothing but what is known of them.
LEMMA LookUpTyped ==
    ASSUME NEW y \in Zones, NEW members
    PROVE  LET x == LookUp(y, members)
           IN  /\ x \in Zones /\ y.tree \subseteq x.tree
               /\ x.target = y.target /\ x.floor = y.floor /\ x.defFloor = y.defFloor
               /\ x.ceiling = y.ceiling /\ x.ceilingKey = y.ceilingKey
               /\ x.props = y.props /\ x.holding = y.holding /\ x.floorFixed = y.floorFixed
               /\ x.defaulted = y.defaulted /\ x.matched = y.matched /\ x.enabled = y.enabled
  <1> DEFINE tree == y.tree \cup {n \in Member : /\ bus[n] # NoValue
                                                 /\ \E m \in members \ y.tree : InterfaceOf[m] = InterfaceOf[n]}
             x == [y EXCEPT !.tree = tree]
  <1>1. LookUp(y, members) = x
    BY DEF LookUp
  <1>2. tree \subseteq Member /\ y.tree \subseteq tree
    BY DEF Zones
  <1> HIDE DEF tree
  <1> QED
    BY <1>1, <1>2 DEF Zones

LEMMA LookUpSteps ==
    ASSUME NEW y \in Zones, NEW members, NEW G
    PROVE  LookUp(y, members) \in Steps(y, G, {})
  BY LookUpTyped, SameSteps

LEMMA AllowSteps ==
    ASSUME NEW y \in Zones, NEW h \in Group, NEW allowed, NEW G, Elsewhere(h, G)
    PROVE  SetActiveAllow(y, h, allowed) \in Steps(y, G, {})
  <1> DEFINE x == SetActiveAllow(y, h, allowed)
  <1>1. /\ x \in Zones /\ x.props = y.props /\ x.target = y.target /\ x.enabled = y.enabled /\ x.matched = y.matched
        /\ x.holding = IF allowed THEN y.holding \ {h} ELSE y.holding \cup {h}
    BY DEF Zones, SetActiveAllow, Allow
  <1> HIDE DEF x
  <1>2. \A g \in G : g \in y.holding => g \in x.holding
    BY <1>1 DEF Elsewhere
  <1> QED
    BY <1>1, <1>2 DEF Steps, Kept, x

-----------------------------------------------------------------------------
(* What the actions compute                                                *)

LEMMA GroupsAreSequences == Group \subseteq Seq(Member)
  BY LegacyActionsAssumption DEF Group, Part, IsPart

\* The members of a group whose value is cached, and these values.
LEMMA KnownFinite ==
    ASSUME NEW y \in Zones, NEW h \in Group
    PROVE  /\ IsFiniteSet(Known(y, h)) /\ Known(y, h) \subseteq DOMAIN h
           /\ \A k \in Known(y, h) : y.props[h[k]] \in Value
           /\ IsFiniteSet(Values(y, h)) /\ Values(y, h) \subseteq Value
  <1>1. h \in Seq(Member) /\ y.props \in [Member -> Value \cup {NoValue}]
    BY GroupsAreSequences DEF Zones
  <1>2. IsFiniteSet(DOMAIN h) /\ Known(y, h) \subseteq DOMAIN h
    BY <1>1, RangeFinite DEF Known
  <1>3. IsFiniteSet(Known(y, h))
    BY <1>2, FS_Subset
  <1>4. \A k \in Known(y, h) : y.props[h[k]] \in Value
    BY <1>1 DEF Known
  <1> DEFINE f == [k \in Known(y, h) |-> y.props[h[k]]]
  <1>5. Values(y, h) = {f[k] : k \in Known(y, h)}
    BY DEF Values
  <1> HIDE DEF f
  <1>6. IsFiniteSet(Values(y, h))
    BY <1>3, <1>5, ImageFinite
  <1> QED
    BY <1>2, <1>3, <1>4, <1>6 DEF Values

LEMMA TargetTyped ==
    ASSUME NEW speeds \in Seq(Nat \X Nat), NEW v
    PROVE  TargetOf(speeds, v) \in Nat \cup {NoValue}
  <1> DEFINE above == {k \in DOMAIN speeds : v < speeds[k][1]}
  <1>1. above \subseteq DOMAIN speeds /\ DOMAIN speeds \subseteq Int /\ IsFiniteSet(DOMAIN speeds)
    BY RangeFinite
  <1>2. TargetOf(speeds, v) = IF above = {} THEN NoValue ELSE speeds[Min(above)][2]
    BY DEF TargetOf
  <1> HIDE DEF above
  <1>3. above # {} => Min(above) \in DOMAIN speeds
    BY <1>1, MinExists, FS_Subset
  <1> QED
    BY <1>2, <1>3

LEMMA FloorForTyped ==
    ASSUME NEW y \in Zones, NEW speeds \in Seq(Nat \X Nat), NEW v
    PROVE  FloorFor(y, speeds, v) \in Nat
  BY TargetTyped DEF FloorFor, Zones

LEMMA DivNat ==
    ASSUME NEW m \in Nat, NEW n \in Nat \ {0}
    PROVE  m \div n \in Nat
  OBVIOUS

LEMMA TimesNat ==
    ASSUME NEW m \in Nat, NEW n \in Nat
    PROVE  m * n \in Nat
  OBVIOUS

\* The ceiling for a value is the speed of a key, or stays.
LEMMA CeilingTyped ==
    ASSUME NEW speeds \in Seq(Nat \X Nat), speeds # <<>>,
           NEW v \in Nat, NEW prev \in Nat, NEW ceiling \in Nat
    PROVE  CeilingFor(speeds, v, prev, ceiling) \in Nat
  <1> DEFINE n == Len(speeds)
             fallen == {k \in 1..n : v < speeds[k][1] /\ speeds[k][1] <= prev}
             risen == {k \in 1..n : v > speeds[k][1] /\ speeds[k][1] >= prev}
  <1>1. n \in Nat /\ n # 0 /\ DOMAIN speeds = 1..n /\ \A k \in 1..n : speeds[k] \in Nat \X Nat
    OBVIOUS
  <1>2. \A k \in 1..n : speeds[k][1] \in Nat /\ speeds[k][2] \in Nat
    BY <1>1
  <1>3. fallen \subseteq 1..n /\ risen \subseteq 1..n /\ IsFiniteSet(1..n) /\ 1..n \subseteq Int
    <2>1. IsFiniteSet(1..n)
      <3> HIDE DEF n
      <3> QED
        BY <1>1, FS_Interval
    <2> QED
      BY <1>1, <2>1
  <1>4. v < prev => risen = {}
    BY <1>2
  <1>5. v > prev => fallen = {}
    BY <1>2
  <1>6. CeilingFor(speeds, v, prev, ceiling) =
          CASE v = prev -> ceiling
            [] v < prev /\ v >= speeds[n][1] -> speeds[n][2]
            [] v < prev /\ v < speeds[n][1] /\ v <= speeds[1][1] -> speeds[1][2]
            [] v > prev /\ v <= speeds[1][1] -> speeds[1][2]
            [] v > prev /\ v > speeds[1][1] /\ v >= speeds[n][1] -> speeds[n][2]
            [] OTHER -> IF fallen \cup risen = {} THEN ceiling
                        ELSE IF v < prev THEN speeds[Min(fallen)][2] ELSE speeds[Max(risen)][2]
    BY DEF CeilingFor
  <1> HIDE DEF fallen, risen
  <1>7. (fallen # {} => Min(fallen) \in 1..n) /\ (risen # {} => Max(risen) \in 1..n)
    BY <1>3, MinExists, MaxExists, FS_Subset
  <1>8. 1 \in 1..n /\ n \in 1..n
    BY <1>1
  <1> HIDE DEF n
  <1> QED
    BY <1>2, <1>4, <1>5, <1>6, <1>7, <1>8

LEMMA AverageTyped ==
    ASSUME NEW y \in Zones, NEW g \in Group, Known(y, g) # {}
    PROVE  Average(y, g) \in Nat
  <1> DEFINE S == Known(y, g)
             first(s) == CHOOSE k \in s : TRUE
             c == [s \in SUBSET S |-> first(s)]
             step == [k \in S |-> [sum \in Nat |-> sum + y.props[g[k]]]]
             Is(h) == h = [s \in SUBSET S |-> IF s = {} THEN 0
                           ELSE h[s \ {first(s)}] + y.props[g[first(s)]]]
             fold == CHOOSE h : Is(h)
             P == {s \in SUBSET S : fold[s] \in Nat}
  <1>1. IsFiniteSet(S) /\ \A k \in S : y.props[g[k]] \in Nat
    BY KnownFinite, LegacyActionsAssumption
  <1>2. \A s \in SUBSET S : s # {} => first(s) \in s /\ first(s) \in S
    OBVIOUS
  <1>3. Average(y, g) = fold[S] \div Cardinality(S)
    BY DEF Average, FoldSet, MapThenFoldSet
  <1>4. Cardinality(S) \in Nat \ {0}
    BY <1>1, FS_CardinalityType, FS_EmptySet
  <1> HIDE DEF S, first
  <1>5. \E h : Is(h)
    <2>1. Closed(step, S, Nat)
      BY <1>1 DEF Closed
    <2>2. Picks(c, S)
      BY <1>2 DEF Picks
    <2>3. PICK h : IsFold(h, S, Nat, 0, c, step)
      <3> HIDE DEF c, step
      <3> QED
        BY <1>1, <2>1, <2>2, FoldExists
    <2>4. \A s \in SUBSET S : s # {} => h[s \ {first(s)}] \in Nat
      BY <2>3 DEF IsFold
    <2>5. \A s \in SUBSET S : s # {} =>
            step[c[s]][h[s \ {c[s]}]] = h[s \ {first(s)}] + y.props[g[first(s)]]
      BY <1>2, <2>4
    <2> HIDE DEF step
    <2>6. Is(h)
      BY <2>3, <2>5 DEF IsFold
    <2> QED
      BY <2>6
  <1>6. Is(fold)
    BY <1>5
  <1> HIDE DEF fold
  <1>7. {} \in P
    BY <1>6
  <1>8. ASSUME NEW s \in SUBSET S, s # {}
        PROVE  \E x \in s : s \ {x} \in P => s \in P
    <2>1. fold[s] = fold[s \ {first(s)}] + y.props[g[first(s)]]
      BY <1>6, <1>8
    <2>2. first(s) \in s /\ y.props[g[first(s)]] \in Nat
      BY <1>1, <1>2, <1>8
    <2>3. fold[s \ {first(s)}] \in Nat => fold[s] \in Nat
      BY <2>1, <2>2
    <2> QED
      BY <2>2, <2>3
  <1>9. \A s \in SUBSET S : s \in P
    <2> HIDE DEF P
    <2> QED
      BY <1>1, <1>7, <1>8, SubsetInduction
  <1>10. fold[S] \in Nat
    BY <1>9
  <1> QED
    BY <1>3, <1>4, <1>10, DivNat

\* The decrease of one member, after a decrease of net for those before it.
LowerNet(y, a, m, net) ==
    IF y.props[m] = NoValue THEN net
    ELSE LET own == ((a.state - y.props[m]) \div a.factor) * a.delta
         IN  IF net = 0 THEN own ELSE Min({net, own})

LEMMA NetDecreaseTyped ==
    ASSUME NEW y \in Zones, NEW g \in Group, NEW a, a.type = "decrease", IsSimple(a)
    PROVE  NetDecrease(y, g, a) \in Nat
  <1>1. CASE \E v \in Values(y, g) : v >= a.state
    BY <1>1 DEF NetDecrease
  <1>2. CASE ~\E v \in Values(y, g) : v >= a.state
    <2> DEFINE S == DOMAIN g
               X == Nat
               step == [k \in S |-> [net \in Nat |-> LowerNet(y, a, g[k], net)]]
               Is(h) == h = [s \in SUBSET S |-> IF s = {} THEN y.decDelta
                             ELSE LowerNet(y, a, g[Max(s)], h[s \ {Max(s)}])]
               fold == CHOOSE h : Is(h)
    <2>1. g \in Seq(Member) /\ y.decDelta \in Nat /\ y.props \in [Member -> Value \cup {NoValue}]
      BY GroupsAreSequences DEF Zones
    <2>2. ASSUME NEW k \in S, NEW net \in Nat
          PROVE  LowerNet(y, a, g[k], net) \in Nat
      <3>1. CASE y.props[g[k]] = NoValue
        BY <3>1 DEF LowerNet
      <3>2. CASE y.props[g[k]] # NoValue
        <4> DEFINE v == y.props[g[k]]
                   own == ((a.state - v) \div a.factor) * a.delta
        <4>1. v \in Values(y, g)
          BY <3>2 DEF Values, Known
        <4>2. v \in Nat
          BY <4>1, KnownFinite, LegacyActionsAssumption
        <4> HIDE DEF v
        <4>3. a.state \in Nat /\ a.factor \in Nat \ {0} /\ a.delta \in Nat
          BY DEF IsSimple
        <4>4. a.state - v \in Nat
          BY <1>2, <4>1, <4>2, <4>3
        <4>5. own \in Nat
          BY <4>3, <4>4, DivNat, TimesNat
        <4>6. LowerNet(y, a, g[k], net) = IF net = 0 THEN own ELSE Min({net, own})
          BY <3>2 DEF LowerNet, v
        <4> HIDE DEF own
        <4> QED
          BY <4>5, <4>6, MinOfTwo
      <3> QED
        BY <3>1, <3>2
    <2>3. Closed(step, S, X)
      BY <2>2 DEF Closed
    <2>4. \A s \in SUBSET S : s # {} => Max(s) \in S
      BY <2>1, RangeFinite, MaxExists, FS_Subset
    <2>5. \E h : Is(h)
      <3>1. PICK h : IsFold(h, S, X, y.decDelta, LastOf(S), step)
        <4> HIDE DEF step
        <4> QED
          BY <2>1, <2>3, LeftFoldExists
      <3>2. \A s \in SUBSET S : s # {} => h[s \ {Max(s)}] \in X
        BY <3>1 DEF IsFold
      <3>3. Is(h)
        BY <2>4, <3>1, <3>2 DEF IsFold, LastOf
      <3> QED
        BY <3>3
    <2>6. Is(fold)
      BY <2>5
    <2>7. fold[S] \in X
      <3> HIDE DEF fold
      <3>1. fold[{}] \in X
        BY <2>1, <2>6
      <3>2. ASSUME NEW s \in SUBSET S, s # {} /\ fold[s \ {Max(s)}] \in X
            PROVE  fold[s] \in X
        <4>1. fold[s] = LowerNet(y, a, g[Max(s)], fold[s \ {Max(s)}])
          BY <2>6, <3>2
        <4> QED
          BY <2>2, <2>4, <3>2, <4>1
      <3> QED
        BY <2>1, <3>1, <3>2, LeftFoldIn
    <2>8. NetDecrease(y, g, a) = fold[S]
      BY <1>2 DEF NetDecrease, FoldLeft, MapThenFoldSet, LowerNet
    <2> QED
      BY <2>7, <2>8
  <1> QED
    BY <1>1, <1>2

LEMMA MaxNat ==
    ASSUME NEW S \in SUBSET Nat, IsFiniteSet(S), NEW n \in Nat
    PROVE  Max({n} \cup S) \in Nat
  <1>1. IsFiniteSet({n} \cup S) /\ {n} \cup S \subseteq Int /\ {n} \cup S # {}
    <2>1. IsFiniteSet(S \cup {n})
      BY FS_AddElement
    <2>2. {n} \cup S = S \cup {n} /\ n \in {n} \cup S
      OBVIOUS
    <2> QED
      BY <2>1, <2>2
  <1>2. Max({n} \cup S) \in {n} \cup S
    BY <1>1, MaxExists
  <1> QED
    BY <1>2

LEMMA IncreaseTyped ==
    ASSUME NEW y \in Zones, NEW h \in Group, NEW a, a.type = "increase", IsSimple(a)
    PROVE  Max({y.incDelta} \cup Increases(y, h, a)) \in Nat
  <1> DEFINE T == {v \in Values(y, h) : v >= a.state}
             f == [v \in T |-> (Max({v - a.state, a.factor}) \div a.factor) * a.delta]
  <1>1. a.state \in Nat /\ a.factor \in Nat \ {0} /\ a.delta \in Nat /\ y.incDelta \in Nat
    BY DEF IsSimple, Zones
  <1>2. IsFiniteSet(T) /\ T \subseteq Nat
    BY KnownFinite, FS_Subset, LegacyActionsAssumption
  <1>3. \A v \in T : v - a.state \in Nat
    BY <1>1, <1>2
  <1>4. ASSUME NEW v \in T
        PROVE  f[v] \in Nat
    <2>1. Max({v - a.state, a.factor}) \in Nat
      <3>1. \E m \in {v - a.state, a.factor} : \A n \in {v - a.state, a.factor} : m >= n
        BY <1>1, <1>3
      <3> QED
        BY <1>1, <1>3, <3>1 DEF Max
    <2> QED
      BY <1>1, <2>1, DivNat, TimesNat
  <1>5. Increases(y, h, a) = {f[v] : v \in T}
    BY DEF Increases
  <1> HIDE DEF f, T
  <1>6. IsFiniteSet(Increases(y, h, a)) /\ Increases(y, h, a) \subseteq Nat
    BY <1>2, <1>4, <1>5, ImageFinite
  <1> QED
    BY <1>1, <1>6, MaxNat

-----------------------------------------------------------------------------
(* The actions                                                             *)

LEMMA HoldSteps ==
    ASSUME NEW y \in Zones, NEW h \in Group, NEW speed \in Nat, NEW hold \in BOOLEAN,
           NEW G, Elsewhere(h, G)
    PROVE  SetActiveAllow(IF hold THEN SetSpeed(y, speed) ELSE y, h, ~hold) \in Steps(y, G, {})
  <1> DEFINE x == IF hold THEN SetSpeed(y, speed) ELSE y
  <1>1. x \in Steps(y, G, {})
    BY SetSpeedSteps, StepsRefl
  <1> HIDE DEF x
  <1>2. x \in Zones
    BY <1>1, StepsZones
  <1>3. SetActiveAllow(x, h, ~hold) \in Steps(x, G, {})
    BY <1>2, AllowSteps
  <1> QED
    BY <1>1, <1>3, StepsTrans DEF x

LEMMA DefaultFloorSteps ==
    ASSUME NEW y \in Zones, NEW h \in Group, NEW G
    PROVE  DefaultFloorOnMissingOwner(y, h) \in Steps(y, G, {})
  <1> DEFINE u == LookUp(y, Range(h))
             f == SetFloor(u, u.defFloor)
             d == [f EXCEPT !.defaulted = TRUE]
             x == IF MissingOwner(u, h) THEN d ELSE u
             w == [x EXCEPT !.floorFixed = Allow(@, h, ~MissingOwner(u, h))]
  <1>1. DefaultFloorOnMissingOwner(y, h) = w
    BY DEF DefaultFloorOnMissingOwner
  <1>2. u \in Steps(y, G, {})
    BY LookUpSteps
  <1>3. u \in Zones /\ u.defFloor \in Nat
    BY <1>2, StepsZones DEF Zones
  <1> HIDE DEF u
  <1>4. f \in Steps(u, G, {})
    BY <1>3, SetFloorSteps
  <1> HIDE DEF f
  <1>5. f \in Zones
    BY <1>4, StepsZones
  <1>6. /\ d \in Zones /\ d.props = f.props /\ d.holding = f.holding
        /\ d.target = f.target /\ d.enabled = f.enabled /\ d.matched = f.matched
    BY <1>5 DEF Zones
  <1> HIDE DEF d
  <1>7. x \in Steps(y, G, {})
    BY <1>2, <1>4, <1>5, <1>6, SameSteps, StepsTrans
  <1> HIDE DEF x
  <1>8. x \in Zones
    BY <1>7, StepsZones
  <1>9. /\ w \in Zones /\ w.props = x.props /\ w.holding = x.holding
        /\ w.target = x.target /\ w.enabled = x.enabled /\ w.matched = x.matched
    BY <1>8 DEF Zones, Allow
  <1> HIDE DEF w
  <1> QED
    BY <1>1, <1>7, <1>8, <1>9, SameSteps, StepsTrans

LEMMA CeilingSteps ==
    ASSUME NEW y \in Zones, NEW h \in Group, NEW a, a.type = "ceiling", IsSimple(a), NEW G
    PROVE  SetCeilingFromAverage(y, h, a) \in Steps(y, G, {})
  <1> DEFINE avg == Average(y, h)
             ceil == CeilingFor(a.speeds, avg, y.ceilingKey, y.ceiling)
             x == [y EXCEPT !.ceiling = ceil, !.ceilingKey = avg]
  <1>1. CASE Known(y, h) = {}
    BY <1>1, StepsRefl DEF SetCeilingFromAverage
  <1>2. CASE Known(y, h) # {}
    <2>1. avg \in Nat
      BY <1>2, AverageTyped
    <2> HIDE DEF avg
    <2>2. y.ceilingKey \in Nat /\ y.ceiling \in Nat
      BY DEF Zones
    <2>3. ceil \in Nat
      BY <2>1, <2>2, CeilingTyped DEF IsSimple
    <2>4. SetCeilingFromAverage(y, h, a) = x
      BY <1>2 DEF SetCeilingFromAverage, avg
    <2> HIDE DEF ceil
    <2>5. /\ x \in Zones /\ x.props = y.props /\ x.holding = y.holding
          /\ x.target = y.target /\ x.enabled = y.enabled /\ x.matched = y.matched
      BY <2>1, <2>3 DEF Zones
    <2> HIDE DEF x
    <2> QED
      BY <2>4, <2>5, SameSteps
  <1> QED
    BY <1>1, <1>2

LEMMA NetDecreaseSteps ==
    ASSUME NEW y \in Zones, NEW h \in Group, NEW a, a.type = "decrease", IsSimple(a), NEW G
    PROVE  SetNetDecreaseSpeed(y, h, a) \in Steps(y, G, {})
  <1> DEFINE net == NetDecrease(y, h, a)
             x == [y EXCEPT !.noDecrease = Allow(@, h, net # 0)]
  <1>1. net \in Nat
    BY NetDecreaseTyped
  <1>2. SetNetDecreaseSpeed(y, h, a) = RequestSpeedDecrease(x, net)
    BY DEF SetNetDecreaseSpeed
  <1> HIDE DEF net
  <1>3. /\ x \in Zones /\ x.props = y.props /\ x.holding = y.holding
        /\ x.target = y.target /\ x.enabled = y.enabled /\ x.matched = y.matched
    BY DEF Zones, Allow
  <1> HIDE DEF x
  <1>4. RequestSpeedDecrease(x, net) \in Steps(x, G, {})
    BY <1>1, <1>3, DecreaseSteps
  <1>5. x \in Steps(y, G, {})
    BY <1>3, SameSteps
  <1> QED
    BY <1>2, <1>4, <1>5, StepsTrans

LEMMA BaseSteps ==
    ASSUME NEW y \in Zones, NEW h \in Group, NEW G
    PROVE  SetRequestSpeedBaseWithMax(y, h) \in Steps(y, G, {})
  <1> DEFINE base == Max({0} \cup Values(y, h))
             x == [y EXCEPT !.base = base]
  <1>1. base \in Nat
    <2>1. IsFiniteSet(Values(y, h)) /\ Values(y, h) \in SUBSET Nat
      BY KnownFinite, LegacyActionsAssumption
    <2> QED
      BY <2>1, MaxNat
  <1>2. SetRequestSpeedBaseWithMax(y, h) = x
    BY DEF SetRequestSpeedBaseWithMax
  <1> HIDE DEF base
  <1>3. /\ x \in Zones /\ x.props = y.props /\ x.holding = y.holding
        /\ x.target = y.target /\ x.enabled = y.enabled /\ x.matched = y.matched
    BY <1>1 DEF Zones
  <1> HIDE DEF x
  <1> QED
    BY <1>2, <1>3, SameSteps

LEMMA UpdateFloorSteps ==
    ASSUME NEW y \in Zones, NEW h, NEW a, a.type = "update_floor", IsSimple(a), NEW G
    PROVE  UpdateDefaultFloor(y, h, a) \in Steps(y, G, {})
  <1> DEFINE x == [y EXCEPT !.defFloor = a.speed]
  <1>1. UpdateDefaultFloor(y, h, a) \in {x, y}
    BY DEF UpdateDefaultFloor
  <1>2. a.speed \in Nat
    BY DEF IsSimple
  <1>3. /\ x \in Zones /\ x.props = y.props /\ x.holding = y.holding
        /\ x.target = y.target /\ x.enabled = y.enabled /\ x.matched = y.matched
    BY <1>2 DEF Zones
  <1> HIDE DEF x
  <1> QED
    BY <1>1, <1>3, SameSteps, StepsRefl

LEMMA SimpleSteps ==
    ASSUME NEW y \in Zones, NEW h \in Group, NEW a, IsSimple(a), NEW G, Elsewhere(h, G)
    PROVE  Act(y, h, a) \in Steps(y, G, {})
  <1>1. CASE a.type = "count_state"
    <2> DEFINE reached == Cardinality({k \in DOMAIN h : y.props[h[k]] = a.state}) >= a.count
    <2>1. Act(y, h, a) = SetActiveAllow(IF reached THEN SetSpeed(y, a.speed) ELSE y, h, ~reached)
      BY <1>1 DEF Act, CountStateBeforeSpeed
    <2>2. a.speed \in Nat /\ reached \in BOOLEAN
      BY <1>1 DEF IsSimple
    <2> HIDE DEF reached
    <2> QED
      BY <2>1, <2>2, HoldSteps
  <1>2. CASE a.type = "missing_owner"
    <2> DEFINE x == LookUp(y, Range(h))
               hold == MissingOwner(x, h)
    <2>1. Act(y, h, a) = SetActiveAllow(IF hold THEN SetSpeed(x, a.speed) ELSE x, h, ~hold)
      BY <1>2 DEF Act, SetSpeedOnMissingOwner
    <2>2. a.speed \in Nat /\ hold \in BOOLEAN
      BY <1>2 DEF IsSimple, MissingOwner
    <2> HIDE DEF hold
    <2>3. x \in Steps(y, G, {})
      BY LookUpSteps
    <2> HIDE DEF x
    <2>4. x \in Zones
      BY <2>3, StepsZones
    <2>5. SetActiveAllow(IF hold THEN SetSpeed(x, a.speed) ELSE x, h, ~hold) \in Steps(x, G, {})
      BY <2>2, <2>4, HoldSteps
    <2> QED
      BY <2>1, <2>3, <2>5, StepsTrans
  <1>3. CASE a.type = "default_floor"
    BY <1>3, DefaultFloorSteps DEF Act
  <1>4. CASE a.type = "floor_average"
    <2>1. Act(y, h, a) = SetFloorFromAverage(y, h, a) /\ a.speeds \in Seq(Nat \X Nat)
      BY <1>4 DEF Act, IsSimple
    <2> QED
      BY <2>1, FloorForTyped, FloorByValueSteps DEF SetFloorFromAverage
  <1>5. CASE a.type = "floor_median"
    <2>1. Act(y, h, a) = SetFloorFromMedian(y, h, a) /\ a.speeds \in Seq(Nat \X Nat)
      BY <1>5 DEF Act, IsSimple
    <2> QED
      BY <2>1, FloorForTyped, FloorByValueSteps DEF SetFloorFromMedian
  <1>6. CASE a.type = "ceiling"
    BY <1>6, CeilingSteps DEF Act
  <1>7. CASE a.type = "increase"
    <2>1. Act(y, h, a) = RequestSpeedIncrease(y, Max({y.incDelta} \cup Increases(y, h, a)))
      BY <1>7 DEF Act, SetNetIncreaseSpeed
    <2> QED
      BY <1>7, <2>1, IncreaseTyped, IncreaseSteps
  <1>8. CASE a.type = "decrease"
    BY <1>8, NetDecreaseSteps DEF Act
  <1>9. CASE a.type = "base"
    BY <1>9, BaseSteps DEF Act
  <1>10. CASE a.type = "update_floor"
    BY <1>10, UpdateFloorSteps DEF Act
  <1> QED
    BY <1>1, <1>2, <1>3, <1>4, <1>5, <1>6, <1>7, <1>8, <1>9, <1>10 DEF IsSimple

LEMMA TimerSteps ==
    ASSUME NEW y \in Zones, NEW p \in Part, NEW a \in Range(p.actions), IsTimer(a), NEW G
    PROVE  CallActionsBasedOnTimer(y, p.group, a) \in Steps(y, G, {})
  <1> DEFINE same == FindTimer(y, p.group, a)
             new == [group |-> p.group, actions |-> a.actions, oneshot |-> a.oneshot, armed |-> TRUE]
             timed == IF same = {} THEN y.timed \cup {new} ELSE y.timed \ same
             x == [y EXCEPT !.timed = timed]
  <1>1. new \in Timer
    <2>1. p \in TimerPart /\ a.actions \in TimerActions
      BY DEF TimerPart, TimerActions
    <2> QED
      BY <2>1 DEF Timer, IsTimer
  <1>2. CallActionsBasedOnTimer(y, p.group, a) = x
    BY DEF CallActionsBasedOnTimer
  <1> HIDE DEF same, new
  <1>3. timed \in SUBSET Timer
    BY <1>1 DEF Zones
  <1> HIDE DEF timed
  <1>4. /\ x \in Zones /\ x.props = y.props /\ x.holding = y.holding
        /\ x.target = y.target /\ x.enabled = y.enabled /\ x.matched = y.matched
    BY <1>3 DEF Zones
  <1> HIDE DEF x
  <1> QED
    BY <1>2, <1>4, SameSteps

LEMMA PlainSteps ==
    ASSUME NEW y \in Zones, NEW p \in Part, NEW a \in Range(p.actions), IsPlain(a),
           NEW G, Elsewhere(p.group, G)
    PROVE  Act(y, p.group, a) \in Steps(y, G, {})
  <1>1. CASE IsSimple(a)
    BY <1>1, SimpleSteps DEF Group
  <1>2. CASE IsTimer(a)
    <2>1. Act(y, p.group, a) = CallActionsBasedOnTimer(y, p.group, a)
      BY <1>2 DEF Act, IsTimer
    <2> QED
      BY <1>2, <2>1, TimerSteps
  <1> QED
    BY <1>1, <1>2 DEF IsPlain

LEMMA PartsTyped ==
    /\ \A p \in Part : IsPart(p) /\ p.group \in Group /\ p.group \in Seq(Member)
                       /\ p.actions \in Seq(Range(p.actions))
    /\ \A e \in Event : Def[e].parts \in Seq(Part) /\ Range(Def[e].parts) \subseteq Part
  <1>1. \A e \in Event : Def[e].parts \in Seq(Range(Def[e].parts)) /\ Range(Def[e].parts) \subseteq Part
    BY LegacyActionsAssumption DEF Part
  <1>2. \A e \in Event : Def[e].parts \in Seq(Part)
    BY <1>1
  <1>3. \A p \in Part : IsPart(p)
    BY LegacyActionsAssumption DEF Part
  <1> QED
    BY <1>1, <1>2, <1>3 DEF IsPart, Group

-----------------------------------------------------------------------------
(* Folds over actions and members                                          *)

LEMMA ActAllSteps ==
    ASSUME NEW y \in Zones, NEW p \in Part, \A a \in Range(p.actions) : IsPlain(a),
           NEW G, Elsewhere(p.group, G)
    PROVE  ActAll(y, p.group, p.actions) \in Steps(y, G, {})
  <1> DEFINE S == DOMAIN p.actions
             X == Steps(y, G, {})
             step == [k \in S |-> [f \in X |-> Act(f, p.group, p.actions[k])]]
             Is(h) == h = [s \in SUBSET S |-> IF s = {} THEN y
                           ELSE Act(h[s \ {Max(s)}], p.group, p.actions[Max(s)])]
             fold == CHOOSE h : Is(h)
  <1>1. ASSUME NEW k \in S, NEW f \in X
        PROVE  Act(f, p.group, p.actions[k]) \in X
    <2>1. f \in Zones /\ p.actions[k] \in Range(p.actions)
      BY StepsZones DEF Range
    <2>2. Act(f, p.group, p.actions[k]) \in Steps(f, G, {})
      BY <2>1, PlainSteps
    <2> QED
      BY <2>2, StepsTrans
  <1>2. y \in X
    BY StepsRefl
  <1>3. p.actions \in Seq(Range(p.actions))
    BY PartsTyped
  <1>4. \A s \in SUBSET S : s # {} => Max(s) \in S
    BY <1>3, RangeFinite, MaxExists, FS_Subset
  <1> HIDE DEF X
  <1>5. \E h : Is(h)
    <2>1. Closed(step, S, X)
      BY <1>1 DEF Closed
    <2>2. PICK h : IsFold(h, S, X, y, LastOf(S), step)
      <3> HIDE DEF step
      <3> QED
        BY <1>2, <1>3, <2>1, LeftFoldExists
    <2>3. \A s \in SUBSET S : s # {} => h[s \ {Max(s)}] \in X
      BY <2>2 DEF IsFold
    <2>4. Is(h)
      BY <1>4, <2>2, <2>3 DEF IsFold, LastOf
    <2> QED
      BY <2>4
  <1>6. Is(fold)
    BY <1>5
  <1>7. ActAll(y, p.group, p.actions) = fold[S]
    BY DEF ActAll, FoldLeft, MapThenFoldSet
  <1> HIDE DEF fold
  <1>8. ASSUME NEW s \in SUBSET S, s # {} /\ fold[s \ {Max(s)}] \in X
        PROVE  fold[s] \in X
    <2>1. fold[s] = Act(fold[s \ {Max(s)}], p.group, p.actions[Max(s)])
      BY <1>6, <1>8
    <2> QED
      BY <1>1, <1>4, <1>8, <2>1
  <1>9. fold[{}] \in X
    BY <1>2, <1>6
  <1>10. fold[S] \in X
    BY <1>3, <1>8, <1>9, LeftFoldIn
  <1> QED
    BY <1>7, <1>10 DEF X

\* What the cache is filled with, and the handlers of signals.
BusOK == bus \in [Member -> Value \cup {NoValue}]

LEMMA CachedSteps ==
    ASSUME NEW y \in Zones, NEW m \in Member, NEW v \in Value \cup {NoValue},
           NEW G, \A g \in G : m \notin Range(g)
    PROVE  Cached(y, m, v) \in Steps(y, G, {})
  <1> DEFINE props == [y.props EXCEPT ![m] = v]
             x == [y EXCEPT !.props = props]
  <1>1. y.props \in [Member -> Value \cup {NoValue}]
    BY DEF Zones
  <1>2. props \in [Member -> Value \cup {NoValue}] /\ \A n : n # m => props[n] = y.props[n]
    BY <1>1
  <1>3. Cached(y, m, v) = x
    BY DEF Cached
  <1> HIDE DEF props
  <1>4. /\ x \in Zones /\ x.props = props /\ x.holding = y.holding
        /\ x.target = y.target /\ x.enabled = y.enabled /\ x.matched = y.matched
    BY <1>2 DEF Zones
  <1> HIDE DEF x
  <1> QED
    BY <1>2, <1>3, <1>4 DEF Steps, Kept

LEMMA PropertySteps ==
    ASSUME NEW y \in Zones, NEW m \in Member, NEW G, \A g \in G : m \notin Range(g), BusOK
    PROVE  PropertyByName(y, m) \in Steps(y, G, {})
  <1> DEFINE x == LookUp(y, {m})
  <1>1. PropertyByName(y, m) = IF bus[m] = NoValue THEN x ELSE Cached(x, m, bus[m])
    BY DEF PropertyByName
  <1>2. x \in Steps(y, G, {})
    BY LookUpSteps
  <1> HIDE DEF x
  <1>3. x \in Zones /\ bus[m] \in Value \cup {NoValue}
    BY <1>2, StepsZones DEF BusOK
  <1>4. Cached(x, m, bus[m]) \in Steps(x, G, {})
    BY <1>3, CachedSteps
  <1> QED
    BY <1>1, <1>2, <1>4, StepsTrans

LEMMA GetPropertiesSteps ==
    ASSUME NEW y \in Zones, NEW g \in Group, NEW G, Elsewhere(g, G), BusOK
    PROVE  GetProperties(y, g) \in Steps(y, G, {})
  <1> DEFINE S == DOMAIN g
             X == Steps(y, G, {})
             step == [k \in S |-> [f \in X |-> PropertyByName(f, g[k])]]
             Is(h) == h = [s \in SUBSET S |-> IF s = {} THEN y
                           ELSE PropertyByName(h[s \ {Max(s)}], g[Max(s)])]
             fold == CHOOSE h : Is(h)
  <1>1. ASSUME NEW k \in S, NEW f \in X
        PROVE  PropertyByName(f, g[k]) \in X
    <2>1. f \in Zones /\ g[k] \in Range(g) /\ g[k] \in Member
      BY StepsZones, GroupsAreSequences DEF Range
    <2>2. \A i \in G : g[k] \notin Range(i)
      BY <2>1 DEF Elsewhere
    <2>3. PropertyByName(f, g[k]) \in Steps(f, G, {})
      BY <2>1, <2>2, PropertySteps
    <2> QED
      BY <2>3, StepsTrans
  <1>2. y \in X
    BY StepsRefl
  <1>3. g \in Seq(Member)
    BY GroupsAreSequences
  <1>4. \A s \in SUBSET S : s # {} => Max(s) \in S
    BY <1>3, RangeFinite, MaxExists, FS_Subset
  <1> HIDE DEF X
  <1>5. \E h : Is(h)
    <2>1. Closed(step, S, X)
      BY <1>1 DEF Closed
    <2>2. PICK h : IsFold(h, S, X, y, LastOf(S), step)
      <3> HIDE DEF step
      <3> QED
        BY <1>2, <1>3, <2>1, LeftFoldExists
    <2>3. \A s \in SUBSET S : s # {} => h[s \ {Max(s)}] \in X
      BY <2>2 DEF IsFold
    <2>4. Is(h)
      BY <1>4, <2>2, <2>3 DEF IsFold, LastOf
    <2> QED
      BY <2>4
  <1>6. Is(fold)
    BY <1>5
  <1>7. GetProperties(y, g) = fold[S]
    BY DEF GetProperties, FoldLeft, MapThenFoldSet
  <1> HIDE DEF fold
  <1>8. ASSUME NEW s \in SUBSET S, s # {} /\ fold[s \ {Max(s)}] \in X
        PROVE  fold[s] \in X
    <2>1. fold[s] = PropertyByName(fold[s \ {Max(s)}], g[Max(s)])
      BY <1>6, <1>8
    <2> QED
      BY <1>1, <1>4, <1>8, <2>1
  <1>9. fold[{}] \in X
    BY <1>2, <1>6
  <1>10. fold[S] \in X
    BY <1>3, <1>8, <1>9, LeftFoldIn
  <1> QED
    BY <1>7, <1>10 DEF X

-----------------------------------------------------------------------------
(* Enabling and disabling events                                           *)

\* No part of the event is for a group of G.
Apart(e, G) == \A p \in Range(Def[e].parts) : Elsewhere(p.group, G)

LEMMA InitPartSteps ==
    ASSUME NEW y \in Zones, BusOK, NEW p \in Part, \A a \in Range(p.actions) : IsPlain(a),
           NEW G, Elsewhere(p.group, G)
    PROVE  InitPart(y, p) \in Steps(y, G, {})
  <1> DEFINE x == GetProperties(y, p.group)
  <1>1. x \in Steps(y, G, {})
    BY PartsTyped, GetPropertiesSteps
  <1> HIDE DEF x
  <1>2. ActAll(x, p.group, p.actions) \in Steps(x, G, {})
    BY <1>1, StepsZones, ActAllSteps
  <1> QED
    BY <1>1, <1>2, StepsTrans DEF InitPart, x

LEMMA InitPartsSteps ==
    ASSUME NEW y \in Zones, BusOK, NEW e \in PlainEvent, NEW G, Apart(e, G)
    PROVE  FoldLeft(InitPart, y, Def[e].parts) \in Steps(y, G, {})
  <1> DEFINE S == DOMAIN Def[e].parts
             X == Steps(y, G, {})
             step == [k \in S |-> [f \in X |-> InitPart(f, Def[e].parts[k])]]
             Is(h) == h = [s \in SUBSET S |-> IF s = {} THEN y
                           ELSE InitPart(h[s \ {Max(s)}], Def[e].parts[Max(s)])]
             fold == CHOOSE h : Is(h)
  <1>1. ASSUME NEW k \in S, NEW f \in X
        PROVE  InitPart(f, Def[e].parts[k]) \in X
    <2>1. f \in Zones /\ Def[e].parts[k] \in Range(Def[e].parts)
      BY StepsZones DEF Range
    <2>2. /\ Def[e].parts[k] \in Part /\ Elsewhere(Def[e].parts[k].group, G)
          /\ \A a \in Range(Def[e].parts[k].actions) : IsPlain(a)
      BY <2>1 DEF Apart, PlainEvent, Part
    <2>3. InitPart(f, Def[e].parts[k]) \in Steps(f, G, {})
      BY <2>1, <2>2, InitPartSteps
    <2> QED
      BY <2>3, StepsTrans
  <1>2. y \in X
    BY StepsRefl
  <1>3. Def[e].parts \in Seq(Part)
    BY PartsTyped DEF PlainEvent
  <1>4. \A s \in SUBSET S : s # {} => Max(s) \in S
    BY <1>3, RangeFinite, MaxExists, FS_Subset
  <1> HIDE DEF X
  <1>5. \E h : Is(h)
    <2>1. Closed(step, S, X)
      BY <1>1 DEF Closed
    <2>2. PICK h : IsFold(h, S, X, y, LastOf(S), step)
      <3> HIDE DEF step
      <3> QED
        BY <1>2, <1>3, <2>1, LeftFoldExists
    <2>3. \A s \in SUBSET S : s # {} => h[s \ {Max(s)}] \in X
      BY <2>2 DEF IsFold
    <2>4. Is(h)
      BY <1>4, <2>2, <2>3 DEF IsFold, LastOf
    <2> QED
      BY <2>4
  <1>6. Is(fold)
    BY <1>5
  <1>7. FoldLeft(InitPart, y, Def[e].parts) = fold[S]
    BY DEF FoldLeft, MapThenFoldSet
  <1> HIDE DEF fold
  <1>8. ASSUME NEW s \in SUBSET S, s # {} /\ fold[s \ {Max(s)}] \in X
        PROVE  fold[s] \in X
    <2>1. fold[s] = InitPart(fold[s \ {Max(s)}], Def[e].parts[Max(s)])
      BY <1>6, <1>8
    <2> QED
      BY <1>1, <1>4, <1>8, <2>1
  <1>9. fold[{}] \in X
    BY <1>2, <1>6
  <1>10. fold[S] \in X
    BY <1>3, <1>8, <1>9, LeftFoldIn
  <1> QED
    BY <1>7, <1>10 DEF X

LEMMA SubscribedSteps ==
    ASSUME NEW y \in Zones, NEW e \in Event, NEW G
    PROVE  /\ SubscribedTo(y, e) \in Steps(y, G, {e})
           /\ SubscribedTo(y, e).enabled[e] > 0
           /\ SubscribedTo(y, e).props = y.props
           /\ SubscribedTo(y, e).holding = y.holding
           /\ SubscribedTo(y, e).target = y.target
  <1> DEFINE enabled == [y.enabled EXCEPT ![e] = @ + 1]
             x == [y EXCEPT !.enabled = enabled]
  <1>1. y.enabled \in [Event -> Nat]
    BY DEF Zones
  <1>2. /\ enabled \in [Event -> Nat] /\ enabled[e] > 0
        /\ \A n \in Event \ {e} : enabled[n] = y.enabled[n]
    BY <1>1
  <1>3. SubscribedTo(y, e) = x
    BY DEF SubscribedTo
  <1> HIDE DEF enabled
  <1>4. /\ x \in Zones /\ x.props = y.props /\ x.holding = y.holding
        /\ x.target = y.target /\ x.enabled = enabled /\ x.matched = y.matched
    BY <1>2 DEF Zones
  <1> HIDE DEF x
  <1> QED
    BY <1>2, <1>3, <1>4 DEF Steps, Kept

LEMMA InitEventSteps ==
    ASSUME NEW y \in Zones, BusOK, NEW e \in PlainEvent, NEW G, Apart(e, G)
    PROVE  InitEvent(y, e) \in Steps(y, G, {e}) /\ InitEvent(y, e).enabled[e] > 0
  <1> DEFINE x == IF Inits(e) THEN FoldLeft(InitPart, y, Def[e].parts) ELSE y
  <1>1. x \in Steps(y, G, {})
    BY InitPartsSteps, StepsRefl
  <1>2. InitEvent(y, e) = SubscribedTo(x, e)
    BY DEF InitEvent
  <1> HIDE DEF x
  <1>3. x \in Zones /\ x \in Steps(y, G, {e})
    BY <1>1, StepsZones, StepsMore
  <1>4. e \in Event
    BY DEF PlainEvent
  <1>5. SubscribedTo(x, e) \in Steps(x, G, {e}) /\ SubscribedTo(x, e).enabled[e] > 0
    BY <1>3, <1>4, SubscribedSteps
  <1> QED
    BY <1>2, <1>3, <1>5, StepsTrans

LEMMA RemoveEventSteps ==
    ASSUME NEW y \in Zones, NEW e \in Event, NEW G
    PROVE  RemoveEvent(y, e) \in Steps(y, G, {e}) /\ RemoveEvent(y, e).enabled[e] = 0
  <1> DEFINE enabled == [y.enabled EXCEPT ![e] = 0]
             x == [y EXCEPT !.enabled = enabled]
  <1>1. y.enabled \in [Event -> Nat]
    BY DEF Zones
  <1>2. /\ enabled \in [Event -> Nat] /\ enabled[e] = 0
        /\ \A n \in Event \ {e} : enabled[n] = y.enabled[n]
    BY <1>1
  <1>3. RemoveEvent(y, e) = x
    BY DEF RemoveEvent
  <1> HIDE DEF enabled
  <1>4. /\ x \in Zones /\ x.props = y.props /\ x.holding = y.holding
        /\ x.target = y.target /\ x.enabled = enabled /\ x.matched = y.matched
    BY <1>2 DEF Zones
  <1> HIDE DEF x
  <1> QED
    BY <1>2, <1>3, <1>4 DEF Steps, Kept

LEMMA InitEventsSteps ==
    ASSUME NEW y \in Zones, BusOK, NEW q \in Seq(PlainEvent), NEW G,
           \A e \in Range(q) : Apart(e, G)
    PROVE  /\ InitEvents(y, q) \in Steps(y, G, Range(q))
           /\ \A n \in Range(q) : InitEvents(y, q).enabled[n] > 0
  <1> DEFINE S == DOMAIN q
             X == Steps(y, G, Range(q))
             step == [k \in S |-> [f \in X |-> InitEvent(f, q[k])]]
             Is(h) == h = [s \in SUBSET S |-> IF s = {} THEN y
                           ELSE InitEvent(h[s \ {Max(s)}], q[Max(s)])]
             fold == CHOOSE h : Is(h)
  <1>1. ASSUME NEW k \in S, NEW f \in X
        PROVE  InitEvent(f, q[k]) \in X
    <2>1. f \in Zones /\ q[k] \in Range(q) /\ q[k] \in PlainEvent
      BY StepsZones DEF Range
    <2>2. InitEvent(f, q[k]) \in Steps(f, G, {q[k]})
      BY <2>1, InitEventSteps
    <2>3. InitEvent(f, q[k]) \in Steps(f, G, Range(q))
      BY <2>1, <2>2, StepsMore
    <2> QED
      BY <2>3, StepsTrans
  <1>2. y \in X
    BY StepsRefl
  <1>3. q \in Seq(PlainEvent)
    OBVIOUS
  <1>4. \A s \in SUBSET S : s # {} => Max(s) \in S
    BY <1>3, RangeFinite, MaxExists, FS_Subset
  <1> HIDE DEF X
  <1>5. \E h : Is(h)
    <2>1. Closed(step, S, X)
      BY <1>1 DEF Closed
    <2>2. PICK h : IsFold(h, S, X, y, LastOf(S), step)
      <3> HIDE DEF step
      <3> QED
        BY <1>2, <1>3, <2>1, LeftFoldExists
    <2>3. \A s \in SUBSET S : s # {} => h[s \ {Max(s)}] \in X
      BY <2>2 DEF IsFold
    <2>4. Is(h)
      BY <1>4, <2>2, <2>3 DEF IsFold, LastOf
    <2> QED
      BY <2>4
  <1>6. Is(fold)
    BY <1>5
  <1>7. InitEvents(y, q) = fold[S]
    BY DEF InitEvents, FoldLeft, MapThenFoldSet
  <1> HIDE DEF fold
  <1> DEFINE P == {s \in SUBSET S : fold[s] \in X /\ \A k \in s : fold[s].enabled[q[k]] > 0}
  <1>8. ASSUME NEW s \in SUBSET S, s # {} /\ s \ {Max(s)} \in P
        PROVE  s \in P
    <2> DEFINE m == Max(s)
               f == fold[s \ {m}]
               e == q[m]
    <2>1. m \in S /\ e \in PlainEvent /\ e \in Range(q)
      BY <1>3, <1>4, <1>8 DEF Range
    <2>2. f \in X /\ \A k \in s \ {m} : f.enabled[q[k]] > 0
      BY <1>8
    <2>3. fold[s] = InitEvent(f, e)
      BY <1>6, <1>8
    <2>4. fold[s] \in X
      BY <1>1, <2>1, <2>2, <2>3
    <2>5. f \in Zones
      BY <2>2, StepsZones DEF X
    <2> HIDE DEF f
    <2>6. \A k \in s : q[k] \in Event
      BY <1>3 DEF PlainEvent
    <2> HIDE DEF e
    <2>7. fold[s] \in Steps(f, G, {e}) /\ fold[s].enabled[e] > 0
      BY <2>1, <2>3, <2>5, InitEventSteps
    <2>8. \A n \in Event \ {e} : fold[s].enabled[n] = f.enabled[n]
      BY <2>7 DEF Steps
    <2>9. \A k \in s : k = m \/ k \in s \ {m}
      OBVIOUS
    <2> HIDE DEF m, fold
    <2>10. \A k \in s : fold[s].enabled[q[k]] > 0
      BY <2>2, <2>6, <2>7, <2>8, <2>9 DEF e
    <2> QED
      BY <2>4, <2>10
  <1>9. {} \in P
    BY <1>2, <1>6
  <1>10. S \in P
    <2> HIDE DEF P
    <2> QED
      BY <1>3, <1>8, <1>9, LeftInduction
  <1> QED
    BY <1>7, <1>10 DEF X, Range

LEMMA RemoveEventsSteps ==
    ASSUME NEW y \in Zones, NEW q \in Seq(PlainEvent), NEW G
    PROVE  /\ RemoveEvents(y, q) \in Steps(y, G, Range(q))
           /\ \A n \in Range(q) : RemoveEvents(y, q).enabled[n] = 0
  <1> DEFINE S == DOMAIN q
             X == Steps(y, G, Range(q))
             step == [k \in S |-> [f \in X |-> RemoveEvent(f, q[k])]]
             Is(h) == h = [s \in SUBSET S |-> IF s = {} THEN y
                           ELSE RemoveEvent(h[s \ {Max(s)}], q[Max(s)])]
             fold == CHOOSE h : Is(h)
  <1>1. ASSUME NEW k \in S, NEW f \in X
        PROVE  RemoveEvent(f, q[k]) \in X
    <2>1. f \in Zones /\ q[k] \in Range(q) /\ q[k] \in PlainEvent
      BY StepsZones DEF Range
    <2>2. RemoveEvent(f, q[k]) \in Steps(f, G, {q[k]})
      BY <2>1, RemoveEventSteps DEF PlainEvent
    <2>3. RemoveEvent(f, q[k]) \in Steps(f, G, Range(q))
      BY <2>1, <2>2, StepsMore
    <2> QED
      BY <2>3, StepsTrans
  <1>2. y \in X
    BY StepsRefl
  <1>3. q \in Seq(PlainEvent)
    OBVIOUS
  <1>4. \A s \in SUBSET S : s # {} => Max(s) \in S
    BY <1>3, RangeFinite, MaxExists, FS_Subset
  <1> HIDE DEF X
  <1>5. \E h : Is(h)
    <2>1. Closed(step, S, X)
      BY <1>1 DEF Closed
    <2>2. PICK h : IsFold(h, S, X, y, LastOf(S), step)
      <3> HIDE DEF step
      <3> QED
        BY <1>2, <1>3, <2>1, LeftFoldExists
    <2>3. \A s \in SUBSET S : s # {} => h[s \ {Max(s)}] \in X
      BY <2>2 DEF IsFold
    <2>4. Is(h)
      BY <1>4, <2>2, <2>3 DEF IsFold, LastOf
    <2> QED
      BY <2>4
  <1>6. Is(fold)
    BY <1>5
  <1>7. RemoveEvents(y, q) = fold[S]
    BY DEF RemoveEvents, FoldLeft, MapThenFoldSet
  <1> HIDE DEF fold
  <1> DEFINE P == {s \in SUBSET S : fold[s] \in X /\ \A k \in s : fold[s].enabled[q[k]] = 0}
  <1>8. ASSUME NEW s \in SUBSET S, s # {} /\ s \ {Max(s)} \in P
        PROVE  s \in P
    <2> DEFINE m == Max(s)
               f == fold[s \ {m}]
               e == q[m]
    <2>1. m \in S /\ e \in PlainEvent /\ e \in Range(q)
      BY <1>3, <1>4, <1>8 DEF Range
    <2>2. f \in X /\ \A k \in s \ {m} : f.enabled[q[k]] = 0
      BY <1>8
    <2>3. fold[s] = RemoveEvent(f, e)
      BY <1>6, <1>8
    <2>4. fold[s] \in X
      BY <1>1, <2>1, <2>2, <2>3
    <2>5. f \in Zones
      BY <2>2, StepsZones DEF X
    <2> HIDE DEF f
    <2>6. \A k \in s : q[k] \in Event
      BY <1>3 DEF PlainEvent
    <2> HIDE DEF e
    <2>7. fold[s] \in Steps(f, G, {e}) /\ fold[s].enabled[e] = 0
      BY <2>1, <2>3, <2>5, RemoveEventSteps DEF PlainEvent
    <2>8. \A n \in Event \ {e} : fold[s].enabled[n] = f.enabled[n]
      BY <2>7 DEF Steps
    <2>9. \A k \in s : k = m \/ k \in s \ {m}
      OBVIOUS
    <2> HIDE DEF m, fold
    <2>10. \A k \in s : fold[s].enabled[q[k]] = 0
      BY <2>2, <2>6, <2>7, <2>8, <2>9 DEF e
    <2> QED
      BY <2>4, <2>10
  <1>9. {} \in P
    BY <1>2, <1>6
  <1>10. S \in P
    <2> HIDE DEF P
    <2> QED
      BY <1>3, <1>8, <1>9, LeftInduction
  <1> QED
    BY <1>7, <1>10 DEF X, Range

-----------------------------------------------------------------------------
(* The actions that enable and disable events                              *)

LEMMA NestingTyped ==
    ASSUME NEW a, IsNesting(a)
    PROVE  /\ ~IsPlain(a)
           /\ a.type = "alternate" => /\ a.def \in Seq(PlainEvent) /\ a.alt \in Seq(PlainEvent)
                                      /\ Nested(a) = Range(a.def) \cup Range(a.alt)
           /\ a.type # "alternate" => a.events \in Seq(PlainEvent) /\ Nested(a) = Range(a.events)
  BY DEF IsNesting, IsPlain, IsSimple, IsTimer, Nested

LEMMA FullSpeedSteps ==
    ASSUME NEW y \in Zones, NEW G
    PROVE  /\ SetFullSpeed(y) \in Steps(y, G, {})
           /\ SetFullSpeed(y).target = FullSpeed /\ SetFullSpeed(y).enabled = y.enabled
  <1> DEFINE x == [y EXCEPT !.target = FullSpeed]
  <1>1. /\ x \in Zones /\ x.props = y.props /\ x.holding = y.holding
        /\ x.target = FullSpeed /\ x.enabled = y.enabled /\ x.matched = y.matched
    BY LegacyActionsAssumption DEF Zones
  <1>2. SetFullSpeed(y) = x
    BY DEF SetFullSpeed
  <1> HIDE DEF x
  <1> QED
    BY <1>1, <1>2 DEF Steps, Kept

LEMMA MatchSteps ==
    ASSUME NEW y \in Zones, BusOK, NEW h \in Group, NEW a, IsNesting(a), a.type = "states_match",
           NEW G, Elsewhere(h, G), \A e \in Nested(a) : Apart(e, G)
    PROVE  PropertyStatesMatch(y, h, a) \in Steps(y, G, Nested(a))
  <1> DEFINE match == \A s \in a.states : y.props[s[1]] = s[2]
             removed == RemoveEvents(y, a.events)
             x == IF match THEN InitEvents(y, a.events) ELSE SetFullSpeed(removed)
  <1>1. a.events \in Seq(PlainEvent) /\ Nested(a) = Range(a.events)
    BY NestingTyped
  <1>2. InitEvents(y, a.events) \in Steps(y, G, Nested(a))
    BY <1>1, InitEventsSteps
  <1>3. removed \in Steps(y, G, Nested(a))
    BY <1>1, RemoveEventsSteps
  <1>4. PropertyStatesMatch(y, h, a) = SetActiveAllow(x, h, match)
    BY DEF PropertyStatesMatch
  <1> HIDE DEF removed
  <1>5. removed \in Zones
    BY <1>3, StepsZones
  <1>6. SetFullSpeed(removed) \in Steps(removed, G, {})
    BY <1>5, FullSpeedSteps
  <1>7. SetFullSpeed(removed) \in Steps(removed, G, Nested(a))
    BY <1>6, StepsMore
  <1>8. x \in Steps(y, G, Nested(a))
    BY <1>2, <1>3, <1>7, StepsTrans
  <1> HIDE DEF x, match
  <1>9. x \in Zones
    BY <1>8, StepsZones
  <1>10. SetActiveAllow(x, h, match) \in Steps(x, G, {})
    BY <1>9, AllowSteps
  <1>11. SetActiveAllow(x, h, match) \in Steps(x, G, Nested(a))
    BY <1>10, StepsMore
  <1> QED
    BY <1>4, <1>8, <1>11, StepsTrans

\* One set of events for another
LEMMA ReplaceSteps ==
    ASSUME NEW y \in Zones, BusOK, NEW q \in Seq(PlainEvent), NEW r \in Seq(PlainEvent),
           NEW C, C = Range(q) \cup Range(r), NEW G, \A e \in C : Apart(e, G)
    PROVE  /\ InitEvents(RemoveEvents(y, q), r) \in Steps(y, G, C)
           /\ \A n \in Range(r) : InitEvents(RemoveEvents(y, q), r).enabled[n] > 0
           /\ Range(q) \cap Range(r) = {} =>
                \A n \in Range(q) : InitEvents(RemoveEvents(y, q), r).enabled[n] = 0
  <1> DEFINE x == RemoveEvents(y, q)
             w == InitEvents(x, r)
  <1>1. x \in Steps(y, G, Range(q)) /\ \A n \in Range(q) : x.enabled[n] = 0
    BY RemoveEventsSteps
  <1> HIDE DEF x
  <1>2. x \in Zones
    BY <1>1, StepsZones
  <1>3. w \in Steps(x, G, Range(r)) /\ \A n \in Range(r) : w.enabled[n] > 0
    BY <1>2, InitEventsSteps
  <1> HIDE DEF w
  <1>4. x \in Steps(y, G, C) /\ w \in Steps(x, G, C)
    BY <1>1, <1>3, StepsMore
  <1>5. w \in Steps(y, G, C)
    BY <1>4, StepsTrans
  <1>6. Range(q) \subseteq Event
    BY DEF Range, PlainEvent
  <1>7. \A n \in Event \ Range(r) : w.enabled[n] = x.enabled[n]
    BY <1>3 DEF Steps
  <1> QED
    BY <1>1, <1>3, <1>5, <1>6, <1>7 DEF w, x

LEMMA AlternateSteps ==
    ASSUME NEW y \in Zones, BusOK, NEW h, NEW a, IsNesting(a), a.type = "alternate",
           NEW G, \A e \in Nested(a) : Apart(e, G)
    PROVE  UseAlternateEventsOnState(y, h, a) \in Steps(y, G, Nested(a))
  <1>1. a.def \in Seq(PlainEvent) /\ a.alt \in Seq(PlainEvent)
    BY NestingTyped
  <1>2. Nested(a) = Range(a.def) \cup Range(a.alt) /\ Nested(a) = Range(a.alt) \cup Range(a.def)
    BY NestingTyped
  <1>3. InitEvents(RemoveEvents(y, a.def), a.alt) \in Steps(y, G, Nested(a))
    BY <1>1, <1>2, ReplaceSteps
  <1>4. InitEvents(RemoveEvents(y, a.alt), a.def) \in Steps(y, G, Nested(a))
    BY <1>1, <1>2, ReplaceSteps
  <1> QED
    BY <1>3, <1>4 DEF UseAlternateEventsOnState

LEMMA RunSteps ==
    ASSUME NEW y \in Zones, BusOK, NEW p \in Part, NEW a \in Range(p.actions),
           NEW G, Elsewhere(p.group, G), \A e \in Nested(a) : Apart(e, G)
    PROVE  Run(y, p.group, a) \in Steps(y, G, Nested(a))
  <1>1. IsPlain(a) \/ IsNesting(a)
    BY PartsTyped DEF IsPart
  <1>2. CASE IsPlain(a)
    <2>1. Run(y, p.group, a) = Act(y, p.group, a)
      BY <1>2 DEF Run, IsPlain, IsSimple, IsTimer
    <2>2. Act(y, p.group, a) \in Steps(y, G, {})
      BY <1>2, PlainSteps
    <2> QED
      BY <2>1, <2>2, StepsMore
  <1>3. CASE IsNesting(a)
    <2>1. CASE a.type = "states_match"
      <3>1. Run(y, p.group, a) = PropertyStatesMatch(y, p.group, a)
        BY <2>1 DEF Run
      <3> QED
        BY <1>3, <2>1, <3>1, PartsTyped, MatchSteps
    <2>2. CASE a.type = "alternate"
      <3>1. Run(y, p.group, a) = UseAlternateEventsOnState(y, p.group, a)
        BY <2>2 DEF Run
      <3> QED
        BY <1>3, <2>2, <3>1, AlternateSteps
    <2>3. CASE a.type \in {"services_missing", "use"}
      <3> DEFINE x == IF a.type = "use" THEN y ELSE LookUp(y, Range(p.group))
      <3>1. a.events \in Seq(PlainEvent) /\ Nested(a) = Range(a.events)
        BY <1>3, <2>3, NestingTyped
      <3>2. x \in Steps(y, G, {})
        BY LookUpSteps, StepsRefl
      <3>3. Run(y, p.group, a) \in {InitEvents(x, a.events), RemoveEvents(x, a.events)}
        BY <2>3 DEF Run, ServicesMissingOwner, UseEventsOnState
      <3> HIDE DEF x
      <3>4. x \in Zones
        BY <3>2, StepsZones
      <3>5. /\ InitEvents(x, a.events) \in Steps(x, G, Nested(a))
            /\ RemoveEvents(x, a.events) \in Steps(x, G, Nested(a))
        BY <3>1, <3>4, InitEventsSteps, RemoveEventsSteps
      <3>6. x \in Steps(y, G, Nested(a))
        BY <3>2, StepsMore
      <3> QED
        BY <3>3, <3>5, <3>6, StepsTrans
    <2> QED
      BY <1>3, <2>1, <2>2, <2>3 DEF IsNesting
  <1> QED
    BY <1>1, <1>2, <1>3

-----------------------------------------------------------------------------
(* The callbacks                                                           *)

Does(h, actions, G, C) ==
    \A x \in Zones : \A a \in Range(actions) : Run(x, h, a) \in Steps(x, G, C)

\* The last action is run in a state the ones before it lead to.
LEMMA RunAllSteps ==
    ASSUME NEW y \in Zones, NEW g, NEW actions, actions \in Seq(Range(actions)),
           NEW G, NEW C, Does(g, actions, G, C)
    PROVE  /\ RunAll(y, g, actions) \in Steps(y, G, C)
           /\ DOMAIN actions # {} =>
                \E x \in Steps(y, G, C), k \in DOMAIN actions :
                   RunAll(y, g, actions) = Run(x, g, actions[k])
  <1> DEFINE S == DOMAIN actions
             X == Steps(y, G, C)
             step == [k \in S |-> [f \in X |-> Run(f, g, actions[k])]]
             Is(h) == h = [s \in SUBSET S |-> IF s = {} THEN y
                           ELSE Run(h[s \ {Max(s)}], g, actions[Max(s)])]
             fold == CHOOSE h : Is(h)
  <1>1. ASSUME NEW k \in S, NEW f \in X
        PROVE  Run(f, g, actions[k]) \in X
    <2>1. f \in Zones /\ actions[k] \in Range(actions)
      BY StepsZones DEF Range
    <2>2. Run(f, g, actions[k]) \in Steps(f, G, C)
      BY <2>1 DEF Does
    <2> QED
      BY <2>2, StepsTrans
  <1>2. y \in X
    BY StepsRefl
  <1>3. actions \in Seq(Range(actions))
    OBVIOUS
  <1>4. \A s \in SUBSET S : s # {} => Max(s) \in S
    BY <1>3, RangeFinite, MaxExists, FS_Subset
  <1> HIDE DEF X
  <1>5. \E h : Is(h)
    <2>1. Closed(step, S, X)
      BY <1>1 DEF Closed
    <2>2. PICK h : IsFold(h, S, X, y, LastOf(S), step)
      <3> HIDE DEF step
      <3> QED
        BY <1>2, <1>3, <2>1, LeftFoldExists
    <2>3. \A s \in SUBSET S : s # {} => h[s \ {Max(s)}] \in X
      BY <2>2 DEF IsFold
    <2>4. Is(h)
      BY <1>4, <2>2, <2>3 DEF IsFold, LastOf
    <2> QED
      BY <2>4
  <1>6. Is(fold)
    BY <1>5
  <1>7. RunAll(y, g, actions) = fold[S]
    BY DEF RunAll, FoldLeft, MapThenFoldSet
  <1> HIDE DEF fold
  <1> DEFINE P == {s \in SUBSET S : /\ fold[s] \in X
                                    /\ s # {} => \E f \in X, k \in S : fold[s] = Run(f, g, actions[k])}
  <1>8. ASSUME NEW s \in SUBSET S, s # {} /\ s \ {Max(s)} \in P
        PROVE  s \in P
    <2> DEFINE m == Max(s)
               f == fold[s \ {m}]
    <2>1. m \in S /\ f \in X
      BY <1>4, <1>8
    <2>2. fold[s] = Run(f, g, actions[m])
      BY <1>6, <1>8
    <2> HIDE DEF m, f
    <2>3. fold[s] \in X
      BY <1>1, <2>1, <2>2
    <2> QED
      BY <2>1, <2>2, <2>3
  <1>9. {} \in P
    BY <1>2, <1>6
  <1>10. S \in P
    <2> HIDE DEF P
    <2> QED
      BY <1>3, <1>8, <1>9, LeftInduction
  <1> QED
    BY <1>7, <1>10 DEF X

NestedBy(p) == UNION {Nested(a) : a \in Range(p.actions)}

LEMMA RunPartSteps ==
    ASSUME NEW y \in Zones, BusOK, NEW p \in Part, NEW C, NestedBy(p) \subseteq C,
           NEW G, Elsewhere(p.group, G), \A e \in C : Apart(e, G)
    PROVE  /\ RunAll(y, p.group, p.actions) \in Steps(y, G, C)
           /\ DOMAIN p.actions # {} =>
                \E x \in Zones, k \in DOMAIN p.actions :
                   RunAll(y, p.group, p.actions) = Run(x, p.group, p.actions[k])
  <1>1. ASSUME NEW x \in Zones, NEW a \in Range(p.actions)
        PROVE  Run(x, p.group, a) \in Steps(x, G, C)
    <2>1. Nested(a) \subseteq C
      BY DEF NestedBy
    <2>2. Run(x, p.group, a) \in Steps(x, G, Nested(a))
      BY <2>1, RunSteps
    <2> QED
      BY <2>1, <2>2, StepsMore
  <1>2. Does(p.group, p.actions, G, C)
    BY <1>1 DEF Does
  <1> QED
    BY <1>2, PartsTyped, RunAllSteps, StepsZones

\* An expired timer of an action
LEMMA RunTimerSteps ==
    ASSUME NEW y \in Zones, NEW t \in Timer, NEW G, Elsewhere(t.group, G)
    PROVE  RunAll(y, t.group, t.actions) \in Steps(y, G, {})
  <1>1. t.group \in Group
    BY DEF Timer, TimerPart, Group
  <1>2. PICK a : IsTimer(a) /\ t.actions = a.actions
    BY DEF Timer, TimerActions
  <1>3. t.actions \in Seq(Range(t.actions)) /\ \A b \in Range(t.actions) : IsSimple(b)
    BY <1>2 DEF IsTimer
  <1>4. ASSUME NEW x \in Zones, NEW b \in Range(t.actions)
        PROVE  Run(x, t.group, b) \in Steps(x, G, {})
    <2>1. Run(x, t.group, b) = Act(x, t.group, b)
      BY <1>3 DEF Run, IsSimple
    <2> QED
      BY <1>1, <1>3, <2>1, SimpleSteps
  <1>5. Does(t.group, t.actions, G, {})
    BY <1>4 DEF Does
  <1> QED
    BY <1>3, <1>5, RunAllSteps

LEMMA NestedInTyped ==
    ASSUME NEW e \in Event
    PROVE  /\ NestedIn(e) \subseteq PlainEvent /\ NestedIn(e) \subseteq Event
           /\ \A k \in DOMAIN Def[e].parts : /\ Def[e].parts[k] \in Part
                                             /\ Def[e].parts[k] \in Range(Def[e].parts)
                                             /\ NestedBy(Def[e].parts[k]) \subseteq NestedIn(e)
  <1>1. ASSUME NEW p \in Range(Def[e].parts), NEW a \in Range(p.actions)
        PROVE  Nested(a) \subseteq PlainEvent
    <2>1. p \in Part
      BY PartsTyped
    <2>2. IsPlain(a) \/ IsNesting(a)
      BY <2>1, PartsTyped DEF IsPart
    <2>3. IsPlain(a) => Nested(a) = {}
      BY DEF IsPlain, IsSimple, IsTimer, Nested
    <2>4. IsNesting(a) => Nested(a) \subseteq PlainEvent
      BY NestingTyped DEF Range
    <2> QED
      BY <2>2, <2>3, <2>4
  <1>2. NestedIn(e) \subseteq PlainEvent
    BY <1>1 DEF NestedIn
  <1>3. \A k \in DOMAIN Def[e].parts : /\ Def[e].parts[k] \in Range(Def[e].parts)
                                       /\ Def[e].parts[k] \in Part
    BY PartsTyped DEF Range
  <1> QED
    BY <1>2, <1>3 DEF NestedIn, NestedBy, PlainEvent

LEMMA InitTopPartsSteps ==
    ASSUME NEW y \in Zones, BusOK, NEW e \in Event, NEW G, Apart(e, G),
           NEW C, NestedIn(e) \subseteq C, \A n \in C : Apart(n, G)
    PROVE  /\ FoldLeft(InitTopPart, y, Def[e].parts) \in Steps(y, G, C)
           /\ DOMAIN Def[e].parts # {} =>
                \E x \in Steps(y, G, C), k \in DOMAIN Def[e].parts :
                   FoldLeft(InitTopPart, y, Def[e].parts) = InitTopPart(x, Def[e].parts[k])
  <1> DEFINE S == DOMAIN Def[e].parts
             X == Steps(y, G, C)
             step == [k \in S |-> [f \in X |-> InitTopPart(f, Def[e].parts[k])]]
             Is(h) == h = [s \in SUBSET S |-> IF s = {} THEN y
                           ELSE InitTopPart(h[s \ {Max(s)}], Def[e].parts[Max(s)])]
             fold == CHOOSE h : Is(h)
  <1>1. ASSUME NEW k \in S, NEW f \in X
        PROVE  InitTopPart(f, Def[e].parts[k]) \in X
    <2> DEFINE p == Def[e].parts[k]
               x == GetProperties(f, p.group)
    <2>1. p \in Range(Def[e].parts) /\ p \in Part /\ NestedBy(p) \subseteq C /\ f \in Zones
      BY NestedInTyped, StepsZones
    <2> HIDE DEF p
    <2>2. Elsewhere(p.group, G) /\ p.group \in Group
      BY <2>1, PartsTyped DEF Apart
    <2>3. x \in Steps(f, G, {})
      BY <2>1, <2>2, GetPropertiesSteps
    <2> HIDE DEF x
    <2>4. x \in Zones /\ x \in Steps(f, G, C)
      BY <2>3, StepsZones, StepsMore
    <2>5. RunAll(x, p.group, p.actions) \in Steps(x, G, C)
      BY <2>1, <2>2, <2>4, RunPartSteps
    <2>6. InitTopPart(f, p) = RunAll(x, p.group, p.actions)
      BY DEF InitTopPart, x
    <2>7. InitTopPart(f, p) \in Steps(f, G, C)
      BY <2>4, <2>5, <2>6, StepsTrans
    <2> QED
      BY <2>7, StepsTrans DEF p
  <1>2. y \in X
    BY StepsRefl
  <1>3. Def[e].parts \in Seq(Part)
    BY PartsTyped
  <1>4. \A s \in SUBSET S : s # {} => Max(s) \in S
    BY <1>3, RangeFinite, MaxExists, FS_Subset
  <1> HIDE DEF X
  <1>5. \E h : Is(h)
    <2>1. Closed(step, S, X)
      BY <1>1 DEF Closed
    <2>2. PICK h : IsFold(h, S, X, y, LastOf(S), step)
      <3> HIDE DEF step
      <3> QED
        BY <1>2, <1>3, <2>1, LeftFoldExists
    <2>3. \A s \in SUBSET S : s # {} => h[s \ {Max(s)}] \in X
      BY <2>2 DEF IsFold
    <2>4. Is(h)
      BY <1>4, <2>2, <2>3 DEF IsFold, LastOf
    <2> QED
      BY <2>4
  <1>6. Is(fold)
    BY <1>5
  <1>7. FoldLeft(InitTopPart, y, Def[e].parts) = fold[S]
    BY DEF FoldLeft, MapThenFoldSet
  <1> HIDE DEF fold
  <1> DEFINE P == {s \in SUBSET S : /\ fold[s] \in X
                                    /\ s # {} => \E f \in X, k \in S : fold[s] = InitTopPart(f, Def[e].parts[k])}
  <1>8. ASSUME NEW s \in SUBSET S, s # {} /\ s \ {Max(s)} \in P
        PROVE  s \in P
    <2> DEFINE m == Max(s)
               f == fold[s \ {m}]
    <2>1. m \in S /\ f \in X
      BY <1>4, <1>8
    <2>2. fold[s] = InitTopPart(f, Def[e].parts[m])
      BY <1>6, <1>8
    <2> HIDE DEF m, f
    <2>3. fold[s] \in X
      BY <1>1, <2>1, <2>2
    <2> QED
      BY <2>1, <2>2, <2>3
  <1>9. {} \in P
    BY <1>2, <1>6
  <1>10. S \in P
    <2> HIDE DEF P
    <2> QED
      BY <1>3, <1>8, <1>9, LeftInduction
  <1> QED
    BY <1>7, <1>10 DEF X

LEMMA InitTopEventSteps ==
    ASSUME NEW y \in Zones, BusOK, NEW e \in Event, NEW G, Apart(e, G),
           NEW C, NestedIn(e) \cup {e} \subseteq C, \A n \in C : Apart(n, G)
    PROVE  /\ InitTopEvent(y, e) \in Steps(y, G, C)
           /\ Inits(e) /\ DOMAIN Def[e].parts # {} =>
                \E x \in Zones, k \in DOMAIN Def[e].parts :
                   InitTopEvent(y, e) = SubscribedTo(InitTopPart(x, Def[e].parts[k]), e)
  <1> DEFINE x == IF Inits(e) THEN FoldLeft(InitTopPart, y, Def[e].parts) ELSE y
  <1>1. /\ x \in Steps(y, G, C)
        /\ Inits(e) /\ DOMAIN Def[e].parts # {} =>
             \E w \in Zones, k \in DOMAIN Def[e].parts : x = InitTopPart(w, Def[e].parts[k])
    BY InitTopPartsSteps, StepsRefl, StepsZones
  <1>2. InitTopEvent(y, e) = SubscribedTo(x, e)
    BY DEF InitTopEvent
  <1> HIDE DEF x
  <1>3. x \in Zones
    BY <1>1, StepsZones
  <1>4. SubscribedTo(x, e) \in Steps(x, G, {e})
    BY <1>3, SubscribedSteps
  <1>5. SubscribedTo(x, e) \in Steps(x, G, C)
    BY <1>4, StepsMore
  <1> QED
    BY <1>1, <1>2, <1>5, StepsTrans

Signal ==
    [type : {"changed", "added", "mode"}, member : Member, value : Value]
        \cup [type : {"removed"}, member : Member] \cup [type : {"owner"}, service : Service]

\* The signal is about no member of a group of G.
About(sig, G) == sig.type # "owner" => \A g \in G : sig.member \notin Range(g)

LEMMA HandlerSteps ==
    ASSUME NEW y \in Zones, NEW sig \in Signal, NEW G, About(sig, G)
    PROVE  Handler(y, sig) \in Steps(y, G, {})
  <1>1. CASE sig.type = "owner"
    BY <1>1, StepsRefl DEF Handler
  <1>2. CASE sig.type = "removed"
    <2>1. sig.member \in Member /\ Handler(y, sig) = Cached(y, sig.member, NoValue)
      BY <1>2 DEF Handler, Signal, Cached, Dropped
    <2> QED
      BY <1>2, <2>1, CachedSteps DEF About
  <1>3. CASE sig.type \notin {"owner", "removed"}
    <2>1. /\ sig.member \in Member /\ sig.value \in Value
          /\ Handler(y, sig) = Cached(y, sig.member, sig.value)
      BY <1>3 DEF Handler, Signal
    <2> QED
      BY <1>3, <2>1, CachedSteps DEF About
  <1> QED
    BY <1>1, <1>2, <1>3

LEMMA HandlePartsSteps ==
    ASSUME NEW y \in Zones, BusOK, NEW e \in Event, NEW sig \in Signal,
           NEW G, Apart(e, G), About(sig, G),
           NEW C, NestedIn(e) \subseteq C, \A n \in C : Apart(n, G)
    PROVE  /\ HandleParts(y, e, sig) \in Steps(y, G, C)
           /\ DOMAIN Def[e].parts # {} =>
                \E x \in Steps(y, G, C), k \in DOMAIN Def[e].parts :
                   HandleParts(y, e, sig) =
                      RunAll(Handler(x, sig), Def[e].parts[k].group, Def[e].parts[k].actions)
  <1> DEFINE S == DOMAIN Def[e].parts
             X == Steps(y, G, C)
             step == [k \in S |-> [f \in X |-> HandlePart(f, Def[e].parts[k], sig)]]
             Is(h) == h = [s \in SUBSET S |-> IF s = {} THEN y
                           ELSE HandlePart(h[s \ {Max(s)}], Def[e].parts[Max(s)], sig)]
             fold == CHOOSE h : Is(h)
  <1>1. ASSUME NEW k \in S, NEW f \in X
        PROVE  HandlePart(f, Def[e].parts[k], sig) \in X
    <2> DEFINE p == Def[e].parts[k]
               x == Handler(f, sig)
    <2>1. p \in Range(Def[e].parts) /\ p \in Part /\ NestedBy(p) \subseteq C /\ f \in Zones
      BY NestedInTyped, StepsZones
    <2> HIDE DEF p
    <2>2. Elsewhere(p.group, G)
      BY <2>1 DEF Apart
    <2>3. x \in Steps(f, G, {})
      BY <2>1, HandlerSteps
    <2> HIDE DEF x
    <2>4. x \in Zones /\ x \in Steps(f, G, C)
      BY <2>3, StepsZones, StepsMore
    <2>5. RunAll(x, p.group, p.actions) \in Steps(x, G, C)
      BY <2>1, <2>2, <2>4, RunPartSteps
    <2>6. HandlePart(f, p, sig) = RunAll(x, p.group, p.actions)
      BY DEF HandlePart, x
    <2>7. HandlePart(f, p, sig) \in Steps(f, G, C)
      BY <2>4, <2>5, <2>6, StepsTrans
    <2> QED
      BY <2>7, StepsTrans DEF p
  <1>2. y \in X
    BY StepsRefl
  <1>3. Def[e].parts \in Seq(Part)
    BY PartsTyped
  <1>4. \A s \in SUBSET S : s # {} => Max(s) \in S
    BY <1>3, RangeFinite, MaxExists, FS_Subset
  <1> HIDE DEF X
  <1>5. \E h : Is(h)
    <2>1. Closed(step, S, X)
      BY <1>1 DEF Closed
    <2>2. PICK h : IsFold(h, S, X, y, LastOf(S), step)
      <3> HIDE DEF step
      <3> QED
        BY <1>2, <1>3, <2>1, LeftFoldExists
    <2>3. \A s \in SUBSET S : s # {} => h[s \ {Max(s)}] \in X
      BY <2>2 DEF IsFold
    <2>4. Is(h)
      BY <1>4, <2>2, <2>3 DEF IsFold, LastOf
    <2> QED
      BY <2>4
  <1>6. Is(fold)
    BY <1>5
  <1>7. HandleParts(y, e, sig) = fold[S]
    BY DEF HandleParts, FoldLeft, MapThenFoldSet
  <1> HIDE DEF fold
  <1> DEFINE P == {s \in SUBSET S : /\ fold[s] \in X
                                    /\ s # {} => \E f \in X, k \in S : fold[s] = HandlePart(f, Def[e].parts[k], sig)}
  <1>8. ASSUME NEW s \in SUBSET S, s # {} /\ s \ {Max(s)} \in P
        PROVE  s \in P
    <2> DEFINE m == Max(s)
               f == fold[s \ {m}]
    <2>1. m \in S /\ f \in X
      BY <1>4, <1>8
    <2>2. fold[s] = HandlePart(f, Def[e].parts[m], sig)
      BY <1>6, <1>8
    <2> HIDE DEF m, f
    <2>3. fold[s] \in X
      BY <1>1, <2>1, <2>2
    <2> QED
      BY <2>1, <2>2, <2>3
  <1>9. {} \in P
    BY <1>2, <1>6
  <1>10. S \in P
    <2> HIDE DEF P
    <2> QED
      BY <1>3, <1>8, <1>9, LeftInduction
  <1> QED
    BY <1>7, <1>10 DEF X, HandlePart

LEMMA HandleEventSteps ==
    ASSUME NEW y \in Zones, BusOK, NEW e \in Event, NEW sig \in Signal,
           NEW G, Apart(e, G), About(sig, G),
           NEW C, NestedIn(e) \subseteq C, \A n \in C : Apart(n, G)
    PROVE  /\ HandleEvent(y, e, sig) \in Steps(y, G, C)
           /\ y.enabled[e] > 0 =>
                \E x \in Zones : HandleEvent(y, e, sig) = HandleParts(x, e, sig)
  <1> DEFINE q == [k \in 1..y.enabled[e] |-> k]
  <1>1. y.enabled[e] \in Nat
    BY DEF Zones
  <1>2. q \in Seq(Nat) /\ DOMAIN q = 1..y.enabled[e]
    BY <1>1
  <1>3. HandleEvent(y, e, sig) = FoldLeft(LAMBDA x, k : HandleParts(x, e, sig), y, q)
    BY DEF HandleEvent
  <1>4. y.enabled[e] > 0 => 1 \in DOMAIN q
    BY <1>1, <1>2
  <1>5. y.enabled[e] > 0 => DOMAIN q # {}
    BY <1>4
  <1> HIDE DEF q
  <1>6. /\ HandleEvent(y, e, sig) \in Steps(y, G, C)
        /\ DOMAIN q # {} => \E x \in Steps(y, G, C), k \in DOMAIN q :
                               HandleEvent(y, e, sig) = HandleParts(x, e, sig)
    <2> DEFINE S == DOMAIN q
               X == Steps(y, G, C)
               step == [k \in S |-> [f \in X |-> HandleParts(f, e, sig)]]
               Is(h) == h = [s \in SUBSET S |-> IF s = {} THEN y
                             ELSE HandleParts(h[s \ {Max(s)}], e, sig)]
               fold == CHOOSE h : Is(h)
    <2>1. ASSUME NEW k \in S, NEW f \in X
          PROVE  HandleParts(f, e, sig) \in X
      <3>1. f \in Zones
        BY StepsZones
      <3>2. HandleParts(f, e, sig) \in Steps(f, G, C)
        BY <3>1, HandlePartsSteps
      <3> QED
        BY <3>2, StepsTrans
    <2>2. y \in X
      BY StepsRefl
    <2>3. q \in Seq(Nat)
      BY <1>2
    <2>4. \A s \in SUBSET S : s # {} => Max(s) \in S
      BY <2>3, RangeFinite, MaxExists, FS_Subset
    <2> HIDE DEF X
    <2>5. \E h : Is(h)
      <3>1. Closed(step, S, X)
        BY <2>1 DEF Closed
      <3>2. PICK h : IsFold(h, S, X, y, LastOf(S), step)
        <4> HIDE DEF step
        <4> QED
          BY <2>2, <2>3, <3>1, LeftFoldExists
      <3>3. \A s \in SUBSET S : s # {} => h[s \ {Max(s)}] \in X
        BY <3>2 DEF IsFold
      <3>4. Is(h)
        BY <2>4, <3>2, <3>3 DEF IsFold, LastOf
      <3> QED
        BY <3>4
    <2>6. Is(fold)
      BY <2>5
    <2>7. HandleEvent(y, e, sig) = fold[S]
      BY <1>3 DEF FoldLeft, MapThenFoldSet
    <2> HIDE DEF fold
    <2> DEFINE P == {s \in SUBSET S : /\ fold[s] \in X
                                      /\ s # {} => \E f \in X, k \in S : fold[s] = HandleParts(f, e, sig)}
    <2>8. ASSUME NEW s \in SUBSET S, s # {} /\ s \ {Max(s)} \in P
          PROVE  s \in P
      <3> DEFINE m == Max(s)
                 f == fold[s \ {m}]
      <3>1. m \in S /\ f \in X
        BY <2>4, <2>8
      <3>2. fold[s] = HandleParts(f, e, sig)
        BY <2>6, <2>8
      <3> HIDE DEF m, f
      <3>3. fold[s] \in X
        BY <2>1, <3>1, <3>2
      <3> QED
        BY <3>1, <3>2, <3>3
    <2>9. {} \in P
      BY <2>2, <2>6
    <2>10. S \in P
      <3> HIDE DEF P
      <3> QED
        BY <2>3, <2>8, <2>9, LeftInduction
    <2> QED
      BY <2>7, <2>10 DEF X
  <1> QED
    BY <1>5, <1>6, StepsZones

-----------------------------------------------------------------------------
(* Switches                                                                *)

Matches(y, e) == \A s \in ActionOf(e).states : y.props[s[1]] = s[2]
On(y, C) == \A n \in C : y.enabled[n] > 0
Off(y, C) == \A n \in C : y.enabled[n] = 0

\* The events of the switch e are enabled as the values cached have it, and
\* its group holds the fans at full speed when they are disabled.
Switched(y, e) ==
    IF ActionOf(e).type = "alternate"
    THEN IF AllAt(y, GroupOf(e), ActionOf(e).state)
         THEN On(y, Range(ActionOf(e).alt)) /\ Off(y, Range(ActionOf(e).def))
         ELSE On(y, Range(ActionOf(e).def)) /\ Off(y, Range(ActionOf(e).alt))
    ELSE IF Matches(y, e) THEN On(y, NestedIn(e))
         ELSE Off(y, NestedIn(e)) /\ GroupOf(e) \in y.holding /\ y.target = FullSpeed

SwitchInv(y) == \A e \in Switch : y.enabled[e] > 0 => Switched(y, e)

LEMMA SwitchTyped ==
    ASSUME SwitchesAlone, NEW e \in Switch
    PROVE  /\ e \in Event /\ Inits(e)
           /\ DOMAIN Def[e].parts = {1} /\ DOMAIN Def[e].parts[1].actions = {1}
           /\ Def[e].parts[1] \in Part /\ Range(Def[e].parts) = {Def[e].parts[1]}
           /\ Def[e].parts[1].actions[1] = ActionOf(e) /\ Def[e].parts[1].group = GroupOf(e)
           /\ ActionOf(e) \in Range(Def[e].parts[1].actions)
           /\ IsNesting(ActionOf(e)) /\ ActionOf(e).type \in {"states_match", "alternate"}
           /\ NestedIn(e) = Nested(ActionOf(e)) /\ NestedIn(e) \subseteq PlainEvent
           /\ GroupOf(e) \in Group /\ GroupOf(e) \in Seq(Member)
  <1> DEFINE p == Def[e].parts[1]
  <1>1. e \in Event /\ Inits(e) /\ Len(Def[e].parts) = 1 /\ Len(p.actions) = 1
    BY DEF SwitchesAlone, Switch
  <1>2. DOMAIN Def[e].parts = {1}
    BY <1>1, PartsTyped
  <1>3. p \in Part /\ Range(Def[e].parts) = {p}
    BY <1>1, <1>2, PartsTyped DEF Range
  <1>4. p.group = GroupOf(e) /\ p.actions[1] = ActionOf(e)
    BY DEF GroupOf, ActionOf
  <1> HIDE DEF p
  <1>5. p.actions \in Seq(Range(p.actions)) /\ p.group \in Group /\ p.group \in Seq(Member)
    BY <1>3, PartsTyped
  <1>6. DOMAIN p.actions = {1}
    BY <1>1, <1>5
  <1>7. Range(p.actions) = {ActionOf(e)}
    BY <1>4, <1>6 DEF Range
  <1>8. ActionOf(e).type \in {"states_match", "alternate"}
    BY <1>3, <1>7 DEF Switch
  <1>9. IsNesting(ActionOf(e))
    <2>1. IsPlain(ActionOf(e)) \/ IsNesting(ActionOf(e))
      BY <1>3, <1>7, PartsTyped DEF IsPart
    <2>2. ~IsPlain(ActionOf(e))
      BY <1>8 DEF IsPlain, IsSimple, IsTimer
    <2> QED
      BY <2>1, <2>2
  <1>10. NestedIn(e) = Nested(ActionOf(e))
    BY <1>3, <1>7 DEF NestedIn
  <1>11. NestedIn(e) \subseteq PlainEvent
    BY <1>1, NestedInTyped
  <1> QED
    BY <1>1, <1>2, <1>3, <1>4, <1>5, <1>6, <1>7, <1>8, <1>9, <1>10, <1>11 DEF p

LEMMA PlainNotSwitch == PlainEvent \cap Switch = {}
  <1>1. \A a : IsPlain(a) => a.type \notin {"states_match", "alternate"}
    BY DEF IsPlain, IsSimple, IsTimer
  <1> QED
    BY <1>1 DEF PlainEvent, Switch

\* Other events do not concern the switch e.
LEMMA OthersApart ==
    ASSUME SwitchesAlone, NEW e \in Switch, NEW f \in Event, f # e
    PROVE  /\ Apart(f, {GroupOf(e)})
           /\ \A n \in NestedIn(f) : Apart(n, {GroupOf(e)})
           /\ e \notin NestedIn(f) /\ NestedIn(f) \cap NestedIn(e) = {}
           /\ Range(Def[f].group) \cap Range(GroupOf(e)) = {}
  <1>1. ASSUME NEW i \in Event, i # e
        PROVE  Apart(i, {GroupOf(e)})
    <2>1. Uses(i) \cap Range(GroupOf(e)) = {} /\ GroupOf(e) # <<>>
      BY <1>1 DEF SwitchesAlone
    <2>2. ASSUME NEW p \in Range(Def[i].parts)
          PROVE  p.group # GroupOf(e) /\ Range(p.group) \cap Range(GroupOf(e)) = {}
      <3>1. Range(p.group) \cap Range(GroupOf(e)) = {}
        BY <2>1 DEF Uses
      <3>2. GroupOf(e) \in Seq(Member) /\ GroupOf(e) # <<>>
        BY <2>1, SwitchTyped
      <3>3. 1 \in DOMAIN GroupOf(e)
        BY <3>2
      <3>4. GroupOf(e)[1] \in Range(GroupOf(e))
        BY <3>3 DEF Range
      <3> QED
        BY <3>1, <3>4
    <2> QED
      BY <2>2 DEF Apart, Elsewhere
  <1>2. \A n \in NestedIn(f) : n \in Event /\ n # e
    BY NestedInTyped, PlainNotSwitch
  <1> QED
    BY <1>1, <1>2 DEF SwitchesAlone, Uses

\* The switch itself, and the events it enables.
LEMMA OwnApart ==
    ASSUME SwitchesAlone, NEW e \in Switch
    PROVE  /\ \A n \in NestedIn(e) : Apart(n, {GroupOf(e)})
           /\ e \notin NestedIn(e)
  <1>1. \A n \in NestedIn(e) : n \in Event /\ n # e
    BY SwitchTyped, NestedInTyped, PlainNotSwitch
  <1> QED
    BY <1>1, OthersApart

LEMMA KeepsSwitched ==
    ASSUME SwitchesAlone, NEW e \in Switch, NEW y, NEW C, C \cap NestedIn(e) = {},
           NEW x \in Steps(y, {GroupOf(e)}, C), Switched(y, e)
    PROVE  Switched(x, e)
  <1>1. /\ \A m \in Range(GroupOf(e)) : x.props[m] = y.props[m]
        /\ GroupOf(e) \in y.holding =>
             GroupOf(e) \in x.holding /\ (y.target = FullSpeed => x.target = FullSpeed)
        /\ \A n \in Event \ C : x.enabled[n] = y.enabled[n]
    BY DEF Steps, Kept
  <1>2. NestedIn(e) \subseteq Event /\ e \in Event
    BY SwitchTyped, NestedInTyped
  <1>3. \A n \in NestedIn(e) : x.enabled[n] = y.enabled[n]
    BY <1>1, <1>2
  <1>4. CASE ActionOf(e).type = "alternate"
    <2>1. Range(ActionOf(e).def) \subseteq NestedIn(e) /\ Range(ActionOf(e).alt) \subseteq NestedIn(e)
      BY <1>4, SwitchTyped, NestingTyped
    <2>2. AllAt(x, GroupOf(e), ActionOf(e).state) <=> AllAt(y, GroupOf(e), ActionOf(e).state)
      BY <1>1 DEF AllAt, Range
    <2> QED
      BY <1>3, <1>4, <2>1, <2>2 DEF Switched, On, Off
  <1>5. CASE ActionOf(e).type # "alternate"
    <2>1. \A s \in ActionOf(e).states : s[1] \in Range(GroupOf(e))
      BY <1>5, SwitchTyped DEF SwitchesAlone
    <2>2. Matches(x, e) <=> Matches(y, e)
      BY <1>1, <2>1 DEF Matches
    <2> QED
      BY <1>1, <1>3, <1>5, <2>2 DEF Switched, On, Off
  <1> QED
    BY <1>4, <1>5

\* The action of a switch sets it.
LEMMA AlternateSwitches ==
    ASSUME SwitchesAlone, NEW e \in Switch, ActionOf(e).type = "alternate",
           NEW y \in Zones, BusOK
    PROVE  Switched(UseAlternateEventsOnState(y, GroupOf(e), ActionOf(e)), e)
  <1> DEFINE g == GroupOf(e)
             a == ActionOf(e)
             x == UseAlternateEventsOnState(y, g, a)
  <1>1. /\ a.def \in Seq(PlainEvent) /\ a.alt \in Seq(PlainEvent)
        /\ Nested(a) = Range(a.def) \cup Range(a.alt)
        /\ Nested(a) = Range(a.alt) \cup Range(a.def)
        /\ IsNesting(a)
    BY SwitchTyped, NestingTyped
  <1>2. \A n \in Nested(a) : Apart(n, {g})
    BY SwitchTyped, OwnApart
  <1>3. Range(a.def) \cap Range(a.alt) = {} /\ Range(a.alt) \cap Range(a.def) = {}
    BY DEF SwitchesAlone
  <1>4. x \in Steps(y, {g}, Nested(a))
    <2> HIDE DEF g, a
    <2> QED
      BY <1>1, <1>2, AlternateSteps DEF a
  <1>5. \A m \in Range(g) : x.props[m] = y.props[m]
    BY <1>4 DEF Steps, Kept
  <1>6. CASE AllAt(y, g, a.state)
    <2>1. x = InitEvents(RemoveEvents(y, a.def), a.alt)
      BY <1>6 DEF UseAlternateEventsOnState
    <2>2. On(x, Range(a.alt)) /\ Off(x, Range(a.def))
      <3> HIDE DEF x, g, a
      <3>1. /\ \A n \in Range(a.alt) : InitEvents(RemoveEvents(y, a.def), a.alt).enabled[n] > 0
            /\ \A n \in Range(a.def) : InitEvents(RemoveEvents(y, a.def), a.alt).enabled[n] = 0
        BY <1>1, <1>2, <1>3, ReplaceSteps
      <3> QED
        BY <2>1, <3>1 DEF On, Off
    <2>3. AllAt(x, g, a.state)
      BY <1>5, <1>6 DEF AllAt, Range
    <2> QED
      BY <2>2, <2>3 DEF Switched
  <1>7. CASE ~AllAt(y, g, a.state)
    <2>1. x = InitEvents(RemoveEvents(y, a.alt), a.def)
      BY <1>7 DEF UseAlternateEventsOnState
    <2>2. On(x, Range(a.def)) /\ Off(x, Range(a.alt))
      <3> HIDE DEF x, g, a
      <3>1. /\ \A n \in Range(a.def) : InitEvents(RemoveEvents(y, a.alt), a.def).enabled[n] > 0
            /\ \A n \in Range(a.alt) : InitEvents(RemoveEvents(y, a.alt), a.def).enabled[n] = 0
        BY <1>1, <1>2, <1>3, ReplaceSteps
      <3> QED
        BY <2>1, <3>1 DEF On, Off
    <2>3. ~AllAt(x, g, a.state)
      BY <1>5, <1>7 DEF AllAt, Range
    <2> QED
      BY <2>2, <2>3 DEF Switched
  <1> QED
    BY <1>6, <1>7

LEMMA MatchSwitches ==
    ASSUME SwitchesAlone, NEW e \in Switch, ActionOf(e).type = "states_match",
           NEW y \in Zones, BusOK
    PROVE  Switched(PropertyStatesMatch(y, GroupOf(e), ActionOf(e)), e)
  <1> DEFINE g == GroupOf(e)
             a == ActionOf(e)
             x == PropertyStatesMatch(y, g, a)
  <1>1. /\ a.events \in Seq(PlainEvent) /\ Nested(a) = Range(a.events) /\ NestedIn(e) = Nested(a)
        /\ g \in Group
    BY SwitchTyped, NestingTyped
  <1>2. \A n \in Nested(a) : Apart(n, {g})
    BY SwitchTyped, OwnApart
  <1>3. \A s \in a.states : s[1] \in Range(g)
    BY DEF SwitchesAlone
  <1>4. CASE Matches(y, e)
    <2> DEFINE w == InitEvents(y, a.events)
    <2>1. w \in Steps(y, {g}, Nested(a)) /\ On(w, Nested(a))
      BY <1>1, <1>2, InitEventsSteps DEF On
    <2>2. x = SetActiveAllow(w, g, TRUE)
      BY <1>4 DEF PropertyStatesMatch, Matches
    <2> HIDE DEF w
    <2>3. w \in Zones
      BY <2>1, StepsZones
    <2>4. x.enabled = w.enabled /\ x.props = w.props
      BY <2>2, <2>3 DEF SetActiveAllow, Zones
    <2>5. \A m \in Range(g) : x.props[m] = y.props[m]
      BY <2>1, <2>4 DEF Steps, Kept
    <2> HIDE DEF x
    <2>6. Matches(x, e)
      BY <1>3, <1>4, <2>5 DEF Matches
    <2>7. On(x, NestedIn(e))
      BY <1>1, <2>1, <2>4 DEF On
    <2> QED
      BY <2>6, <2>7 DEF Switched, x
  <1>5. CASE ~Matches(y, e)
    <2> DEFINE w == RemoveEvents(y, a.events)
               v == SetFullSpeed(w)
    <2>1. w \in Steps(y, {g}, Nested(a)) /\ Off(w, Nested(a))
      BY <1>1, RemoveEventsSteps DEF Off
    <2>2. x = SetActiveAllow(v, g, FALSE)
      BY <1>5 DEF PropertyStatesMatch, Matches
    <2> HIDE DEF w
    <2>3. w \in Zones
      BY <2>1, StepsZones
    <2>4. v \in Steps(w, {g}, {}) /\ v.target = FullSpeed /\ v.enabled = w.enabled
      BY <2>3, FullSpeedSteps
    <2> HIDE DEF v
    <2>5. v \in Zones
      BY <2>4, StepsZones
    <2>6. /\ x.enabled = v.enabled /\ x.matched = v.matched /\ x.props = v.props /\ x.target = v.target
          /\ x.holding = v.holding \cup {g}
      BY <2>2, <2>5 DEF SetActiveAllow, Allow, Zones
    <2>7. \A m \in Range(g) : x.props[m] = y.props[m]
      BY <2>1, <2>4, <2>6 DEF Steps, Kept
    <2> HIDE DEF x
    <2>8. ~Matches(x, e)
      BY <1>3, <1>5, <2>7 DEF Matches
    <2>9. Off(x, NestedIn(e)) /\ g \in x.holding /\ x.target = FullSpeed
      BY <1>1, <2>1, <2>4, <2>6 DEF Off
    <2> QED
      BY <2>8, <2>9 DEF Switched, x
  <1> QED
    BY <1>4, <1>5

LEMMA RunSwitches ==
    ASSUME SwitchesAlone, NEW e \in Switch, NEW y \in Zones, BusOK
    PROVE  Switched(RunAll(y, GroupOf(e), Def[e].parts[1].actions), e)
  <1> DEFINE p == Def[e].parts[1]
  <1>1. /\ p \in Part /\ DOMAIN p.actions = {1} /\ p.actions[1] = ActionOf(e) /\ p.group = GroupOf(e)
        /\ ActionOf(e).type \in {"states_match", "alternate"}
    BY SwitchTyped
  <1> HIDE DEF p
  <1>2. ASSUME NEW x \in Zones
        PROVE  Switched(Run(x, GroupOf(e), ActionOf(e)), e)
    <2>1. CASE ActionOf(e).type = "states_match"
      <3>1. Run(x, GroupOf(e), ActionOf(e)) = PropertyStatesMatch(x, GroupOf(e), ActionOf(e))
        BY <2>1 DEF Run
      <3> QED
        BY <2>1, <3>1, MatchSwitches
    <2>2. CASE ActionOf(e).type = "alternate"
      <3>1. Run(x, GroupOf(e), ActionOf(e)) = UseAlternateEventsOnState(x, GroupOf(e), ActionOf(e))
        BY <2>2 DEF Run
      <3> QED
        BY <2>2, <3>1, AlternateSwitches
    <2> QED
      BY <1>1, <2>1, <2>2
  <1>3. DOMAIN p.actions # {}
    BY <1>1
  <1>4. Elsewhere(p.group, {}) /\ \A n \in NestedBy(p) : Apart(n, {})
    BY DEF Apart, Elsewhere
  <1>5. \E x \in Zones, k \in DOMAIN p.actions : RunAll(y, p.group, p.actions) = Run(x, p.group, p.actions[k])
    BY <1>1, <1>3, <1>4, RunPartSteps
  <1> QED
    BY <1>1, <1>2, <1>5 DEF p

-----------------------------------------------------------------------------
(* The start and the signals                                               *)

LEMMA NoGroups == \A e : Apart(e, {}) /\ \A sig : About(sig, {})
  BY DEF Apart, Elsewhere, About

LEMMA SubscribedSwitched ==
    ASSUME SwitchesAlone, NEW e \in Switch, NEW y \in Zones, Switched(y, e)
    PROVE  Switched(SubscribedTo(y, e), e)
  <1>1. SubscribedTo(y, e) \in Steps(y, {GroupOf(e)}, {e})
    BY SubscribedSteps, SwitchTyped
  <1>2. {e} \cap NestedIn(e) = {}
    BY OwnApart
  <1> QED
    BY <1>1, <1>2, KeepsSwitched

LEMMA InitTopEventSwitches ==
    ASSUME SwitchesAlone, NEW y \in Zones, BusOK, SwitchInv(y),
           NEW f \in Event, \A e \in Switch : f \notin NestedIn(e)
    PROVE  InitTopEvent(y, f) \in Zones /\ SwitchInv(InitTopEvent(y, f))
  <1> DEFINE x == InitTopEvent(y, f)
             C == NestedIn(f) \cup {f}
  <1>1. x \in Zones
    <2>1. Apart(f, {}) /\ \A n \in C : Apart(n, {})
      BY NoGroups
    <2>2. x \in Steps(y, {}, C)
      BY <2>1, InitTopEventSteps
    <2> QED
      BY <2>2, StepsZones
  <1>2. ASSUME NEW e \in Switch, e # f, x.enabled[e] > 0
        PROVE  Switched(x, e)
    <2>1. Apart(f, {GroupOf(e)}) /\ \A n \in C : Apart(n, {GroupOf(e)})
      BY <1>2, OthersApart
    <2>2. C \cap NestedIn(e) = {} /\ e \notin C
      BY <1>2, OthersApart
    <2>3. x \in Steps(y, {GroupOf(e)}, C)
      <3> HIDE DEF x
      <3> QED
        BY <2>1, InitTopEventSteps DEF x
    <2>4. x.enabled[e] = y.enabled[e]
      BY <2>2, <2>3, SwitchTyped DEF Steps
    <2>5. Switched(y, e)
      BY <1>2, <2>4 DEF SwitchInv
    <2> HIDE DEF x, C
    <2> QED
      BY <2>2, <2>3, <2>5, KeepsSwitched
  <1>3. ASSUME f \in Switch
        PROVE  Switched(x, f)
    <2>1. DOMAIN Def[f].parts = {1} /\ Inits(f) /\ Def[f].parts[1].group = GroupOf(f)
          /\ Def[f].parts[1] \in Part /\ GroupOf(f) \in Group
      BY <1>3, SwitchTyped
    <2>2. DOMAIN Def[f].parts # {}
      BY <2>1
    <2>3. PICK w \in Zones : x = SubscribedTo(InitTopPart(w, Def[f].parts[1]), f)
      BY <2>1, <2>2, NoGroups, InitTopEventSteps
    <2> DEFINE v == GetProperties(w, GroupOf(f))
    <2>4. v \in Zones
      <3>1. Elsewhere(GroupOf(f), {})
        BY DEF Elsewhere
      <3> QED
        BY <2>1, <3>1, GetPropertiesSteps, StepsZones
    <2>5. InitTopPart(w, Def[f].parts[1]) = RunAll(v, GroupOf(f), Def[f].parts[1].actions)
      BY <2>1 DEF InitTopPart
    <2> HIDE DEF v, x
    <2>6. Switched(InitTopPart(w, Def[f].parts[1]), f)
      BY <1>3, <2>4, <2>5, RunSwitches
    <2>7. InitTopPart(w, Def[f].parts[1]) \in Zones
      <3>1. Elsewhere(Def[f].parts[1].group, {})
        BY DEF Elsewhere
      <3>2. RunAll(v, Def[f].parts[1].group, Def[f].parts[1].actions) \in Steps(v, {}, NestedBy(Def[f].parts[1]))
        BY <2>1, <2>4, <3>1, NoGroups, RunPartSteps
      <3> QED
        BY <2>1, <2>5, <3>2, StepsZones
    <2> QED
      BY <1>3, <2>3, <2>6, <2>7, SubscribedSwitched
  <1> HIDE DEF x
  <1> QED
    BY <1>1, <1>2, <1>3 DEF SwitchInv, x

LEMMA HandleEventSwitches ==
    ASSUME SwitchesAlone, NEW y \in Zones, BusOK, SwitchInv(y), NEW f \in Event,
           NEW sig \in Signal, sig.type # "owner" => sig.member \in Range(Def[f].group)
    PROVE  HandleEvent(y, f, sig) \in Zones /\ SwitchInv(HandleEvent(y, f, sig))
  <1> DEFINE x == HandleEvent(y, f, sig)
             C == NestedIn(f)
  <1>1. x \in Steps(y, {}, C)
    BY NoGroups, HandleEventSteps
  <1>2. ASSUME NEW e \in Switch, e # f, x.enabled[e] > 0
        PROVE  Switched(x, e)
    <2>1. Apart(f, {GroupOf(e)}) /\ \A n \in C : Apart(n, {GroupOf(e)})
      BY <1>2, OthersApart
    <2>2. C \cap NestedIn(e) = {} /\ e \notin C
      BY <1>2, OthersApart
    <2>3. About(sig, {GroupOf(e)})
      BY <1>2, OthersApart DEF About
    <2>4. x \in Steps(y, {GroupOf(e)}, C)
      <3> HIDE DEF x
      <3> QED
        BY <2>1, <2>3, HandleEventSteps DEF x
    <2>5. x.enabled[e] = y.enabled[e]
      BY <2>2, <2>4, SwitchTyped DEF Steps
    <2>6. Switched(y, e)
      BY <1>2, <2>5 DEF SwitchInv
    <2> HIDE DEF x, C
    <2> QED
      BY <2>2, <2>4, <2>6, KeepsSwitched
  <1>3. ASSUME f \in Switch, x.enabled[f] > 0
        PROVE  Switched(x, f)
    <2>1. DOMAIN Def[f].parts = {1} /\ Def[f].parts[1].group = GroupOf(f)
      BY <1>3, SwitchTyped
    <2>2. DOMAIN Def[f].parts # {}
      BY <2>1
    <2>3. y.enabled[f] > 0
      <3>1. f \notin C
        BY <1>3, OwnApart
      <3>2. x.enabled[f] = y.enabled[f]
        BY <1>1, <3>1 DEF Steps
      <3> QED
        BY <1>3, <3>2
    <2>4. PICK w \in Zones : x = HandleParts(w, f, sig)
      BY <2>3, NoGroups, HandleEventSteps
    <2>5. PICK v \in Steps(w, {}, C) : x = RunAll(Handler(v, sig), GroupOf(f), Def[f].parts[1].actions)
      BY <2>1, <2>2, <2>4, NoGroups, HandlePartsSteps
    <2>6. Handler(v, sig) \in Zones
      BY NoGroups, HandlerSteps, StepsZones
    <2> QED
      BY <1>3, <2>5, <2>6, RunSwitches
  <1> HIDE DEF x
  <1> QED
    BY <1>1, <1>2, <1>3, StepsZones DEF SwitchInv, x

-----------------------------------------------------------------------------
(* The mode                                                                *)

\* The mode on D-Bus is the one a restart would restore from the file.
ModeInv ==
    /\ bus \in [Member -> Value \cup {NoValue}]
    /\ file \in Supported \cup {NoValue}
    /\ bus[Mode] = Restored

LEMMA ModeIsSupported ==
    /\ Supported \subseteq Value /\ NoValue \notin Supported /\ NoValue \notin Value
    /\ Mode \in Member /\ DefaultMode \in Supported
  BY LegacyActionsAssumption, LegacyZoneAssumption

LEMMA InitModeInv == Init => ModeInv
  <1> SUFFICES ASSUME Init PROVE ModeInv
    OBVIOUS
  <1>1. PICK b \in Buses : bus = b
    BY DEF Init
  <1> QED
    BY <1>1, LegacyZoneAssumption DEF Init, ModeInv, Restored

-----------------------------------------------------------------------------
(* Changes on D-Bus leave the mode alone                                   *)

LEMMA OthersChange ==
    ASSUME ModeInv, Environment
    PROVE  /\ bus' \in [Member -> Value \cup {NoValue}]
           /\ bus'[Mode] = bus[Mode]
           /\ file' = file
  <1> USE DEF ModeInv
  <1>1. Mode \in Member /\ Mode \notin Watched
    BY ModeIsSupported DEF Watched
  <1>2. ASSUME NEW m \in Watched, NEW v \in Value, ChangeValue(m, v) \/ Appear(m, v)
        PROVE  /\ bus' \in [Member -> Value \cup {NoValue}]
               /\ bus'[Mode] = bus[Mode] /\ file' = file
    <2>1. bus' = [bus EXCEPT ![m] = v] /\ file' = file
      BY <1>2 DEF ChangeValue, Appear, Send
    <2> QED
      BY <1>1, <2>1
  <1>3. ASSUME NEW m \in Watched, Disappear(m)
        PROVE  /\ bus' \in [Member -> Value \cup {NoValue}]
               /\ bus'[Mode] = bus[Mode] /\ file' = file
    <2>1. bus' = [bus EXCEPT ![m] = NoValue] /\ file' = file
      BY <1>3 DEF Disappear, Send
    <2> QED
      BY <1>1, <2>1
  <1>4. ASSUME NEW s \in Service, ServiceStops(s) \/ ServiceStarts(s)
        PROVE  /\ bus' \in [Member -> Value \cup {NoValue}]
               /\ bus'[Mode] = bus[Mode] /\ file' = file
    <2>1. file' = file
      BY <1>4 DEF ServiceStops, ServiceStarts, Send
    <2>2. CASE ServiceStops(s)
      <3>1. /\ bus' = [m \in Member |-> IF ServiceOf[m] = s THEN NoValue ELSE bus[m]]
            /\ s # ServiceOf[Mode]
        BY <2>2 DEF ServiceStops
      <3> QED
        BY <1>1, <2>1, <3>1
    <2>3. CASE ServiceStarts(s)
      BY <2>1, <2>3 DEF ServiceStarts
    <2> QED
      BY <1>4, <2>2, <2>3
  <1> QED
    BY <1>2, <1>3, <1>4 DEF Environment

-----------------------------------------------------------------------------
(* Start and the mode that is set                                          *)

LEMMA StartRestores ==
    ASSUME ModeInv, Start
    PROVE  ModeInv' /\ bus'[Mode] = bus[Mode]
  <1>1. /\ bus' = [bus EXCEPT ![Mode] = Restored]
        /\ file' = IF Restored = DefaultMode THEN file ELSE Restored
    BY DEF Start
  <1>2. Restored \in Supported /\ Restored # NoValue /\ Restored = bus[Mode]
    BY ModeIsSupported DEF ModeInv, Restored
  <1>3. bus' = bus
    BY <1>1, <1>2 DEF ModeInv
  <1>4. file' \in Supported \cup {NoValue} /\ Restored' = Restored
    BY <1>1, <1>2 DEF ModeInv, Restored
  <1> QED
    BY <1>2, <1>3, <1>4 DEF ModeInv

LEMMA SetModeSaves ==
    ASSUME ModeInv, NEW v \in Value, SetMode(v)
    PROVE  ModeInv' /\ status = "on"
  <1>1. /\ v \in Supported
        /\ bus' = [bus EXCEPT ![Mode] = v]
        /\ file' = v
        /\ status = "on"
    BY DEF SetMode, Settable
  <1>2. v # NoValue /\ Mode \in Member
    BY <1>1, ModeIsSupported
  <1>3. Restored' = v
    BY <1>1, <1>2 DEF Restored
  <1> QED
    BY <1>1, <1>2, <1>3, ModeIsSupported DEF ModeInv

\* Nothing but these reaches the mode or the file.
LEMMA NextModeInv ==
    ModeInv /\ [Next]_vars => ModeInv' /\ (bus'[Mode] # bus[Mode] => status = "on")
  <1> SUFFICES ASSUME ModeInv, [Next]_vars
               PROVE  ModeInv' /\ (bus'[Mode] # bus[Mode] => status = "on")
    OBVIOUS
  <1>1. CASE Environment
    <2>1. /\ bus' \in [Member -> Value \cup {NoValue}]
          /\ bus'[Mode] = bus[Mode]
          /\ file' = file
      BY <1>1, OthersChange
    <2> QED
      BY <2>1 DEF ModeInv, Restored
  <1>2. CASE Start
    BY <1>2, StartRestores
  <1>3. ASSUME NEW v \in Value, SetMode(v)
        PROVE  ModeInv' /\ (bus'[Mode] # bus[Mode] => status = "on")
    BY <1>3, SetModeSaves
  <1>4. CASE UNCHANGED <<bus, file>>
    BY <1>4 DEF ModeInv, Restored
  <1>5. DoInit \/ EnableEvent \/ Started \/ Ends \/ Receive \/ IncTimerExpired
          \/ DecTimerExpired => UNCHANGED <<bus, file>>
    BY DEF DoInit, EnableEvent, Started, Ends, Receive, IncTimerExpired, DecTimerExpired, Expired
  <1>6. ASSUME NEW e, NEW k, TimerExpired(e, k)
        PROVE  UNCHANGED <<bus, file>>
    BY <1>6 DEF TimerExpired, Expired
  <1>7. ASSUME NEW t, ActionTimerExpired(t)
        PROVE  UNCHANGED <<bus, file>>
    BY <1>7 DEF ActionTimerExpired, Expired
  <1>8. UNCHANGED vars => UNCHANGED <<bus, file>>
    BY DEF vars
  <1> QED
    BY <1>1, <1>2, <1>3, <1>4, <1>5, <1>6, <1>7, <1>8 DEF Next, Daemon

\* A mode that was set is kept over the end of the daemon and not replaced by
\* the default, whatever events the zone has.
\* (saveCurrentMode(), restoreCurrentMode(), setZoneProperty())
THEOREM ModeIsKept == Spec => ModePersists
  <1>1. Spec => []ModeInv
    BY InitModeInv, NextModeInv, PTL DEF Spec
  <1>2. ModeInv /\ [Next]_vars => [bus'[Mode] # bus[Mode] => status = "on"]_vars
    BY NextModeInv
  <1> QED
    BY <1>1, <1>2, PTL DEF Spec, ModePersists

-----------------------------------------------------------------------------
(* The invariant                                                           *)

\* What holds of the zone after every callback
Fine(y) == y \in Zones /\ (SwitchesAlone => SwitchInv(y))
FineZones == {y \in Zones : Fine(y)}

ZoneInv ==
    /\ up \subseteq Service
    /\ status \in {"off", "full", "starting", "on", "failed"}
    /\ config \in Configs /\ todo \in Seq(Range(config))
    /\ inbox \in Seq(Signal)
    /\ Fine(z)

LEMMA ConfigTyped ==
    ASSUME config \in Configs
    PROVE  /\ config \in Seq(Range(config)) /\ Range(config) \subseteq Event
           /\ Watched \subseteq Member
           /\ SwitchesAlone => \A f \in Range(config), e \in Switch : f \notin NestedIn(e)
  <1>1. config \in Seq(Event)
    BY LegacyZoneAssumption
  <1>2. config \in Seq(Range(config)) /\ Range(config) \subseteq Event
    BY <1>1 DEF Range
  <1>3. \A e \in Event : Def[e].group \in Seq(Member)
    BY LegacyActionsAssumption
  <1>4. \A e \in Event : Range(Def[e].group) \subseteq Member
    BY <1>3 DEF Range
  <1>5. \A f \in Range(config) : NestedIn(f) \subseteq Event
    BY <1>2, NestedInTyped
  <1>6. Watched \subseteq Member
    BY <1>2, <1>4, <1>5 DEF Watched, EventsOf
  <1> QED
    BY <1>2, <1>6 DEF SwitchesAlone

LEMMA NewZoneFine ==
    ASSUME NEW target \in Nat, NEW matched \in SUBSET Member
    PROVE  Fine(NewZone(target, matched))
  <1> DEFINE y == NewZone(target, matched)
  <1>1. y \in Zones
    BY LegacyActionsAssumption DEF Zones, NewZone
  <1>2. \A e \in Event : y.enabled[e] = 0
    BY DEF NewZone
  <1>3. \A e \in Switch : ~(y.enabled[e] > 0)
    BY <1>2 DEF Switch
  <1> HIDE DEF y
  <1> QED
    BY <1>1, <1>3 DEF Fine, SwitchInv, y

\* Steps that keep all groups and enable nothing
LEMMA StepsFine ==
    ASSUME NEW y, Fine(y), NEW x,
           SwitchesAlone => \A e \in Switch : x \in Steps(y, {GroupOf(e)}, {}),
           x \in Zones
    PROVE  Fine(x)
  <1> SUFFICES ASSUME SwitchesAlone, NEW e \in Switch, x.enabled[e] > 0
               PROVE  Switched(x, e)
    BY DEF Fine, SwitchInv
  <1>1. x \in Steps(y, {GroupOf(e)}, {}) /\ e \in Event
    BY SwitchTyped
  <1>2. x.enabled[e] = y.enabled[e]
    BY <1>1 DEF Steps
  <1>3. Switched(y, e)
    BY <1>2 DEF Fine, SwitchInv
  <1> QED
    BY <1>1, <1>3, KeepsSwitched

LEMMA HandleEventFine ==
    ASSUME NEW y \in FineZones, BusOK, NEW f \in Event,
           NEW sig \in Signal, sig.type # "owner" => sig.member \in Range(Def[f].group)
    PROVE  HandleEvent(y, f, sig) \in FineZones
  <1>1. y \in Zones /\ Fine(y)
    BY DEF FineZones
  <1>2. HandleEvent(y, f, sig) \in Zones
    BY <1>1, NoGroups, HandleEventSteps, StepsZones
  <1>3. SwitchesAlone => SwitchInv(HandleEvent(y, f, sig))
    BY <1>1, HandleEventSwitches DEF Fine
  <1> QED
    BY <1>2, <1>3 DEF Fine, FineZones

\* The handlers of a signal, in some order
LEMMA HandleInOrder ==
    ASSUME NEW y \in FineZones, BusOK, NEW sig \in Signal, NEW E \in SUBSET Event,
           \A f \in E : sig.type # "owner" => sig.member \in Range(Def[f].group),
           NEW q \in Seq(E)
    PROVE  FoldLeft(LAMBDA x, e : HandleEvent(x, e, sig), y, q) \in FineZones
  <1> DEFINE S == DOMAIN q
             X == FineZones
             step == [k \in S |-> [f \in X |-> HandleEvent(f, q[k], sig)]]
             Is(h) == h = [s \in SUBSET S |-> IF s = {} THEN y
                           ELSE HandleEvent(h[s \ {Max(s)}], q[Max(s)], sig)]
             fold == CHOOSE h : Is(h)
  <1>1. ASSUME NEW k \in S, NEW f \in X
        PROVE  HandleEvent(f, q[k], sig) \in X
    <2>1. q[k] \in E
      OBVIOUS
    <2> QED
      BY <2>1, HandleEventFine
  <1>2. y \in X
    OBVIOUS
  <1>3. q \in Seq(E)
    OBVIOUS
  <1>4. \A s \in SUBSET S : s # {} => Max(s) \in S
    BY <1>3, RangeFinite, MaxExists, FS_Subset
  <1> HIDE DEF X
  <1>5. \E h : Is(h)
    <2>1. Closed(step, S, X)
      BY <1>1 DEF Closed
    <2>2. PICK h : IsFold(h, S, X, y, LastOf(S), step)
      <3> HIDE DEF step
      <3> QED
        BY <1>2, <1>3, <2>1, LeftFoldExists
    <2>3. \A s \in SUBSET S : s # {} => h[s \ {Max(s)}] \in X
      BY <2>2 DEF IsFold
    <2>4. Is(h)
      BY <1>4, <2>2, <2>3 DEF IsFold, LastOf
    <2> QED
      BY <2>4
  <1>6. Is(fold)
    BY <1>5
  <1>7. FoldLeft(LAMBDA x, e : HandleEvent(x, e, sig), y, q) = fold[S]
    BY DEF FoldLeft, MapThenFoldSet
  <1> HIDE DEF fold
  <1>8. ASSUME NEW s \in SUBSET S, s # {} /\ fold[s \ {Max(s)}] \in X
        PROVE  fold[s] \in X
    <2>1. fold[s] = HandleEvent(fold[s \ {Max(s)}], q[Max(s)], sig)
      BY <1>6, <1>8
    <2> QED
      BY <1>1, <1>4, <1>8, <2>1
  <1>9. fold[{}] \in X
    BY <1>2, <1>6
  <1>10. fold[S] \in X
    BY <1>3, <1>8, <1>9, LeftFoldIn
  <1> QED
    BY <1>7, <1>10 DEF X

\* Those of the event that sets the mode
LEMMA HandleInAnyOrder ==
    ASSUME NEW y \in FineZones, BusOK, NEW sig \in Signal, NEW E \in SUBSET Event,
           \A f \in E : sig.type # "owner" => sig.member \in Range(Def[f].group)
    PROVE  FoldSet(LAMBDA e, x : HandleEvent(x, e, sig), y, E) \in FineZones
  <1> DEFINE X == FineZones
             first(s) == CHOOSE e \in s : TRUE
             c == [s \in SUBSET E |-> first(s)]
             step == [e \in E |-> [x \in X |-> HandleEvent(x, e, sig)]]
             Is(h) == h = [s \in SUBSET E |-> IF s = {} THEN y
                           ELSE HandleEvent(h[s \ {first(s)}], first(s), sig)]
             fold == CHOOSE h : Is(h)
             P == {s \in SUBSET E : fold[s] \in X}
  <1>1. IsFiniteSet(E)
    BY LegacyActionsAssumption, FS_Subset
  <1>2. \A s \in SUBSET E : s # {} => first(s) \in s /\ first(s) \in E
    OBVIOUS
  <1>3. \A e \in E, x \in X : HandleEvent(x, e, sig) \in X
    BY HandleEventFine
  <1>4. FoldSet(LAMBDA e, x : HandleEvent(x, e, sig), y, E) = fold[E]
    BY DEF FoldSet, MapThenFoldSet
  <1> HIDE DEF X, first
  <1>5. y \in X
    BY DEF X
  <1>6. \E h : Is(h)
    <2>1. Closed(step, E, X)
      BY <1>3 DEF Closed
    <2>2. Picks(c, E)
      BY <1>2 DEF Picks
    <2>3. PICK h : IsFold(h, E, X, y, c, step)
      <3> HIDE DEF c, step
      <3> QED
        BY <1>1, <1>5, <2>1, <2>2, FoldExists
    <2>4. \A s \in SUBSET E : s # {} => h[s \ {first(s)}] \in X
      BY <2>3 DEF IsFold
    <2>5. \A s \in SUBSET E : s # {} =>
            step[c[s]][h[s \ {c[s]}]] = HandleEvent(h[s \ {first(s)}], first(s), sig)
      BY <1>2, <2>4
    <2> HIDE DEF step
    <2>6. Is(h)
      BY <2>3, <2>5 DEF IsFold
    <2> QED
      BY <2>6
  <1>7. Is(fold)
    BY <1>6
  <1> HIDE DEF fold
  <1>8. {} \in P
    BY <1>5, <1>7
  <1>9. ASSUME NEW s \in SUBSET E, s # {}
        PROVE  \E e \in s : s \ {e} \in P => s \in P
    <2>1. fold[s] = HandleEvent(fold[s \ {first(s)}], first(s), sig)
      BY <1>7, <1>9
    <2>2. fold[s \ {first(s)}] \in X => fold[s] \in X
      BY <1>2, <1>3, <1>9, <2>1
    <2> QED
      BY <1>2, <1>9, <2>2
  <1>10. \A s \in SUBSET E : s \in P
    <2> HIDE DEF P
    <2> QED
      BY <1>1, <1>8, <1>9, SubsetInduction
  <1> QED
    BY <1>4, <1>10 DEF X

-----------------------------------------------------------------------------
(* The steps of the system                                                 *)

LEMMA InitZoneInv == Init => ZoneInv
  <1> SUFFICES ASSUME Init PROVE ZoneInv
    OBVIOUS
  <1>1. Fine(z)
    BY NewZoneFine, LegacyActionsAssumption DEF Init
  <1> QED
    BY <1>1 DEF Init, ZoneInv

\* A callback is given the state z, and leaves a fine one.
LEMMA CallbackKeeps ==
    ASSUME ZoneInv, Fine(z'), UNCHANGED <<up, status, config, todo>>, inbox' \in Seq(Signal)
    PROVE  ZoneInv'
  BY DEF ZoneInv, Fine, SwitchInv, Switched, AllAt, Matches, On, Off

LEMMA StartKeeps ==
    ASSUME ZoneInv, DoInit \/ Start \/ Started \/ Ends
    PROVE  ZoneInv'
  <1>1. z.target \in Nat /\ config \in Seq(Range(config))
    BY ConfigTyped DEF ZoneInv, Fine, Zones
  <1>2. \E target \in Nat, matched \in SUBSET Member :
           Fine(NewZone(target, matched)) /\ z' \in {z, NewZone(target, matched)}
    BY <1>1, NewZoneFine, LegacyActionsAssumption DEF DoInit, Start, Started, Ends, OnBus
  <1>3. Fine(z')
    BY <1>2 DEF ZoneInv
  <1>4. UNCHANGED <<up, config>> /\ status' \in {"off", "full", "starting", "on", "failed"}
    BY DEF DoInit, Start, Started, Ends
  <1>5. todo' \in {todo, config, <<>>} /\ inbox' \in {inbox, <<>>}
    BY DEF DoInit, Start, Started, Ends
  <1>6. todo' \in Seq(Range(config)) /\ inbox' \in Seq(Signal)
    <2>1. todo \in Seq(Range(config)) /\ inbox \in Seq(Signal)
      BY DEF ZoneInv
    <2>2. <<>> \in Seq(Range(config)) /\ <<>> \in Seq(Signal)
      OBVIOUS
    <2> QED
      BY <1>1, <1>5, <2>1, <2>2, Zenon
  <1> QED
    BY <1>3, <1>4, <1>6 DEF ZoneInv

LEMMA EnableEventKeeps ==
    ASSUME ZoneInv, BusOK, EnableEvent
    PROVE  ZoneInv'
  <1>1. /\ todo # <<>> /\ todo' = Tail(todo) /\ z' = InitTopEvent(z, Head(todo))
        /\ UNCHANGED <<up, status, config, inbox>>
    BY DEF EnableEvent
  <1>2. Head(todo) \in Range(config) /\ todo' \in Seq(Range(config))
    BY <1>1 DEF ZoneInv
  <1>3. /\ Head(todo) \in Event
        /\ SwitchesAlone => \A e \in Switch : Head(todo) \notin NestedIn(e)
    BY <1>2, ConfigTyped DEF ZoneInv
  <1>4. z' \in Zones
    <2> DEFINE f == Head(todo)
               C == NestedIn(f) \cup {f}
    <2>1. z \in Zones /\ f \in Event
      BY <1>3 DEF ZoneInv, Fine
    <2>2. NestedIn(f) \cup {f} \subseteq C
      OBVIOUS
    <2>3. z' = InitTopEvent(z, f)
      BY <1>1
    <2> HIDE DEF f, C
    <2>4. InitTopEvent(z, f) \in Steps(z, {}, C)
      BY <2>1, <2>2, NoGroups, InitTopEventSteps
    <2> QED
      BY <2>3, <2>4, StepsZones
  <1>5. SwitchesAlone => SwitchInv(z')
    BY <1>1, <1>3, InitTopEventSwitches DEF ZoneInv, Fine
  <1> QED
    BY <1>1, <1>2, <1>4, <1>5 DEF ZoneInv, Fine

LEMMA SendKeeps ==
    ASSUME ZoneInv, NEW sig \in Signal, Send(sig), up' \subseteq Service
    PROVE  ZoneInv'
  <1>1. UNCHANGED <<status, config, todo, z>> /\ inbox' \in {inbox, Append(inbox, sig)}
    BY DEF Send
  <1>2. inbox' \in Seq(Signal)
    BY <1>1 DEF ZoneInv
  <1> QED
    BY <1>1, <1>2 DEF ZoneInv

LEMMA EnvironmentKeeps ==
    ASSUME ZoneInv, Environment
    PROVE  ZoneInv'
  <1>1. Watched \subseteq Member /\ up \subseteq Service
    BY ConfigTyped DEF ZoneInv
  <1>2. ASSUME NEW m \in Watched, Disappear(m)
        PROVE  ZoneInv'
    <2>1. [type |-> "removed", member |-> m] \in Signal
      BY <1>1 DEF Signal
    <2>2. Send([type |-> "removed", member |-> m]) /\ up' = up
      BY <1>2 DEF Disappear
    <2> QED
      BY <1>1, <2>1, <2>2, SendKeeps
  <1>3. ASSUME NEW m \in Watched, NEW v \in Value, ChangeValue(m, v) \/ Appear(m, v)
        PROVE  ZoneInv'
    <2>1. PICK type \in {"changed", "added"} : Send([type |-> type, member |-> m, value |-> v])
      BY <1>3 DEF ChangeValue, Appear
    <2>2. [type |-> type, member |-> m, value |-> v] \in Signal
      BY <1>1 DEF Signal
    <2>3. up' = up
      BY <1>3 DEF ChangeValue, Appear
    <2> QED
      BY <1>1, <2>1, <2>2, <2>3, SendKeeps
  <1>4. ASSUME NEW s \in Service, ServiceStops(s) \/ ServiceStarts(s)
        PROVE  ZoneInv'
    <2>1. [type |-> "owner", service |-> s] \in Signal
      BY DEF Signal
    <2>2. Send([type |-> "owner", service |-> s]) /\ up' \subseteq Service
      BY <1>1, <1>4 DEF ServiceStops, ServiceStarts
    <2> QED
      BY <2>1, <2>2, SendKeeps
  <1> QED
    BY <1>2, <1>3, <1>4 DEF Environment

\* The events that handle a signal are subscribed to their own members.
LEMMA SubscribersHandle ==
    ASSUME NEW sig
    PROVE  /\ Subscribers(sig) \in SUBSET Event
           /\ \A f \in Subscribers(sig) : sig.type # "owner" => sig.member \in Range(Def[f].group)
  BY DEF Subscribers, Handles

LEMMA ReceiveKeeps ==
    ASSUME ZoneInv, BusOK, Receive
    PROVE  ZoneInv'
  <1> DEFINE sig == Head(inbox)
  <1>1. /\ inbox # <<>> /\ inbox' = Tail(inbox)
        /\ UNCHANGED <<up, status, config, todo>>
    BY DEF Receive
  <1>2. sig \in Signal /\ inbox' \in Seq(Signal)
    BY <1>1 DEF ZoneInv
  <1>3. PICK order \in SetToSeqs(Subscribers(sig)) :
           z' = FoldLeft(LAMBDA y, e : HandleEvent(y, e, sig), z, order)
    BY DEF Receive
  <1> HIDE DEF sig
  <1>4. order \in Seq(Subscribers(sig))
    <2>1. IsFiniteSet(Subscribers(sig))
      BY SubscribersHandle, FS_Subset, LegacyActionsAssumption
    <2>2. Cardinality(Subscribers(sig)) \in Nat
      BY <2>1, FS_CardinalityType
    <2>3. order \in [1..Cardinality(Subscribers(sig)) -> Subscribers(sig)]
      BY <1>3 DEF SetToSeqs
    <2> QED
      BY <2>2, <2>3
  <1>5. z \in FineZones
    BY DEF ZoneInv, FineZones, Fine
  <1>6. z' \in FineZones
    BY <1>2, <1>3, <1>4, <1>5, SubscribersHandle, HandleInOrder
  <1> QED
    BY <1>1, <1>2, <1>6, CallbackKeeps DEF FineZones

LEMMA SetModeKeeps ==
    ASSUME ZoneInv, BusOK, NEW v \in Value, SetMode(v)
    PROVE  ZoneInv'
  <1> DEFINE sig == [type |-> "mode", member |-> Mode, value |-> v]
  <1>1. /\ UNCHANGED <<up, status, config, todo, inbox>>
        /\ z' = FoldSet(LAMBDA e, y : HandleEvent(y, e, sig), z, Subscribers(sig))
    BY DEF SetMode
  <1>2. sig \in Signal
    BY ModeIsSupported DEF Signal
  <1> HIDE DEF sig
  <1>3. z \in FineZones
    BY DEF ZoneInv, FineZones, Fine
  <1>4. z' \in FineZones
    BY <1>1, <1>2, <1>3, SubscribersHandle, HandleInAnyOrder
  <1>5. inbox' \in Seq(Signal)
    BY <1>1 DEF ZoneInv
  <1> QED
    BY <1>1, <1>4, <1>5, CallbackKeeps DEF FineZones

LEMMA ExpiredKeeps ==
    ASSUME ZoneInv, NEW y, Expired(y), Fine(y)
    PROVE  ZoneInv'
  <1>1. UNCHANGED <<up, status, config, todo, inbox>> /\ z' = y
    BY DEF Expired
  <1>2. inbox' \in Seq(Signal)
    BY <1>1 DEF ZoneInv
  <1> QED
    BY <1>1, <1>2 DEF ZoneInv

\* An action timer is one of an event that is no switch.
LEMMA TimersElsewhere ==
    ASSUME SwitchesAlone, NEW e \in Switch, NEW t \in Timer
    PROVE  Elsewhere(t.group, {GroupOf(e)})
  <1>1. PICK p \in TimerPart : t.group = p.group
    BY DEF Timer
  <1>2. PICK a \in Range(p.actions) : IsTimer(a)
    BY DEF TimerPart
  <1>3. PICK f \in Event : p \in Range(Def[f].parts)
    BY DEF TimerPart, Part
  <1>4. f # e
    <2> SUFFICES ASSUME f = e PROVE FALSE
      OBVIOUS
    <2>1. p = Def[e].parts[1] /\ Def[e].parts[1].actions \in Seq(Range(p.actions))
      BY <1>3, SwitchTyped, PartsTyped
    <2>2. Range(p.actions) = {ActionOf(e)}
      BY <2>1, SwitchTyped DEF Range
    <2> QED
      BY <1>2, <2>2, SwitchTyped DEF IsTimer
  <1>5. Apart(f, {GroupOf(e)})
    BY <1>4, OthersApart
  <1> QED
    BY <1>1, <1>3, <1>5 DEF Apart

LEMMA IncTimerKeeps ==
    ASSUME ZoneInv, IncTimerExpired
    PROVE  ZoneInv'
  <1> DEFINE y == [z EXCEPT !.incDelta = 0, !.incTimer = FALSE]
  <1>1. Fine(z) /\ z \in Zones /\ Expired(y)
    BY DEF ZoneInv, Fine, IncTimerExpired
  <1>2. /\ y \in Zones /\ y.props = z.props /\ y.holding = z.holding
        /\ y.target = z.target /\ y.enabled = z.enabled /\ y.matched = z.matched
    BY <1>1 DEF Zones
  <1> HIDE DEF y
  <1>3. \A e \in Switch : y \in Steps(z, {GroupOf(e)}, {})
    BY <1>1, <1>2, SameSteps
  <1>4. Fine(y)
    BY <1>1, <1>2, <1>3, StepsFine
  <1> QED
    BY <1>1, <1>4, ExpiredKeeps

LEMMA DecTimerKeeps ==
    ASSUME ZoneInv, DecTimerExpired
    PROVE  ZoneInv'
  <1> DEFINE x == IF DecreaseAllowed(z) THEN SetSpeed(z, Decreased(z)) ELSE z
             y == [x EXCEPT !.decDelta = 0]
  <1>1. Fine(z) /\ z \in Zones /\ Expired(y)
    BY DEF ZoneInv, Fine, DecTimerExpired
  <1>2. Decreased(z) \in Nat
    <2> DEFINE base == Min({RequestSpeedBase(z), z.ceiling})
    <2>1. RequestSpeedBase(z) \in Nat /\ z.ceiling \in Nat /\ z.floor \in Nat /\ z.decDelta \in Nat
      BY <1>1 DEF Zones, RequestSpeedBase
    <2>2. base \in Nat
      BY <2>1, MinOfTwo
    <2>3. Decreased(z) = IF base < z.decDelta \/ base - z.decDelta < z.floor THEN z.floor
                         ELSE base - z.decDelta
      BY DEF Decreased
    <2> HIDE DEF base
    <2> QED
      BY <2>1, <2>2, <2>3
  <1>3. \A G : x \in Steps(z, G, {})
    BY <1>1, <1>2, SetSpeedSteps, StepsRefl
  <1> HIDE DEF x
  <1>4. x \in Zones
    BY <1>3, StepsZones
  <1>5. /\ y \in Zones /\ y.props = x.props /\ y.holding = x.holding
        /\ y.target = x.target /\ y.enabled = x.enabled /\ y.matched = x.matched
    BY <1>4 DEF Zones
  <1> HIDE DEF y
  <1>6. \A e \in Switch : y \in Steps(z, {GroupOf(e)}, {})
    BY <1>3, <1>4, <1>5, SameSteps, StepsTrans
  <1>7. Fine(y)
    BY <1>1, <1>5, <1>6, StepsFine
  <1> QED
    BY <1>1, <1>7, ExpiredKeeps

LEMMA TimerKeeps ==
    ASSUME ZoneInv, BusOK, NEW f \in Event, NEW k \in DOMAIN Def[f].parts, TimerExpired(f, k)
    PROVE  ZoneInv'
  <1> DEFINE p == Def[f].parts[k]
             y == RunAll(z, p.group, p.actions)
             C == NestedIn(f)
  <1>1. Fine(z) /\ z \in Zones /\ Expired(y)
    BY DEF ZoneInv, Fine, TimerExpired
  <1>2. p \in Part /\ p \in Range(Def[f].parts) /\ NestedBy(p) \subseteq C
    BY NestedInTyped
  <1>3. y \in Zones
    <2>1. Elsewhere(p.group, {})
      BY DEF Elsewhere
    <2> HIDE DEF p
    <2>2. y \in Steps(z, {}, C)
      BY <1>1, <1>2, <2>1, NoGroups, RunPartSteps
    <2> QED
      BY <2>2, StepsZones
  <1>4. ASSUME SwitchesAlone, NEW e \in Switch, e # f, y.enabled[e] > 0
        PROVE  Switched(y, e)
    <2>1. Apart(f, {GroupOf(e)}) /\ \A n \in C : Apart(n, {GroupOf(e)})
      BY <1>4, OthersApart
    <2>2. C \cap NestedIn(e) = {} /\ e \notin C /\ e \in Event
      BY <1>4, OthersApart, SwitchTyped
    <2>3. Elsewhere(p.group, {GroupOf(e)})
      BY <1>2, <2>1 DEF Apart
    <2> HIDE DEF p, C
    <2>4. y \in Steps(z, {GroupOf(e)}, C)
      BY <1>1, <1>2, <2>1, <2>3, RunPartSteps
    <2> HIDE DEF y
    <2>5. y.enabled[e] = z.enabled[e]
      BY <2>2, <2>4 DEF Steps
    <2>6. Switched(z, e)
      BY <1>1, <1>4, <2>5 DEF Fine, SwitchInv
    <2> QED
      BY <1>4, <2>2, <2>4, <2>6, KeepsSwitched
  <1>5. ASSUME SwitchesAlone, f \in Switch
        PROVE  Switched(y, f)
    <2>1. k = 1 /\ p.group = GroupOf(f) /\ p.actions = Def[f].parts[1].actions
      BY <1>5, SwitchTyped
    <2> QED
      BY <1>1, <1>5, <2>1, RunSwitches
  <1> HIDE DEF y
  <1>6. Fine(y)
    BY <1>3, <1>4, <1>5 DEF Fine, SwitchInv
  <1> QED
    BY <1>1, <1>6, ExpiredKeeps

LEMMA ActionTimerKeeps ==
    ASSUME ZoneInv, NEW t \in z.timed, ActionTimerExpired(t)
    PROVE  ZoneInv'
  <1> DEFINE timed == (z.timed \ {t}) \cup {[t EXCEPT !.armed = FALSE]}
             x == IF t.oneshot THEN [z EXCEPT !.timed = timed] ELSE z
             y == RunAll(x, t.group, t.actions)
  <1>1. Fine(z) /\ z \in Zones /\ Expired(y)
    BY DEF ZoneInv, Fine, ActionTimerExpired
  <1>2. t \in Timer
    BY <1>1 DEF Zones
  <1>3. [t EXCEPT !.armed = FALSE] \in Timer
    BY <1>2 DEF Timer
  <1>4. timed \in SUBSET Timer
    BY <1>1, <1>3 DEF Zones
  <1> HIDE DEF timed
  <1>5. /\ x \in Zones /\ x.props = z.props /\ x.holding = z.holding
        /\ x.target = z.target /\ x.enabled = z.enabled /\ x.matched = z.matched
    BY <1>1, <1>4 DEF Zones
  <1> HIDE DEF x
  <1>6. \A G : Elsewhere(t.group, G) => y \in Steps(x, G, {})
    BY <1>2, <1>5, RunTimerSteps
  <1>7. \A G : x \in Steps(z, G, {})
    BY <1>1, <1>5, SameSteps
  <1> HIDE DEF y
  <1>8. \A G : Elsewhere(t.group, G) => y \in Steps(z, G, {})
    BY <1>6, <1>7, StepsTrans
  <1>9. y \in Zones
    <2>1. Elsewhere(t.group, {})
      BY DEF Elsewhere
    <2> QED
      BY <1>8, <2>1, StepsZones
  <1>10. SwitchesAlone => \A e \in Switch : y \in Steps(z, {GroupOf(e)}, {})
    BY <1>2, <1>8, TimersElsewhere
  <1>11. Fine(y)
    BY <1>1, <1>9, <1>10, StepsFine
  <1> QED
    BY <1>1, <1>11, ExpiredKeeps

LEMMA NextZoneInv == ZoneInv /\ ModeInv /\ [Next]_vars => ZoneInv'
  <1> SUFFICES ASSUME ZoneInv, ModeInv, [Next]_vars
               PROVE  ZoneInv'
    OBVIOUS
  <1>1. BusOK
    BY DEF ModeInv, BusOK
  <1>2. CASE Environment
    BY <1>2, EnvironmentKeeps
  <1>3. CASE DoInit \/ Start \/ Started \/ Ends
    BY <1>3, StartKeeps
  <1>4. CASE EnableEvent
    BY <1>1, <1>4, EnableEventKeeps
  <1>5. CASE Receive
    BY <1>1, <1>5, ReceiveKeeps
  <1>6. ASSUME NEW v \in Value, SetMode(v)
        PROVE  ZoneInv'
    BY <1>1, <1>6, SetModeKeeps
  <1>7. CASE IncTimerExpired
    BY <1>7, IncTimerKeeps
  <1>8. CASE DecTimerExpired
    BY <1>8, DecTimerKeeps
  <1>9. ASSUME NEW e \in Event, NEW k \in DOMAIN Def[e].parts, TimerExpired(e, k)
        PROVE  ZoneInv'
    BY <1>1, <1>9, TimerKeeps
  <1>10. ASSUME NEW t \in z.timed, ActionTimerExpired(t)
         PROVE  ZoneInv'
    BY <1>10, ActionTimerKeeps
  <1>11. CASE UNCHANGED vars
    BY <1>11 DEF vars, ZoneInv, Fine, SwitchInv, Switched, AllAt, Matches, On, Off
  <1> QED
    BY <1>2, <1>3, <1>4, <1>5, <1>6, <1>7, <1>8, <1>9, <1>10, <1>11 DEF Next, Daemon

LEMMA ZoneInvHolds == Spec => [](ZoneInv /\ ModeInv)
  BY InitZoneInv, NextZoneInv, InitModeInv, NextModeInv, PTL DEF Spec

-----------------------------------------------------------------------------
(* The theorems                                                            *)

\* Whatever the events of a zone are, every callback keeps the types, and a
\* saved mode is one that can be set.
THEOREM ZoneIsTyped == Spec => []LegacyTypeOK
  <1>1. ZoneInv /\ ModeInv => LegacyTypeOK
    <2> SUFFICES ASSUME ZoneInv, ModeInv PROVE LegacyTypeOK
      OBVIOUS
    <2>1. z \in Zones
      BY DEF ZoneInv, Fine
    <2>2. z.holding \cup z.floorFixed \cup z.noDecrease \subseteq Group
      BY <2>1 DEF Zones
    <2> QED
      BY <2>1, <2>2 DEF LegacyTypeOK, ZoneInv, ModeInv, Zones, Group, Part
  <1> QED
    BY <1>1, ZoneInvHolds, PTL

\* An action in use that switches events is the one action of a switch.
LEMMA SwitchInUse ==
    ASSUME SwitchesAlone, ZoneInv, NEW u \in InUse, u.action.type \in {"states_match", "alternate"}
    PROVE  \E e \in Switch : Switched(z, e) /\ u.group = GroupOf(e) /\ u.action = ActionOf(e)
  <1>1. PICK e \in Event : z.enabled[e] > 0 /\ u \in ActionsOf(e)
    BY DEF InUse
  <1>2. PICK p \in Range(Def[e].parts) :
           u \in {[group |-> p.group, action |-> a] : a \in Range(p.actions)}
    BY <1>1 DEF ActionsOf
  <1>3. PICK a \in Range(p.actions) : u = [group |-> p.group, action |-> a]
    BY <1>2
  <1>4. e \in Switch
    BY <1>3 DEF Switch
  <1>5. Switched(z, e)
    BY <1>1, <1>4 DEF ZoneInv, Fine, SwitchInv
  <1>6. p = Def[e].parts[1]
    BY <1>2, <1>4, SwitchTyped
  <1>7. a = ActionOf(e)
    BY <1>2, <1>4, <1>6, SwitchTyped DEF Range
  <1>8. p.group = GroupOf(e)
    BY <1>6 DEF GroupOf
  <1> QED
    BY <1>3, <1>4, <1>5, <1>7, <1>8

\* Whatever else the events of a zone are, and in whatever order the signals,
\* timers and modes that are set arrive: exactly one of the two sets of events
\* of a switch is enabled, and the one for a state only at that state.
\* (use_alternate_events_on_state)
THEOREM EventsAreSwitched ==
    ASSUME SwitchesAlone
    PROVE  Spec => []EventsFollowState
  <1>1. ZoneInv => EventsFollowState
    <2> SUFFICES ASSUME ZoneInv, NEW u \in InUse, u.action.type = "alternate",
                        NEW e \in Range(u.action.alt), NEW f \in Range(u.action.def)
                 PROVE  /\ z.enabled[e] > 0 <=> AllAt(z, u.group, u.action.state)
                        /\ z.enabled[f] = 0 <=> AllAt(z, u.group, u.action.state)
      BY DEF EventsFollowState
    <2>1. PICK s \in Switch : Switched(z, s) /\ u.group = GroupOf(s) /\ u.action = ActionOf(s)
      BY SwitchInUse
    <2>2. z.enabled[e] \in Nat /\ z.enabled[f] \in Nat
      <3>1. Range(u.action.alt) \subseteq Event /\ Range(u.action.def) \subseteq Event
        BY <2>1, SwitchTyped, NestingTyped, NestedInTyped
      <3> QED
        BY <3>1 DEF ZoneInv, Fine, Zones
    <2> QED
      BY <2>1, <2>2 DEF Switched, On, Off
  <1> QED
    BY <1>1, ZoneInvHolds, PTL

\* Whatever else the events of a zone are: while the properties of a
\* precondition do not match, no other event, timer or decrease takes the fans
\* off full speed, and the events of the precondition are not enabled.
\* (property_states_match, setActiveAllow() of other groups, setSpeed())
THEOREM FullSpeedIsHeld ==
    ASSUME SwitchesAlone
    PROVE  Spec => []FullWhenUnmatched
  <1>1. ZoneInv => FullWhenUnmatched
    <2> SUFFICES ASSUME ZoneInv, NEW u \in InUse, u.action.type = "states_match"
                 PROVE  IF \A s \in u.action.states : z.props[s[1]] = s[2]
                        THEN \A e \in Range(u.action.events) : z.enabled[e] > 0
                        ELSE /\ z.target = FullSpeed
                             /\ \A e \in Range(u.action.events) : z.enabled[e] = 0
      BY DEF FullWhenUnmatched
    <2>1. PICK e \in Switch : Switched(z, e) /\ u.group = GroupOf(e) /\ u.action = ActionOf(e)
      BY SwitchInUse
    <2>2. NestedIn(e) = Range(u.action.events)
      BY <2>1, SwitchTyped, NestingTyped
    <2> QED
      BY <2>1, <2>2 DEF Switched, Matches, On, Off
  <1> QED
    BY <1>1, ZoneInvHolds, PTL

-----------------------------------------------------------------------------
(* The ceiling                                                             *)

NextSpeeds(speeds, v) == {speeds[k][2] : k \in NextTo(speeds, v)}

\* The first key above a value, and the last below it.
LEMMA KeysAround ==
    ASSUME NEW speeds \in Seq(Nat \X Nat), NEW v \in Nat,
           \A i, j \in DOMAIN speeds : i < j => speeds[i][1] < speeds[j][1],
           NEW below, below = {k \in DOMAIN speeds : speeds[k][1] < v},
           NEW above, above = {k \in DOMAIN speeds : speeds[k][1] > v}
    PROVE  /\ below # {} => Max(below) \in below /\ \A k \in below : k <= Max(below)
           /\ above # {} => Min(above) \in above /\ \A k \in above : Min(above) <= k
           /\ below # {} /\ above # {} => Max(below) < Min(above)
  <1>1. DOMAIN speeds \subseteq Int /\ IsFiniteSet(DOMAIN speeds)
    BY RangeFinite
  <1>2. \A k \in DOMAIN speeds : speeds[k][1] \in Nat
    OBVIOUS
  <1>3. /\ below \in SUBSET Int /\ IsFiniteSet(below)
        /\ above \in SUBSET Int /\ IsFiniteSet(above)
    BY <1>1, FS_Subset
  <1>4. below # {} => Max(below) \in below /\ \A k \in below : Max(below) >= k
    BY <1>3, MaxExists
  <1>5. above # {} => Min(above) \in above /\ \A k \in above : Min(above) <= k
    BY <1>3, MinExists
  <1>6. ASSUME NEW i \in below, NEW j \in above
        PROVE  i < j
    <2>1. i \in DOMAIN speeds /\ j \in DOMAIN speeds /\ i \in Int /\ j \in Int
      BY <1>1
    <2>2. speeds[i][1] \in Nat /\ speeds[j][1] \in Nat
      BY <1>2, <2>1
    <2>3. speeds[i][1] < v /\ v < speeds[j][1]
      OBVIOUS
    <2>4. CASE j < i
      <3>1. speeds[j][1] < speeds[i][1]
        BY ONLY <2>1, <2>4, \A k, l \in DOMAIN speeds : k < l => speeds[k][1] < speeds[l][1]
      <3> QED
        BY ONLY <2>2, <2>3, <3>1, v \in Nat
    <2>5. i # j
      BY ONLY <2>2, <2>3, v \in Nat
    <2> QED
      BY <2>1, <2>4, <2>5
  <1> HIDE DEF Max, Min
  <1>7. below # {} => \A k \in below : k <= Max(below)
    <2> SUFFICES ASSUME below # {}, NEW k \in below
                 PROVE  k <= Max(below)
      OBVIOUS
    <2>1. k \in Int /\ Max(below) \in Int /\ Max(below) >= k
      BY <1>3, <1>4
    <2> QED
      BY <2>1
  <1> QED
    BY <1>4, <1>5, <1>6, <1>7

\* The cases of a value that has fallen or risen, by the first and the last key.
CeilingCase(v, prev, first, last, same, bottom, top, other) ==
    CASE v = prev -> same
      [] v < prev /\ v >= last -> top
      [] v < prev /\ v < last /\ v <= first -> bottom
      [] v > prev /\ v <= first -> bottom
      [] v > prev /\ v > first /\ v >= last -> top
      [] OTHER -> other

\* The value each case gives: where both ends apply they must agree.
LEMMA CeilingCases ==
    ASSUME NEW v \in Nat, NEW prev \in Nat, NEW first \in Nat, NEW last \in Nat,
           NEW same, NEW bottom, NEW top, NEW other, NEW c,
           c = CeilingCase(v, prev, first, last, same, bottom, top, other)
    PROVE  /\ v = prev => c = same
           /\ v # prev /\ v >= last /\ (v <= first => bottom = top) => c = top
           /\ v # prev /\ v < last /\ v <= first => c = bottom
           /\ v # prev /\ v < last /\ v > first => c = other
  BY DEF CeilingCase

\* A value that has fallen or risen, or crossed no key, has the ceiling of a
\* key next to it if that was so before.
LEMMA CeilingNext ==
    ASSUME NEW speeds \in Seq(Nat \X Nat), speeds # <<>>,
           \A i, j \in DOMAIN speeds : i < j => speeds[i][1] < speeds[j][1],
           NEW v \in Nat \ {0}, NEW prev \in Nat, NEW ceiling,
           prev # 0 => ceiling \in NextSpeeds(speeds, prev)
    PROVE  CeilingFor(speeds, v, prev, ceiling) \in NextSpeeds(speeds, v)
  <1> DEFINE n == Len(speeds)
             key(k) == speeds[k][1]
             below(w) == {k \in DOMAIN speeds : speeds[k][1] < w}
             above(w) == {k \in DOMAIN speeds : speeds[k][1] > w}
             low(w) == Max(below(w))
             high(w) == Min(above(w))
             fallen == {k \in 1..n : v < key(k) /\ key(k) <= prev}
             risen == {k \in 1..n : v > key(k) /\ key(k) >= prev}
             c == CeilingFor(speeds, v, prev, ceiling)
             Inner(w) == w < key(n) /\ w > key(1)
  <1>1. n \in Nat \ {0} /\ DOMAIN speeds = 1..n /\ 1 \in 1..n /\ n \in 1..n
    OBVIOUS
  <1>2. \A k \in 1..n : key(k) \in Nat
    OBVIOUS
  <1>3. \A i, j \in 1..n : i < j => key(i) < key(j)
    BY <1>1
  <1>4. \A w : NextTo(speeds, w) = CASE w >= key(n) -> {n}
                                    [] w <= key(1) -> {1}
                                    [] OTHER -> low(w)..high(w)
    BY DEF NextTo
  <1>5. c = CASE v = prev -> ceiling
              [] v < prev /\ v >= key(n) -> speeds[n][2]
              [] v < prev /\ v < key(n) /\ v <= key(1) -> speeds[1][2]
              [] v > prev /\ v <= key(1) -> speeds[1][2]
              [] v > prev /\ v > key(1) /\ v >= key(n) -> speeds[n][2]
              [] OTHER -> IF fallen \cup risen = {} THEN ceiling
                          ELSE IF v < prev THEN speeds[Min(fallen)][2] ELSE speeds[Max(risen)][2]
    BY DEF CeilingFor
  <1>6. \A w \in Nat : Inner(w) =>
          /\ low(w) \in 1..n /\ key(low(w)) < w /\ \A k \in 1..n : key(k) < w => k <= low(w)
          /\ high(w) \in 1..n /\ key(high(w)) > w /\ \A k \in 1..n : key(k) > w => high(w) <= k
          /\ low(w) < high(w)
    <2> SUFFICES ASSUME NEW w \in Nat, Inner(w)
                 PROVE  /\ low(w) \in below(w) /\ \A k \in below(w) : k <= low(w)
                        /\ high(w) \in above(w) /\ \A k \in above(w) : high(w) <= k
                        /\ low(w) < high(w)
      BY <1>1
    <2>1. 1 \in below(w) /\ n \in above(w)
      BY <1>1, <1>2
    <2>2. below(w) # {} /\ above(w) # {}
      BY <2>1
    <2> QED
      BY <2>2, KeysAround
  <1> HIDE DEF n, key, low, high, c, fallen, risen
  <1>7. \A w \in Nat : /\ w >= key(n) => NextTo(speeds, w) = {n}
                       /\ w <= key(1) => NextTo(speeds, w) = {1}
                       /\ Inner(w) => NextTo(speeds, w) = low(w)..high(w)
    <2> SUFFICES ASSUME NEW w \in Nat
                 PROVE  /\ w >= key(n) => NextTo(speeds, w) = {n}
                        /\ w <= key(1) => NextTo(speeds, w) = {1}
                        /\ Inner(w) => NextTo(speeds, w) = low(w)..high(w)
      OBVIOUS
    <2>1. w >= key(n) /\ w <= key(1) => n = 1
      BY <1>1, <1>2, <1>3
    <2> QED
      BY <1>1, <1>2, <1>4, <2>1
  <1> DEFINE between == IF fallen \cup risen = {} THEN ceiling
                        ELSE IF v < prev THEN speeds[Min(fallen)][2] ELSE speeds[Max(risen)][2]
  <1>8. /\ v = prev => c = ceiling
        /\ v # prev /\ v >= key(n) /\ (v <= key(1) => n = 1) => c = speeds[n][2]
        /\ v # prev /\ v < key(n) /\ v <= key(1) => c = speeds[1][2]
        /\ v # prev /\ v < key(n) /\ v > key(1) => c = between
    <2>1. key(n) \in Nat /\ key(1) \in Nat /\ v \in Nat
      BY <1>1, <1>2
    <2>2. c = CeilingCase(v, prev, key(1), key(n), ceiling, speeds[1][2], speeds[n][2], between)
      BY <1>5 DEF CeilingCase
    <2> HIDE DEF between
    <2>3. v <= key(1) /\ n = 1 => speeds[1][2] = speeds[n][2]
      OBVIOUS
    <2> QED
      BY <2>1, <2>2, <2>3, CeilingCases
  <1>9. CASE v = prev
    <2>1. c = ceiling
      BY <1>8, <1>9
    <2> QED
      BY <1>9, <2>1 DEF c
  <1>10. CASE v # prev /\ v >= key(n)
    <2>1. v <= key(1) => n = 1
      BY <1>1, <1>2, <1>3, <1>10
    <2>2. c = speeds[n][2]
      BY <1>8, <1>10, <2>1
    <2>3. NextTo(speeds, v) = {n}
      BY <1>7, <1>10
    <2> QED
      BY <2>2, <2>3 DEF NextSpeeds, c
  <1>11. CASE v # prev /\ v < key(n) /\ v <= key(1)
    <2>1. c = speeds[1][2]
      BY <1>8, <1>11
    <2>2. NextTo(speeds, v) = {1}
      BY <1>7, <1>11
    <2> QED
      BY <2>1, <2>2 DEF NextSpeeds, c
  <1>12. CASE v # prev /\ Inner(v)
    <2>1. c = IF fallen \cup risen = {} THEN ceiling
              ELSE IF v < prev THEN speeds[Min(fallen)][2] ELSE speeds[Max(risen)][2]
      BY <1>8, <1>12 DEF between
    <2>2. /\ low(v) \in 1..n /\ key(low(v)) < v /\ \A k \in 1..n : key(k) < v => k <= low(v)
          /\ high(v) \in 1..n /\ key(high(v)) > v /\ \A k \in 1..n : key(k) > v => high(v) <= k
          /\ low(v) < high(v) /\ NextTo(speeds, v) = low(v)..high(v)
      BY <1>6, <1>7, <1>12
    <2> SUFFICES \E k \in low(v)..high(v) : c = speeds[k][2]
      BY <2>2 DEF NextSpeeds, c
    <2>3. low(v) \in low(v)..high(v) /\ high(v) \in low(v)..high(v)
      BY <1>1, <2>2
    <2>4. CASE fallen \cup risen = {}
      <3>1. \A k \in 1..n : ~(v < key(k) /\ key(k) <= prev) /\ ~(v > key(k) /\ key(k) >= prev)
        BY <2>4 DEF fallen, risen
      <3>2. Inner(prev)
        BY <1>1, <1>2, <1>12, <3>1
      <3>3. /\ low(prev) \in 1..n /\ key(low(prev)) < prev
            /\ \A k \in 1..n : key(k) < prev => k <= low(prev)
            /\ high(prev) \in 1..n /\ key(high(prev)) > prev
            /\ \A k \in 1..n : key(k) > prev => high(prev) <= k
            /\ NextTo(speeds, prev) = low(prev)..high(prev)
        BY <1>6, <1>7, <3>2
      <3>4. prev # 0
        BY <1>1, <1>2, <3>2
      <3>5. PICK k \in low(prev)..high(prev) : ceiling = speeds[k][2]
        BY <3>3, <3>4 DEF NextSpeeds
      <3>6. low(v) <= low(prev)
        <4>1. key(low(v)) < prev
          BY <1>2, <2>2, <3>1
        <4> QED
          BY <2>2, <3>3, <4>1
      <3>7. high(prev) <= high(v)
        <4>1. key(high(v)) > prev
          BY <1>2, <2>2, <3>1
        <4> QED
          BY <2>2, <3>3, <4>1
      <3>8. k \in low(v)..high(v)
        <4>1. low(v) \in Int /\ high(v) \in Int /\ low(prev) \in Int /\ high(prev) \in Int
          BY <1>1, <2>2, <3>3
        <4>2. k \in Int /\ low(prev) <= k /\ k <= high(prev)
          BY <3>5, <4>1
        <4> QED
          BY <3>6, <3>7, <4>1, <4>2
      <3> QED
        BY <2>1, <2>4, <3>5, <3>8
    <2>5. CASE fallen \cup risen # {} /\ v < prev
      <3>1. risen = {}
        BY <1>2, <2>5 DEF risen
      <3>2. PICK f \in fallen : TRUE
        BY <2>5, <3>1
      <3>3. f \in 1..n /\ v < key(f) /\ key(f) <= prev
        BY DEF fallen
      <3>4. high(v) <= f
        BY <2>2, <3>3
      <3>5. key(high(v)) <= key(f)
        <4>1. high(v) = f \/ high(v) < f
          BY <1>1, <2>2, <3>3, <3>4
        <4>2. high(v) < f => key(high(v)) < key(f)
          BY <1>3, <2>2, <3>3
        <4>3. key(high(v)) \in Nat /\ key(f) \in Nat
          BY <1>2, <2>2, <3>3
        <4> QED
          BY <4>1, <4>2, <4>3
      <3>6. high(v) \in fallen
        BY <1>2, <2>2, <3>3, <3>5 DEF fallen
      <3>7. \A k \in fallen : high(v) <= k /\ k \in Int
        BY <1>1, <2>2 DEF fallen
      <3>8. Min(fallen) = high(v)
        <4>1. Min(fallen) \in fallen /\ \A k \in fallen : Min(fallen) <= k
          BY <3>6, <3>7 DEF Min
        <4> QED
          BY <3>6, <3>7, <4>1
      <3> QED
        BY <2>1, <2>3, <2>5, <3>8
    <2>6. CASE fallen \cup risen # {} /\ v > prev
      <3>1. fallen = {}
        BY <1>2, <2>6 DEF fallen
      <3>2. PICK f \in risen : TRUE
        BY <2>6, <3>1
      <3>3. f \in 1..n /\ v > key(f) /\ key(f) >= prev
        BY DEF risen
      <3>4. f <= low(v)
        BY <2>2, <3>3
      <3>5. key(f) <= key(low(v))
        <4>1. low(v) = f \/ f < low(v)
          BY <1>1, <2>2, <3>3, <3>4
        <4>2. f < low(v) => key(f) < key(low(v))
          BY <1>3, <2>2, <3>3
        <4>3. key(low(v)) \in Nat /\ key(f) \in Nat
          BY <1>2, <2>2, <3>3
        <4> QED
          BY <4>1, <4>2, <4>3
      <3>6. low(v) \in risen
        BY <1>2, <2>2, <3>3, <3>5 DEF risen
      <3>7. \A k \in risen : low(v) >= k /\ k \in Int
        BY <1>1, <2>2 DEF risen
      <3>8. Max(risen) = low(v)
        <4>1. Max(risen) \in risen /\ \A k \in risen : Max(risen) >= k
          BY <3>6, <3>7 DEF Max
        <4> QED
          BY <3>6, <3>7, <4>1
      <3> QED
        BY <1>12, <2>1, <2>3, <2>6, <3>8
    <2> QED
      BY <1>12, <2>4, <2>5, <2>6
  <1> QED
    BY <1>1, <1>2, <1>9, <1>10, <1>11, <1>12

-----------------------------------------------------------------------------
(* What a limit needs to hold, and what keeps it                           *)

\* The limit that the action a sets for the group g is the one for the values cached.
Right(y, g, a) ==
    CASE a.type = "default_floor" -> OwnerMissed(y, g) => g \in y.floorFixed
      [] a.type = "floor_median" ->
            y.floor = IF y.defaulted THEN y.defFloor ELSE FloorFor(y, a.speeds, Median(y, g, a))
      [] a.type = "ceiling" -> Known(y, g) # {} => y.ceilingKey = Average(y, g)

\* What always holds: a floor that may not change is the default, and the
\* ceiling is next to its key.
SaneFloor(y) ==
    /\ y.floorFixed # {} => y.defaulted
    /\ y.defaulted => y.floor = y.defFloor
Sane(y, a) ==
    IF a.type = "ceiling" THEN y.ceilingKey # 0 => y.ceiling \in NextSpeeds(a.speeds, y.ceilingKey)
    ELSE SaneFloor(y)

SaneZones(a) == {y \in Zones : Sane(y, a)}
RightZones(g, a) == {y \in SaneZones(a) : Right(y, g, a)}

\* The limits of y and x are the same, and the values cached; of the services
\* x knows at least those of y.
SameLimits(y, x) ==
    /\ x.defaulted = y.defaulted /\ x.matched = y.matched /\ y.tree \subseteq x.tree
    /\ x.floor = y.floor /\ x.defFloor = y.defFloor /\ x.floorFixed = y.floorFixed
    /\ x.ceiling = y.ceiling /\ x.ceilingKey = y.ceilingKey /\ x.props = y.props

LEMMA ValuesSame ==
    ASSUME NEW y, NEW x, NEW g, NEW a, \A m \in Range(g) : x.props[m] = y.props[m]
    PROVE  /\ Known(x, g) = Known(y, g) /\ Average(x, g) = Average(y, g)
           /\ Median(x, g, a) = Median(y, g, a)
  <1>1. \A k \in DOMAIN g : x.props[g[k]] = y.props[g[k]]
    BY DEF Range
  <1>2. Known(x, g) = Known(y, g)
    BY <1>1 DEF Known
  <1>3. [k \in DOMAIN g |-> x.props[g[k]]] = [k \in DOMAIN g |-> y.props[g[k]]]
    BY <1>1
  <1>4. Median(x, g, a) = Median(y, g, a)
    BY <1>3, Zenon DEF Median
  <1>5. Average(x, g) = Average(y, g)
    <2> DEFINE S == Known(y, g)
               first(s) == CHOOSE k \in s : TRUE
               IsY(h) == h = [s \in SUBSET S |-> IF s = {} THEN 0
                              ELSE h[s \ {first(s)}] + y.props[g[first(s)]]]
               IsX(h) == h = [s \in SUBSET S |-> IF s = {} THEN 0
                              ELSE h[s \ {first(s)}] + x.props[g[first(s)]]]
    <2>1. Average(y, g) = (CHOOSE h : IsY(h))[S] \div Cardinality(S)
      BY DEF Average, FoldSet, MapThenFoldSet
    <2>2. Average(x, g) = (CHOOSE h : IsX(h))[S] \div Cardinality(S)
      <3> HIDE DEF S
      <3>1. Known(x, g) = S
        BY <1>2 DEF S
      <3> QED
        BY <3>1 DEF Average, FoldSet, MapThenFoldSet
    <2>3. \A s \in SUBSET S : s # {} => x.props[g[first(s)]] = y.props[g[first(s)]]
      BY <1>1 DEF Known
    <2>4. \A h : IsX(h) <=> IsY(h)
      <3> HIDE DEF S, first
      <3> QED
        BY <2>3
    <2>5. (CHOOSE h : IsX(h)) = (CHOOSE h : IsY(h))
      <3> HIDE DEF IsX, IsY
      <3> QED
        BY <2>4
    <2> HIDE DEF IsX, IsY, S
    <2> QED
      BY <2>1, <2>2, <2>5
  <1> QED
    BY <1>2, <1>4, <1>5

LEMMA MissedLess ==
    ASSUME NEW y, NEW x, x.matched = y.matched, y.tree \subseteq x.tree, NEW g, OwnerMissed(x, g)
    PROVE  OwnerMissed(y, g)
  BY DEF OwnerMissed, HearsOwner

LEMMA SameKeeps ==
    ASSUME NEW y, NEW x, SameLimits(y, x), NEW g, NEW a, a.type \in Limits
    PROVE  (Sane(y, a) => Sane(x, a)) /\ (Right(y, g, a) => Right(x, g, a))
  <1>1. /\ Known(x, g) = Known(y, g) /\ Average(x, g) = Average(y, g)
        /\ Median(x, g, a) = Median(y, g, a)
    <2>1. \A m \in Range(g) : x.props[m] = y.props[m]
      BY DEF SameLimits
    <2> QED
      BY <2>1, ValuesSame
  <1>2. FloorFor(x, a.speeds, Median(y, g, a)) = FloorFor(y, a.speeds, Median(y, g, a))
    BY DEF FloorFor, SameLimits
  <1>3. Sane(y, a) => Sane(x, a)
    BY DEF Sane, SaneFloor, SameLimits
  <1>4. CASE a.type = "default_floor"
    BY <1>3, <1>4, MissedLess DEF Right, SameLimits
  <1>5. CASE a.type = "floor_median"
    BY <1>1, <1>2, <1>3, <1>5 DEF Right, SameLimits
  <1>6. CASE a.type = "ceiling"
    BY <1>1, <1>3, <1>6 DEF Right, SameLimits
  <1> QED
    BY <1>4, <1>5, <1>6 DEF Limits

LEMMA SetSpeedSame ==
    ASSUME NEW y \in Zones, NEW speed
    PROVE  SameLimits(y, SetSpeed(y, speed))
  BY DEF SetSpeed, SameLimits, Zones

LEMMA AllowSame ==
    ASSUME NEW y \in Zones, NEW h, NEW allowed
    PROVE  SameLimits(y, SetActiveAllow(y, h, allowed))
  BY DEF SetActiveAllow, SameLimits, Zones

LEMMA LookUpSame ==
    ASSUME NEW y \in Zones, NEW members
    PROVE  SameLimits(y, LookUp(y, members)) /\ LookUp(y, members) \in Zones
  BY LookUpTyped DEF SameLimits

LEMMA SameTrans ==
    ASSUME NEW y, NEW x, NEW w, SameLimits(y, x), SameLimits(x, w)
    PROVE  SameLimits(y, w)
  BY DEF SameLimits

LEMMA IncreaseSame ==
    ASSUME NEW y \in Zones, NEW delta \in Nat
    PROVE  SameLimits(y, RequestSpeedIncrease(y, delta))
  <1> DEFINE speed == Min({delta - y.incDelta + RequestSpeedBase(y), y.ceiling})
             x == SetSpeed(y, speed)
             w == [x EXCEPT !.incDelta = delta, !.incTimer = TRUE]
  <1>1. CASE delta <= y.incDelta \/ y.target >= y.ceiling
    BY <1>1 DEF RequestSpeedIncrease, SameLimits
  <1>2. CASE ~(delta <= y.incDelta \/ y.target >= y.ceiling)
    <2>1. /\ delta - y.incDelta + RequestSpeedBase(y) \in Nat
          /\ y.ceiling \in Nat
      BY <1>2 DEF Zones, RequestSpeedBase
    <2>2. speed \in Nat
      BY <2>1, MinOfTwo
    <2>3. RequestSpeedIncrease(y, delta) = w
      BY <1>2 DEF RequestSpeedIncrease
    <2> HIDE DEF speed
    <2>4. x \in Zones /\ SameLimits(y, x)
      BY <2>2, SetSpeedSteps, SetSpeedSame, StepsZones
    <2> HIDE DEF x
    <2>5. SameLimits(x, w)
      BY <2>4 DEF SameLimits, Zones
    <2> HIDE DEF w
    <2> QED
      BY <2>3, <2>4, <2>5 DEF SameLimits
  <1> QED
    BY <1>1, <1>2

LEMMA DecreaseSame ==
    ASSUME NEW y \in Zones, NEW delta
    PROVE  SameLimits(y, RequestSpeedDecrease(y, delta))
  BY DEF RequestSpeedDecrease, SameLimits, Zones

\* A floor is set unless the owner of a group is missing.
LEMMA SetFloorLimits ==
    ASSUME NEW y \in Zones, NEW speed \in Nat
    PROVE  /\ SetFloor(y, speed).floor = IF y.floorFixed # {} THEN y.floor ELSE speed
           /\ SameLimits([y EXCEPT !.floor = SetFloor(y, speed).floor], SetFloor(y, speed))
           /\ SetFloor(y, speed) \in Zones
  <1> DEFINE x == [y EXCEPT !.floor = speed]
  <1>1. SetFloor(y, speed) \in Zones
    BY SetFloorSteps, StepsZones
  <1>2. CASE y.floorFixed # {}
    BY <1>1, <1>2 DEF SetFloor, SameLimits, Zones
  <1>3. CASE y.floorFixed = {}
    <2>1. x \in Zones /\ x.floor = speed /\ x.target = y.target
      BY DEF Zones
    <2>2. SetFloor(y, speed) = IF x.target < speed THEN RequestSpeedIncrease(x, speed - x.target) ELSE x
      BY <1>3 DEF SetFloor
    <2>3. x.target < speed => speed - x.target \in Nat
      BY <2>1 DEF Zones
    <2>4. SameLimits(x, x)
      BY DEF SameLimits
    <2> HIDE DEF x
    <2>5. SameLimits(x, SetFloor(y, speed))
      BY <2>1, <2>2, <2>3, <2>4, IncreaseSame
    <2>6. SetFloor(y, speed).floor = speed
      BY <2>1, <2>5 DEF SameLimits
    <2> QED
      BY <1>1, <1>3, <2>5, <2>6 DEF x
  <1> QED
    BY <1>2, <1>3

KeepsLimit(y, x, g, a) ==
    /\ x.props = y.props
    /\ Sane(y, a) => Sane(x, a) /\ (Right(y, g, a) => Right(x, g, a))

LEMMA SameKeepsLimit ==
    ASSUME NEW y, NEW x, SameLimits(y, x), NEW g, NEW a, a.type \in Limits
    PROVE  KeepsLimit(y, x, g, a)
  BY SameKeeps DEF KeepsLimit, SameLimits

LEMMA CeilingKeepsLimit ==
    ASSUME NEW y, NEW x, NEW g, NEW a, a.type = "ceiling",
           x.props = y.props, x.ceiling = y.ceiling, x.ceilingKey = y.ceilingKey
    PROVE  KeepsLimit(y, x, g, a)
  <1>1. Known(x, g) = Known(y, g) /\ Average(x, g) = Average(y, g)
    BY ValuesSame
  <1>2. Right(y, g, a) => Right(x, g, a)
    BY <1>1 DEF Right
  <1> QED
    BY <1>2 DEF KeepsLimit, Sane

\* What happens to the floor from y to x: it becomes the default, or stays.
FloorKept(y, x, g, a) ==
    /\ x.props = y.props /\ x.defFloor = y.defFloor
    /\ x.matched = y.matched /\ y.tree \subseteq x.tree
    /\ SaneFloor(y) => SaneFloor(x)
    /\ a.type = "default_floor" /\ OwnerMissed(x, g) /\ g \in y.floorFixed => g \in x.floorFixed
    /\ a.type = "floor_median" /\ ~x.defaulted => ~y.defaulted /\ x.floor = y.floor

LEMMA FloorKeepsLimit ==
    ASSUME NEW y, NEW x, NEW g, NEW a, a.type \in {"default_floor", "floor_median"}, FloorKept(y, x, g, a)
    PROVE  KeepsLimit(y, x, g, a)
  <1>1. Median(x, g, a) = Median(y, g, a)
    BY ValuesSame DEF FloorKept
  <1>2. FloorFor(x, a.speeds, Median(y, g, a)) = FloorFor(y, a.speeds, Median(y, g, a))
    BY DEF FloorFor, FloorKept
  <1>3. Sane(y, a) => Sane(x, a) /\ (a.type = "floor_median" => SaneFloor(x))
    BY DEF Sane, FloorKept
  <1>4. CASE a.type = "default_floor"
    <2>1. Right(y, g, a) => Right(x, g, a)
      BY <1>4, MissedLess DEF Right, FloorKept
    <2> QED
      BY <1>3, <2>1 DEF KeepsLimit, FloorKept
  <1>5. CASE a.type = "floor_median"
    <2>1. Sane(y, a) /\ Right(y, g, a) => Right(x, g, a)
      <3>1. CASE x.defaulted
        BY <1>3, <1>5, <3>1 DEF Right, SaneFloor
      <3>2. CASE ~x.defaulted
        <4>1. ~y.defaulted /\ x.floor = y.floor
          BY <1>5, <3>2 DEF FloorKept
        <4> QED
          BY <1>1, <1>2, <1>5, <3>2, <4>1 DEF Right
      <3> QED
        BY <3>1, <3>2
    <2> QED
      BY <1>3, <2>1 DEF KeepsLimit, FloorKept
  <1> QED
    BY <1>4, <1>5

LEMMA FloorByValueLimits ==
    ASSUME NEW y \in Zones, NEW speed \in Nat
    PROVE  LET x == FloorByValue(y, speed)
           IN  /\ x.floor = IF y.floorFixed # {} THEN y.floor ELSE speed
               /\ x.defaulted <=> (y.defaulted /\ y.floorFixed # {})
               /\ x.defFloor = y.defFloor /\ x.floorFixed = y.floorFixed
               /\ x.ceiling = y.ceiling /\ x.ceilingKey = y.ceilingKey /\ x.props = y.props
               /\ x.matched = y.matched /\ y.tree \subseteq x.tree
  <1> DEFINE w == SetFloor(y, speed)
             x == [w EXCEPT !.defaulted = @ /\ y.floorFixed # {}]
  <1>1. /\ w \in Zones /\ w.floor = IF y.floorFixed # {} THEN y.floor ELSE speed
        /\ SameLimits([y EXCEPT !.floor = w.floor], w)
    BY SetFloorLimits
  <1>2. /\ w.defaulted = y.defaulted /\ w.defFloor = y.defFloor /\ w.floorFixed = y.floorFixed
        /\ w.ceiling = y.ceiling /\ w.ceilingKey = y.ceilingKey /\ w.props = y.props
        /\ w.matched = y.matched /\ y.tree \subseteq w.tree
    BY <1>1 DEF SameLimits, Zones
  <1>3. FloorByValue(y, speed) = x
    BY DEF FloorByValue
  <1> HIDE DEF w
  <1>4. /\ x.floor = w.floor /\ x.defFloor = w.defFloor /\ x.floorFixed = w.floorFixed
        /\ x.ceiling = w.ceiling /\ x.ceilingKey = w.ceilingKey /\ x.props = w.props
        /\ x.matched = w.matched /\ x.tree = w.tree
    BY <1>1 DEF Zones
  <1>5. x.defaulted = (w.defaulted /\ y.floorFixed # {})
    BY <1>1 DEF Zones
  <1> HIDE DEF x
  <1>6. x.defaulted <=> (y.defaulted /\ y.floorFixed # {})
    BY <1>2, <1>5
  <1> QED
    BY <1>1, <1>2, <1>3, <1>4, <1>6

LEMMA FloorByValueKeeps ==
    ASSUME NEW y \in Zones, NEW speed \in Nat, NEW g, NEW a, a.type \in {"default_floor", "ceiling"}
    PROVE  KeepsLimit(y, FloorByValue(y, speed), g, a)
  <1> DEFINE x == FloorByValue(y, speed)
  <1>1. /\ x.floor = IF y.floorFixed # {} THEN y.floor ELSE speed
        /\ x.defaulted <=> (y.defaulted /\ y.floorFixed # {})
        /\ x.defFloor = y.defFloor /\ x.floorFixed = y.floorFixed
        /\ x.ceiling = y.ceiling /\ x.ceilingKey = y.ceilingKey /\ x.props = y.props
        /\ x.matched = y.matched /\ y.tree \subseteq x.tree
    BY FloorByValueLimits
  <1> HIDE DEF x
  <1>2. CASE a.type = "ceiling"
    BY <1>1, <1>2, CeilingKeepsLimit DEF x
  <1>3. CASE a.type = "default_floor"
    <2>1. SaneFloor(y) => SaneFloor(x)
      BY <1>1 DEF SaneFloor
    <2>2. FloorKept(y, x, g, a)
      BY <1>1, <1>3, <2>1 DEF FloorKept
    <2> QED
      BY <1>3, <2>2, FloorKeepsLimit DEF x
  <1> QED
    BY <1>2, <1>3

\* The default floor holds while an owner is missing.
LEMMA DefaultFloorLimits ==
    ASSUME NEW y \in Zones, NEW h
    PROVE  LET x == DefaultFloorOnMissingOwner(y, h)
           IN  /\ x.defFloor = y.defFloor /\ x.props = y.props
               /\ x.ceiling = y.ceiling /\ x.ceilingKey = y.ceilingKey
               /\ x.matched = y.matched /\ y.tree \subseteq x.tree
               /\ SaneFloor(y) => SaneFloor(x)
               /\ ~x.defaulted => ~y.defaulted /\ x.floor = y.floor
               /\ OwnerMissed(x, h) => h \in x.floorFixed
               /\ \A g \in y.floorFixed : OwnerMissed(x, g) => g \in x.floorFixed
  <1> DEFINE u == LookUp(y, Range(h))
             missing == MissingOwner(u, h)
             f == SetFloor(u, u.defFloor)
             d == [f EXCEPT !.defaulted = TRUE]
             w == IF missing THEN d ELSE u
             x == [w EXCEPT !.floorFixed = Allow(@, h, ~missing)]
  <1>1. x = DefaultFloorOnMissingOwner(y, h)
    BY DEF DefaultFloorOnMissingOwner
  <1>2. /\ u \in Zones /\ y.tree \subseteq u.tree /\ u.floor = y.floor /\ u.defFloor = y.defFloor
        /\ u.ceiling = y.ceiling /\ u.ceilingKey = y.ceilingKey /\ u.props = y.props
        /\ u.floorFixed = y.floorFixed /\ u.defaulted = y.defaulted /\ u.matched = y.matched
    BY LookUpTyped
  <1>3. ~missing => \A m \in Range(h) : m \in u.tree /\ ServiceOf[m] \in up
    BY DEF MissingOwner
  <1> HIDE DEF u, missing
  <1>4. /\ f \in Zones /\ f.floor = IF u.floorFixed # {} THEN u.floor ELSE u.defFloor
        /\ f.defFloor = u.defFloor /\ f.floorFixed = u.floorFixed
        /\ f.ceiling = u.ceiling /\ f.ceilingKey = u.ceilingKey /\ f.props = u.props
        /\ f.matched = u.matched /\ u.tree \subseteq f.tree
    <2>1. u.defFloor \in Nat
      BY <1>2 DEF Zones
    <2> QED
      BY <1>2, <2>1, SetFloorLimits DEF SameLimits, Zones
  <1> HIDE DEF f
  <1>5. /\ d \in Zones /\ d.floor = f.floor /\ d.defFloor = f.defFloor /\ d.floorFixed = f.floorFixed
        /\ d.ceiling = f.ceiling /\ d.ceilingKey = f.ceilingKey /\ d.props = f.props
        /\ d.matched = f.matched /\ d.tree = f.tree /\ d.defaulted = TRUE
    BY <1>4 DEF Zones
  <1> HIDE DEF d
  <1>6. /\ w \in Zones /\ w.defFloor = y.defFloor /\ w.props = y.props
        /\ w.ceiling = y.ceiling /\ w.ceilingKey = y.ceilingKey
        /\ w.matched = y.matched /\ y.tree \subseteq w.tree /\ w.floorFixed = y.floorFixed
        /\ ~missing => u = w
        /\ missing => w.defaulted /\ w.floor = IF y.floorFixed # {} THEN y.floor ELSE y.defFloor
    BY <1>2, <1>4, <1>5
  <1> HIDE DEF w
  <1>7. /\ x.floor = w.floor /\ x.defFloor = w.defFloor /\ x.props = w.props
        /\ x.ceiling = w.ceiling /\ x.ceilingKey = w.ceilingKey
        /\ x.matched = w.matched /\ x.tree = w.tree /\ x.defaulted = w.defaulted
        /\ x.floorFixed = IF missing THEN w.floorFixed \cup {h} ELSE w.floorFixed \ {h}
    BY <1>6 DEF Zones, Allow
  <1> HIDE DEF x
  <1>8. SaneFloor(y) => SaneFloor(x)
    <2>1. CASE missing
      BY <1>6, <1>7, <2>1 DEF SaneFloor
    <2>2. CASE ~missing
      BY <1>2, <1>6, <1>7, <2>2 DEF SaneFloor
    <2> QED
      BY <2>1, <2>2
  <1>9. ~x.defaulted => ~y.defaulted /\ x.floor = y.floor
    BY <1>2, <1>6, <1>7
  <1>10. OwnerMissed(x, h) => h \in x.floorFixed
    BY <1>3, <1>6, <1>7 DEF OwnerMissed
  <1>11. \A g \in y.floorFixed : OwnerMissed(x, g) => g \in x.floorFixed
    BY <1>6, <1>7, <1>10
  <1> QED
    BY <1>1, <1>6, <1>7, <1>8, <1>9, <1>10, <1>11

\* An action that is no rival keeps a limit.
LEMMA SimpleKeeps ==
    ASSUME NEW y \in Zones, NEW h \in Group, NEW b, IsSimple(b),
           NEW g, NEW a, a.type \in Limits, b.type \notin Rivals(a.type)
    PROVE  KeepsLimit(y, Act(y, h, b), g, a)
  <1> DEFINE x == Act(y, h, b)
  <1>1. CASE b.type = "count_state"
    <2> DEFINE reached == Cardinality({k \in DOMAIN h : y.props[h[k]] = b.state}) >= b.count
               w == IF reached THEN SetSpeed(y, b.speed) ELSE y
    <2>1. x = SetActiveAllow(w, h, ~reached)
      BY <1>1 DEF Act, CountStateBeforeSpeed
    <2>2. b.speed \in Nat
      BY <1>1 DEF IsSimple
    <2> HIDE DEF reached
    <2>3. w \in Zones /\ SameLimits(y, w)
      BY <2>2, SetSpeedSteps, StepsZones, SetSpeedSame DEF SameLimits
    <2> HIDE DEF w
    <2>4. SameLimits(w, x)
      BY <2>1, <2>3, AllowSame
    <2>5. SameLimits(y, x)
      BY <2>3, <2>4 DEF SameLimits
    <2> QED
      BY <2>5, SameKeepsLimit
  <1>2. CASE b.type = "missing_owner"
    <2> DEFINE u == LookUp(y, Range(h))
               w == IF MissingOwner(u, h) THEN SetSpeed(u, b.speed) ELSE u
    <2>1. x = SetActiveAllow(w, h, ~MissingOwner(u, h))
      BY <1>2 DEF Act, SetSpeedOnMissingOwner
    <2>2. b.speed \in Nat
      BY <1>2 DEF IsSimple
    <2>3. u \in Zones /\ SameLimits(y, u)
      BY LookUpSame
    <2> HIDE DEF u
    <2>4. w \in Zones /\ SameLimits(u, w)
      BY <2>2, <2>3, SetSpeedSteps, StepsZones, SetSpeedSame DEF SameLimits
    <2> HIDE DEF w
    <2>5. SameLimits(w, x)
      BY <2>1, <2>4, AllowSame
    <2>6. SameLimits(y, x)
      BY <2>3, <2>4, <2>5, SameTrans
    <2> QED
      BY <2>6, SameKeepsLimit
  <1>3. CASE b.type = "default_floor"
    <2>1. x = DefaultFloorOnMissingOwner(y, h)
      BY <1>3 DEF Act
    <2> HIDE DEF x
    <2>2. /\ x.defFloor = y.defFloor /\ x.props = y.props
          /\ x.ceiling = y.ceiling /\ x.ceilingKey = y.ceilingKey
          /\ x.matched = y.matched /\ y.tree \subseteq x.tree
          /\ SaneFloor(y) => SaneFloor(x)
          /\ ~x.defaulted => ~y.defaulted /\ x.floor = y.floor
          /\ \A i \in y.floorFixed : OwnerMissed(x, i) => i \in x.floorFixed
      BY <2>1, DefaultFloorLimits
    <2>3. a.type = "ceiling" => KeepsLimit(y, x, g, a)
      BY <2>2, CeilingKeepsLimit
    <2>4. FloorKept(y, x, g, a)
      BY <2>2 DEF FloorKept
    <2>5. a.type \in {"default_floor", "floor_median"} => KeepsLimit(y, x, g, a)
      BY <2>4, FloorKeepsLimit
    <2> QED
      BY <2>3, <2>5 DEF Limits, x
  <1>4. CASE b.type \in {"floor_average", "floor_median"}
    <2>1. a.type \in {"default_floor", "ceiling"}
      BY <1>4 DEF Limits, Rivals
    <2>2. \E v : x = FloorByValue(y, FloorFor(y, b.speeds, v))
      BY <1>4 DEF Act, SetFloorFromAverage, SetFloorFromMedian
    <2>3. \A v : FloorFor(y, b.speeds, v) \in Nat
      BY <1>4, FloorForTyped DEF IsSimple
    <2> QED
      BY <2>1, <2>2, <2>3, FloorByValueKeeps
  <1>5. CASE b.type = "ceiling"
    <2>1. a.type \in {"default_floor", "floor_median"}
      BY <1>5 DEF Limits, Rivals
    <2>2. x = SetCeilingFromAverage(y, h, b)
      BY <1>5 DEF Act
    <2> HIDE DEF x
    <2>3. /\ x.props = y.props /\ x.defFloor = y.defFloor /\ x.floor = y.floor
          /\ x.floorFixed = y.floorFixed /\ x.defaulted = y.defaulted
          /\ x.matched = y.matched /\ x.tree = y.tree
      BY <2>2 DEF SetCeilingFromAverage, Zones
    <2>4. FloorKept(y, x, g, a)
      BY <2>3 DEF FloorKept, SaneFloor
    <2> QED
      BY <2>1, <2>4, FloorKeepsLimit DEF x
  <1>6. CASE b.type = "increase"
    <2>1. x = RequestSpeedIncrease(y, Max({y.incDelta} \cup Increases(y, h, b)))
      BY <1>6 DEF Act, SetNetIncreaseSpeed
    <2>2. SameLimits(y, x)
      BY <1>6, <2>1, IncreaseTyped, IncreaseSame
    <2> QED
      BY <2>2, SameKeepsLimit
  <1>7. CASE b.type = "decrease"
    <2> DEFINE net == NetDecrease(y, h, b)
               w == [y EXCEPT !.noDecrease = Allow(@, h, net # 0)]
    <2>1. x = RequestSpeedDecrease(w, net)
      BY <1>7 DEF Act, SetNetDecreaseSpeed
    <2> HIDE DEF net
    <2>2. w \in Zones /\ SameLimits(y, w)
      BY DEF Zones, SameLimits, Allow
    <2> HIDE DEF w
    <2>3. SameLimits(w, x)
      BY <2>1, <2>2, DecreaseSame
    <2>4. SameLimits(y, x)
      BY <2>2, <2>3 DEF SameLimits
    <2> QED
      BY <2>4, SameKeepsLimit
  <1>8. CASE b.type = "base"
    <2>1. x = SetRequestSpeedBaseWithMax(y, h)
      BY <1>8 DEF Act
    <2>2. SameLimits(y, x)
      BY <2>1 DEF SetRequestSpeedBaseWithMax, SameLimits, Zones
    <2> QED
      BY <2>2, SameKeepsLimit
  <1>9. CASE b.type = "update_floor"
    <2>1. a.type = "ceiling"
      BY <1>9 DEF Limits, Rivals
    <2>2. x = UpdateDefaultFloor(y, h, b)
      BY <1>9 DEF Act
    <2> HIDE DEF x
    <2>3. x.props = y.props /\ x.ceiling = y.ceiling /\ x.ceilingKey = y.ceilingKey
      BY <2>2 DEF UpdateDefaultFloor, Zones
    <2> QED
      BY <2>1, <2>3, CeilingKeepsLimit DEF x
  <1> QED
    BY <1>1, <1>2, <1>3, <1>4, <1>5, <1>6, <1>7, <1>8, <1>9 DEF IsSimple

\* The action itself sets its limit.
LEMMA LimitSets ==
    ASSUME NEW a, IsSimple(a), a.type \in Limits, NEW g \in Group, NEW y \in SaneZones(a)
    PROVE  Act(y, g, a) \in RightZones(g, a) /\ Act(y, g, a).props = y.props
  <1> DEFINE x == Act(y, g, a)
  <1>1. y \in Zones /\ Sane(y, a)
    BY DEF SaneZones
  <1>2. x \in Zones
    <2>1. Elsewhere(g, {})
      BY DEF Elsewhere
    <2> QED
      BY <1>1, <2>1, SimpleSteps, StepsZones
  <1>3. CASE a.type = "default_floor"
    <2>1. x = DefaultFloorOnMissingOwner(y, g)
      BY <1>3 DEF Act
    <2> HIDE DEF x
    <2>2. /\ x.defFloor = y.defFloor /\ x.props = y.props
          /\ SaneFloor(y) => SaneFloor(x)
          /\ OwnerMissed(x, g) => g \in x.floorFixed
      BY <1>1, <2>1, DefaultFloorLimits
    <2>3. Sane(x, a)
      BY <1>1, <1>3, <2>2 DEF Sane
    <2>4. Right(x, g, a)
      BY <1>3, <2>2 DEF Right
    <2> QED
      BY <1>2, <2>2, <2>3, <2>4 DEF x, RightZones, SaneZones
  <1>4. CASE a.type = "floor_median"
    <2> DEFINE speed == FloorFor(y, a.speeds, Median(y, g, a))
    <2>1. x = FloorByValue(y, speed)
      BY <1>4 DEF Act, SetFloorFromMedian
    <2>2. speed \in Nat
      BY <1>1, <1>4, FloorForTyped DEF IsSimple
    <2> HIDE DEF x
    <2>3. /\ x.floor = IF y.floorFixed # {} THEN y.floor ELSE speed
          /\ x.defaulted <=> (y.defaulted /\ y.floorFixed # {})
          /\ x.defFloor = y.defFloor /\ x.floorFixed = y.floorFixed /\ x.props = y.props
      <3> HIDE DEF speed
      <3> QED
        BY <1>1, <2>1, <2>2, FloorByValueLimits
    <2>4. Median(x, g, a) = Median(y, g, a)
      BY <2>3, ValuesSame
    <2>5. FloorFor(x, a.speeds, Median(y, g, a)) = speed
      BY <2>3 DEF FloorFor
    <2>6. x.floor = IF x.defaulted THEN x.defFloor ELSE speed
      <3> HIDE DEF speed
      <3>1. SaneFloor(y)
        BY <1>1, <1>4 DEF Sane
      <3> QED
        BY <2>3, <3>1 DEF SaneFloor
    <2>7. Sane(x, a)
      <3> HIDE DEF speed
      <3>1. SaneFloor(y)
        BY <1>1, <1>4 DEF Sane
      <3> QED
        BY <1>4, <2>3, <3>1 DEF Sane, SaneFloor
    <2>8. Right(x, g, a)
      BY <1>4, <2>4, <2>5, <2>6 DEF Right
    <2> QED
      BY <1>2, <2>3, <2>7, <2>8 DEF x, RightZones, SaneZones
  <1>5. CASE a.type = "ceiling"
    <2>1. x = SetCeilingFromAverage(y, g, a)
      BY <1>5 DEF Act
    <2>2. CASE Known(y, g) = {}
      <3>1. x = y
        BY <2>1, <2>2 DEF SetCeilingFromAverage
      <3> QED
        BY <1>1, <1>5, <2>2, <3>1 DEF RightZones, SaneZones, Right
    <2>3. CASE Known(y, g) # {}
      <3> DEFINE avg == Average(y, g)
                 ceil == CeilingFor(a.speeds, avg, y.ceilingKey, y.ceiling)
      <3>1. avg \in Nat
        BY <1>1, <2>3, AverageTyped
      <3>2. x = [y EXCEPT !.ceiling = ceil, !.ceilingKey = avg]
        BY <2>1, <2>3 DEF SetCeilingFromAverage
      <3> HIDE DEF x, avg, ceil
      <3>3. x.ceiling = ceil /\ x.ceilingKey = avg /\ x.props = y.props
        BY <1>1, <3>2 DEF Zones
      <3>4. avg # 0 => ceil \in NextSpeeds(a.speeds, avg)
        <4>1. /\ a.speeds \in Seq(Nat \X Nat) /\ a.speeds # <<>>
              /\ \A i, j \in DOMAIN a.speeds : i < j => a.speeds[i][1] < a.speeds[j][1]
          BY <1>5 DEF IsSimple
        <4>2. y.ceilingKey # 0 => y.ceiling \in NextSpeeds(a.speeds, y.ceilingKey)
          BY <1>1, <1>5 DEF Sane
        <4>3. y.ceilingKey \in Nat
          BY <1>1 DEF Zones
        <4> QED
          BY <3>1, <4>1, <4>2, <4>3, CeilingNext DEF ceil
      <3>5. Average(x, g) = avg
        BY <3>3, ValuesSame DEF avg
      <3>6. Sane(x, a) /\ Right(x, g, a)
        BY <1>5, <3>3, <3>4, <3>5 DEF Sane, Right
      <3> QED
        BY <1>2, <3>3, <3>6 DEF x, RightZones, SaneZones
    <2> QED
      BY <2>2, <2>3
  <1> QED
    BY <1>3, <1>4, <1>5 DEF Limits

-----------------------------------------------------------------------------
(* Sets of zones that the callbacks do not leave                           *)

ActsIn(X, g, actions) == \A x \in X, a \in Range(actions) : Act(x, g, a) \in X

\* What every action leads to from a set of zones, all do.
LEMMA ActAllIn ==
    ASSUME NEW X, NEW y \in X, NEW g, NEW actions, actions \in Seq(Range(actions)), ActsIn(X, g, actions)
    PROVE  ActAll(y, g, actions) \in X
  <1> DEFINE S == DOMAIN actions
             step == [k \in S |-> [f \in X |-> Act(f, g, actions[k])]]
             Is(h) == h = [s \in SUBSET S |-> IF s = {} THEN y
                           ELSE Act(h[s \ {Max(s)}], g, actions[Max(s)])]
             fold == CHOOSE h : Is(h)
  <1>1. ASSUME NEW k \in S, NEW f \in X
        PROVE  Act(f, g, actions[k]) \in X
    BY <1>1 DEF ActsIn, Range
  <1>2. actions \in Seq(Range(actions))
    OBVIOUS
  <1>3. \A s \in SUBSET S : s # {} => Max(s) \in S
    BY <1>2, RangeFinite, MaxExists, FS_Subset
  <1>4. \E h : Is(h)
    <2>1. Closed(step, S, X)
      BY <1>1 DEF Closed
    <2>2. PICK h : IsFold(h, S, X, y, LastOf(S), step)
      <3> HIDE DEF step
      <3> QED
        BY <1>2, <2>1, LeftFoldExists
    <2>3. \A s \in SUBSET S : s # {} => h[s \ {Max(s)}] \in X
      BY <2>2 DEF IsFold
    <2>4. Is(h)
      BY <1>3, <2>2, <2>3 DEF IsFold, LastOf
    <2> QED
      BY <2>4
  <1>5. Is(fold)
    BY <1>4
  <1>6. ActAll(y, g, actions) = fold[S]
    BY DEF ActAll, FoldLeft, MapThenFoldSet
  <1> HIDE DEF fold
  <1>7. ASSUME NEW s \in SUBSET S, s # {} /\ fold[s \ {Max(s)}] \in X
        PROVE  fold[s] \in X
    <2>1. fold[s] = Act(fold[s \ {Max(s)}], g, actions[Max(s)])
      BY <1>5, <1>7
    <2> QED
      BY <1>1, <1>3, <1>7, <2>1
  <1>8. fold[{}] \in X
    BY <1>5
  <1> QED
    BY <1>2, <1>6, <1>7, <1>8, LeftFoldIn

ReadsIn(X, g) == \A x \in X, m \in Range(g) : PropertyByName(x, m) \in X

\* What reading a member leads to, reading a group does.
LEMMA GetPropertiesIn ==
    ASSUME NEW X, NEW y \in X, NEW g \in Seq(Member), ReadsIn(X, g)
    PROVE  GetProperties(y, g) \in X
  <1> DEFINE S == DOMAIN g
             step == [k \in S |-> [f \in X |-> PropertyByName(f, g[k])]]
             Is(h) == h = [s \in SUBSET S |-> IF s = {} THEN y
                           ELSE PropertyByName(h[s \ {Max(s)}], g[Max(s)])]
             fold == CHOOSE h : Is(h)
  <1>1. ASSUME NEW k \in S, NEW f \in X
        PROVE  PropertyByName(f, g[k]) \in X
    BY <1>1 DEF ReadsIn, Range
  <1>2. g \in Seq(Member)
    OBVIOUS
  <1>3. \A s \in SUBSET S : s # {} => Max(s) \in S
    BY <1>2, RangeFinite, MaxExists, FS_Subset
  <1>4. \E h : Is(h)
    <2>1. Closed(step, S, X)
      BY <1>1 DEF Closed
    <2>2. PICK h : IsFold(h, S, X, y, LastOf(S), step)
      <3> HIDE DEF step
      <3> QED
        BY <1>2, <2>1, LeftFoldExists
    <2>3. \A s \in SUBSET S : s # {} => h[s \ {Max(s)}] \in X
      BY <2>2 DEF IsFold
    <2>4. Is(h)
      BY <1>3, <2>2, <2>3 DEF IsFold, LastOf
    <2> QED
      BY <2>4
  <1>5. Is(fold)
    BY <1>4
  <1>6. GetProperties(y, g) = fold[S]
    BY DEF GetProperties, FoldLeft, MapThenFoldSet
  <1> HIDE DEF fold
  <1>7. ASSUME NEW s \in SUBSET S, s # {} /\ fold[s \ {Max(s)}] \in X
        PROVE  fold[s] \in X
    <2>1. fold[s] = PropertyByName(fold[s \ {Max(s)}], g[Max(s)])
      BY <1>5, <1>7
    <2> QED
      BY <1>1, <1>3, <1>7, <2>1
  <1>8. fold[{}] \in X
    BY <1>5
  <1> QED
    BY <1>2, <1>6, <1>7, <1>8, LeftFoldIn

InitsIn(X, parts) == \A x \in X, p \in Range(parts) : InitPart(x, p) \in X

\* The parts of an event
LEMMA InitPartsIn ==
    ASSUME NEW X, NEW y \in X, NEW e \in Event, InitsIn(X, Def[e].parts)
    PROVE  FoldLeft(InitPart, y, Def[e].parts) \in X
  <1> DEFINE S == DOMAIN Def[e].parts
             step == [k \in S |-> [f \in X |-> InitPart(f, Def[e].parts[k])]]
             Is(h) == h = [s \in SUBSET S |-> IF s = {} THEN y
                           ELSE InitPart(h[s \ {Max(s)}], Def[e].parts[Max(s)])]
             fold == CHOOSE h : Is(h)
  <1>1. ASSUME NEW k \in S, NEW f \in X
        PROVE  InitPart(f, Def[e].parts[k]) \in X
    BY <1>1 DEF InitsIn, Range
  <1>2. Def[e].parts \in Seq(Part)
    BY PartsTyped
  <1>3. \A s \in SUBSET S : s # {} => Max(s) \in S
    BY <1>2, RangeFinite, MaxExists, FS_Subset
  <1>4. \E h : Is(h)
    <2>1. Closed(step, S, X)
      BY <1>1 DEF Closed
    <2>2. PICK h : IsFold(h, S, X, y, LastOf(S), step)
      <3> HIDE DEF step
      <3> QED
        BY <1>2, <2>1, LeftFoldExists
    <2>3. \A s \in SUBSET S : s # {} => h[s \ {Max(s)}] \in X
      BY <2>2 DEF IsFold
    <2>4. Is(h)
      BY <1>3, <2>2, <2>3 DEF IsFold, LastOf
    <2> QED
      BY <2>4
  <1>5. Is(fold)
    BY <1>4
  <1>6. FoldLeft(InitPart, y, Def[e].parts) = fold[S]
    BY DEF FoldLeft, MapThenFoldSet
  <1> HIDE DEF fold
  <1>7. ASSUME NEW s \in SUBSET S, s # {} /\ fold[s \ {Max(s)}] \in X
        PROVE  fold[s] \in X
    <2>1. fold[s] = InitPart(fold[s \ {Max(s)}], Def[e].parts[Max(s)])
      BY <1>5, <1>7
    <2> QED
      BY <1>1, <1>3, <1>7, <2>1
  <1>8. fold[{}] \in X
    BY <1>5
  <1> QED
    BY <1>2, <1>6, <1>7, <1>8, LeftFoldIn

EnablesIn(X, q) == \A x \in X, e \in Range(q) : InitEvent(x, e) \in X

\* Events that are enabled
LEMMA InitEventsIn ==
    ASSUME NEW X, NEW y \in X, NEW q \in Seq(PlainEvent), EnablesIn(X, q)
    PROVE  InitEvents(y, q) \in X
  <1> DEFINE S == DOMAIN q
             step == [k \in S |-> [f \in X |-> InitEvent(f, q[k])]]
             Is(h) == h = [s \in SUBSET S |-> IF s = {} THEN y
                           ELSE InitEvent(h[s \ {Max(s)}], q[Max(s)])]
             fold == CHOOSE h : Is(h)
  <1>1. ASSUME NEW k \in S, NEW f \in X
        PROVE  InitEvent(f, q[k]) \in X
    BY <1>1 DEF EnablesIn, Range
  <1>2. q \in Seq(PlainEvent)
    OBVIOUS
  <1>3. \A s \in SUBSET S : s # {} => Max(s) \in S
    BY <1>2, RangeFinite, MaxExists, FS_Subset
  <1>4. \E h : Is(h)
    <2>1. Closed(step, S, X)
      BY <1>1 DEF Closed
    <2>2. PICK h : IsFold(h, S, X, y, LastOf(S), step)
      <3> HIDE DEF step
      <3> QED
        BY <1>2, <2>1, LeftFoldExists
    <2>3. \A s \in SUBSET S : s # {} => h[s \ {Max(s)}] \in X
      BY <2>2 DEF IsFold
    <2>4. Is(h)
      BY <1>3, <2>2, <2>3 DEF IsFold, LastOf
    <2> QED
      BY <2>4
  <1>5. Is(fold)
    BY <1>4
  <1>6. InitEvents(y, q) = fold[S]
    BY DEF InitEvents, FoldLeft, MapThenFoldSet
  <1> HIDE DEF fold
  <1>7. ASSUME NEW s \in SUBSET S, s # {} /\ fold[s \ {Max(s)}] \in X
        PROVE  fold[s] \in X
    <2>1. fold[s] = InitEvent(fold[s \ {Max(s)}], q[Max(s)])
      BY <1>5, <1>7
    <2> QED
      BY <1>1, <1>3, <1>7, <2>1
  <1>8. fold[{}] \in X
    BY <1>5
  <1> QED
    BY <1>2, <1>6, <1>7, <1>8, LeftFoldIn

RemovesIn(X, q) == \A x \in X, e \in Range(q) : RemoveEvent(x, e) \in X

\* Events that are disabled
LEMMA RemoveEventsIn ==
    ASSUME NEW X, NEW y \in X, NEW q \in Seq(PlainEvent), RemovesIn(X, q)
    PROVE  RemoveEvents(y, q) \in X
  <1> DEFINE S == DOMAIN q
             step == [k \in S |-> [f \in X |-> RemoveEvent(f, q[k])]]
             Is(h) == h = [s \in SUBSET S |-> IF s = {} THEN y
                           ELSE RemoveEvent(h[s \ {Max(s)}], q[Max(s)])]
             fold == CHOOSE h : Is(h)
  <1>1. ASSUME NEW k \in S, NEW f \in X
        PROVE  RemoveEvent(f, q[k]) \in X
    BY <1>1 DEF RemovesIn, Range
  <1>2. q \in Seq(PlainEvent)
    OBVIOUS
  <1>3. \A s \in SUBSET S : s # {} => Max(s) \in S
    BY <1>2, RangeFinite, MaxExists, FS_Subset
  <1>4. \E h : Is(h)
    <2>1. Closed(step, S, X)
      BY <1>1 DEF Closed
    <2>2. PICK h : IsFold(h, S, X, y, LastOf(S), step)
      <3> HIDE DEF step
      <3> QED
        BY <1>2, <2>1, LeftFoldExists
    <2>3. \A s \in SUBSET S : s # {} => h[s \ {Max(s)}] \in X
      BY <2>2 DEF IsFold
    <2>4. Is(h)
      BY <1>3, <2>2, <2>3 DEF IsFold, LastOf
    <2> QED
      BY <2>4
  <1>5. Is(fold)
    BY <1>4
  <1>6. RemoveEvents(y, q) = fold[S]
    BY DEF RemoveEvents, FoldLeft, MapThenFoldSet
  <1> HIDE DEF fold
  <1>7. ASSUME NEW s \in SUBSET S, s # {} /\ fold[s \ {Max(s)}] \in X
        PROVE  fold[s] \in X
    <2>1. fold[s] = RemoveEvent(fold[s \ {Max(s)}], q[Max(s)])
      BY <1>5, <1>7
    <2> QED
      BY <1>1, <1>3, <1>7, <2>1
  <1>8. fold[{}] \in X
    BY <1>5
  <1> QED
    BY <1>2, <1>6, <1>7, <1>8, LeftFoldIn

RunsIn(X, g, actions) == \A x \in X, a \in Range(actions) : Run(x, g, a) \in X
RunReaches(X, R, g, actions, j) ==
    /\ \A x \in X : Run(x, g, actions[j]) \in R
    /\ \A x \in R, k \in DOMAIN actions : k # j => Run(x, g, actions[k]) \in R

\* The actions of a part: the action j leads into R, and the others not out of it.
LEMMA RunAllIn ==
    ASSUME NEW X, NEW y \in X, NEW g, NEW actions, actions \in Seq(Range(actions)), RunsIn(X, g, actions),
           NEW R, NEW j
    PROVE  /\ RunAll(y, g, actions) \in X
           /\ j \in DOMAIN actions /\ RunReaches(X, R, g, actions, j) => RunAll(y, g, actions) \in R
  <1> DEFINE S == DOMAIN actions
             step == [k \in S |-> [f \in X |-> Run(f, g, actions[k])]]
             Is(h) == h = [s \in SUBSET S |-> IF s = {} THEN y
                           ELSE Run(h[s \ {Max(s)}], g, actions[Max(s)])]
             fold == CHOOSE h : Is(h)
  <1>1. ASSUME NEW k \in S, NEW f \in X
        PROVE  Run(f, g, actions[k]) \in X
    BY <1>1 DEF RunsIn, Range
  <1>2. actions \in Seq(Range(actions))
    OBVIOUS
  <1>3. \A s \in SUBSET S : s # {} => Max(s) \in S
    BY <1>2, RangeFinite, MaxExists, FS_Subset
  <1>4. \E h : Is(h)
    <2>1. Closed(step, S, X)
      BY <1>1 DEF Closed
    <2>2. PICK h : IsFold(h, S, X, y, LastOf(S), step)
      <3> HIDE DEF step
      <3> QED
        BY <1>2, <2>1, LeftFoldExists
    <2>3. \A s \in SUBSET S : s # {} => h[s \ {Max(s)}] \in X
      BY <2>2 DEF IsFold
    <2>4. Is(h)
      BY <1>3, <2>2, <2>3 DEF IsFold, LastOf
    <2> QED
      BY <2>4
  <1>5. Is(fold)
    BY <1>4
  <1>6. RunAll(y, g, actions) = fold[S]
    BY DEF RunAll, FoldLeft, MapThenFoldSet
  <1> HIDE DEF fold
  <1> DEFINE P == {s \in SUBSET S : fold[s] \in X /\ (j \in s /\ RunReaches(X, R, g, actions, j) => fold[s] \in R)}
  <1>7. ASSUME NEW s \in SUBSET S, s # {} /\ s \ {Max(s)} \in P
        PROVE  s \in P
    <2> DEFINE m == Max(s)
               f == fold[s \ {m}]
    <2>1. m \in S /\ f \in X /\ (j \in s \ {m} /\ RunReaches(X, R, g, actions, j) => f \in R)
      BY <1>3, <1>7
    <2>2. fold[s] = Run(f, g, actions[m])
      BY <1>5, <1>7
    <2>3. m \in s \ {m} <=> FALSE
      OBVIOUS
    <2>4. \A i \in s : i # m => i \in s \ {m}
      OBVIOUS
    <2> HIDE DEF m, f
    <2>5. fold[s] \in X
      BY <1>1, <2>1, <2>2
    <2>6. j \in s /\ RunReaches(X, R, g, actions, j) => fold[s] \in R
      BY <2>1, <2>2, <2>4 DEF RunReaches
    <2> QED
      BY <2>5, <2>6
  <1>8. {} \in P
    BY <1>5
  <1>9. S \in P
    <2> HIDE DEF P
    <2> QED
      BY <1>2, <1>7, <1>8, LeftInduction
  <1> QED
    BY <1>6, <1>9

StartsIn(X, e) == \A x \in X, k \in DOMAIN Def[e].parts : InitTopPart(x, Def[e].parts[k]) \in X

\* The parts of an event of the zone: the last is run in a zone of the set.
LEMMA InitTopPartsIn ==
    ASSUME NEW X, NEW y \in X, NEW e \in Event, StartsIn(X, e)
    PROVE  /\ FoldLeft(InitTopPart, y, Def[e].parts) \in X
           /\ DOMAIN Def[e].parts # {} =>
                \E x \in X, k \in DOMAIN Def[e].parts :
                   FoldLeft(InitTopPart, y, Def[e].parts) = InitTopPart(x, Def[e].parts[k])
  <1> DEFINE S == DOMAIN Def[e].parts
             step == [k \in S |-> [f \in X |-> InitTopPart(f, Def[e].parts[k])]]
             Is(h) == h = [s \in SUBSET S |-> IF s = {} THEN y
                           ELSE InitTopPart(h[s \ {Max(s)}], Def[e].parts[Max(s)])]
             fold == CHOOSE h : Is(h)
  <1>1. ASSUME NEW k \in S, NEW f \in X
        PROVE  InitTopPart(f, Def[e].parts[k]) \in X
    BY <1>1 DEF StartsIn
  <1>2. Def[e].parts \in Seq(Part)
    BY PartsTyped
  <1>3. \A s \in SUBSET S : s # {} => Max(s) \in S
    BY <1>2, RangeFinite, MaxExists, FS_Subset
  <1>4. \E h : Is(h)
    <2>1. Closed(step, S, X)
      BY <1>1 DEF Closed
    <2>2. PICK h : IsFold(h, S, X, y, LastOf(S), step)
      <3> HIDE DEF step
      <3> QED
        BY <1>2, <2>1, LeftFoldExists
    <2>3. \A s \in SUBSET S : s # {} => h[s \ {Max(s)}] \in X
      BY <2>2 DEF IsFold
    <2>4. Is(h)
      BY <1>3, <2>2, <2>3 DEF IsFold, LastOf
    <2> QED
      BY <2>4
  <1>5. Is(fold)
    BY <1>4
  <1>6. FoldLeft(InitTopPart, y, Def[e].parts) = fold[S]
    BY DEF FoldLeft, MapThenFoldSet
  <1> HIDE DEF fold
  <1> DEFINE P == {s \in SUBSET S : /\ fold[s] \in X
                                    /\ s # {} => \E f \in X, k \in S : fold[s] = InitTopPart(f, Def[e].parts[k])}
  <1>7. ASSUME NEW s \in SUBSET S, s # {} /\ s \ {Max(s)} \in P
        PROVE  s \in P
    <2> DEFINE m == Max(s)
               f == fold[s \ {m}]
    <2>1. m \in S /\ f \in X
      BY <1>3, <1>7
    <2>2. fold[s] = InitTopPart(f, Def[e].parts[m])
      BY <1>5, <1>7
    <2> HIDE DEF m, f
    <2>3. fold[s] \in X
      BY <1>1, <2>1, <2>2
    <2> QED
      BY <2>1, <2>2, <2>3
  <1>8. {} \in P
    BY <1>5
  <1>9. S \in P
    <2> HIDE DEF P
    <2> QED
      BY <1>2, <1>7, <1>8, LeftInduction
  <1> QED
    BY <1>6, <1>9

PartsIn(X, e, sig) == \A x \in X, k \in DOMAIN Def[e].parts : HandlePart(x, Def[e].parts[k], sig) \in X

\* The parts of an event that handles a signal
LEMMA HandlePartsIn ==
    ASSUME NEW X, NEW y \in X, NEW e \in Event, NEW sig, PartsIn(X, e, sig)
    PROVE  /\ HandleParts(y, e, sig) \in X
           /\ DOMAIN Def[e].parts # {} =>
                \E x \in X, k \in DOMAIN Def[e].parts :
                   HandleParts(y, e, sig) = HandlePart(x, Def[e].parts[k], sig)
  <1> DEFINE S == DOMAIN Def[e].parts
             step == [k \in S |-> [f \in X |-> HandlePart(f, Def[e].parts[k], sig)]]
             Is(h) == h = [s \in SUBSET S |-> IF s = {} THEN y
                           ELSE HandlePart(h[s \ {Max(s)}], Def[e].parts[Max(s)], sig)]
             fold == CHOOSE h : Is(h)
  <1>1. ASSUME NEW k \in S, NEW f \in X
        PROVE  HandlePart(f, Def[e].parts[k], sig) \in X
    BY <1>1 DEF PartsIn
  <1>2. Def[e].parts \in Seq(Part)
    BY PartsTyped
  <1>3. \A s \in SUBSET S : s # {} => Max(s) \in S
    BY <1>2, RangeFinite, MaxExists, FS_Subset
  <1>4. \E h : Is(h)
    <2>1. Closed(step, S, X)
      BY <1>1 DEF Closed
    <2>2. PICK h : IsFold(h, S, X, y, LastOf(S), step)
      <3> HIDE DEF step
      <3> QED
        BY <1>2, <2>1, LeftFoldExists
    <2>3. \A s \in SUBSET S : s # {} => h[s \ {Max(s)}] \in X
      BY <2>2 DEF IsFold
    <2>4. Is(h)
      BY <1>3, <2>2, <2>3 DEF IsFold, LastOf
    <2> QED
      BY <2>4
  <1>5. Is(fold)
    BY <1>4
  <1>6. HandleParts(y, e, sig) = fold[S]
    BY DEF HandleParts, FoldLeft, MapThenFoldSet
  <1> HIDE DEF fold
  <1> DEFINE P == {s \in SUBSET S : /\ fold[s] \in X
                                    /\ s # {} => \E f \in X, k \in S : fold[s] = HandlePart(f, Def[e].parts[k], sig)}
  <1>7. ASSUME NEW s \in SUBSET S, s # {} /\ s \ {Max(s)} \in P
        PROVE  s \in P
    <2> DEFINE m == Max(s)
               f == fold[s \ {m}]
    <2>1. m \in S /\ f \in X
      BY <1>3, <1>7
    <2>2. fold[s] = HandlePart(f, Def[e].parts[m], sig)
      BY <1>5, <1>7
    <2> HIDE DEF m, f
    <2>3. fold[s] \in X
      BY <1>1, <2>1, <2>2
    <2> QED
      BY <2>1, <2>2, <2>3
  <1>8. {} \in P
    BY <1>5
  <1>9. S \in P
    <2> HIDE DEF P
    <2> QED
      BY <1>2, <1>7, <1>8, LeftInduction
  <1> QED
    BY <1>6, <1>9

HandlesIn(X, e, sig) == \A x \in X : HandleParts(x, e, sig) \in X

\* An event that is subscribed to several times handles a signal as often.
LEMMA HandleEventIn ==
    ASSUME NEW X, NEW y \in X, NEW e, NEW sig, HandlesIn(X, e, sig), y.enabled[e] \in Nat
    PROVE  /\ HandleEvent(y, e, sig) \in X
           /\ y.enabled[e] > 0 => \E x \in X : HandleEvent(y, e, sig) = HandleParts(x, e, sig)
  <1> DEFINE q == [k \in 1..y.enabled[e] |-> k]
  <1>01. DOMAIN q = 1..y.enabled[e]
    OBVIOUS
  <1>02. q \in Seq(Nat)
    OBVIOUS
  <1>03. HandleEvent(y, e, sig) = FoldLeft(LAMBDA x, k : HandleParts(x, e, sig), y, q)
    BY DEF HandleEvent
  <1>04. y.enabled[e] > 0 => DOMAIN q # {}
    <2>1. y.enabled[e] > 0 => 1 \in DOMAIN q
      BY <1>01
    <2> QED
      BY <2>1
  <1> HIDE DEF q
  <1> DEFINE S == DOMAIN q
             step == [k \in S |-> [f \in X |-> HandleParts(f, e, sig)]]
             Is(h) == h = [s \in SUBSET S |-> IF s = {} THEN y
                           ELSE HandleParts(h[s \ {Max(s)}], e, sig)]
             fold == CHOOSE h : Is(h)
  <1>1. ASSUME NEW k \in S, NEW f \in X
        PROVE  HandleParts(f, e, sig) \in X
    BY <1>1 DEF HandlesIn
  <1>2. q \in Seq(Nat)
    BY <1>02
  <1>3. \A s \in SUBSET S : s # {} => Max(s) \in S
    BY <1>2, RangeFinite, MaxExists, FS_Subset
  <1>4. \E h : Is(h)
    <2>1. Closed(step, S, X)
      BY <1>1 DEF Closed
    <2>2. PICK h : IsFold(h, S, X, y, LastOf(S), step)
      <3> HIDE DEF step
      <3> QED
        BY <1>2, <2>1, LeftFoldExists
    <2>3. \A s \in SUBSET S : s # {} => h[s \ {Max(s)}] \in X
      BY <2>2 DEF IsFold
    <2>4. Is(h)
      BY <1>3, <2>2, <2>3 DEF IsFold, LastOf
    <2> QED
      BY <2>4
  <1>5. Is(fold)
    BY <1>4
  <1>6. HandleEvent(y, e, sig) = fold[S]
    BY <1>03 DEF FoldLeft, MapThenFoldSet
  <1> HIDE DEF fold
  <1> DEFINE P == {s \in SUBSET S : /\ fold[s] \in X
                                    /\ s # {} => \E f \in X, k \in S : fold[s] = HandleParts(f, e, sig)}
  <1>7. ASSUME NEW s \in SUBSET S, s # {} /\ s \ {Max(s)} \in P
        PROVE  s \in P
    <2> DEFINE m == Max(s)
               f == fold[s \ {m}]
    <2>1. m \in S /\ f \in X
      BY <1>3, <1>7
    <2>2. fold[s] = HandleParts(f, e, sig)
      BY <1>5, <1>7
    <2> HIDE DEF m, f
    <2>3. fold[s] \in X
      BY <1>1, <2>1, <2>2
    <2> QED
      BY <2>1, <2>2, <2>3
  <1>8. {} \in P
    BY <1>5
  <1>9. S \in P
    <2> HIDE DEF P
    <2> QED
      BY <1>2, <1>7, <1>8, LeftInduction
  <1> QED
    BY <1>04, <1>6, <1>9

SignalIn(X, E, sig) == \A x \in X, e \in E : HandleEvent(x, e, sig) \in X
SignalReaches(X, R, E, sig, j) ==
    /\ \A x \in X : HandleEvent(x, j, sig) \in R
    /\ \A x \in R, e \in E : e # j => HandleEvent(x, e, sig) \in R

InSequence(y, q, sig) == FoldLeft(LAMBDA x, e : HandleEvent(x, e, sig), y, q)
InAnyOrder(y, E, sig) == FoldSet(LAMBDA e, x : HandleEvent(x, e, sig), y, E)

\* The handlers of a signal, in some order: that of the event j leads into R,
\* and the others not out of it.
LEMMA HandleInOrderIn ==
    ASSUME NEW X, NEW y \in X, NEW E, NEW q \in Seq(E), NEW sig, SignalIn(X, E, sig),
           NEW R, NEW j
    PROVE  /\ InSequence(y, q, sig) \in X
           /\ j \in Range(q) /\ SignalReaches(X, R, E, sig, j) =>
                InSequence(y, q, sig) \in R
  <1> DEFINE S == DOMAIN q
             step == [k \in S |-> [f \in X |-> HandleEvent(f, q[k], sig)]]
             Is(h) == h = [s \in SUBSET S |-> IF s = {} THEN y
                           ELSE HandleEvent(h[s \ {Max(s)}], q[Max(s)], sig)]
             fold == CHOOSE h : Is(h)
  <1>1. ASSUME NEW k \in S, NEW f \in X
        PROVE  HandleEvent(f, q[k], sig) \in X
    <2>1. q[k] \in E
      OBVIOUS
    <2> QED
      BY <1>1, <2>1 DEF SignalIn
  <1>2. q \in Seq(E)
    OBVIOUS
  <1>3. \A s \in SUBSET S : s # {} => Max(s) \in S
    BY <1>2, RangeFinite, MaxExists, FS_Subset
  <1>4. \E h : Is(h)
    <2>1. Closed(step, S, X)
      BY <1>1 DEF Closed
    <2>2. PICK h : IsFold(h, S, X, y, LastOf(S), step)
      <3> HIDE DEF step
      <3> QED
        BY <1>2, <2>1, LeftFoldExists
    <2>3. \A s \in SUBSET S : s # {} => h[s \ {Max(s)}] \in X
      BY <2>2 DEF IsFold
    <2>4. Is(h)
      BY <1>3, <2>2, <2>3 DEF IsFold, LastOf
    <2> QED
      BY <2>4
  <1>5. Is(fold)
    BY <1>4
  <1>6. InSequence(y, q, sig) = fold[S]
    BY DEF InSequence, FoldLeft, MapThenFoldSet
  <1> HIDE DEF fold
  <1> DEFINE P == {s \in SUBSET S : /\ fold[s] \in X
                                    /\ (\E k \in s : q[k] = j) /\ SignalReaches(X, R, E, sig, j) => fold[s] \in R}
  <1>7. ASSUME NEW s \in SUBSET S, s # {} /\ s \ {Max(s)} \in P
        PROVE  s \in P
    <2> DEFINE m == Max(s)
               f == fold[s \ {m}]
    <2>1. /\ m \in S /\ f \in X
          /\ (\E k \in s \ {m} : q[k] = j) /\ SignalReaches(X, R, E, sig, j) => f \in R
      BY <1>3, <1>7
    <2>2. fold[s] = HandleEvent(f, q[m], sig)
      BY <1>5, <1>7
    <2>3. q[m] \in E
      BY <1>2, <2>1
    <2>4. \A i \in s : i # m => i \in s \ {m}
      OBVIOUS
    <2> HIDE DEF m, f
    <2>5. fold[s] \in X
      BY <1>1, <2>1, <2>2
    <2>6. (\E k \in s : q[k] = j) /\ SignalReaches(X, R, E, sig, j) => fold[s] \in R
      BY <2>1, <2>2, <2>3, <2>4 DEF SignalReaches
    <2> QED
      BY <2>5, <2>6
  <1>8. {} \in P
    BY <1>5
  <1>9. S \in P
    <2> HIDE DEF P
    <2> QED
      BY <1>2, <1>7, <1>8, LeftInduction
  <1> QED
    BY <1>6, <1>9 DEF Range

\* In any order, as for a mode that is set
LEMMA HandleInAnyOrderIn ==
    ASSUME NEW X, NEW y \in X, NEW E \in SUBSET Event, NEW sig, SignalIn(X, E, sig),
           NEW R, NEW j
    PROVE  /\ InAnyOrder(y, E, sig) \in X
           /\ j \in E /\ SignalReaches(X, R, E, sig, j) =>
                InAnyOrder(y, E, sig) \in R
  <1> DEFINE first(s) == CHOOSE e \in s : TRUE
             c == [s \in SUBSET E |-> first(s)]
             step == [e \in E |-> [x \in X |-> HandleEvent(x, e, sig)]]
             Is(h) == h = [s \in SUBSET E |-> IF s = {} THEN y
                           ELSE HandleEvent(h[s \ {first(s)}], first(s), sig)]
             fold == CHOOSE h : Is(h)
             P == {s \in SUBSET E : /\ fold[s] \in X
                                    /\ j \in s /\ SignalReaches(X, R, E, sig, j) => fold[s] \in R}
  <1>1. IsFiniteSet(E)
    BY LegacyActionsAssumption, FS_Subset
  <1>2. \A s \in SUBSET E : s # {} => first(s) \in s /\ first(s) \in E
    OBVIOUS
  <1>3. \A e \in E, x \in X : HandleEvent(x, e, sig) \in X
    BY DEF SignalIn
  <1>4. InAnyOrder(y, E, sig) = fold[E]
    BY DEF InAnyOrder, FoldSet, MapThenFoldSet
  <1> HIDE DEF first
  <1>5. \E h : Is(h)
    <2>1. Closed(step, E, X)
      BY <1>3 DEF Closed
    <2>2. Picks(c, E)
      BY <1>2 DEF Picks
    <2>3. PICK h : IsFold(h, E, X, y, c, step)
      <3> HIDE DEF c, step
      <3> QED
        BY <1>1, <2>1, <2>2, FoldExists
    <2>4. \A s \in SUBSET E : s # {} => h[s \ {first(s)}] \in X
      BY <2>3 DEF IsFold
    <2>5. \A s \in SUBSET E : s # {} =>
            step[c[s]][h[s \ {c[s]}]] = HandleEvent(h[s \ {first(s)}], first(s), sig)
      BY <1>2, <2>4
    <2> HIDE DEF step
    <2>6. Is(h)
      BY <2>3, <2>5 DEF IsFold
    <2> QED
      BY <2>6
  <1>6. Is(fold)
    BY <1>5
  <1> HIDE DEF fold
  <1>7. {} \in P
    BY <1>6
  <1>8. ASSUME NEW s \in SUBSET E, s # {}
        PROVE  \E e \in s : s \ {e} \in P => s \in P
    <2> DEFINE d == first(s)
               f == fold[s \ {d}]
    <2>1. fold[s] = HandleEvent(f, d, sig) /\ d \in s /\ d \in E
      BY <1>2, <1>6, <1>8
    <2>2. \A i \in s : i # d => i \in s \ {d}
      OBVIOUS
    <2> HIDE DEF d
    <2>3. ASSUME s \ {d} \in P
          PROVE  s \in P
      <3>1. f \in X /\ (j \in s \ {d} /\ SignalReaches(X, R, E, sig, j) => f \in R)
        BY <2>3
      <3> HIDE DEF f
      <3>2. fold[s] \in X
        BY <1>3, <2>1, <3>1
      <3>3. j \in s /\ SignalReaches(X, R, E, sig, j) => fold[s] \in R
        BY <2>1, <2>2, <3>1 DEF SignalReaches
      <3> QED
        BY <3>2, <3>3
    <2> QED
      BY <2>1, <2>3
  <1>9. \A s \in SUBSET E : s \in P
    <2> HIDE DEF P
    <2> QED
      BY <1>1, <1>7, <1>8, SubsetInduction
  <1> QED
    BY <1>4, <1>9

-----------------------------------------------------------------------------
(* Sets of zones that say nothing but of limits                            *)

Broad(X) == X \subseteq Zones /\ \A y \in X, x \in Zones : SameLimits(y, x) => x \in X

\* The parts that do not lead out of such a set: by what their actions do
\* and by what is read for them.
Suits(X, p) == \A y \in X, a \in Range(p.actions) : IsSimple(a) => Act(y, p.group, a) \in X
Open(X, e) == \A p \in Range(Def[e].parts) : Suits(X, p) /\ ReadsIn(X, p.group)

LEMMA BroadSame ==
    ASSUME NEW X, Broad(X), NEW y \in X
    PROVE  /\ SetFullSpeed(y) \in X
           /\ \A h \in Group, allowed \in BOOLEAN : SetActiveAllow(y, h, allowed) \in X
           /\ \A n \in Event : SubscribedTo(y, n) \in X /\ RemoveEvent(y, n) \in X
  <1>1. y \in Zones /\ \A x \in Zones : SameLimits(y, x) => x \in X
    BY DEF Broad
  <1>2. SetFullSpeed(y) \in Zones /\ SameLimits(y, SetFullSpeed(y))
    <2>1. SetFullSpeed(y) \in Zones
      BY <1>1, FullSpeedSteps, StepsZones
    <2> QED
      BY <1>1, <2>1 DEF SetFullSpeed, SameLimits, Zones
  <1>3. ASSUME NEW h \in Group, NEW allowed \in BOOLEAN
        PROVE  SetActiveAllow(y, h, allowed) \in X
    <2>1. Elsewhere(h, {})
      BY DEF Elsewhere
    <2>2. SetActiveAllow(y, h, allowed) \in Zones
      BY <1>1, <2>1, AllowSteps, StepsZones
    <2> QED
      BY <1>1, <2>2, AllowSame
  <1>4. ASSUME NEW n \in Event
        PROVE  SubscribedTo(y, n) \in X /\ RemoveEvent(y, n) \in X
    <2>1. SubscribedTo(y, n) \in Zones /\ RemoveEvent(y, n) \in Zones
      BY <1>1, SubscribedSteps, RemoveEventSteps, StepsZones
    <2>2. SameLimits(y, SubscribedTo(y, n)) /\ SameLimits(y, RemoveEvent(y, n))
      BY <1>1 DEF SubscribedTo, RemoveEvent, SameLimits, Zones
    <2> QED
      BY <1>1, <2>1, <2>2
  <1> QED
    BY <1>1, <1>2, <1>3, <1>4

LEMMA LookUpIn ==
    ASSUME NEW X, Broad(X), NEW y \in X, NEW members
    PROVE  LookUp(y, members) \in X
  <1>1. y \in Zones /\ \A x \in Zones : SameLimits(y, x) => x \in X
    BY DEF Broad
  <1> QED
    BY <1>1, LookUpSame

LEMMA TimerSame ==
    ASSUME NEW y \in Zones, NEW h, NEW a
    PROVE  SameLimits(y, CallActionsBasedOnTimer(y, h, a))
  <1> DEFINE same == FindTimer(y, h, a)
             new == [group |-> h, actions |-> a.actions, oneshot |-> a.oneshot, armed |-> TRUE]
             timed == IF same = {} THEN y.timed \cup {new} ELSE y.timed \ same
  <1>1. CallActionsBasedOnTimer(y, h, a) = [y EXCEPT !.timed = timed]
    BY DEF CallActionsBasedOnTimer
  <1> HIDE DEF timed
  <1> QED
    BY <1>1 DEF SameLimits, Zones

LEMMA PlainIn ==
    ASSUME NEW X, Broad(X), NEW y \in X, NEW p \in Part, Suits(X, p),
           NEW a \in Range(p.actions), IsPlain(a)
    PROVE  Act(y, p.group, a) \in X
  <1>1. CASE IsSimple(a)
    BY <1>1 DEF Suits
  <1>2. CASE IsTimer(a)
    <2>1. Act(y, p.group, a) = CallActionsBasedOnTimer(y, p.group, a)
      BY <1>2 DEF Act, IsTimer
    <2>2. y \in Zones
      BY DEF Broad
    <2>3. Act(y, p.group, a) \in Zones
      BY <1>2, <2>1, <2>2, TimerSteps, StepsZones
    <2> QED
      BY <2>1, <2>2, <2>3, TimerSame DEF Broad
  <1> QED
    BY <1>1, <1>2 DEF IsPlain

LEMMA InitEventIn ==
    ASSUME NEW X, Broad(X), NEW y \in X, NEW e \in PlainEvent, Open(X, e)
    PROVE  InitEvent(y, e) \in X
  <1>1. e \in Event
    BY DEF PlainEvent
  <1>2. ASSUME NEW w \in X, NEW p \in Range(Def[e].parts)
        PROVE  InitPart(w, p) \in X
    <2> DEFINE x == GetProperties(w, p.group)
    <2>1. /\ p \in Part /\ p.group \in Seq(Member) /\ p.actions \in Seq(Range(p.actions))
          /\ \A a \in Range(p.actions) : IsPlain(a)
          /\ Suits(X, p) /\ ReadsIn(X, p.group)
      BY <1>1, PartsTyped DEF Open, PlainEvent
    <2>2. x \in X
      BY <2>1, GetPropertiesIn
    <2> HIDE DEF x
    <2>3. ActsIn(X, p.group, p.actions)
      BY <2>1, PlainIn DEF ActsIn
    <2>4. ActAll(x, p.group, p.actions) \in X
      BY <2>1, <2>2, <2>3, ActAllIn
    <2> QED
      BY <2>4 DEF InitPart, x
  <1>3. InitsIn(X, Def[e].parts)
    BY <1>2 DEF InitsIn
  <1> DEFINE x == IF Inits(e) THEN FoldLeft(InitPart, y, Def[e].parts) ELSE y
  <1>4. x \in X
    BY <1>1, <1>3, InitPartsIn
  <1>5. InitEvent(y, e) = SubscribedTo(x, e)
    BY DEF InitEvent
  <1> HIDE DEF x
  <1> QED
    BY <1>1, <1>4, <1>5, BroadSame

\* Events that an action enables and disables
LEMMA SwitchIn ==
    ASSUME NEW X, Broad(X), NEW y \in X, NEW q \in Seq(PlainEvent), \A e \in Range(q) : Open(X, e)
    PROVE  InitEvents(y, q) \in X /\ RemoveEvents(y, q) \in X
  <1>1. Range(q) \subseteq PlainEvent /\ Range(q) \subseteq Event
    BY DEF Range, PlainEvent
  <1>2. EnablesIn(X, q)
    BY <1>1, InitEventIn DEF EnablesIn
  <1>3. RemovesIn(X, q)
    BY <1>1, BroadSame DEF RemovesIn
  <1> QED
    BY <1>2, <1>3, InitEventsIn, RemoveEventsIn

LEMMA RunIn ==
    ASSUME NEW X, Broad(X), NEW y \in X, NEW p \in Part, Suits(X, p),
           NEW a \in Range(p.actions), \A e \in Nested(a) : Open(X, e)
    PROVE  Run(y, p.group, a) \in X
  <1>1. (IsPlain(a) \/ IsNesting(a)) /\ p.group \in Group
    BY PartsTyped DEF IsPart
  <1>2. CASE IsPlain(a)
    <2>1. Run(y, p.group, a) = Act(y, p.group, a)
      BY <1>2 DEF Run, IsPlain, IsSimple, IsTimer
    <2> QED
      BY <1>2, <2>1, PlainIn
  <1>3. CASE IsNesting(a) /\ a.type = "states_match"
    <2> DEFINE match == \A s \in a.states : y.props[s[1]] = s[2]
               removed == RemoveEvents(y, a.events)
               x == IF match THEN InitEvents(y, a.events) ELSE SetFullSpeed(removed)
    <2>1. a.events \in Seq(PlainEvent) /\ Nested(a) = Range(a.events)
      BY <1>3, NestingTyped
    <2>2. InitEvents(y, a.events) \in X /\ removed \in X
      BY <2>1, SwitchIn
    <2>3. Run(y, p.group, a) = SetActiveAllow(x, p.group, match)
      BY <1>3 DEF Run, PropertyStatesMatch
    <2>4. match \in BOOLEAN
      OBVIOUS
    <2> HIDE DEF match, removed
    <2>5. x \in X
      BY <2>2, BroadSame
    <2> HIDE DEF x
    <2> QED
      BY <1>1, <2>3, <2>4, <2>5, BroadSame
  <1>4. CASE IsNesting(a) /\ a.type = "alternate"
    <2>1. /\ a.def \in Seq(PlainEvent) /\ a.alt \in Seq(PlainEvent)
          /\ Nested(a) = Range(a.def) \cup Range(a.alt)
      BY <1>4, NestingTyped
    <2>2. RemoveEvents(y, a.def) \in X /\ RemoveEvents(y, a.alt) \in X
      BY <2>1, SwitchIn
    <2>3. /\ InitEvents(RemoveEvents(y, a.def), a.alt) \in X
          /\ InitEvents(RemoveEvents(y, a.alt), a.def) \in X
      BY <2>1, <2>2, SwitchIn
    <2> QED
      BY <1>4, <2>3 DEF Run, UseAlternateEventsOnState
  <1>5. CASE IsNesting(a) /\ a.type \in {"services_missing", "use"}
    <2>1. a.events \in Seq(PlainEvent) /\ Nested(a) = Range(a.events)
      BY <1>5, NestingTyped
    <2> DEFINE x == IF a.type = "use" THEN y ELSE LookUp(y, Range(p.group))
    <2>2. x \in X
      BY LookUpIn
    <2>3. Run(y, p.group, a) \in {InitEvents(x, a.events), RemoveEvents(x, a.events)}
      BY <1>5 DEF Run, ServicesMissingOwner, UseEventsOnState
    <2> HIDE DEF x
    <2>4. InitEvents(x, a.events) \in X /\ RemoveEvents(x, a.events) \in X
      BY <2>1, <2>2, SwitchIn
    <2> QED
      BY <2>3, <2>4
  <1> QED
    BY <1>1, <1>2, <1>3, <1>4, <1>5 DEF IsNesting

-----------------------------------------------------------------------------
(* Events that do not lead out of a set of zones                           *)

Calm(X, e) == (\A p \in Range(Def[e].parts) : Suits(X, p)) /\ \A n \in NestedIn(e) : Open(X, n)

LEMMA RunPartIn ==
    ASSUME NEW X, Broad(X), NEW y \in X, NEW e \in Event, Calm(X, e),
           NEW k \in DOMAIN Def[e].parts
    PROVE  RunAll(y, Def[e].parts[k].group, Def[e].parts[k].actions) \in X
  <1> DEFINE p == Def[e].parts[k]
  <1>1. /\ p \in Part /\ p \in Range(Def[e].parts) /\ NestedBy(p) \subseteq NestedIn(e)
    BY NestedInTyped
  <1> HIDE DEF p
  <1>2. p.actions \in Seq(Range(p.actions)) /\ Suits(X, p)
    BY <1>1, PartsTyped DEF Calm
  <1>3. \A a \in Range(p.actions) : \A n \in Nested(a) : Open(X, n)
    BY <1>1 DEF Calm, NestedBy
  <1>4. RunsIn(X, p.group, p.actions)
    BY <1>1, <1>2, <1>3, RunIn DEF RunsIn
  <1>5. RunAll(y, p.group, p.actions) \in X
    BY <1>2, <1>4, RunAllIn
  <1> QED
    BY <1>5 DEF p

LEMMA InitTopEventIn ==
    ASSUME NEW X, Broad(X), NEW y \in X, NEW e \in Event, Calm(X, e),
           \A p \in Range(Def[e].parts) : ReadsIn(X, p.group)
    PROVE  InitTopEvent(y, e) \in X
  <1>1. ASSUME NEW w \in X, NEW k \in DOMAIN Def[e].parts
        PROVE  InitTopPart(w, Def[e].parts[k]) \in X
    <2> DEFINE p == Def[e].parts[k]
               x == GetProperties(w, p.group)
    <2>1. p \in Range(Def[e].parts) /\ p.group \in Seq(Member)
      BY NestedInTyped, PartsTyped
    <2>2. x \in X
      <3> HIDE DEF p
      <3> QED
        BY <2>1, GetPropertiesIn
    <2> HIDE DEF x
    <2>3. RunAll(x, p.group, p.actions) \in X
      BY <2>2, RunPartIn
    <2> QED
      BY <2>3 DEF InitTopPart, x
  <1>2. StartsIn(X, e)
    BY <1>1 DEF StartsIn
  <1> DEFINE x == IF Inits(e) THEN FoldLeft(InitTopPart, y, Def[e].parts) ELSE y
  <1>3. x \in X
    BY <1>2, InitTopPartsIn
  <1>4. InitTopEvent(y, e) = SubscribedTo(x, e)
    BY DEF InitTopEvent
  <1> HIDE DEF x
  <1> QED
    BY <1>3, <1>4, BroadSame

\* The handler of the signal does not lead out of the set.
HandlerIn(X, sig) == \A x \in X : Handler(x, sig) \in X

LEMMA HandleIn ==
    ASSUME NEW X, Broad(X), NEW y \in X, NEW e \in Event, NEW sig, Calm(X, e), HandlerIn(X, sig)
    PROVE  HandleEvent(y, e, sig) \in X
  <1>1. ASSUME NEW w \in X, NEW k \in DOMAIN Def[e].parts
        PROVE  HandlePart(w, Def[e].parts[k], sig) \in X
    <2>1. Handler(w, sig) \in X
      BY DEF HandlerIn
    <2> QED
      BY <2>1, RunPartIn DEF HandlePart
  <1>2. PartsIn(X, e, sig)
    BY <1>1 DEF PartsIn
  <1>3. HandlesIn(X, e, sig)
    BY <1>2, HandlePartsIn DEF HandlesIn
  <1>4. y.enabled[e] \in Nat
    BY DEF Broad, Zones
  <1> QED
    BY <1>3, <1>4, HandleEventIn

\* Timers of actions
LEMMA RunTimerIn ==
    ASSUME NEW X, NEW y \in X, NEW t \in Timer,
           \A x \in X, b \in Range(t.actions) : Act(x, t.group, b) \in X
    PROVE  RunAll(y, t.group, t.actions) \in X
  <1>1. PICK a : IsTimer(a) /\ t.actions = a.actions
    BY DEF Timer, TimerActions
  <1>2. t.actions \in Seq(Range(t.actions)) /\ \A b \in Range(t.actions) : IsSimple(b)
    BY <1>1 DEF IsTimer
  <1>3. \A x \in X, b \in Range(t.actions) : Run(x, t.group, b) = Act(x, t.group, b)
    BY <1>2 DEF Run, IsSimple
  <1>4. RunsIn(X, t.group, t.actions)
    BY <1>3 DEF RunsIn
  <1> QED
    BY <1>2, <1>4, RunAllIn

-----------------------------------------------------------------------------
(* The zones in which a limit is right                                     *)

\* What is cached for the group is what its members show.
Shows(y, g) == \A m \in Range(g) : bus[m] \in {y.props[m], NoValue}

SaneShown(g, a, shown) == {y \in SaneZones(a) : shown => Shows(y, g)}
RightShown(g, a, shown) == {y \in RightZones(g, a) : shown => Shows(y, g)}

LEMMA LimitsBroad ==
    ASSUME NEW a, a.type \in Limits, NEW g, NEW shown
    PROVE  Broad(SaneShown(g, a, shown)) /\ Broad(RightShown(g, a, shown))
  <1>1. \A y, x : SameLimits(y, x) => (Shows(y, g) => Shows(x, g))
    BY DEF SameLimits, Shows
  <1>2. \A y, x : SameLimits(y, x) => (Sane(y, a) => Sane(x, a)) /\ (Right(y, g, a) => Right(x, g, a))
    BY SameKeeps
  <1> QED
    BY <1>1, <1>2 DEF Broad, SaneShown, RightShown, SaneZones, RightZones

\* An action that is no rival does not lead out of them.
LEMMA NoRivalIn ==
    ASSUME NEW a, a.type \in Limits, NEW g, NEW shown,
           NEW h \in Group, NEW b, IsSimple(b), b.type \notin Rivals(a.type)
    PROVE  /\ \A y \in SaneShown(g, a, shown) : Act(y, h, b) \in SaneShown(g, a, shown)
           /\ \A y \in RightShown(g, a, shown) : Act(y, h, b) \in RightShown(g, a, shown)
  <1>1. ASSUME NEW y \in Zones
        PROVE  /\ Act(y, h, b) \in Zones /\ KeepsLimit(y, Act(y, h, b), g, a)
               /\ Shows(y, g) => Shows(Act(y, h, b), g)
    <2>1. Elsewhere(h, {})
      BY DEF Elsewhere
    <2>2. Act(y, h, b) \in Zones
      BY <2>1, SimpleSteps, StepsZones
    <2>3. KeepsLimit(y, Act(y, h, b), g, a)
      BY SimpleKeeps
    <2>4. Shows(y, g) => Shows(Act(y, h, b), g)
      BY <2>3 DEF KeepsLimit, Shows
    <2> QED
      BY <2>2, <2>3, <2>4
  <1> QED
    BY <1>1 DEF SaneShown, RightShown, SaneZones, RightZones, KeepsLimit

\* The action itself leads from the one to the other.
LEMMA SetIn ==
    ASSUME NEW a, a.type \in Limits, IsSimple(a), NEW g \in Group, NEW shown,
           NEW y \in SaneShown(g, a, shown)
    PROVE  Act(y, g, a) \in RightShown(g, a, shown)
  <1>1. y \in SaneZones(a) /\ (shown => Shows(y, g))
    BY DEF SaneShown
  <1>2. Act(y, g, a) \in RightZones(g, a) /\ Act(y, g, a).props = y.props
    BY <1>1, LimitSets
  <1> QED
    BY <1>1, <1>2 DEF RightShown, Shows

\* A value cached for a member of no group of the limit
LEMMA CachedIn ==
    ASSUME BusOK, NEW a, a.type \in Limits, NEW g, NEW shown,
           NEW m \in Member, NEW v \in Value \cup {NoValue}
    PROVE  /\ \A y \in SaneShown(g, a, FALSE) : Cached(y, m, v) \in SaneShown(g, a, FALSE)
           /\ m \notin Range(g) =>
                \A y \in RightShown(g, a, shown) : Cached(y, m, v) \in RightShown(g, a, shown)
           /\ a.type = "default_floor" =>
                \A y \in RightShown(g, a, FALSE) : Cached(y, m, v) \in RightShown(g, a, FALSE)
  <1>1. ASSUME NEW y \in Zones
        PROVE  LET x == Cached(y, m, v)
               IN  /\ x \in Zones /\ \A n : n # m => x.props[n] = y.props[n]
                   /\ x.floor = y.floor /\ x.defFloor = y.defFloor /\ x.floorFixed = y.floorFixed
                   /\ x.ceiling = y.ceiling /\ x.ceilingKey = y.ceilingKey
                   /\ x.defaulted = y.defaulted /\ x.matched = y.matched /\ x.tree = y.tree
    <2> DEFINE props == [y.props EXCEPT ![m] = v]
               x == [y EXCEPT !.props = props]
    <2>1. y.props \in [Member -> Value \cup {NoValue}]
      BY DEF Zones
    <2>2. props \in [Member -> Value \cup {NoValue}] /\ \A n : n # m => props[n] = y.props[n]
      BY <2>1
    <2>3. Cached(y, m, v) = x
      BY DEF Cached
    <2> HIDE DEF props
    <2>4. /\ x \in Zones /\ x.props = props
          /\ x.floor = y.floor /\ x.defFloor = y.defFloor /\ x.floorFixed = y.floorFixed
          /\ x.ceiling = y.ceiling /\ x.ceilingKey = y.ceilingKey
          /\ x.defaulted = y.defaulted /\ x.matched = y.matched /\ x.tree = y.tree
      BY <2>2 DEF Zones
    <2> HIDE DEF x
    <2> QED
      BY <2>2, <2>3, <2>4
  <1>2. ASSUME NEW y \in Zones
        PROVE  /\ Sane(y, a) => Sane(Cached(y, m, v), a)
               /\ m \notin Range(g) => (Shows(y, g) => Shows(Cached(y, m, v), g))
               /\ m \notin Range(g) \/ a.type = "default_floor" => (Right(y, g, a) => Right(Cached(y, m, v), g, a))
    <2> DEFINE x == Cached(y, m, v)
    <2>1. /\ \A n : n # m => x.props[n] = y.props[n]
          /\ x.floor = y.floor /\ x.defFloor = y.defFloor /\ x.floorFixed = y.floorFixed
          /\ x.ceiling = y.ceiling /\ x.ceilingKey = y.ceilingKey
          /\ x.defaulted = y.defaulted /\ x.matched = y.matched /\ x.tree = y.tree
      BY <1>1
    <2> HIDE DEF x
    <2>2. Sane(y, a) => Sane(x, a)
      BY <2>1 DEF Sane, SaneFloor
    <2>3. m \notin Range(g) => \A n \in Range(g) : x.props[n] = y.props[n]
      BY <2>1
    <2>4. m \notin Range(g) => (Shows(y, g) => Shows(x, g))
      BY <2>3 DEF Shows
    <2>5. m \notin Range(g) => /\ Known(x, g) = Known(y, g) /\ Average(x, g) = Average(y, g)
                               /\ Median(x, g, a) = Median(y, g, a)
      BY <2>3, ValuesSame
    <2>6. FloorFor(x, a.speeds, Median(y, g, a)) = FloorFor(y, a.speeds, Median(y, g, a))
      BY <2>1 DEF FloorFor
    <2>7. m \notin Range(g) => (Right(y, g, a) => Right(x, g, a))
      <3>1. OwnerMissed(x, g) => OwnerMissed(y, g)
        BY <2>1, MissedLess
      <3> QED
        BY <2>1, <2>5, <2>6, <3>1 DEF Right, Limits
    <2>8. a.type = "default_floor" => (Right(y, g, a) => Right(x, g, a))
      <3>1. OwnerMissed(x, g) => OwnerMissed(y, g)
        BY <2>1, MissedLess
      <3> QED
        BY <2>1, <3>1 DEF Right
    <2> QED
      BY <2>2, <2>4, <2>7, <2>8 DEF x
  <1> QED
    BY <1>1, <1>2 DEF SaneShown, RightShown, SaneZones, RightZones

\* Reading what is cached
LEMMA ShownSame ==
    ASSUME BusOK, NEW y \in Zones, NEW g, Shows(y, g), NEW m \in Range(g), m \in Member
    PROVE  SameLimits(y, PropertyByName(y, m)) /\ PropertyByName(y, m) \in Zones
  <1> DEFINE x == LookUp(y, {m})
             props == [x.props EXCEPT ![m] = bus[m]]
             w == [x EXCEPT !.props = props]
  <1>1. PropertyByName(y, m) = IF bus[m] = NoValue THEN x ELSE w
    BY DEF PropertyByName, Cached
  <1>2. x \in Zones /\ SameLimits(y, x)
    BY LookUpSame
  <1> HIDE DEF x
  <1>3. bus[m] \in {x.props[m], NoValue}
    BY <1>2 DEF Shows, SameLimits
  <1>4. bus[m] # NoValue => props = x.props
    BY <1>2, <1>3 DEF Zones
  <1> HIDE DEF props
  <1>5. bus[m] # NoValue => w = x
    BY <1>2, <1>4 DEF Zones
  <1> HIDE DEF w
  <1> QED
    BY <1>1, <1>2, <1>5

\* Reading the members of the group, whose values the cache has, changes
\* nothing, and reading others nothing of the limit.
LEMMA ReadsLimit ==
    ASSUME BusOK, NEW a, a.type \in Limits, NEW g, NEW h \in Group, NEW shown \in BOOLEAN,
           shown \/ a.type = "default_floor" \/ Range(h) \cap Range(g) = {}
    PROVE  /\ ReadsIn(SaneShown(g, a, shown), h)
           /\ ReadsIn(RightShown(g, a, shown), h)
  <1>1. ASSUME NEW m \in Range(h)
        PROVE  /\ \A y \in SaneShown(g, a, shown) : PropertyByName(y, m) \in SaneShown(g, a, shown)
               /\ \A y \in RightShown(g, a, shown) : PropertyByName(y, m) \in RightShown(g, a, shown)
    <2>1. m \in Member /\ bus[m] \in Value \cup {NoValue}
      BY GroupsAreSequences DEF Range, BusOK
    <2>2. Broad(SaneShown(g, a, shown)) /\ Broad(RightShown(g, a, shown))
      BY LimitsBroad
    <2>3. CASE shown = TRUE /\ m \in Range(g)
      <3>1. ASSUME NEW y \in Zones, Shows(y, g)
            PROVE  SameLimits(y, PropertyByName(y, m)) /\ PropertyByName(y, m) \in Zones
        BY <2>1, <2>3, <3>1, ShownSame
      <3>2. \A y \in SaneShown(g, a, shown) \cup RightShown(g, a, shown) : y \in Zones /\ Shows(y, g)
        BY <2>3 DEF SaneShown, RightShown, SaneZones, RightZones
      <3> QED
        BY <2>2, <2>3, <3>1, <3>2 DEF Broad
    <2>4. CASE m \notin Range(g) \/ (shown = FALSE /\ a.type = "default_floor")
      <3>1. \A y \in RightShown(g, a, shown) : Cached(y, m, bus[m]) \in RightShown(g, a, shown)
        BY <2>1, <2>4, CachedIn
      <3>2. \A y \in SaneShown(g, a, shown) : Cached(y, m, bus[m]) \in SaneShown(g, a, shown)
        <4>1. CASE shown = FALSE
          BY <2>1, <4>1, CachedIn
        <4>2. CASE shown = TRUE
          <5>1. \A y \in SaneShown(g, a, FALSE) : Cached(y, m, bus[m]) \in SaneShown(g, a, FALSE)
            BY <2>1, CachedIn
          <5>2. \A y \in Zones : Shows(y, g) => Shows(Cached(y, m, bus[m]), g)
            <6>1. m \notin Range(g)
              BY <2>4, <4>2
            <6> QED
              BY <6>1 DEF Shows, Cached, Zones
          <5> QED
            BY <4>2, <5>1, <5>2 DEF SaneShown, SaneZones
        <4> QED
          BY <4>1, <4>2
      <3>3. \A y : PropertyByName(y, m) \in {LookUp(y, {m}), Cached(LookUp(y, {m}), m, bus[m])}
        BY DEF PropertyByName
      <3>4. /\ \A y \in SaneShown(g, a, shown) : LookUp(y, {m}) \in SaneShown(g, a, shown)
            /\ \A y \in RightShown(g, a, shown) : LookUp(y, {m}) \in RightShown(g, a, shown)
        BY <2>2, LookUpIn
      <3> QED
        BY <3>1, <3>2, <3>3, <3>4
    <2> QED
      BY <2>3, <2>4
  <1> QED
    BY <1>1 DEF ReadsIn

\* What always holds is not disturbed by reading.
LEMMA ReadsSane ==
    ASSUME BusOK, NEW a, a.type \in Limits, NEW g, NEW h \in Group
    PROVE  ReadsIn(SaneShown(g, a, FALSE), h)
  <1>1. \A m \in Range(h) : m \in Member /\ bus[m] \in Value \cup {NoValue}
    BY GroupsAreSequences DEF Range, BusOK
  <1>2. \A m \in Range(h), y \in SaneShown(g, a, FALSE) : Cached(y, m, bus[m]) \in SaneShown(g, a, FALSE)
    BY <1>1, CachedIn
  <1>3. \A y \in SaneShown(g, a, FALSE) : \A m : LookUp(y, {m}) \in SaneShown(g, a, FALSE)
    BY LimitsBroad, LookUpIn
  <1> SUFFICES ASSUME NEW y \in SaneShown(g, a, FALSE), NEW m \in Range(h)
               PROVE  PropertyByName(y, m) \in SaneShown(g, a, FALSE)
    BY DEF ReadsIn
  <1> DEFINE w == LookUp(y, {m})
  <1>4. PropertyByName(y, m) \in {w, Cached(w, m, bus[m])}
    BY DEF PropertyByName
  <1>5. w \in SaneShown(g, a, FALSE)
    BY <1>3
  <1> HIDE DEF w
  <1> QED
    BY <1>2, <1>4, <1>5

\* When the group has been read the cache shows it.
LEMMA ReadShows ==
    ASSUME BusOK, NEW a, a.type \in Limits, NEW g \in Group, NEW y \in SaneZones(a)
    PROVE  GetProperties(y, g) \in SaneShown(g, a, TRUE)
  <1> DEFINE S == DOMAIN g
             X == SaneZones(a)
             step == [k \in S |-> [f \in X |-> PropertyByName(f, g[k])]]
             Is(h) == h = [s \in SUBSET S |-> IF s = {} THEN y
                           ELSE PropertyByName(h[s \ {Max(s)}], g[Max(s)])]
             fold == CHOOSE h : Is(h)
  <1>1. ASSUME NEW k \in S, NEW f \in X
        PROVE  PropertyByName(f, g[k]) \in X
    <2>1. ReadsIn(SaneShown(g, a, FALSE), g) /\ SaneShown(g, a, FALSE) = X
      BY ReadsSane DEF SaneShown
    <2> QED
      BY <2>1 DEF ReadsIn, Range
  <1>2. g \in Seq(Member)
    BY GroupsAreSequences
  <1>3. \A s \in SUBSET S : s # {} => Max(s) \in S
    BY <1>2, RangeFinite, MaxExists, FS_Subset
  <1>4. \E h : Is(h)
    <2>1. Closed(step, S, X)
      BY <1>1 DEF Closed
    <2>2. PICK h : IsFold(h, S, X, y, LastOf(S), step)
      <3> HIDE DEF step
      <3> QED
        BY <1>2, <2>1, LeftFoldExists
    <2>3. \A s \in SUBSET S : s # {} => h[s \ {Max(s)}] \in X
      BY <2>2 DEF IsFold
    <2>4. Is(h)
      BY <1>3, <2>2, <2>3 DEF IsFold, LastOf
    <2> QED
      BY <2>4
  <1>5. Is(fold)
    BY <1>4
  <1>6. GetProperties(y, g) = fold[S]
    BY DEF GetProperties, FoldLeft, MapThenFoldSet
  <1> HIDE DEF fold
  <1> DEFINE P == {s \in SUBSET S : /\ fold[s] \in X
                                    /\ \A k \in s : bus[g[k]] \in {fold[s].props[g[k]], NoValue}}
  <1>7. ASSUME NEW s \in SUBSET S, s # {} /\ s \ {Max(s)} \in P
        PROVE  s \in P
    <2> DEFINE m == Max(s)
               f == fold[s \ {m}]
               w == fold[s]
    <2>1. m \in S /\ f \in X /\ \A k \in s \ {m} : bus[g[k]] \in {f.props[g[k]], NoValue}
      BY <1>3, <1>7
    <2>2. w = PropertyByName(f, g[m])
      BY <1>5, <1>7
    <2>3. \A k \in s : k = m \/ k \in s \ {m}
      OBVIOUS
    <2>4. f \in Zones /\ g[m] \in Member
      BY <1>2, <2>1 DEF SaneZones
    <2> HIDE DEF m, f, w
    <2>5. /\ bus[g[m]] = NoValue => w.props = f.props
          /\ bus[g[m]] # NoValue => w.props = [f.props EXCEPT ![g[m]] = bus[g[m]]]
      <3> DEFINE x == LookUp(f, {g[m]})
      <3>1. x \in Zones /\ x.props = f.props
        BY <2>4, LookUpTyped
      <3>2. w = IF bus[g[m]] = NoValue THEN x ELSE Cached(x, g[m], bus[g[m]])
        BY <2>2 DEF PropertyByName
      <3> HIDE DEF x
      <3> QED
        BY <3>1, <3>2 DEF Cached, Zones
    <2>6. f.props \in [Member -> Value \cup {NoValue}]
      BY <2>4 DEF Zones
    <2>7. \A k \in s : bus[g[k]] \in {w.props[g[k]], NoValue}
      <3> SUFFICES ASSUME NEW k \in s
                   PROVE  bus[g[k]] \in {w.props[g[k]], NoValue}
        OBVIOUS
      <3>1. g[k] \in Member
        BY <1>2
      <3> QED
        BY <2>1, <2>3, <2>4, <2>5, <2>6, <3>1
    <2>8. w \in X
      BY <1>1, <2>1, <2>2
    <2> QED
      BY <2>7, <2>8 DEF w
  <1>8. {} \in P
    BY <1>5
  <1>9. S \in P
    <2> HIDE DEF P
    <2> QED
      BY <1>2, <1>7, <1>8, LeftInduction
  <1> QED
    BY <1>6, <1>9 DEF SaneShown, Shows, Range

-----------------------------------------------------------------------------
(* The limits of a zone definition                                         *)

LimitOf(c, e, a) ==
    e \in EventsOf(c) /\ a.type \in Limits /\ \E p \in Range(Def[e].parts) : a \in Range(p.actions)

LEMMA EventsTyped ==
    ASSUME NEW c \in Configs
    PROVE  /\ EventsOf(c) \subseteq Event /\ Range(c) \subseteq EventsOf(c)
           /\ \A f \in EventsOf(c) : /\ NestedIn(f) \subseteq EventsOf(c)
                                     /\ \A n \in NestedIn(f) : \E t \in Range(c) : n \in NestedIn(t)
  <1>1. Range(c) \subseteq Event
    BY LegacyZoneAssumption DEF Range
  <1>2. EventsOf(c) \subseteq Event /\ Range(c) \subseteq EventsOf(c)
    BY <1>1, NestedInTyped DEF EventsOf
  <1>3. \A f \in PlainEvent : NestedIn(f) = {}
    <2>1. \A a : IsPlain(a) => Nested(a) = {}
      BY DEF IsPlain, IsSimple, IsTimer, Nested
    <2> QED
      BY <2>1 DEF PlainEvent, NestedIn
  <1>4. \A f \in EventsOf(c) : f \in Range(c) \/ NestedIn(f) = {}
    BY <1>1, <1>3, NestedInTyped DEF EventsOf
  <1> QED
    BY <1>2, <1>4 DEF EventsOf

LEMMA LimitTyped ==
    ASSUME LimitsAlone, NEW c \in Configs, NEW e, NEW a, LimitOf(c, e, a)
    PROVE  /\ e \in Event /\ Inits(e) /\ DOMAIN Def[e].parts = {1}
           /\ Def[e].parts[1] \in Part /\ Range(Def[e].parts) = {Def[e].parts[1]}
           /\ Def[e].parts[1].group = GroupOf(e) /\ GroupOf(e) \in Group
           /\ Range(GroupOf(e)) \subseteq Range(Def[e].group)
           /\ a.type \in Limits /\ IsSimple(a)
           /\ \E j \in DOMAIN Def[e].parts[1].actions :
                /\ Def[e].parts[1].actions[j] = a
                /\ \A k \in DOMAIN Def[e].parts[1].actions :
                      k # j => Def[e].parts[1].actions[k].type \notin Rivals(a.type)
           /\ \A f \in EventsOf(c) : e \notin NestedIn(f)
           /\ \A f \in EventsOf(c) \ {e} : \A p \in Range(Def[f].parts) :
                \A b \in Range(p.actions) : b.type \notin Rivals(a.type)
           /\ IF a.type = "default_floor" THEN Contains(Def[e].triggers, "owner") ELSE SeesAll(c, e)
  <1> DEFINE p == Def[e].parts[1]
             actions == p.actions
             set == {k \in DOMAIN actions : actions[k].type \in {a.type} \cup Rivals(a.type)}
  <1>1. e \in EventsOf(c) /\ e \in Event /\ a.type \in TypesOf(e) \cap Limits
    BY EventsTyped DEF LimitOf, TypesOf
  <1>2. /\ Inits(e) /\ Len(Def[e].parts) = 1 /\ Range(GroupOf(e)) \subseteq Range(Def[e].group)
        /\ \A n \in Range(c) : e \notin NestedIn(n)
        /\ \A f \in EventsOf(c) \ {e} : TypesOf(f) \cap Rivals(a.type) = {}
        /\ \A i, j \in set : i = j
        /\ IF a.type = "default_floor" THEN Contains(Def[e].triggers, "owner") ELSE SeesAll(c, e)
    BY <1>1 DEF LimitsAlone
  <1>3. DOMAIN Def[e].parts = {1} /\ p \in Part /\ Range(Def[e].parts) = {p}
    <2>1. DOMAIN Def[e].parts = {1}
      BY <1>1, <1>2, PartsTyped
    <2> QED
      BY <1>1, <2>1, PartsTyped DEF Range
  <1>4. p.group = GroupOf(e)
    BY DEF GroupOf
  <1>5. a \in Range(actions)
    BY <1>3 DEF LimitOf
  <1> HIDE DEF p
  <1>6. GroupOf(e) \in Group /\ IsPart(p)
    BY <1>3, <1>4, PartsTyped
  <1>7. IsSimple(a)
    BY <1>1, <1>5, <1>6 DEF IsPart, IsPlain, IsTimer, IsNesting, Limits
  <1>8. PICK j \in DOMAIN actions : actions[j] = a
    BY <1>5 DEF Range
  <1>9. j \in set
    BY <1>8
  <1>10. \A k \in DOMAIN actions : k # j => actions[k].type \notin Rivals(a.type)
    BY <1>2, <1>9
  <1>11. \A f \in EventsOf(c) : e \notin NestedIn(f)
    BY <1>2, EventsTyped
  <1>12. \A f \in EventsOf(c) \ {e} : \A q \in Range(Def[f].parts) :
           \A b \in Range(q.actions) : b.type \notin Rivals(a.type)
    BY <1>2 DEF TypesOf
  <1> QED
    BY <1>1, <1>2, <1>3, <1>4, <1>6, <1>7, <1>8, <1>10, <1>11, <1>12 DEF p

\* Members that another event caches without an init of its own are not of
\* the limit's group.
LEMMA NestedElsewhere ==
    ASSUME LimitsAlone, NEW c \in Configs, NEW e, NEW a, LimitOf(c, e, a),
           NEW f \in EventsOf(c), NEW n \in NestedIn(f)
    PROVE  a.type = "default_floor" \/ Uses(n) \cap Range(GroupOf(e)) = {}
  <1>1. n \in EventsOf(c) \ {e} /\ \E t \in Range(c) : n \in NestedIn(t)
    BY EventsTyped, LimitTyped
  <1>2. a.type # "default_floor" => SeesAll(c, e)
    BY LimitTyped
  <1> QED
    BY <1>1, <1>2 DEF SeesAll

\* No event of the zone leads out of the zones in which a limit is right.
LEMMA EventsCalm ==
    ASSUME LimitsAlone, BusOK, NEW c \in Configs, NEW e, NEW a, LimitOf(c, e, a),
           NEW f \in EventsOf(c), NEW shown \in BOOLEAN
    PROVE  Calm(SaneShown(GroupOf(e), a, shown), f) /\ Calm(RightShown(GroupOf(e), a, shown), f)
  <1> DEFINE g == GroupOf(e)
             X == SaneShown(g, a, shown)
             R == RightShown(g, a, shown)
  <1>1. a.type \in Limits /\ IsSimple(a) /\ g \in Group
    BY LimitTyped
  <1>2. \A y \in X : Act(y, g, a) \in R
    BY <1>1, SetIn
  <1>3. R \subseteq X
    BY DEF SaneShown, RightShown, RightZones
  <1> HIDE DEF g, X, R
  <1>4. ASSUME NEW i \in EventsOf(c), NEW p \in Range(Def[i].parts), NEW b \in Range(p.actions), IsSimple(b)
        PROVE  (\A y \in X : Act(y, p.group, b) \in X) /\ (\A y \in R : Act(y, p.group, b) \in R)
    <2>1. p \in Part /\ p.group \in Group
      BY EventsTyped, PartsTyped
    <2>2. CASE b.type \notin Rivals(a.type)
      BY <1>1, <1>4, <2>1, <2>2, NoRivalIn DEF X, R
    <2>3. CASE b.type \in Rivals(a.type)
      <3>1. i = e
        BY <2>3, LimitTyped
      <3>2. p = Def[e].parts[1] /\ p.group = g
        BY <3>1, LimitTyped DEF g
      <3>3. b = a
        BY <2>3, <3>2, LimitTyped DEF Range
      <3> QED
        BY <1>2, <1>3, <3>2, <3>3
    <2> QED
      BY <2>2, <2>3
  <1>5. \A i \in EventsOf(c) : \A p \in Range(Def[i].parts) : Suits(X, p) /\ Suits(R, p)
    BY <1>4 DEF Suits
  <1>6. ASSUME NEW n \in NestedIn(f), NEW p \in Range(Def[n].parts)
        PROVE  ReadsIn(X, p.group) /\ ReadsIn(R, p.group)
    <2>1. n \in Event
      BY EventsTyped
    <2>2. p.group \in Group
      BY <2>1, PartsTyped
    <2>3. a.type = "default_floor" \/ Range(p.group) \cap Range(g) = {}
      BY <1>6, NestedElsewhere DEF Uses, g
    <2> QED
      BY <1>1, <2>2, <2>3, ReadsLimit DEF X, R
  <1>7. NestedIn(f) \subseteq EventsOf(c)
    BY EventsTyped
  <1> QED
    BY <1>5, <1>6, <1>7 DEF Calm, Open, X, R, g

\* The event of a limit sets it.
LEMMA OwnRuns ==
    ASSUME LimitsAlone, BusOK, NEW c \in Configs, NEW e, NEW a, LimitOf(c, e, a),
           NEW shown \in BOOLEAN, NEW y \in SaneShown(GroupOf(e), a, shown)
    PROVE  RunAll(y, GroupOf(e), Def[e].parts[1].actions) \in RightShown(GroupOf(e), a, shown)
  <1> DEFINE g == GroupOf(e)
             X == SaneShown(g, a, shown)
             R == RightShown(g, a, shown)
             p == Def[e].parts[1]
  <1>1. /\ a.type \in Limits /\ IsSimple(a) /\ g \in Group /\ p \in Part /\ p \in Range(Def[e].parts)
        /\ p.group = g
    BY LimitTyped
  <1>2. PICK j \in DOMAIN p.actions : p.actions[j] = a
    BY LimitTyped
  <1>3. Broad(X) /\ Broad(R) /\ Calm(X, e) /\ Calm(R, e)
    BY <1>1, LimitsBroad, EventsCalm DEF LimitOf
  <1>4. \A x \in X : Act(x, g, a) \in R
    BY <1>1, SetIn
  <1>5. y \in X
    OBVIOUS
  <1> HIDE DEF X, R, p, g
  <1>6. /\ Suits(X, p) /\ Suits(R, p)
        /\ \A b \in Range(p.actions) : \A n \in Nested(b) : Open(X, n) /\ Open(R, n)
    BY <1>1, <1>3 DEF Calm, NestedIn
  <1>7. RunsIn(X, g, p.actions)
    BY <1>1, <1>3, <1>6, RunIn DEF RunsIn
  <1>8. RunReaches(X, R, g, p.actions, j)
    <2>1. \A x \in X : Run(x, g, p.actions[j]) \in R
      BY <1>1, <1>2, <1>4 DEF Run, IsSimple
    <2>2. ASSUME NEW x \in R, NEW k \in DOMAIN p.actions
          PROVE  Run(x, g, p.actions[k]) \in R
      <3>1. p.actions[k] \in Range(p.actions)
        BY DEF Range
      <3> QED
        BY <1>1, <1>3, <1>6, <3>1, RunIn
    <2> QED
      BY <2>1, <2>2 DEF RunReaches
  <1>9. p.actions \in Seq(Range(p.actions))
    BY <1>1, PartsTyped
  <1>10. RunAll(y, g, p.actions) \in R
    BY <1>2, <1>5, <1>7, <1>8, <1>9, RunAllIn
  <1> QED
    BY <1>10 DEF X, R, p, g

-----------------------------------------------------------------------------
(* The event of a limit, and the others                                    *)

\* It sets the limit when it is enabled, and has then read its group.
LEMMA OwnInit ==
    ASSUME LimitsAlone, BusOK, NEW c \in Configs, NEW e, NEW a, LimitOf(c, e, a),
           NEW y \in SaneZones(a)
    PROVE  InitTopEvent(y, e) \in RightShown(GroupOf(e), a, TRUE)
  <1> DEFINE g == GroupOf(e)
             X == SaneZones(a)
             p == Def[e].parts[1]
             x == FoldLeft(InitTopPart, y, Def[e].parts)
  <1>1. /\ a.type \in Limits /\ IsSimple(a) /\ g \in Group /\ e \in Event /\ Inits(e)
        /\ DOMAIN Def[e].parts = {1} /\ p \in Part /\ p.group = g
    BY LimitTyped
  <1>2. X = SaneShown(g, a, FALSE)
    BY DEF SaneShown
  <1>3. Broad(X) /\ Calm(X, e) /\ ReadsIn(X, g)
    BY <1>1, <1>2, LimitsBroad, EventsCalm, ReadsSane DEF LimitOf
  <1>4. y \in X
    OBVIOUS
  <1>5. \A w \in X : GetProperties(w, g) \in SaneShown(g, a, TRUE)
    BY <1>1, ReadShows
  <1>6. g \in Seq(Member)
    BY <1>1, GroupsAreSequences
  <1>7. \A w \in SaneShown(g, a, TRUE) : RunAll(w, g, p.actions) \in RightShown(g, a, TRUE)
    BY OwnRuns
  <1>8. RightShown(g, a, TRUE) \subseteq X
    BY DEF RightShown, RightZones
  <1>9. \A w \in X : InitTopPart(w, p) \in RightShown(g, a, TRUE)
    BY <1>1, <1>5, <1>7 DEF InitTopPart
  <1>10. StartsIn(X, e)
    BY <1>1, <1>8, <1>9 DEF StartsIn
  <1>11. \E w \in X : x = InitTopPart(w, p)
    <2>0. DOMAIN Def[e].parts # {} /\ e \in Event
      <3>1. 1 \in DOMAIN Def[e].parts
        BY <1>1
      <3> QED
        BY <1>1, <3>1
    <2> HIDE DEF X
    <2>1. \E w \in X, k \in DOMAIN Def[e].parts : x = InitTopPart(w, Def[e].parts[k])
      BY <1>4, <1>10, <2>0, InitTopPartsIn
    <2> QED
      BY <1>1, <2>1
  <1>12. x \in RightShown(g, a, TRUE)
    BY <1>9, <1>11
  <1>13. InitTopEvent(y, e) = SubscribedTo(x, e)
    BY <1>1 DEF InitTopEvent
  <1> HIDE DEF x
  <1>14. Broad(RightShown(g, a, TRUE))
    BY <1>1, LimitsBroad
  <1> QED
    BY <1>1, <1>12, <1>13, <1>14, BroadSame DEF g

\* The signal is handled with a zone that stays sane.
LEMMA SaneHandler ==
    ASSUME BusOK, NEW a, a.type \in Limits, NEW g, NEW sig \in Signal
    PROVE  HandlerIn(SaneShown(g, a, FALSE), sig)
  <1>1. CASE sig.type = "owner"
    BY <1>1 DEF HandlerIn, Handler
  <1>2. CASE sig.type = "removed"
    <2>1. sig.member \in Member
      BY <1>2 DEF Signal
    <2>2. \A y : Handler(y, sig) = Cached(y, sig.member, NoValue)
      BY <1>2 DEF Handler, Cached, Dropped
    <2> QED
      BY <2>1, <2>2, CachedIn DEF HandlerIn
  <1>3. CASE sig.type \notin {"owner", "removed"}
    <2>1. sig.member \in Member /\ sig.value \in Value
      BY <1>3 DEF Signal
    <2>2. \A y : Handler(y, sig) = Cached(y, sig.member, sig.value)
      BY <1>3 DEF Handler
    <2> QED
      BY <2>1, <2>2, CachedIn DEF HandlerIn
  <1> QED
    BY <1>1, <1>2, <1>3

\* A signal of another event is of no member of the limit's group.
LEMMA RestHandler ==
    ASSUME LimitsAlone, BusOK, NEW c \in Configs, NEW e, NEW a, LimitOf(c, e, a),
           NEW f \in EventsOf(c) \ {e}, NEW sig \in Signal, Handles(f, sig)
    PROVE  HandlerIn(RightShown(GroupOf(e), a, FALSE), sig)
  <1> DEFINE g == GroupOf(e)
             R == RightShown(g, a, FALSE)
  <1>1. a.type \in Limits
    BY LimitTyped
  <1>2. CASE sig.type = "owner"
    BY <1>2 DEF HandlerIn, Handler
  <1>3. CASE sig.type # "owner"
    <2>1. sig.member \in Range(Def[f].group) /\ Contains(Def[f].triggers, sig.type)
      BY <1>3 DEF Handles
    <2>2. sig.member \in Member /\ sig.type \in {"added", "changed", "removed", "mode"}
      BY <1>3 DEF Signal
    <2>3. a.type = "default_floor" \/ sig.member \notin Range(g)
      <3>1. CASE a.type # "default_floor"
        <4>1. SeesAll(c, e)
          BY <3>1, LimitTyped
        <4>2. Uses(f) \cap Range(g) = {}
          BY <2>1, <2>2, <4>1 DEF SeesAll
        <4> QED
          BY <2>1, <4>2 DEF Uses
      <3> QED
        BY <3>1
    <2>4. \A v \in Value \cup {NoValue} : \A y \in R : Cached(y, sig.member, v) \in R
      BY <1>1, <2>2, <2>3, CachedIn
    <2> HIDE DEF R
    <2>5. CASE sig.type = "removed"
      <3>1. \A y : Handler(y, sig) = Cached(y, sig.member, NoValue)
        BY <2>5 DEF Handler, Cached, Dropped
      <3> QED
        BY <2>4, <3>1 DEF HandlerIn, R
    <2>6. CASE sig.type # "removed"
      <3>1. sig.value \in Value
        BY <1>3, <2>6 DEF Signal
      <3>2. \A y : Handler(y, sig) = Cached(y, sig.member, sig.value)
        BY <1>3, <2>6 DEF Handler
      <3> QED
        BY <2>4, <3>1, <3>2 DEF HandlerIn, R
    <2> QED
      BY <2>5, <2>6
  <1> QED
    BY <1>2, <1>3

LEMMA SaneHandle ==
    ASSUME LimitsAlone, BusOK, NEW c \in Configs, NEW e, NEW a, LimitOf(c, e, a),
           NEW f \in EventsOf(c), NEW sig \in Signal, NEW y \in SaneShown(GroupOf(e), a, FALSE)
    PROVE  HandleEvent(y, f, sig) \in SaneShown(GroupOf(e), a, FALSE)
  <1> DEFINE X == SaneShown(GroupOf(e), a, FALSE)
  <1>1. a.type \in Limits /\ f \in Event
    BY LimitTyped, EventsTyped
  <1>2. Broad(X) /\ Calm(X, f) /\ HandlerIn(X, sig)
    BY <1>1, LimitsBroad, EventsCalm, SaneHandler
  <1>3. y \in X
    OBVIOUS
  <1> HIDE DEF X
  <1>4. HandleEvent(y, f, sig) \in X
    BY <1>1, <1>2, <1>3, HandleIn
  <1> QED
    BY <1>4 DEF X

LEMMA RestHandle ==
    ASSUME LimitsAlone, BusOK, NEW c \in Configs, NEW e, NEW a, LimitOf(c, e, a),
           NEW f \in EventsOf(c) \ {e}, NEW sig \in Signal, Handles(f, sig),
           NEW y \in RightShown(GroupOf(e), a, FALSE)
    PROVE  HandleEvent(y, f, sig) \in RightShown(GroupOf(e), a, FALSE)
  <1> DEFINE R == RightShown(GroupOf(e), a, FALSE)
  <1>1. a.type \in Limits /\ f \in Event
    BY LimitTyped, EventsTyped
  <1>2. Broad(R) /\ Calm(R, f) /\ HandlerIn(R, sig)
    BY <1>1, LimitsBroad, EventsCalm, RestHandler
  <1>3. y \in R
    OBVIOUS
  <1> HIDE DEF R
  <1>4. HandleEvent(y, f, sig) \in R
    BY <1>1, <1>2, <1>3, HandleIn
  <1> QED
    BY <1>4 DEF R

LEMMA OwnHandle ==
    ASSUME LimitsAlone, BusOK, NEW c \in Configs, NEW e, NEW a, LimitOf(c, e, a),
           NEW sig \in Signal, NEW y \in SaneShown(GroupOf(e), a, FALSE), y.enabled[e] > 0
    PROVE  HandleEvent(y, e, sig) \in RightShown(GroupOf(e), a, FALSE)
  <1> DEFINE g == GroupOf(e)
             X == SaneShown(g, a, FALSE)
             R == RightShown(g, a, FALSE)
             p == Def[e].parts[1]
  <1>1. a.type \in Limits /\ e \in Event /\ DOMAIN Def[e].parts = {1} /\ p.group = g
    BY LimitTyped
  <1>2. HandlerIn(X, sig)
    BY <1>1, SaneHandler
  <1>3. R \subseteq X
    BY DEF SaneShown, RightShown, RightZones
  <1>4. \A x \in X : RunAll(x, g, p.actions) \in R
    BY OwnRuns
  <1>5. \A x \in X : HandlePart(x, p, sig) \in R
    BY <1>1, <1>2, <1>4 DEF HandlePart, HandlerIn
  <1>6. y \in X /\ y.enabled[e] \in Nat
    BY <1>1 DEF SaneShown, SaneZones, Zones
  <1> HIDE DEF X, R
  <1>7. PartsIn(X, e, sig)
    BY <1>1, <1>3, <1>5 DEF PartsIn
  <1>8. \A x \in X : HandleParts(x, e, sig) \in R
    BY <1>1, <1>5, <1>7, HandlePartsIn
  <1>9. HandlesIn(X, e, sig)
    BY <1>3, <1>8 DEF HandlesIn
  <1>10. \E x \in X : HandleEvent(y, e, sig) = HandleParts(x, e, sig)
    BY <1>6, <1>9, HandleEventIn
  <1>11. HandleEvent(y, e, sig) \in R
    BY <1>8, <1>10
  <1> QED
    BY <1>11 DEF R, g

\* When another event is enabled
LEMMA RestInit ==
    ASSUME LimitsAlone, BusOK, NEW c \in Configs, NEW e, NEW a, LimitOf(c, e, a),
           NEW f \in EventsOf(c), NEW y
    PROVE  /\ y \in SaneZones(a) => InitTopEvent(y, f) \in SaneZones(a)
           /\ \A shown \in BOOLEAN :
                 (shown \/ a.type = "default_floor") /\ y \in RightShown(GroupOf(e), a, shown) =>
                    InitTopEvent(y, f) \in RightShown(GroupOf(e), a, shown)
  <1> DEFINE g == GroupOf(e)
             X == SaneShown(g, a, FALSE)
  <1>1. a.type \in Limits /\ f \in Event
    BY LimitTyped, EventsTyped
  <1>2. \A p \in Range(Def[f].parts) : p.group \in Group
    BY <1>1, PartsTyped
  <1>3. y \in X => InitTopEvent(y, f) \in X
    <2>1. Broad(X) /\ Calm(X, f) /\ \A p \in Range(Def[f].parts) : ReadsIn(X, p.group)
      BY <1>1, <1>2, LimitsBroad, EventsCalm, ReadsSane
    <2> HIDE DEF X
    <2> QED
      BY <1>1, <2>1, InitTopEventIn
  <1>4. X = SaneZones(a)
    BY DEF SaneShown
  <1>5. ASSUME NEW shown \in BOOLEAN, shown \/ a.type = "default_floor", y \in RightShown(g, a, shown)
        PROVE  InitTopEvent(y, f) \in RightShown(g, a, shown)
    <2> DEFINE R == RightShown(g, a, shown)
    <2>1. Broad(R) /\ Calm(R, f) /\ \A p \in Range(Def[f].parts) : ReadsIn(R, p.group)
      BY <1>1, <1>2, <1>5, LimitsBroad, EventsCalm, ReadsLimit
    <2>2. y \in R
      BY <1>5
    <2> HIDE DEF R
    <2>3. InitTopEvent(y, f) \in R
      BY <1>1, <2>1, <2>2, InitTopEventIn
    <2> QED
      BY <2>3 DEF R
  <1> QED
    BY <1>3, <1>4, <1>5

-----------------------------------------------------------------------------
(* The events enabled, and the handlers of a signal                        *)

\* An event of the zone's list enables no limit's event but by its turn.
LEMMA EnabledInit ==
    ASSUME BusOK, NEW c \in Configs, NEW f \in EventsOf(c), NEW y \in Zones
    PROVE  InitTopEvent(y, f) \in Steps(y, {}, NestedIn(f) \cup {f})
  <1>1. f \in Event
    BY EventsTyped
  <1> DEFINE C == NestedIn(f) \cup {f}
  <1>2. NestedIn(f) \cup {f} \subseteq C
    OBVIOUS
  <1> HIDE DEF C
  <1>3. InitTopEvent(y, f) \in Steps(y, {}, C)
    BY <1>1, <1>2, NoGroups, InitTopEventSteps
  <1> QED
    BY <1>3 DEF C

LEMMA EnabledHandle ==
    ASSUME BusOK, NEW c \in Configs, NEW f \in EventsOf(c), NEW y \in Zones, NEW sig \in Signal
    PROVE  HandleEvent(y, f, sig) \in Steps(y, {}, NestedIn(f))
  <1>1. f \in Event
    BY EventsTyped
  <1> DEFINE C == NestedIn(f)
  <1>2. NestedIn(f) \subseteq C
    OBVIOUS
  <1> HIDE DEF C
  <1>3. HandleEvent(y, f, sig) \in Steps(y, {}, C)
    BY <1>1, <1>2, NoGroups, HandleEventSteps
  <1> QED
    BY <1>3 DEF C

\* All that handle a signal, in an order that has each of them.
InOrder(y, x, E, sig) ==
    \/ \E q \in Seq(E) : Range(q) = E /\ x = InSequence(y, q, sig)
    \/ x = InAnyOrder(y, E, sig)

LEMMA InOrderIn ==
    ASSUME NEW X, NEW y \in X, NEW E \in SUBSET Event, NEW sig, SignalIn(X, E, sig),
           NEW x, InOrder(y, x, E, sig), NEW R, NEW j
    PROVE  x \in X /\ (j \in E /\ SignalReaches(X, R, E, sig, j) => x \in R)
  BY HandleInOrderIn, HandleInAnyOrderIn DEF InOrder

\* The events enabled stay those of the zone.
LEMMA EnabledStay ==
    ASSUME BusOK, NEW c \in Configs, NEW E \in SUBSET EventsOf(c), NEW sig \in Signal,
           NEW y \in Zones, NEW x, InOrder(y, x, E, sig)
    PROVE  x \in Steps(y, {}, EventsOf(c))
  <1> DEFINE X == Steps(y, {}, EventsOf(c))
  <1>1. ASSUME NEW w \in X, NEW f \in E
        PROVE  HandleEvent(w, f, sig) \in X
    <2>1. w \in Zones /\ NestedIn(f) \subseteq EventsOf(c)
      BY StepsZones, EventsTyped
    <2>2. HandleEvent(w, f, sig) \in Steps(w, {}, NestedIn(f))
      BY <2>1, EnabledHandle
    <2>3. HandleEvent(w, f, sig) \in Steps(w, {}, EventsOf(c))
      BY <2>1, <2>2, StepsMore
    <2> QED
      BY <2>3, StepsTrans
  <1>2. y \in X /\ E \in SUBSET Event
    BY StepsRefl, EventsTyped
  <1> HIDE DEF X
  <1>3. SignalIn(X, E, sig)
    BY <1>1 DEF SignalIn
  <1>4. x \in X
    BY <1>2, <1>3, InOrderIn
  <1> QED
    BY <1>4 DEF X

AtCount(S, e, n) == {y \in S : y.enabled[e] = n}

\* A limit that is right before the signal, or whose event handles it, is
\* right after it.
LEMMA SignalLimits ==
    ASSUME LimitsAlone, BusOK, NEW c \in Configs, NEW e, NEW a, LimitOf(c, e, a),
           NEW sig \in Signal, NEW E \in SUBSET EventsOf(c), \A f \in E : Handles(f, sig),
           NEW y \in SaneZones(a), NEW x, InOrder(y, x, E, sig)
    PROVE  /\ x \in SaneZones(a) /\ x.enabled[e] = y.enabled[e]
           /\ e \in E /\ y.enabled[e] > 0 => x \in RightShown(GroupOf(e), a, FALSE)
           /\ e \notin E /\ y \in RightShown(GroupOf(e), a, FALSE) => x \in RightShown(GroupOf(e), a, FALSE)
  <1> DEFINE g == GroupOf(e)
             n == y.enabled[e]
             S == SaneShown(g, a, FALSE)
             T == RightShown(g, a, FALSE)
             X == AtCount(S, e, n)
             R == AtCount(T, e, n)
  <1>1. e \in Event /\ \A f \in E : e \notin NestedIn(f)
    BY LimitTyped
  <1>2. S = SaneZones(a) /\ T \subseteq S /\ S \subseteq Zones
    BY DEF SaneShown, RightShown, RightZones, SaneZones
  <1>3. E \in SUBSET Event
    BY EventsTyped
  <1>4. \A w \in S, f \in E : /\ HandleEvent(w, f, sig) \in S
                              /\ HandleEvent(w, f, sig).enabled[e] = w.enabled[e]
    <2> SUFFICES ASSUME NEW w \in S, NEW f \in E
                 PROVE  /\ HandleEvent(w, f, sig) \in S
                        /\ HandleEvent(w, f, sig).enabled[e] = w.enabled[e]
      OBVIOUS
    <2>1. HandleEvent(w, f, sig) \in S
      BY SaneHandle
    <2>2. HandleEvent(w, f, sig) \in Steps(w, {}, NestedIn(f))
      BY <1>2, EnabledHandle
    <2> QED
      BY <1>1, <2>1, <2>2 DEF Steps
  <1>5. \A w \in T, f \in E \ {e} : HandleEvent(w, f, sig) \in T
    BY RestHandle
  <1>6. \A w \in S : e \in E /\ w.enabled[e] > 0 => HandleEvent(w, e, sig) \in T
    BY OwnHandle
  <1>7. y \in X /\ (y \in T => y \in R)
    BY <1>2 DEF AtCount
  <1> HIDE DEF S, T, n
  <1>8. SignalIn(X, E, sig)
    BY <1>4 DEF SignalIn, AtCount
  <1>9. e \notin E => SignalIn(R, E, sig)
    BY <1>2, <1>4, <1>5 DEF SignalIn, AtCount
  <1>10. e \in E /\ n > 0 => SignalReaches(X, R, E, sig, e)
    BY <1>2, <1>4, <1>5, <1>6 DEF SignalReaches, AtCount
  <1> HIDE DEF X, R
  <1>11. x \in X /\ (e \in E /\ n > 0 => x \in R)
    BY <1>3, <1>7, <1>8, <1>10, InOrderIn
  <1>12. e \notin E /\ y \in R => x \in R
    BY <1>3, <1>9, InOrderIn
  <1> QED
    BY <1>2, <1>7, <1>11, <1>12 DEF X, R, AtCount, T, n, g

-----------------------------------------------------------------------------
(* The invariant of the limits                                             *)

\* A signal for the event is still to be handled.
Waiting(e) == \E i \in DOMAIN inbox : Handles(e, inbox[i])

\* While the zone starts, other events may still read the group.
Shown(a) == status = "starting" /\ a.type # "default_floor"

Held(e, a) ==
    /\ z \in SaneZones(a)
    /\ z.enabled[e] > 0 => Waiting(e) \/ z \in RightShown(GroupOf(e), a, Shown(a))

EnabledInv == \A n \in Event : z.enabled[n] > 0 => n \in EventsOf(config)
HeldInv == \A e, a : LimitOf(config, e, a) => Held(e, a)
LimitInv == EnabledInv /\ HeldInv

\* Which signals an event handles changes with the program only.
LEMMA WaitsAfter ==
    ASSUME z'.matched = z.matched, NEW e, NEW i \in DOMAIN inbox', Handles(e, inbox'[i])
    PROVE  Waiting(e)'
  <1>1. \A sig : Handles(e, sig)' <=> Handles(e, sig)
    BY DEF Handles, HearsOwner
  <1> QED
    BY <1>1 DEF Waiting

LEMMA StillWaiting ==
    ASSUME z'.matched = z.matched, inbox' = inbox
    PROVE  \A e : Waiting(e) => Waiting(e)'
  BY WaitsAfter DEF Waiting

\* What a step has to show of a limit
LEMMA HeldAfter ==
    ASSUME NEW e, NEW a, a.type \in Limits, NEW y, z' = y, y \in SaneZones(a),
           y.enabled[e] > 0 =>
              \/ Waiting(e)'
              \/ /\ y \in RightZones(GroupOf(e), a)
                 /\ a.type = "default_floor" => (OwnerMissed(y, GroupOf(e))' => OwnerMissed(y, GroupOf(e)))
                 /\ Shown(a)' => Shows(y, GroupOf(e))'
    PROVE  Held(e, a)'
  <1> DEFINE g == GroupOf(e)
  <1>1. y \in SaneZones(a)' /\ (z \in SaneZones(a))'
    BY DEF SaneZones, Sane, SaneFloor, NextSpeeds
  <1>2. ASSUME y \in RightZones(g, a), a.type = "default_floor" => (OwnerMissed(y, g)' => OwnerMissed(y, g))
        PROVE  (z \in RightZones(g, a))'
    <2>1. Right(y, g, a)
      BY <1>2 DEF RightZones
    <2>2. Right(z, g, a)'
      <3>1. CASE a.type = "default_floor"
        <4>1. OwnerMissed(z, g)' <=> OwnerMissed(y, g)'
          BY DEF OwnerMissed, HearsOwner
        <4> QED
          BY <1>2, <2>1, <3>1, <4>1 DEF Right
      <3>2. CASE a.type = "floor_median"
        BY <2>1, <3>2 DEF Right
      <3>3. CASE a.type = "ceiling"
        BY <2>1, <3>3 DEF Right
      <3> QED
        BY <3>1, <3>2, <3>3 DEF Limits
    <2> QED
      BY <1>1, <2>2 DEF RightZones
  <1>3. (Shows(y, g))' => (Shows(z, g))'
    BY DEF Shows
  <1> QED
    BY <1>1, <1>2, <1>3 DEF Held, RightShown

\* The events enabled are of the zone when none is enabled but them.
LEMMA EnabledAfter ==
    ASSUME ZoneInv, EnabledInv, config' = config, z' \in Steps(z, {}, EventsOf(config))
    PROVE  EnabledInv'
  BY DEF EnabledInv, Steps, ZoneInv

-----------------------------------------------------------------------------
(* The steps that keep it                                                  *)

\* A zone of which no event is enabled
LEMMA FreshZone ==
    ASSUME NEW a, a.type \in Limits, NEW target \in Nat, NEW matched \in SUBSET Member
    PROVE  NewZone(target, matched) \in SaneZones(a) /\ \A n \in Event : NewZone(target, matched).enabled[n] = 0
  <1> DEFINE y == NewZone(target, matched)
  <1>1. y \in Zones
    BY NewZoneFine DEF Fine
  <1>2. y.ceilingKey = 0 /\ y.floorFixed = {} /\ ~y.defaulted /\ \A n \in Event : y.enabled[n] = 0
    BY DEF NewZone
  <1> HIDE DEF y
  <1>3. y \in SaneZones(a)
    BY <1>1, <1>2 DEF SaneZones, Sane, SaneFloor
  <1> QED
    BY <1>2, <1>3 DEF y

LEMMA FreshLimits ==
    ASSUME LimitsAlone, config \in Configs, config' = config,
           NEW target \in Nat, NEW matched \in SUBSET Member, z' = NewZone(target, matched)
    PROVE  LimitInv'
  <1> DEFINE y == NewZone(target, matched)
  <1>1. \A n \in Event : y.enabled[n] = 0
    BY DEF NewZone
  <1>2. \A a : a.type \in Limits => y \in SaneZones(a)
    BY FreshZone
  <1>3. z' = y
    OBVIOUS
  <1> HIDE DEF y
  <1>4. EnabledInv'
    BY <1>1, <1>3 DEF EnabledInv
  <1>5. ASSUME NEW e, NEW a, LimitOf(config, e, a)
        PROVE  Held(e, a)'
    <2>1. e \in Event /\ a.type \in Limits
      BY <1>5, LimitTyped
    <2>2. y \in SaneZones(a) /\ y.enabled[e] = 0
      BY <1>1, <1>2, <2>1
    <2> QED
      BY <1>3, <2>1, <2>2, HeldAfter
  <1>6. HeldInv'
    BY <1>5 DEF HeldInv
  <1> QED
    BY <1>4, <1>6 DEF LimitInv

LEMMA InitLimits ==
    ASSUME LimitsAlone, Init
    PROVE  LimitInv
  <1>1. FullSpeed \in Nat /\ z = NewZone(FullSpeed, {}) /\ config \in Configs
    BY LegacyActionsAssumption DEF Init
  <1>2. \A n \in Event : z.enabled[n] = 0
    BY <1>1 DEF NewZone
  <1>3. EnabledInv
    BY <1>2 DEF EnabledInv
  <1>4. ASSUME NEW e, NEW a, LimitOf(config, e, a)
        PROVE  Held(e, a)
    <2>1. e \in Event /\ a.type \in Limits
      BY <1>1, <1>4, LimitTyped
    <2>2. z \in SaneZones(a) /\ z.enabled[e] = 0
      BY <1>1, <1>2, <2>1, FreshZone
    <2> QED
      BY <2>2 DEF Held
  <1> QED
    BY <1>3, <1>4 DEF LimitInv, HeldInv

\* What is held before a step, for a limit of the zone
LEMMA HeldBefore ==
    ASSUME LimitsAlone, ZoneInv, LimitInv, NEW e, NEW a, LimitOf(config, e, a)
    PROVE  /\ config \in Configs /\ e \in Event /\ a.type \in Limits /\ z \in SaneZones(a)
           /\ z.enabled[e] \in Nat
           /\ z.enabled[e] > 0 =>
                \/ Waiting(e)
                \/ z \in RightZones(GroupOf(e), a) /\ (Shown(a) => Shows(z, GroupOf(e)))
  <1>1. config \in Configs /\ z \in Zones
    BY DEF ZoneInv, Fine
  <1>2. e \in Event /\ a.type \in Limits
    BY <1>1, LimitTyped
  <1>3. Held(e, a)
    BY DEF LimitInv, HeldInv
  <1> QED
    BY <1>1, <1>2, <1>3 DEF Held, RightShown, Zones

\* A step that leaves the zone, D-Bus and the signals alone
LEMMA StillHeld ==
    ASSUME LimitsAlone, ZoneInv, LimitInv, UNCHANGED <<bus, up, config, z, inbox>>,
           status' = "starting" => status = "starting"
    PROVE  LimitInv'
  <1>1. EnabledInv'
    BY DEF LimitInv, EnabledInv
  <1>2. ASSUME NEW e, NEW a, LimitOf(config, e, a)
        PROVE  Held(e, a)'
    <2>1. /\ a.type \in Limits /\ z \in SaneZones(a)
          /\ z.enabled[e] > 0 =>
               \/ Waiting(e)
               \/ z \in RightZones(GroupOf(e), a) /\ (Shown(a) => Shows(z, GroupOf(e)))
      BY <1>2, HeldBefore
    <2>2. Waiting(e) => Waiting(e)'
      BY StillWaiting
    <2>3. OwnerMissed(z, GroupOf(e))' <=> OwnerMissed(z, GroupOf(e))
      BY DEF OwnerMissed, HearsOwner
    <2>4. Shown(a)' => Shown(a)
      BY DEF Shown
    <2> DEFINE y == z
    <2>5. z' = y
      OBVIOUS
    <2>6. Shows(z, GroupOf(e)) => Shows(y, GroupOf(e))'
      BY DEF Shows
    <2> QED
      BY <2>1, <2>2, <2>3, <2>4, <2>5, <2>6, HeldAfter
  <1> QED
    BY <1>1, <1>2 DEF LimitInv, HeldInv

\* A change on D-Bus is signalled to an event whose limit it concerns.
Signalled(sig) ==
    \A e, a : LimitOf(config, e, a) /\ ~Handles(e, sig) =>
        /\ a.type = "default_floor" => (OwnerMissed(z, GroupOf(e))' => OwnerMissed(z, GroupOf(e)))
        /\ a.type # "default_floor" => (Shows(z, GroupOf(e)) => Shows(z, GroupOf(e))')

LEMMA SendHeld ==
    ASSUME LimitsAlone, ZoneInv, LimitInv, NEW sig, Send(sig), Signalled(sig)
    PROVE  LimitInv'
  <1>1. /\ UNCHANGED <<status, config, z>>
        /\ inbox' = IF Subscribers(sig) = {} THEN inbox ELSE Append(inbox, sig)
    BY DEF Send
  <1>2. inbox \in Seq(Signal)
    BY DEF ZoneInv
  <1>3. EnabledInv'
    BY <1>1 DEF LimitInv, EnabledInv
  <1>4. \A e : Waiting(e) => Waiting(e)'
    <2> SUFFICES ASSUME NEW e, NEW i \in DOMAIN inbox, Handles(e, inbox[i])
                 PROVE  Waiting(e)'
      BY DEF Waiting
    <2>1. i \in DOMAIN inbox' /\ inbox'[i] = inbox[i]
      BY <1>1, <1>2
    <2> QED
      BY <1>1, <2>1, WaitsAfter
  <1>5. \A e \in Event : z.enabled[e] > 0 /\ Handles(e, sig) => Waiting(e)'
    <2> SUFFICES ASSUME NEW e \in Event, z.enabled[e] > 0, Handles(e, sig)
                 PROVE  Waiting(e)'
      OBVIOUS
    <2>1. inbox' = Append(inbox, sig)
      BY <1>1 DEF Subscribers
    <2>2. Len(inbox) + 1 \in DOMAIN inbox' /\ inbox'[Len(inbox) + 1] = sig
      BY <1>2, <2>1
    <2> QED
      BY <1>1, <2>2, WaitsAfter
  <1>6. ASSUME NEW e, NEW a, LimitOf(config, e, a)
        PROVE  Held(e, a)'
    <2>1. /\ e \in Event /\ a.type \in Limits /\ z \in SaneZones(a)
          /\ z.enabled[e] > 0 =>
               \/ Waiting(e)
               \/ z \in RightZones(GroupOf(e), a) /\ (Shown(a) => Shows(z, GroupOf(e)))
      BY <1>6, HeldBefore
    <2>2. ~Handles(e, sig) =>
            /\ a.type = "default_floor" => (OwnerMissed(z, GroupOf(e))' => OwnerMissed(z, GroupOf(e)))
            /\ a.type # "default_floor" => (Shows(z, GroupOf(e)) => Shows(z, GroupOf(e))')
      BY <1>6 DEF Signalled
    <2>3. Shown(a)' => Shown(a) /\ a.type # "default_floor"
      BY <1>1 DEF Shown
    <2> DEFINE y == z
    <2>4. z' = y
      BY <1>1
    <2> QED
      BY <1>4, <1>5, <2>1, <2>2, <2>3, <2>4, HeldAfter
  <1> QED
    BY <1>1, <1>3, <1>6 DEF LimitInv, HeldInv

LEMMA EnvironmentHeld ==
    ASSUME LimitsAlone, ZoneInv, BusOK, LimitInv, Environment
    PROVE  LimitInv'
  <1>1. config \in Configs /\ z \in Zones /\ Watched \subseteq Member
    BY ConfigTyped DEF ZoneInv, Fine
  <1>2. ASSUME NEW e, NEW a, LimitOf(config, e, a)
        PROVE  /\ Range(GroupOf(e)) \subseteq Range(Def[e].group) /\ Range(GroupOf(e)) \subseteq Member
               /\ a.type # "default_floor" => \A type \in {"added", "changed"} : Contains(Def[e].triggers, type)
               /\ a.type = "default_floor" => Contains(Def[e].triggers, "owner")
    <2>1. GroupOf(e) \in Group /\ Range(GroupOf(e)) \subseteq Range(Def[e].group)
      BY <1>1, <1>2, LimitTyped
    <2>2. IF a.type = "default_floor" THEN Contains(Def[e].triggers, "owner") ELSE SeesAll(config, e)
      BY <1>1, <1>2, LimitTyped
    <2>3. GroupOf(e) \in Seq(Member)
      BY <2>1, GroupsAreSequences
    <2> QED
      BY <2>1, <2>2, <2>3 DEF SeesAll, Range
  <1>3. ASSUME NEW m \in Watched, NEW v \in Value, ChangeValue(m, v) \/ Appear(m, v)
        PROVE  LimitInv'
    <2>1. PICK type \in {"changed", "added"} : Send([type |-> type, member |-> m, value |-> v])
      BY <1>3 DEF ChangeValue, Appear
    <2> DEFINE sig == [type |-> type, member |-> m, value |-> v]
    <2>2. up' = up /\ bus' = [bus EXCEPT ![m] = v]
      BY <1>3 DEF ChangeValue, Appear
    <2>3. sig.type = type /\ sig.member = m /\ sig.type # "owner" /\ Send(sig)
      BY <2>1
    <2> HIDE DEF sig
    <2>4. Signalled(sig)
      <3> SUFFICES ASSUME NEW e, NEW a, LimitOf(config, e, a), ~Handles(e, sig),
                          a.type # "default_floor", Shows(z, GroupOf(e))
                   PROVE  Shows(z, GroupOf(e))'
        BY <2>2, <2>3 DEF Signalled, Send, OwnerMissed, HearsOwner
      <3>1. m \notin Range(GroupOf(e))
        BY <1>2, <2>3 DEF Handles
      <3>2. \A n \in Range(GroupOf(e)) : bus'[n] = bus[n]
        BY <1>1, <1>2, <2>2, <3>1 DEF BusOK
      <3>3. z' = z
        BY <2>3 DEF Send
      <3> QED
        BY <3>2, <3>3 DEF Shows
    <2> QED
      BY <2>3, <2>4, SendHeld
  <1>4. ASSUME NEW m \in Watched, Disappear(m)
        PROVE  LimitInv'
    <2> DEFINE sig == [type |-> "removed", member |-> m]
    <2>1. up' = up /\ bus' = [bus EXCEPT ![m] = NoValue] /\ Send(sig)
      BY <1>4 DEF Disappear
    <2> HIDE DEF sig
    <2>2. Signalled(sig)
      <3> SUFFICES ASSUME NEW e, NEW a, LimitOf(config, e, a), Shows(z, GroupOf(e))
                   PROVE  Shows(z, GroupOf(e))'
        BY <2>1 DEF Signalled, Send, OwnerMissed, HearsOwner
      <3>1. \A n \in Range(GroupOf(e)) : bus'[n] \in {bus[n], NoValue}
        BY <1>1, <1>2, <2>1 DEF BusOK
      <3>2. z' = z
        BY <2>1 DEF Send
      <3> QED
        BY <3>1, <3>2 DEF Shows
    <2> QED
      BY <2>1, <2>2, SendHeld
  <1>5. ASSUME NEW s \in Service, ServiceStops(s)
        PROVE  LimitInv'
    <2> DEFINE sig == [type |-> "owner", service |-> s]
    <2>1. /\ up' = up \ {s} /\ Send(sig)
          /\ bus' = [m \in Member |-> IF ServiceOf[m] = s THEN NoValue ELSE bus[m]]
      BY <1>5 DEF ServiceStops
    <2>2. sig.type = "owner" /\ sig.service = s
      OBVIOUS
    <2> HIDE DEF sig
    <2>3. ASSUME NEW e, NEW a, LimitOf(config, e, a)
          PROVE  Shows(z, GroupOf(e)) => Shows(z, GroupOf(e))'
      <3>1. \A n \in Range(GroupOf(e)) : bus'[n] \in {bus[n], NoValue}
        BY <1>2, <2>1, <2>3
      <3>2. z' = z
        BY <2>1 DEF Send
      <3> QED
        BY <3>1, <3>2 DEF Shows
    <2>4. ASSUME NEW e, NEW a, LimitOf(config, e, a), a.type = "default_floor", ~Handles(e, sig)
          PROVE  OwnerMissed(z, GroupOf(e))' => OwnerMissed(z, GroupOf(e))
      <3>1. ~HearsOwner(z, Def[e].group, s)
        BY <1>2, <2>2, <2>4 DEF Handles
      <3>2. ~HearsOwner(z, GroupOf(e), s)
        BY <1>2, <2>4, <3>1 DEF HearsOwner
      <3>3. z' = z
        BY <2>1 DEF Send
      <3> QED
        BY <2>1, <3>2, <3>3 DEF OwnerMissed, HearsOwner
    <2>5. Signalled(sig)
      BY <2>3, <2>4 DEF Signalled
    <2> QED
      BY <2>1, <2>5, SendHeld
  <1>6. ASSUME NEW s \in Service, ServiceStarts(s)
        PROVE  LimitInv'
    <2> DEFINE sig == [type |-> "owner", service |-> s]
    <2>1. up' = up \cup {s} /\ Send(sig) /\ bus' = bus
      BY <1>6 DEF ServiceStarts
    <2> HIDE DEF sig
    <2>2. z' = z
      BY <2>1 DEF Send
    <2>3. Signalled(sig)
      BY <2>1, <2>2 DEF Signalled, OwnerMissed, HearsOwner, Shows
    <2> QED
      BY <2>1, <2>3, SendHeld
  <1> QED
    BY <1>3, <1>4, <1>5, <1>6 DEF Environment

\* A callback leads from the zone to y while the daemon is on or starts.
LEMMA CallbackHeld ==
    ASSUME NEW e, NEW a, a.type \in Limits, NEW y, z' = y, up' = up, y \in SaneZones(a),
           y.enabled[e] > 0 =>
              \/ Waiting(e)'
              \/ \E shown \in BOOLEAN : /\ y \in RightShown(GroupOf(e), a, shown)
                                        /\ Shown(a)' => shown /\ bus' = bus
    PROVE  Held(e, a)'
  <1>1. ASSUME NEW shown \in BOOLEAN, y \in RightShown(GroupOf(e), a, shown), Shown(a)' => shown /\ bus' = bus
        PROVE  /\ y \in RightZones(GroupOf(e), a)
               /\ a.type = "default_floor" => (OwnerMissed(y, GroupOf(e))' => OwnerMissed(y, GroupOf(e)))
               /\ Shown(a)' => Shows(y, GroupOf(e))'
    <2>1. y \in RightZones(GroupOf(e), a) /\ (shown => Shows(y, GroupOf(e)))
      BY <1>1 DEF RightShown
    <2>2. bus' = bus => (Shows(y, GroupOf(e)) => Shows(y, GroupOf(e))')
      BY DEF Shows
    <2> QED
      BY <1>1, <2>1, <2>2 DEF OwnerMissed, HearsOwner
  <1> QED
    BY <1>1, HeldAfter

LEMMA EnableHeld ==
    ASSUME LimitsAlone, ZoneInv, BusOK, LimitInv, EnableEvent
    PROVE  LimitInv'
  <1> DEFINE f == Head(todo)
             y == InitTopEvent(z, f)
  <1>1. /\ status = "starting" /\ todo # <<>> /\ z' = y
        /\ UNCHANGED <<bus, up, status, config, inbox>>
    BY DEF EnableEvent
  <1>2. config \in Configs /\ z \in Zones /\ f \in Range(config)
    BY <1>1 DEF ZoneInv, Fine
  <1>3. f \in EventsOf(config) /\ NestedIn(f) \cup {f} \subseteq EventsOf(config)
    BY <1>2, EventsTyped
  <1> HIDE DEF f
  <1>4. y \in Steps(z, {}, NestedIn(f) \cup {f})
    BY <1>2, <1>3, EnabledInit
  <1>5. EnabledInv'
    <2>1. y \in Steps(z, {}, EventsOf(config))
      BY <1>3, <1>4, StepsMore
    <2> QED
      BY <1>1, <2>1, EnabledAfter DEF LimitInv
  <1>6. ASSUME NEW e, NEW a, LimitOf(config, e, a)
        PROVE  Held(e, a)'
    <2>1. /\ e \in Event /\ a.type \in Limits /\ z \in SaneZones(a)
          /\ z.enabled[e] > 0 =>
               \/ Waiting(e)
               \/ z \in RightZones(GroupOf(e), a) /\ (Shown(a) => Shows(z, GroupOf(e)))
      BY <1>6, HeldBefore
    <2>2. y \in SaneZones(a)
      BY <1>2, <1>3, <1>6, <2>1, RestInit
    <2>3. CASE f = e
      <3>1. y \in RightShown(GroupOf(e), a, TRUE)
        BY <1>2, <1>6, <2>1, <2>3, OwnInit
      <3> HIDE DEF y
      <3> QED
        BY <1>1, <2>1, <2>2, <3>1, CallbackHeld
    <2>4. CASE f # e
      <3> DEFINE shown == a.type # "default_floor"
      <3>1. y.enabled[e] = z.enabled[e]
        <4>1. e \notin NestedIn(f) \cup {f}
          BY <1>2, <1>3, <1>6, <2>4, LimitTyped
        <4> HIDE DEF y
        <4> QED
          BY <1>4, <2>1, <4>1 DEF Steps
      <3>2. Waiting(e) => Waiting(e)'
        BY <1>1, <1>4, StillWaiting DEF Steps
      <3>3. Shown(a) = shown /\ Shown(a)' = shown
        BY <1>1 DEF Shown
      <3>4. shown \in BOOLEAN /\ (shown \/ a.type = "default_floor")
        OBVIOUS
      <3> HIDE DEF shown
      <3>5. z \in RightZones(GroupOf(e), a) /\ (Shown(a) => Shows(z, GroupOf(e)))
              => z \in RightShown(GroupOf(e), a, shown)
        BY <3>3 DEF RightShown
      <3>6. z \in RightShown(GroupOf(e), a, shown) => y \in RightShown(GroupOf(e), a, shown)
        BY <1>2, <1>3, <1>6, <3>4, RestInit
      <3> HIDE DEF y
      <3> QED
        BY <1>1, <2>1, <2>2, <3>1, <3>2, <3>3, <3>4, <3>5, <3>6, CallbackHeld
    <2> QED
      BY <2>3, <2>4
  <1> QED
    BY <1>1, <1>5, <1>6 DEF LimitInv, HeldInv

\* Those who handle a signal are events of the zone.
LEMMA SubscribersTyped ==
    ASSUME LimitInv, NEW sig
    PROVE  /\ Subscribers(sig) \in SUBSET EventsOf(config)
           /\ \A f \in Subscribers(sig) : Handles(f, sig)
           /\ \A e \in Event : z.enabled[e] > 0 /\ Handles(e, sig) => e \in Subscribers(sig)
  BY DEF Subscribers, LimitInv, EnabledInv

\* A signal is handled when the daemon is on.
LEMMA SignalHeld ==
    ASSUME LimitsAlone, ZoneInv, BusOK, LimitInv, NEW sig \in Signal,
           NEW y, z' = y, InOrder(z, y, Subscribers(sig), sig),
           UNCHANGED <<up, config, status>>, status = "on",
           \A e : Waiting(e) => Handles(e, sig) \/ \E i \in DOMAIN inbox' : Handles(e, inbox'[i])
    PROVE  LimitInv'
  <1> DEFINE E == Subscribers(sig)
  <1>1. config \in Configs /\ z \in Zones
    BY DEF ZoneInv, Fine
  <1>2. /\ E \in SUBSET EventsOf(config) /\ \A f \in E : Handles(f, sig)
        /\ \A e \in Event : z.enabled[e] > 0 /\ Handles(e, sig) => e \in E
    BY SubscribersTyped
  <1>3. InOrder(z, y, E, sig)
    OBVIOUS
  <1> HIDE DEF E
  <1>4. EnabledInv' /\ z'.matched = z.matched
    <2>1. y \in Steps(z, {}, EventsOf(config))
      BY <1>1, <1>2, <1>3, EnabledStay
    <2>2. z'.matched = z.matched
      BY <2>1 DEF Steps
    <2> QED
      BY <2>1, <2>2, EnabledAfter DEF LimitInv
  <1>5. ASSUME NEW e, NEW a, LimitOf(config, e, a)
        PROVE  Held(e, a)'
    <2>1. /\ e \in Event /\ a.type \in Limits /\ z \in SaneZones(a) /\ z.enabled[e] \in Nat
          /\ z.enabled[e] > 0 => Waiting(e) \/ z \in RightZones(GroupOf(e), a)
      BY <1>5, HeldBefore
    <2>2. /\ y \in SaneZones(a) /\ y.enabled[e] = z.enabled[e]
          /\ e \in E /\ z.enabled[e] > 0 => y \in RightShown(GroupOf(e), a, FALSE)
          /\ e \notin E /\ z \in RightShown(GroupOf(e), a, FALSE) => y \in RightShown(GroupOf(e), a, FALSE)
      BY <1>1, <1>2, <1>3, <1>5, <2>1, SignalLimits
    <2>3. z \in RightZones(GroupOf(e), a) => z \in RightShown(GroupOf(e), a, FALSE)
      BY DEF RightShown
    <2>4. y.enabled[e] > 0 => Waiting(e)' \/ y \in RightShown(GroupOf(e), a, FALSE)
      <3>1. Waiting(e) => Handles(e, sig) \/ Waiting(e)'
        BY <1>4, WaitsAfter
      <3> QED
        BY <1>2, <2>1, <2>2, <2>3, <3>1
    <2>5. ~Shown(a)'
      BY DEF Shown
    <2> QED
      BY <2>1, <2>2, <2>4, <2>5, CallbackHeld
  <1> QED
    BY <1>4, <1>5 DEF LimitInv, HeldInv

LEMMA ReceiveHeld ==
    ASSUME LimitsAlone, ZoneInv, BusOK, LimitInv, Receive
    PROVE  LimitInv'
  <1> DEFINE sig == Head(inbox)
             E == Subscribers(sig)
  <1>1. /\ status = "on" /\ inbox # <<>> /\ inbox' = Tail(inbox)
        /\ UNCHANGED <<up, status, config>>
    BY DEF Receive
  <1>2. sig \in Signal /\ inbox \in Seq(Signal)
    BY <1>1 DEF ZoneInv
  <1>3. PICK order \in SetToSeqs(Subscribers(sig)) :
           z' = FoldLeft(LAMBDA y, e : HandleEvent(y, e, sig), z, order)
    BY DEF Receive
  <1> DEFINE y == InSequence(z, order, sig)
  <1>4. z' = y
    BY <1>3 DEF InSequence
  <1>5. \A e : Waiting(e) => Handles(e, sig) \/ \E i \in DOMAIN inbox' : Handles(e, inbox'[i])
    <2> SUFFICES ASSUME NEW e, NEW i \in DOMAIN inbox, Handles(e, inbox[i]), i # 1
                 PROVE  \E j \in DOMAIN inbox' : Handles(e, inbox'[j])
      BY <1>1, <1>2 DEF Waiting
    <2>1. i - 1 \in DOMAIN inbox' /\ inbox'[i - 1] = inbox[i]
      BY <1>1, <1>2
    <2> QED
      BY <2>1
  <1>6. order \in Seq(E) /\ Range(order) = E
    <2> DEFINE n == Cardinality(E)
    <2>1. IsFiniteSet(E)
      BY SubscribersHandle, FS_Subset, LegacyActionsAssumption
    <2>2. n \in Nat
      BY <2>1, FS_CardinalityType
    <2>3. order \in [1..n -> E] /\ \A i, j \in 1..n : i # j => order[i] # order[j]
      BY <1>3 DEF SetToSeqs
    <2> HIDE DEF E
    <2>4. Cardinality(1..n) = n
      BY <2>2, FS_Interval
    <2>5. order \in Injection(1..n, E)
      BY <2>3 DEF Injection, IsInjective
    <2>6. order \in Surjection(1..n, E)
      BY <2>1, <2>4, <2>5, FS_Injection
    <2>7. Range(order) = E
      BY <2>3, <2>6 DEF Surjection, Range
    <2> QED
      BY <2>2, <2>3, <2>7
  <1>7. InOrder(z, y, E, sig)
    BY <1>6 DEF InOrder
  <1> HIDE DEF sig, y
  <1> QED
    BY <1>1, <1>2, <1>4, <1>5, <1>7, SignalHeld

LEMMA SetModeHeld ==
    ASSUME LimitsAlone, ZoneInv, BusOK, LimitInv, NEW v \in Value, SetMode(v)
    PROVE  LimitInv'
  <1> DEFINE sig == [type |-> "mode", member |-> Mode, value |-> v]
             y == InAnyOrder(z, Subscribers(sig), sig)
  <1>1. /\ status = "on" /\ UNCHANGED <<up, status, config, inbox>>
        /\ z' = FoldSet(LAMBDA e, x : HandleEvent(x, e, sig), z, Subscribers(sig))
    BY DEF SetMode
  <1>2. sig \in Signal
    BY ModeIsSupported DEF Signal
  <1> HIDE DEF sig
  <1>3. z' = y /\ InOrder(z, y, Subscribers(sig), sig)
    BY <1>1 DEF InAnyOrder, InOrder
  <1>4. \A e : Waiting(e) => \E i \in DOMAIN inbox' : Handles(e, inbox'[i])
    BY <1>1 DEF Waiting
  <1> HIDE DEF y
  <1> QED
    BY <1>1, <1>2, <1>3, <1>4, SignalHeld

\* A timer expires: what leaves the limits of the zone right.
LeavesRight(y) ==
    \A e, a : LimitOf(config, e, a) =>
        /\ y \in SaneZones(a) /\ y.enabled[e] = z.enabled[e]
        /\ z \in RightShown(GroupOf(e), a, FALSE) => y \in RightShown(GroupOf(e), a, FALSE)

LEMMA ExpiredHeld ==
    ASSUME LimitsAlone, ZoneInv, LimitInv, NEW y, Expired(y), LeavesRight(y),
           y \in Steps(z, {}, EventsOf(config))
    PROVE  LimitInv'
  <1>1. /\ status = "on" /\ z' = y
        /\ UNCHANGED <<bus, up, status, config, inbox>>
    BY DEF Expired
  <1>2. EnabledInv'
    BY <1>1, EnabledAfter DEF LimitInv
  <1>3. ASSUME NEW e, NEW a, LimitOf(config, e, a)
        PROVE  Held(e, a)'
    <2>1. /\ a.type \in Limits
          /\ z.enabled[e] > 0 => Waiting(e) \/ z \in RightZones(GroupOf(e), a)
      BY <1>3, HeldBefore
    <2>2. /\ y \in SaneZones(a) /\ y.enabled[e] = z.enabled[e]
          /\ z \in RightShown(GroupOf(e), a, FALSE) => y \in RightShown(GroupOf(e), a, FALSE)
      BY <1>3 DEF LeavesRight
    <2>3. z \in RightZones(GroupOf(e), a) => z \in RightShown(GroupOf(e), a, FALSE)
      BY DEF RightShown
    <2>4. Waiting(e) => Waiting(e)'
      BY <1>1, StillWaiting DEF Steps
    <2>5. ~Shown(a)'
      BY <1>1 DEF Shown
    <2> QED
      BY <1>1, <2>1, <2>2, <2>3, <2>4, <2>5, CallbackHeld
  <1> QED
    BY <1>1, <1>2, <1>3 DEF LimitInv, HeldInv

\* What changes neither limits, the cache nor what is enabled
LEMMA SameLeavesRight ==
    ASSUME LimitsAlone, ZoneInv, LimitInv,
           NEW y \in Zones, SameLimits(z, y), y.enabled = z.enabled
    PROVE  LeavesRight(y)
  <1> SUFFICES ASSUME NEW e, NEW a, LimitOf(config, e, a)
               PROVE  /\ y \in SaneZones(a)
                      /\ z \in RightShown(GroupOf(e), a, FALSE) => y \in RightShown(GroupOf(e), a, FALSE)
    BY DEF LeavesRight
  <1>1. a.type \in Limits /\ z \in SaneZones(a)
    BY HeldBefore
  <1>2. z \in SaneShown(GroupOf(e), a, FALSE)
    BY <1>1 DEF SaneShown
  <1>3. Broad(SaneShown(GroupOf(e), a, FALSE)) /\ Broad(RightShown(GroupOf(e), a, FALSE))
    BY <1>1, LimitsBroad
  <1> QED
    BY <1>2, <1>3 DEF Broad, SaneShown

LEMMA IncTimerHeld ==
    ASSUME LimitsAlone, ZoneInv, LimitInv, IncTimerExpired
    PROVE  LimitInv'
  <1> DEFINE y == [z EXCEPT !.incDelta = 0, !.incTimer = FALSE]
  <1>1. z \in Zones /\ Expired(y)
    BY DEF ZoneInv, Fine, IncTimerExpired
  <1>2. y \in Zones /\ SameLimits(z, y) /\ y.enabled = z.enabled /\ y.matched = z.matched
    BY <1>1 DEF Zones, SameLimits
  <1> HIDE DEF y
  <1>3. y \in Steps(z, {}, EventsOf(config))
    BY <1>2 DEF Steps
  <1> QED
    BY <1>1, <1>2, <1>3, SameLeavesRight, ExpiredHeld

LEMMA DecTimerHeld ==
    ASSUME LimitsAlone, ZoneInv, LimitInv, DecTimerExpired, z' \in Zones
    PROVE  LimitInv'
  <1> DEFINE x == IF DecreaseAllowed(z) THEN SetSpeed(z, Decreased(z)) ELSE z
             y == [x EXCEPT !.decDelta = 0]
  <1>1. z \in Zones /\ Expired(y)
    BY DEF ZoneInv, Fine, DecTimerExpired
  <1>2. \/ y = [z EXCEPT !.decDelta = 0]
        \/ \E speed : y = [[z EXCEPT !.target = speed] EXCEPT !.decDelta = 0]
    BY DEF SetSpeed
  <1> HIDE DEF y
  <1>3. SameLimits(z, y) /\ y.enabled = z.enabled /\ y.matched = z.matched
    BY <1>1, <1>2 DEF Zones, SameLimits
  <1>4. y \in Zones
    BY <1>1 DEF Expired
  <1>5. y \in Steps(z, {}, EventsOf(config))
    BY <1>3, <1>4 DEF Steps
  <1> QED
    BY <1>1, <1>3, <1>4, <1>5, SameLeavesRight, ExpiredHeld

LEMMA TimerHeld ==
    ASSUME LimitsAlone, ZoneInv, BusOK, LimitInv,
           NEW f \in Event, NEW k \in DOMAIN Def[f].parts, TimerExpired(f, k)
    PROVE  LimitInv'
  <1> DEFINE p == Def[f].parts[k]
             y == RunAll(z, p.group, p.actions)
             C == NestedIn(f)
  <1>1. z \in Zones /\ Expired(y) /\ config \in Configs /\ f \in EventsOf(config)
    BY DEF ZoneInv, Fine, TimerExpired, LimitInv, EnabledInv
  <1>2. p \in Part /\ NestedBy(p) \subseteq C /\ C \subseteq EventsOf(config)
    BY <1>1, NestedInTyped, EventsTyped
  <1>3. y \in Steps(z, {}, C)
    <2>1. Elsewhere(p.group, {})
      BY DEF Elsewhere
    <2> HIDE DEF p, C
    <2> QED
      BY <1>1, <1>2, <2>1, NoGroups, RunPartSteps
  <1>4. ASSUME NEW e, NEW a, LimitOf(config, e, a)
        PROVE  /\ y \in SaneZones(a) /\ y.enabled[e] = z.enabled[e]
               /\ z \in RightShown(GroupOf(e), a, FALSE) => y \in RightShown(GroupOf(e), a, FALSE)
    <2> DEFINE X == SaneShown(GroupOf(e), a, FALSE)
               R == RightShown(GroupOf(e), a, FALSE)
    <2>1. e \in Event /\ e \notin C /\ a.type \in Limits /\ z \in SaneZones(a)
      BY <1>1, <1>4, HeldBefore, LimitTyped
    <2>2. Broad(X) /\ Broad(R) /\ Calm(X, f) /\ Calm(R, f)
      BY <1>1, <1>4, <2>1, LimitsBroad, EventsCalm
    <2>3. X = SaneZones(a)
      BY DEF SaneShown
    <2> HIDE DEF X, R
    <2>4. y \in X
      BY <2>1, <2>2, <2>3, RunPartIn
    <2>5. z \in R => y \in R
      BY <2>2, RunPartIn
    <2> HIDE DEF y
    <2>6. y.enabled[e] = z.enabled[e]
      BY <1>3, <2>1 DEF Steps
    <2> QED
      BY <2>3, <2>4, <2>5, <2>6 DEF R
  <1> HIDE DEF y
  <1>5. LeavesRight(y)
    BY <1>4 DEF LeavesRight
  <1>6. y \in Steps(z, {}, EventsOf(config))
    BY <1>2, <1>3, StepsMore
  <1> QED
    BY <1>1, <1>5, <1>6, ExpiredHeld

\* No timer of an action sets a limit.
LEMMA TimersNoRivals ==
    ASSUME LimitsAlone, NEW t \in Timer, NEW b \in Range(t.actions), NEW type \in Limits
    PROVE  t.group \in Group /\ IsSimple(b) /\ b.type \notin Rivals(type)
  <1>1. t.group \in Group
    BY DEF Timer, TimerPart, Group
  <1>2. PICK p \in TimerPart : t.actions \in {d.actions : d \in {d \in Range(p.actions) : IsTimer(d)}}
    BY DEF Timer, TimerActions
  <1>3. PICK d \in Range(p.actions) : IsTimer(d) /\ t.actions = d.actions
    BY <1>2
  <1>4. PICK e \in Event : p \in Range(Def[e].parts)
    BY DEF TimerPart, Part
  <1>5. d.type = "timer" /\ IsSimple(b)
    BY <1>3 DEF IsTimer
  <1>6. b.type \notin Rivals(type)
    BY <1>3, <1>4, <1>5 DEF LimitsAlone
  <1> QED
    BY <1>1, <1>5, <1>6

LEMMA ActionTimerHeld ==
    ASSUME LimitsAlone, ZoneInv, LimitInv, NEW t \in z.timed, ActionTimerExpired(t)
    PROVE  LimitInv'
  <1> DEFINE timed == (z.timed \ {t}) \cup {[t EXCEPT !.armed = FALSE]}
             x == IF t.oneshot THEN [z EXCEPT !.timed = timed] ELSE z
             y == RunAll(x, t.group, t.actions)
  <1>1. z \in Zones /\ Expired(y)
    BY DEF ZoneInv, Fine, ActionTimerExpired
  <1>2. t \in Timer
    BY <1>1 DEF Zones
  <1>3. [t EXCEPT !.armed = FALSE] \in Timer
    BY <1>2 DEF Timer
  <1>4. timed \in SUBSET Timer
    BY <1>1, <1>3 DEF Zones
  <1> HIDE DEF timed
  <1>5. x \in Zones /\ SameLimits(z, x) /\ x.enabled = z.enabled /\ x.matched = z.matched
    BY <1>1, <1>4 DEF Zones, SameLimits
  <1> HIDE DEF x
  <1>6. y \in Steps(x, {}, {})
    <2>1. Elsewhere(t.group, {})
      BY DEF Elsewhere
    <2> QED
      BY <1>2, <1>5, <2>1, RunTimerSteps
  <1>7. LeavesRight(x)
    BY <1>5, SameLeavesRight
  <1>8. ASSUME NEW e, NEW a, LimitOf(config, e, a)
        PROVE  /\ y \in SaneZones(a) /\ y.enabled[e] = z.enabled[e]
               /\ z \in RightShown(GroupOf(e), a, FALSE) => y \in RightShown(GroupOf(e), a, FALSE)
    <2> DEFINE X == SaneShown(GroupOf(e), a, FALSE)
               R == RightShown(GroupOf(e), a, FALSE)
    <2>1. e \in Event /\ a.type \in Limits
      BY <1>8, HeldBefore
    <2>2. x \in SaneZones(a) /\ (z \in R => x \in R)
      BY <1>7, <1>8 DEF LeavesRight
    <2>3. \A b \in Range(t.actions) : /\ \A w \in X : Act(w, t.group, b) \in X
                                      /\ \A w \in R : Act(w, t.group, b) \in R
      BY <1>2, <2>1, TimersNoRivals, NoRivalIn
    <2>4. X = SaneZones(a)
      BY DEF SaneShown
    <2> HIDE DEF X, R
    <2>5. y \in X
      BY <1>2, <2>2, <2>3, <2>4, RunTimerIn
    <2>6. x \in R => y \in R
      BY <1>2, <2>3, RunTimerIn
    <2> HIDE DEF y
    <2>7. y.enabled[e] = z.enabled[e]
      BY <1>5, <1>6, <2>1 DEF Steps
    <2> QED
      BY <2>2, <2>4, <2>5, <2>6, <2>7 DEF R
  <1> HIDE DEF y
  <1>9. LeavesRight(y)
    BY <1>8 DEF LeavesRight
  <1>10. y \in Steps(z, {}, EventsOf(config))
    BY <1>5, <1>6 DEF Steps
  <1> QED
    BY <1>1, <1>9, <1>10, ExpiredHeld

LEMMA NextLimits ==
    ASSUME LimitsAlone, ZoneInv, ModeInv, LimitInv, [Next]_vars
    PROVE  LimitInv'
  <1>1. BusOK /\ config \in Configs /\ z \in Zones
    BY DEF ModeInv, BusOK, ZoneInv, Fine
  <1>2. ZoneInv'
    BY NextZoneInv
  <1>3. CASE Environment
    BY <1>1, <1>3, EnvironmentHeld
  <1>4. CASE DoInit \/ Start \/ Ends
    <2>1. config' = config /\ \E target \in Nat, matched \in SUBSET Member : z' = NewZone(target, matched)
      BY <1>1, <1>4, LegacyActionsAssumption DEF DoInit, Start, Ends, OnBus, Zones
    <2> QED
      BY <1>1, <2>1, FreshLimits
  <1>5. CASE Started
    BY <1>5, StillHeld DEF Started
  <1>6. CASE EnableEvent
    BY <1>1, <1>6, EnableHeld
  <1>7. CASE Receive
    BY <1>1, <1>7, ReceiveHeld
  <1>8. ASSUME NEW v \in Value, SetMode(v)
        PROVE  LimitInv'
    BY <1>1, <1>8, SetModeHeld
  <1>9. CASE IncTimerExpired
    BY <1>9, IncTimerHeld
  <1>10. CASE DecTimerExpired
    <2>1. z' \in Zones
      BY <1>2 DEF ZoneInv, Fine
    <2> QED
      BY <1>10, <2>1, DecTimerHeld
  <1>11. ASSUME NEW e \in Event, NEW k \in DOMAIN Def[e].parts, TimerExpired(e, k)
         PROVE  LimitInv'
    BY <1>1, <1>11, TimerHeld
  <1>12. ASSUME NEW t \in z.timed, ActionTimerExpired(t)
         PROVE  LimitInv'
    BY <1>12, ActionTimerHeld
  <1>13. CASE UNCHANGED vars
    BY <1>13, StillHeld DEF vars
  <1> QED
    BY <1>3, <1>4, <1>5, <1>6, <1>7, <1>8, <1>9, <1>10, <1>11, <1>12, <1>13 DEF Next, Daemon

LEMMA LimitInUse ==
    ASSUME LimitsAlone, ZoneInv, LimitInv, Quiet, NEW u \in InUse, u.action.type \in Limits
    PROVE  z \in RightZones(u.group, u.action)
  <1>1. PICK e \in Event : z.enabled[e] > 0 /\ u \in ActionsOf(e)
    BY DEF InUse
  <1>2. PICK p \in Range(Def[e].parts) :
           u \in {[group |-> p.group, action |-> a] : a \in Range(p.actions)}
    BY <1>1 DEF ActionsOf
  <1>3. PICK a \in Range(p.actions) : u = [group |-> p.group, action |-> a]
    BY <1>2
  <1>4. e \in EventsOf(config) /\ config \in Configs
    BY <1>1 DEF LimitInv, EnabledInv, ZoneInv
  <1>5. LimitOf(config, e, a)
    BY <1>2, <1>3, <1>4 DEF LimitOf
  <1>6. p.group = GroupOf(e)
    BY <1>2, <1>4, <1>5, LimitTyped
  <1>7. ~Waiting(e)
    BY DEF Waiting, Quiet
  <1>8. z \in RightZones(GroupOf(e), a)
    BY <1>1, <1>5, <1>7, HeldBefore
  <1> QED
    BY <1>3, <1>6, <1>8

\* The floor and the ceiling follow the values that set them, in whatever
\* order signals, timers and modes arrive, at any number of restarts and
\* for any keys and speeds: while a member has no service that is known, or
\* one that is watched and has no owner, the floor is the default, and it
\* stays until the median sets it; otherwise it is the one for the median;
\* the ceiling is the speed of a key next to the average, whatever it was.
\* (default_floor_on_missing_owner, set_floor_from_median_sensor_value,
\* set_ceiling_from_average_sensor_value, swapCeilingKeyValue())
THEOREM LimitsAreKept ==
    ASSUME LimitsAlone
    PROVE  Spec => []LimitsFollow
  <1>1. Init => LimitInv
    BY InitLimits
  <1>2. ZoneInv /\ ModeInv /\ LimitInv /\ [Next]_vars => LimitInv'
    BY NextLimits
  <1>3. ZoneInv /\ LimitInv => FloorFollows /\ CeilingFollows
    <2> SUFFICES ASSUME ZoneInv, LimitInv
                 PROVE  FloorFollows /\ CeilingFollows
      OBVIOUS
    <2>1. ASSUME Quiet, NEW u \in InUse
          PROVE  /\ u.action.type = "default_floor" /\ OwnerMissed(z, u.group) => z.floor = z.defFloor
                 /\ u.action.type = "floor_median" =>
                      z.floor = IF z.defaulted THEN z.defFloor
                                ELSE FloorFor(z, u.action.speeds, Median(z, u.group, u.action))
      <3>1. CASE u.action.type = "default_floor"
        <4>1. Right(z, u.group, u.action) /\ Sane(z, u.action)
          BY <2>1, <3>1, LimitInUse DEF Limits, RightZones, SaneZones
        <4> QED
          BY <3>1, <4>1 DEF Right, Sane, SaneFloor
      <3>2. CASE u.action.type = "floor_median"
        <4>1. Right(z, u.group, u.action)
          BY <2>1, <3>2, LimitInUse DEF Limits, RightZones
        <4> QED
          BY <3>2, <4>1 DEF Right
      <3> QED
        BY <3>1, <3>2
    <2>2. ASSUME Quiet, NEW u \in InUse, u.action.type = "ceiling", Known(z, u.group) # {},
                 Average(z, u.group) # 0
          PROVE  z.ceiling \in NextSpeeds(u.action.speeds, Average(z, u.group))
      <3>1. Right(z, u.group, u.action) /\ Sane(z, u.action)
        BY <2>2, LimitInUse DEF Limits, RightZones, SaneZones
      <3> QED
        BY <2>2, <3>1 DEF Right, Sane
    <2>3. FloorFollows
      BY <2>1 DEF FloorFollows
    <2>4. CeilingFollows
      BY <2>2 DEF CeilingFollows, NextSpeeds
    <2> QED
      BY <2>3, <2>4
  <1>4. Spec => []LegacyTypeOK
    BY ZoneIsTyped
  <1>5. Spec => [](ZoneInv /\ ModeInv)
    BY ZoneInvHolds
  <1>6. Spec => []LimitInv
    BY <1>1, <1>2, <1>5, PTL DEF Spec
  <1>7. LegacyTypeOK /\ FloorFollows /\ CeilingFollows => LimitsFollow
    BY DEF LimitsFollow
  <1> QED
    BY <1>3, <1>4, <1>5, <1>6, <1>7, PTL

=============================================================================
