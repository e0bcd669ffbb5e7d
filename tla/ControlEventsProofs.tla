-------------------------- MODULE ControlEventsProofs --------------------------
(***************************************************************************)
(* Theorems about ControlEvents, for any configurations, triggers, actions *)
(* and services: the caches, parameters and holds keep their types, the    *)
(* cache follows D-Bus, while a service that is watched is down its events *)
(* hold their target, and the floors of counts and of maps are those of    *)
(* the values on D-Bus.  What a handler does to the caches is a fold over  *)
(* a group or over the events, see SequenceProofs.                         *)
(***************************************************************************)
EXTENDS ControlEvents, SequenceProofs

-----------------------------------------------------------------------------
(* The caches                                                              *)

Holding(f, e) == HoldsOf(e) \subseteq f.targets \/ e \in f.timed

\* The daemon knows of a member that the service is down.
Lacks(f, e) == \E o \in Members(e) : IfaceOf[o] \notin f.owned /\ ServiceOf[IfaceOf[o]] \notin up

\* From f to g no service is forgotten, only those that are up are found to
\* have an owner, and what is held for a service that is down stays held.
KeepsHolds(f, g) ==
    /\ f.tree \subseteq g.tree
    /\ \A i \in g.owned : i \in f.owned \/ ServiceOf[i] \in up
    /\ \A e \in OwnerEvent : Lacks(f, e) /\ Holding(f, e) => Holding(g, e)

CountEvent == EventsOf({"count"})

\* The floors of an event that counts are its floor, or none, and its delay
\* runs only if it has one.
OwnFloors(f, e) ==
    /\ \A z \in Zone : f.floors[e][z] \in {NoFloor, Action[e].floor}
    /\ e \in f.delays => Action[e].delay

\* The floor of e is held, or its delay is running, as the values cached have it.
Counted(f, e) ==
    IF CountReached(f, e) THEN f.floors[e][FirstZone] = Action[e].floor \/ e \in f.delays
    ELSE (\A o \in Members(e) : f.objects[o] # NoValue) =>
         (\A z \in Zone : f.floors[e][z] = NoFloor) /\ e \notin f.delays

SameFor(f, g, e) == \A o \in Members(e) : g.objects[o] = f.objects[o]

\* From f to g the floor of e stays right as long as its objects are the same.
KeepsCount(f, g, e) ==
    OwnFloors(f, e) => /\ OwnFloors(g, e)
                       /\ SameFor(f, g, e) /\ Counted(f, e) => Counted(g, e)
KeepsCounts(f, g) == \A e \in CountEvent : KeepsCount(f, g, e)

\* The states of the daemon; those that an action may lead to from f, as it
\* does not touch the cache of properties; those that reading properties may
\* lead to, and actions; those that asking for owners may lead to as well.
Sound == {f \in DaemonState : f.owned \subseteq f.tree}
Learns(f) == {g \in Sound : /\ \A o \in Object : g.objects[o] \in {f.objects[o], bus[o]}
                            /\ KeepsHolds(f, g) /\ KeepsCounts(f, g)}
Reads(f) == {g \in Learns(f) : f.owned \subseteq g.owned}
Acts(f) == {g \in Reads(f) : g.objects = f.objects}

LEMMA KeepsHoldsTrans ==
    ASSUME NEW f, NEW g, NEW h, KeepsHolds(f, g), KeepsHolds(g, h)
    PROVE  KeepsHolds(f, h)
  <1>1. f.tree \subseteq h.tree /\ \A i \in h.owned : i \in f.owned \/ ServiceOf[i] \in up
    BY DEF KeepsHolds
  <1>2. ASSUME NEW e \in OwnerEvent, Lacks(f, e), Holding(f, e)
        PROVE  Holding(h, e)
    <2>1. Lacks(g, e) /\ Holding(g, e)
      BY <1>2 DEF KeepsHolds, Lacks
    <2> QED
      BY <2>1 DEF KeepsHolds
  <1> QED
    BY <1>1, <1>2 DEF KeepsHolds

\* What changes neither services nor holds.
LEMMA SameHolds ==
    ASSUME NEW f, NEW g, g.tree = f.tree, g.owned = f.owned, g.targets = f.targets, g.timed = f.timed
    PROVE  KeepsHolds(f, g)
  BY DEF KeepsHolds, Holding

LEMMA SameReached ==
    ASSUME NEW f, NEW g, NEW e \in CountEvent, SameFor(f, g, e)
    PROVE  CountReached(g, e) <=> CountReached(f, e)
  <1>1. \A k \in DOMAIN Group[e] : g.objects[Group[e][k]] = f.objects[Group[e][k]]
    BY DEF SameFor, Members, Range
  <1>2. AtState(g, e) = AtState(f, e)
    BY <1>1 DEF AtState
  <1> QED
    BY <1>2 DEF CountReached

LEMMA MembersTyped ==
    ASSUME NEW e \in Event
    PROVE  Members(e) \subseteq Object
  <1>1. Group[e] \in Seq(Object)
    BY ControlActionsAssumption
  <1> QED
    BY <1>1 DEF Members, Range

\* What does not change the floors of e, nor its delay.
LEMMA SameFloor ==
    ASSUME NEW f, NEW g, NEW e \in CountEvent,
           g.floors[e] = f.floors[e], e \in g.delays <=> e \in f.delays
    PROVE  KeepsCount(f, g, e)
  <1> SUFFICES ASSUME OwnFloors(f, e)
               PROVE  OwnFloors(g, e) /\ (SameFor(f, g, e) /\ Counted(f, e) => Counted(g, e))
    BY DEF KeepsCount
  <1>1. OwnFloors(g, e)
    BY DEF OwnFloors
  <1>2. ASSUME SameFor(f, g, e), Counted(f, e)
        PROVE  Counted(g, e)
    <2>1. CountReached(g, e) <=> CountReached(f, e)
      BY <1>2, SameReached
    <2>2. (\A o \in Members(e) : g.objects[o] # NoValue) <=> \A o \in Members(e) : f.objects[o] # NoValue
      BY <1>2 DEF SameFor
    <2> QED
      BY <1>2, <2>1, <2>2 DEF Counted
  <1> QED
    BY <1>1, <1>2

LEMMA SameCounts ==
    ASSUME NEW f, NEW g, g.floors = f.floors, g.delays = f.delays
    PROVE  KeepsCounts(f, g)
  BY SameFloor DEF KeepsCounts

\* An object that is the same in the end was the same all the time.
LEMMA KeepsCountsTrans ==
    ASSUME NEW f, NEW g, NEW h, KeepsCounts(f, g), KeepsCounts(g, h),
           \A o \in Object : g.objects[o] \in {f.objects[o], bus[o]},
           \A o \in Object : h.objects[o] \in {g.objects[o], bus[o]}
    PROVE  KeepsCounts(f, h)
  <1> SUFFICES ASSUME NEW e \in CountEvent, OwnFloors(f, e)
               PROVE  OwnFloors(h, e) /\ (SameFor(f, h, e) /\ Counted(f, e) => Counted(h, e))
    BY DEF KeepsCounts, KeepsCount
  <1>1. OwnFloors(g, e) /\ OwnFloors(h, e)
    BY DEF KeepsCounts, KeepsCount
  <1>2. ASSUME SameFor(f, h, e), Counted(f, e)
        PROVE  Counted(h, e)
    <2>1. Members(e) \subseteq Object
      BY MembersTyped DEF CountEvent, EventsOf
    <2>2. \A o \in Members(e) : g.objects[o] = f.objects[o] /\ h.objects[o] = g.objects[o]
      BY <1>2, <2>1 DEF SameFor
    <2>3. SameFor(f, g, e) /\ SameFor(g, h, e)
      BY <2>2 DEF SameFor
    <2> QED
      BY <1>1, <1>2, <2>3 DEF KeepsCounts, KeepsCount
  <1> QED
    BY <1>1, <1>2

\* What leaves the caches and the floors alone is an action if it keeps the holds.
LEMMA ActsByHolds ==
    ASSUME NEW f, NEW g \in Sound, g.tree = f.tree, g.owned = f.owned, g.objects = f.objects,
           g.floors = f.floors, g.delays = f.delays,
           \A e \in OwnerEvent : Lacks(f, e) /\ Holding(f, e) => Holding(g, e)
    PROVE  g \in Acts(f)
  <1>1. KeepsHolds(f, g)
    BY DEF KeepsHolds
  <1> QED
    BY <1>1, SameCounts DEF Acts, Reads, Learns

\* What leaves the caches and the holds alone is an action if it keeps the floors.
LEMMA ActsByCounts ==
    ASSUME NEW f, NEW g \in Sound, g.tree = f.tree, g.owned = f.owned, g.objects = f.objects,
           g.targets = f.targets, g.timed = f.timed, KeepsCounts(f, g)
    PROVE  g \in Acts(f)
  BY SameHolds DEF Acts, Reads, Learns

LEMMA IfaceOfType == \A o \in Object : IfaceOf[o] \in Iface
  BY ObjectCacheAssumption

\* What only changes what is known of the services, as they are.
LEMMA OwnersLearned ==
    ASSUME NEW f, NEW g \in Sound, f.tree \subseteq g.tree, g.objects = f.objects,
           g.targets = f.targets, g.timed = f.timed, g.floors = f.floors, g.delays = f.delays,
           \A i \in g.owned : i \in f.owned \/ ServiceOf[i] \in up
    PROVE  g \in Learns(f)
  BY SameCounts DEF KeepsHolds, Holding, Learns

LEMMA AddServicesActs ==
    ASSUME NEW f \in Sound, BusTypeOK, NEW i
    PROVE  AddServices(f, i) \in Acts(f)
  <1> DEFINE new == {j \in present : NameOf[j] = NameOf[i]} \ f.tree
             tree == f.tree \cup new
             owned == f.owned \cup new
             g == [f EXCEPT !.tree = tree, !.owned = owned]
  <1>1. tree \in SUBSET Iface /\ owned \in SUBSET tree
    BY DEF Sound, DaemonState, BusTypeOK
  <1>2. AddServices(f, i) = g
    BY DEF AddServices, Sound, DaemonState
  <1>3. f.tree \subseteq tree /\ f.owned \subseteq owned
    OBVIOUS
  <1>4. \A j \in owned : j \in f.owned \/ ServiceOf[j] \in up
    BY DEF BusTypeOK
  <1> HIDE DEF new, tree, owned
  <1>5. /\ g \in Sound /\ g.tree = tree /\ g.owned = owned
        /\ g.objects = f.objects /\ g.targets = f.targets /\ g.timed = f.timed
        /\ g.floors = f.floors /\ g.delays = f.delays
    BY <1>1 DEF Sound, DaemonState
  <1> HIDE DEF g
  <1>6. g \in Learns(f)
    BY <1>3, <1>4, <1>5, OwnersLearned
  <1>7. g \in Acts(f)
    BY <1>3, <1>5, <1>6 DEF Acts, Reads
  <1> QED
    BY <1>2, <1>7

LEMMA ActsRefl ==
    ASSUME NEW f \in Sound
    PROVE  f \in Acts(f)
  BY SameHolds, SameCounts DEF Acts, Reads, Learns

LEMMA GetServiceActs ==
    ASSUME NEW f \in Sound, BusTypeOK, NEW i
    PROVE  GetService(f, i) \in Acts(f)
  BY AddServicesActs, ActsRefl DEF GetService

LEMMA ActsTrans ==
    ASSUME NEW f \in Sound, NEW g \in Acts(f), NEW h \in Acts(g)
    PROVE  h \in Acts(f)
  BY KeepsHoldsTrans, KeepsCountsTrans DEF Acts, Reads, Learns

LEMMA ReadsTrans ==
    ASSUME NEW f \in Sound, NEW g \in Reads(f), NEW h \in Reads(g)
    PROVE  h \in Reads(f)
  BY KeepsHoldsTrans, KeepsCountsTrans DEF Reads, Learns

LEMMA LearnsTrans ==
    ASSUME NEW f \in Sound, NEW g \in Learns(f), NEW h \in Learns(g)
    PROVE  h \in Learns(f)
  BY KeepsHoldsTrans, KeepsCountsTrans DEF Learns

LEMMA ActsRead ==
    ASSUME NEW f, NEW g \in Acts(f)
    PROVE  g \in Reads(f) /\ g \in Sound /\ g.objects = f.objects
  BY DEF Acts, Reads, Learns

LEMMA ReadsLearn ==
    ASSUME NEW f, NEW g \in Reads(f)
    PROVE  g \in Learns(f) /\ g \in Sound
  BY DEF Reads, Learns

LEMMA SetObjectOwnerLearns ==
    ASSUME NEW f \in Sound, NEW i \in Iface
    PROVE  LET g == SetObjectOwner(f, i, ServiceOf[i] \in up)
           IN  /\ g \in Learns(f) /\ g.objects = f.objects
               /\ ServiceOf[i] \notin up => i \notin g.owned
  <1> DEFINE tree == f.tree \cup {i}
             same == {j \in tree : ServiceOf[j] = ServiceOf[i] /\ NameOf[j] = NameOf[i]}
             owned == IF ServiceOf[i] \in up THEN f.owned \cup same ELSE f.owned \ same
             g == [f EXCEPT !.tree = tree, !.owned = owned]
  <1>1. SetObjectOwner(f, i, ServiceOf[i] \in up) = g
    BY DEF SetObjectOwner, Sound, DaemonState
  <1>2. tree \in SUBSET Iface /\ owned \in SUBSET tree /\ f.tree \subseteq tree
    BY DEF Sound, DaemonState
  <1>3. \A j \in owned : j \in f.owned \/ ServiceOf[j] \in up
    OBVIOUS
  <1>4. ServiceOf[i] \notin up => i \notin owned
    OBVIOUS
  <1> HIDE DEF tree, owned
  <1>5. /\ g \in Sound /\ g.tree = tree /\ g.owned = owned
        /\ g.objects = f.objects /\ g.targets = f.targets /\ g.timed = f.timed
        /\ g.floors = f.floors /\ g.delays = f.delays
    BY <1>2 DEF Sound, DaemonState
  <1> HIDE DEF g
  <1>6. g \in Learns(f)
    BY <1>2, <1>3, <1>5, OwnersLearned
  <1> QED
    BY <1>1, <1>4, <1>5, <1>6

\* What only changes properties keeps the rest.
LEMMA ObjectsSet ==
    ASSUME NEW f \in Sound, NEW objects \in [Object -> Value \cup {NoValue}]
    PROVE  LET g == [f EXCEPT !.objects = objects]
           IN  /\ g \in Sound /\ g.objects = objects
               /\ g.tree = f.tree /\ g.owned = f.owned /\ g.targets = f.targets /\ g.timed = f.timed
               /\ g.floors = f.floors /\ g.delays = f.delays
  BY DEF Sound, DaemonState

LEMMA SetPropertySets ==
    ASSUME NEW f \in Sound, NEW o \in Object, NEW v \in Value \cup {NoValue}
    PROVE  /\ SetProperty(f, o, v) \in Sound
           /\ SetProperty(f, o, v).tree = f.tree /\ SetProperty(f, o, v).owned = f.owned
           /\ SetProperty(f, o, v).targets = f.targets /\ SetProperty(f, o, v).timed = f.timed
           /\ SetProperty(f, o, v).floors = f.floors /\ SetProperty(f, o, v).delays = f.delays
           /\ \A x \in Object : SetProperty(f, o, v).objects[x] =
                                    IF x = o THEN v ELSE f.objects[x]
  <1> DEFINE objects == [f.objects EXCEPT ![o] = v]
  <1>1. f.objects \in [Object -> Value \cup {NoValue}]
    BY DEF Sound, DaemonState
  <1>2. objects \in [Object -> Value \cup {NoValue}]
    BY <1>1
  <1>3. SetProperty(f, o, v) = [f EXCEPT !.objects = objects]
    BY DEF SetProperty
  <1>4. \A x \in Object : objects[x] = IF x = o THEN v ELSE f.objects[x]
    BY <1>1
  <1> HIDE DEF objects
  <1> QED
    BY <1>2, <1>3, <1>4, ObjectsSet

LEMMA RemoveInterfaceSets ==
    ASSUME NEW f \in Sound, NEW i
    PROVE  /\ RemoveInterface(f, i) \in Sound
           /\ RemoveInterface(f, i).tree = f.tree /\ RemoveInterface(f, i).owned = f.owned
           /\ RemoveInterface(f, i).targets = f.targets /\ RemoveInterface(f, i).timed = f.timed
           /\ RemoveInterface(f, i).floors = f.floors /\ RemoveInterface(f, i).delays = f.delays
           /\ \A x \in Object : RemoveInterface(f, i).objects[x] =
                                    IF IfaceOf[x] = i THEN NoValue ELSE f.objects[x]
  <1> DEFINE objects == [x \in Object |-> IF IfaceOf[x] = i THEN NoValue ELSE f.objects[x]]
  <1>1. f.objects \in [Object -> Value \cup {NoValue}]
    BY DEF Sound, DaemonState
  <1>2. objects \in [Object -> Value \cup {NoValue}]
    BY <1>1
  <1>3. RemoveInterface(f, i) = [f EXCEPT !.objects = objects]
    BY DEF RemoveInterface, Sound, DaemonState
  <1>4. \A x \in Object : objects[x] = IF IfaceOf[x] = i THEN NoValue ELSE f.objects[x]
    OBVIOUS
  <1> HIDE DEF objects
  <1> QED
    BY <1>2, <1>3, <1>4, ObjectsSet

LEMMA SetPropertiesReads ==
    ASSUME NEW f \in Sound, BusTypeOK, NEW I
    PROVE  SetProperties(f, I) \in Reads(f)
  <1> DEFINE objects == [x \in Object |-> IF IfaceOf[x] \in I THEN bus[x] ELSE f.objects[x]]
  <1>1. f.objects \in [Object -> Value \cup {NoValue}]
    BY DEF Sound, DaemonState
  <1>2. objects \in [Object -> Value \cup {NoValue}]
    BY <1>1 DEF BusTypeOK
  <1>3. SetProperties(f, I) = [f EXCEPT !.objects = objects]
    BY DEF SetProperties, Sound, DaemonState
  <1>4. \A x \in Object : objects[x] \in {f.objects[x], bus[x]}
    OBVIOUS
  <1> HIDE DEF objects
  <1> DEFINE g == SetProperties(f, I)
  <1>5. /\ g \in Sound /\ g.objects = objects
        /\ g.tree = f.tree /\ g.owned = f.owned /\ g.targets = f.targets /\ g.timed = f.timed
        /\ g.floors = f.floors /\ g.delays = f.delays
    BY <1>2, <1>3, ObjectsSet
  <1> HIDE DEF g
  <1>6. g \in Reads(f)
    BY <1>4, <1>5, SameHolds, SameCounts DEF Reads, Learns
  <1> QED
    BY <1>6 DEF g

\* setOwner() of a service forgets its objects if it has no owner.
LEMMA SetOwnerSets ==
    ASSUME NEW f \in Sound, NEW s, NEW on \in BOOLEAN
    PROVE  /\ SetOwner(f, s, on) \in Sound
           /\ SetOwner(f, s, on).tree = f.tree
           /\ \A i : i \in SetOwner(f, s, on).owned <=>
                       \/ i \in f.owned /\ (on \/ ServiceOf[i] # s)
                       \/ i \in f.tree /\ on /\ ServiceOf[i] = s
           /\ SetOwner(f, s, on).targets = f.targets /\ SetOwner(f, s, on).timed = f.timed
           /\ SetOwner(f, s, on).floors = f.floors /\ SetOwner(f, s, on).delays = f.delays
           /\ \A x \in Object : SetOwner(f, s, on).objects[x] =
                IF ~on /\ IfaceOf[x] \in f.tree /\ ServiceOf[IfaceOf[x]] = s
                THEN NoValue ELSE f.objects[x]
  <1> DEFINE mine == {i \in f.tree : ServiceOf[i] = s}
             owned == IF on THEN f.owned \cup mine ELSE f.owned \ mine
             objects == [x \in Object |-> IF ~on /\ IfaceOf[x] \in mine
                                          THEN NoValue ELSE f.objects[x]]
             g == [f EXCEPT !.tree = f.tree, !.owned = owned]
  <1>1. f.objects \in [Object -> Value \cup {NoValue}]
    BY DEF Sound, DaemonState
  <1>2. objects \in [Object -> Value \cup {NoValue}]
    BY <1>1
  <1>3. f.tree \in SUBSET Iface /\ owned \in SUBSET f.tree
    BY DEF Sound, DaemonState
  <1>4. SetOwner(f, s, on) = [g EXCEPT !.objects = objects]
    BY DEF SetOwner, Sound, DaemonState
  <1>5. \A x \in Object : objects[x] = IF ~on /\ IfaceOf[x] \in f.tree /\ ServiceOf[IfaceOf[x]] = s
                                       THEN NoValue ELSE f.objects[x]
    OBVIOUS
  <1>6. /\ g \in Sound
        /\ g.tree = f.tree /\ g.owned = owned /\ g.targets = f.targets /\ g.timed = f.timed
        /\ g.floors = f.floors /\ g.delays = f.delays
    <2> HIDE DEF owned
    <2> QED
      BY <1>3 DEF Sound, DaemonState
  <1>7. \A i : i \in owned <=> \/ i \in f.owned /\ (on \/ ServiceOf[i] # s)
                               \/ i \in f.tree /\ on /\ ServiceOf[i] = s
    BY DEF Sound
  <1> DEFINE k == [g EXCEPT !.objects = objects]
  <1> HIDE DEF objects, g, owned
  <1>8. /\ k \in Sound /\ k.objects = objects
        /\ k.tree = f.tree /\ k.owned = owned /\ k.targets = f.targets /\ k.timed = f.timed
        /\ k.floors = f.floors /\ k.delays = f.delays
    BY <1>2, <1>6, ObjectsSet
  <1> HIDE DEF k
  <1>9. SetOwner(f, s, on) = k
    BY <1>4 DEF k
  <1> QED
    BY <1>5, <1>7, <1>8, <1>9

LEMMA AddObjectReads ==
    ASSUME NEW f \in Sound, BusTypeOK, NEW o \in Object
    PROVE  AddObject(f, o) \in Reads(f)
  <1> DEFINE e == GetService(f, IfaceOf[o])
  <1>1. e \in Acts(f)
    BY GetServiceActs
  <1>2. e \in Sound /\ e \in Reads(f)
    BY <1>1, ActsRead
  <1>3. \A I : SetProperties(e, I) \in Reads(e)
    <2> HIDE DEF e
    <2> QED
      BY <1>2, SetPropertiesReads
  <1>4. SetProperty(e, o, bus[o]) \in Reads(e)
    <2> HIDE DEF e
    <2>1. bus[o] \in Value \cup {NoValue}
      BY DEF BusTypeOK
    <2> QED
      BY <1>2, <2>1, SetPropertySets, SameHolds, SameCounts DEF Reads, Learns
  <1>5. AddObject(f, o) \in {e, SetProperty(e, o, bus[o])}
                                \cup {SetProperties(e, {j \in present : ServiceOf[j] = ServiceOf[IfaceOf[o]]})}
    BY DEF AddObject
  <1> HIDE DEF e
  <1> QED
    BY <1>2, <1>3, <1>4, <1>5, ReadsTrans

-----------------------------------------------------------------------------
(* The folds of the caches: they do not leave a set of states that no step *)
(* leaves, and come to one that a step leads to.                           *)

\* Looking for the services of a group.
LEMMA GetServicesIn ==
    ASSUME NEW objs \in Seq(Object), NEW X, d \in X,
           \A g \in X, o \in Object : GetService(g, IfaceOf[o]) \in X
    PROVE  GetServices(objs) \in X
  <1> DEFINE S == DOMAIN objs
             step == [k \in S |-> [f \in X |-> GetService(f, IfaceOf[objs[k]])]]
             Is(h) == h = [s \in SUBSET S |-> IF s = {} THEN d
                           ELSE GetService(h[s \ {Max(s)}], IfaceOf[objs[Max(s)]])]
             fold == CHOOSE h : Is(h)
  <1>1. Closed(step, S, X)
    BY DEF Closed
  <1>2. \A s \in SUBSET S : s # {} => Max(s) \in S
    BY RangeFinite, MaxExists, FS_Subset
  <1>3. \E h : Is(h)
    <2> HIDE DEF step
    <2>1. PICK h : IsFold(h, S, X, d, LastOf(S), step)
      BY <1>1, LeftFoldExists
    <2>2. Is(h)
      BY <1>2, <2>1 DEF step, IsFold, LastOf
    <2> QED
      BY <2>2
  <1>4. Is(fold)
    BY <1>3
  <1>5. FoldsBy(fold, S, X, step)
    <2> HIDE DEF fold
    <2> QED
      BY <1>2, <1>4 DEF FoldsBy
  <1>6. fold[S] \in X
    <2> HIDE DEF fold, step
    <2> QED
      BY <1>1, <1>5, LeftFoldReaches
  <1> QED
    BY <1>6 DEF GetServices, FoldLeft, MapThenFoldSet

LEMMA GetServicesActs ==
    ASSUME d \in Sound, BusTypeOK, NEW objs \in Seq(Object)
    PROVE  GetServices(objs) \in Acts(d)
  <1> DEFINE X == Acts(d)
  <1>1. ASSUME NEW f \in X, NEW o \in Object
        PROVE  GetService(f, IfaceOf[o]) \in X
    <2>1. f \in Sound
      BY ActsRead
    <2>2. GetService(f, IfaceOf[o]) \in Acts(f)
      BY <2>1, GetServiceActs
    <2> QED
      BY <2>1, <2>2, ActsTrans
  <1>2. d \in X
    BY ActsRefl, ActsRead
  <1> HIDE DEF X
  <1>3. GetServices(objs) \in X
    BY <1>1, <1>2, GetServicesIn
  <1> QED
    BY <1>3 DEF X

\* nameHasOwner() of one member.
OwnerKnown(f, o) ==
    LET g == GetService(f, IfaceOf[o])
    IN  IF FindService(g, IfaceOf[o])
        THEN SetObjectOwner(g, IfaceOf[o], ServiceOf[IfaceOf[o]] \in up)
        ELSE g

LEMMA OwnerKnownLearns ==
    ASSUME NEW f \in Sound, BusTypeOK, NEW o \in Object
    PROVE  /\ OwnerKnown(f, o) \in Learns(f) /\ OwnerKnown(f, o).objects = f.objects
           /\ IfaceOf[o] \in f.tree /\ ServiceOf[IfaceOf[o]] \notin up
              => IfaceOf[o] \notin OwnerKnown(f, o).owned
  <1> DEFINE i == IfaceOf[o]
             g == GetService(f, i)
             k == SetObjectOwner(g, i, ServiceOf[i] \in up)
  <1>1. g \in Acts(f)
    BY GetServiceActs
  <1>2. g \in Sound /\ g.objects = f.objects /\ g \in Learns(f)
    BY <1>1, ActsRead, ReadsLearn
  <1>3. k \in Learns(g) /\ k.objects = g.objects /\ (ServiceOf[i] \notin up => i \notin k.owned)
    <2> HIDE DEF g
    <2> QED
      BY <1>2, IfaceOfType, SetObjectOwnerLearns
  <1>4. OwnerKnown(f, o) = IF i \in g.tree THEN k ELSE g
    BY DEF OwnerKnown, FindService
  <1>5. f.tree \subseteq g.tree
    <2> HIDE DEF g
    <2> QED
      BY <1>2 DEF Learns, KeepsHolds
  <1> HIDE DEF g, k
  <1>6. k \in Learns(f)
    BY <1>2, <1>3, LearnsTrans
  <1> QED
    BY <1>2, <1>3, <1>4, <1>5, <1>6

\* Asking for the owners of a group: services that are down have none then.
LEMMA NameHasOwnerIn ==
    ASSUME NEW objs \in Seq(Object), NEW X, NEW b \in X,
           \A g \in X, o \in Object : OwnerKnown(g, o) \in X
    PROVE  /\ NameHasOwner(b, objs) \in X
           /\ \A o \in Range(objs), Y \in SUBSET X :
                 /\ \A g \in X : OwnerKnown(g, o) \in Y
                 /\ \A g \in Y, m \in Object : OwnerKnown(g, m) \in Y
                 => NameHasOwner(b, objs) \in Y
  <1> DEFINE S == DOMAIN objs
             step == [k \in S |-> [f \in X |-> OwnerKnown(f, objs[k])]]
             Is(h) == h = [s \in SUBSET S |-> IF s = {} THEN b
                           ELSE OwnerKnown(h[s \ {Max(s)}], objs[Max(s)])]
             fold == CHOOSE h : Is(h)
  <1>1. Closed(step, S, X)
    BY DEF Closed
  <1>2. \A s \in SUBSET S : s # {} => Max(s) \in S
    BY RangeFinite, MaxExists, FS_Subset
  <1>3. \E h : Is(h)
    <2> HIDE DEF step
    <2>1. PICK h : IsFold(h, S, X, b, LastOf(S), step)
      BY <1>1, LeftFoldExists
    <2>2. Is(h)
      BY <1>2, <2>1 DEF step, IsFold, LastOf
    <2> QED
      BY <2>2
  <1>4. Is(fold)
    BY <1>3
  <1>5. FoldsBy(fold, S, X, step)
    <2> HIDE DEF fold
    <2> QED
      BY <1>2, <1>4 DEF FoldsBy
  <1>6. NameHasOwner(b, objs) = fold[S]
    BY DEF NameHasOwner, OwnerKnown, FoldLeft, MapThenFoldSet
  <1>7. /\ fold[S] \in X
        /\ \A k \in S, Y \in SUBSET X :
              (\A g \in X : step[k][g] \in Y) /\ Closed(step, S, Y) => fold[S] \in Y
    <2> HIDE DEF fold, step
    <2> QED
      BY <1>1, <1>5, LeftFoldReaches
  <1> HIDE DEF fold
  <1>8. ASSUME NEW o \in Range(objs), NEW Y \in SUBSET X, \A g \in X : OwnerKnown(g, o) \in Y,
               \A g \in Y, m \in Object : OwnerKnown(g, m) \in Y
        PROVE  fold[S] \in Y
    <2>1. PICK k \in S : objs[k] = o
      BY DEF Range
    <2>2. \A g \in X : step[k][g] \in Y
      BY <1>8, <2>1
    <2>3. Closed(step, S, Y)
      BY <1>8 DEF Closed
    <2> HIDE DEF step
    <2> QED
      BY <1>7, <2>1, <2>2, <2>3
  <1> QED
    BY <1>6, <1>7, <1>8

LEMMA NameHasOwnerLearns ==
    ASSUME NEW b \in Sound, BusTypeOK, NEW objs \in Seq(Object)
    PROVE  /\ NameHasOwner(b, objs) \in Learns(b) /\ NameHasOwner(b, objs).objects = b.objects
           /\ \A o \in Range(objs) : IfaceOf[o] \in b.tree /\ ServiceOf[IfaceOf[o]] \notin up
                                      => IfaceOf[o] \notin NameHasOwner(b, objs).owned
  <1> DEFINE X == {f \in Learns(b) : f.objects = b.objects}
             Down(o) == IfaceOf[o] \in b.tree /\ ServiceOf[IfaceOf[o]] \notin up
             Gone(o) == {f \in X : IfaceOf[o] \notin f.owned}
  <1>1. ASSUME NEW f \in X, NEW o \in Object
        PROVE  /\ OwnerKnown(f, o) \in X
               /\ Down(o) => IfaceOf[o] \notin OwnerKnown(f, o).owned
               /\ \A m : Down(m) /\ IfaceOf[m] \notin f.owned => IfaceOf[m] \notin OwnerKnown(f, o).owned
    <2> DEFINE g == OwnerKnown(f, o)
    <2>1. f \in Sound /\ f \in Learns(b) /\ f.objects = b.objects
      BY DEF Learns
    <2>2. /\ g \in Learns(f) /\ g.objects = f.objects
          /\ IfaceOf[o] \in f.tree /\ ServiceOf[IfaceOf[o]] \notin up => IfaceOf[o] \notin g.owned
      BY <2>1, OwnerKnownLearns
    <2> HIDE DEF g
    <2>3. g \in Learns(b)
      BY <2>1, <2>2, LearnsTrans
    <2>4. b.tree \subseteq f.tree /\ \A i \in g.owned : i \in f.owned \/ ServiceOf[i] \in up
      BY <2>1, <2>2 DEF Learns, KeepsHolds
    <2> QED
      BY <2>1, <2>2, <2>3, <2>4 DEF g
  <1>2. b \in X
    BY ActsRefl, ActsRead, ReadsLearn
  <1> HIDE DEF X, Down
  <1>3. NameHasOwner(b, objs) \in X
    BY <1>1, <1>2, NameHasOwnerIn
  <1>4. ASSUME NEW o \in Range(objs), Down(o)
        PROVE  NameHasOwner(b, objs) \in Gone(o)
    <2>1. o \in Object
      BY RangeFinite
    <2>2. /\ Gone(o) \in SUBSET X
          /\ \A g \in X : OwnerKnown(g, o) \in Gone(o)
          /\ \A g \in Gone(o), m \in Object : OwnerKnown(g, m) \in Gone(o)
      BY <1>1, <1>4, <2>1
    <2> HIDE DEF Gone
    <2> QED
      BY <1>1, <1>2, <2>2, NameHasOwnerIn
  <1> QED
    BY <1>3, <1>4 DEF X, Down

\* getProperties() of one member.
Cached(f, o) == IF f.objects[o] = NoValue THEN AddObject(f, o) ELSE f

LEMMA CachedReads ==
    ASSUME NEW f \in Sound, BusTypeOK, NEW o \in Object
    PROVE  Cached(f, o) \in Reads(f)
  BY AddObjectReads, ActsRefl, ActsRead DEF Cached

\* Reading the properties of a group that are not cached.
LEMMA GetPropertiesIn ==
    ASSUME NEW objs \in Seq(Object), NEW X, NEW b \in X,
           \A g \in X, o \in Object : Cached(g, o) \in X
    PROVE  GetProperties(b, objs) \in X
  <1> DEFINE S == DOMAIN objs
             step == [k \in S |-> [f \in X |-> Cached(f, objs[k])]]
             Is(h) == h = [s \in SUBSET S |-> IF s = {} THEN b
                           ELSE Cached(h[s \ {Max(s)}], objs[Max(s)])]
             fold == CHOOSE h : Is(h)
  <1>1. Closed(step, S, X)
    BY DEF Closed
  <1>2. \A s \in SUBSET S : s # {} => Max(s) \in S
    BY RangeFinite, MaxExists, FS_Subset
  <1>3. \E h : Is(h)
    <2> HIDE DEF step
    <2>1. PICK h : IsFold(h, S, X, b, LastOf(S), step)
      BY <1>1, LeftFoldExists
    <2>2. Is(h)
      BY <1>2, <2>1 DEF step, IsFold, LastOf
    <2> QED
      BY <2>2
  <1>4. Is(fold)
    BY <1>3
  <1>5. FoldsBy(fold, S, X, step)
    <2> HIDE DEF fold
    <2> QED
      BY <1>2, <1>4 DEF FoldsBy
  <1>6. fold[S] \in X
    <2> HIDE DEF fold, step
    <2> QED
      BY <1>1, <1>5, LeftFoldReaches
  <1> QED
    BY <1>6 DEF GetProperties, Cached, FoldLeft, MapThenFoldSet

LEMMA GetPropertiesReads ==
    ASSUME NEW b \in Sound, BusTypeOK, NEW objs \in Seq(Object)
    PROVE  GetProperties(b, objs) \in Reads(b)
  <1> DEFINE X == Reads(b)
  <1>1. ASSUME NEW f \in X, NEW o \in Object
        PROVE  Cached(f, o) \in X
    <2>1. f \in Sound
      BY ReadsLearn
    <2>2. Cached(f, o) \in Reads(f)
      BY <2>1, CachedReads
    <2> QED
      BY <2>1, <2>2, ReadsTrans
  <1>2. b \in X
    BY ActsRefl, ActsRead
  <1> HIDE DEF X
  <1>3. GetProperties(b, objs) \in X
    BY <1>1, <1>2, GetPropertiesIn
  <1> QED
    BY <1>3 DEF X

\* Reading the properties of a group.
LEMMA AddGroupsIn ==
    ASSUME NEW objs \in Seq(Object), NEW X, NEW b \in X,
           \A g \in X, o \in Object : AddObject(g, o) \in X
    PROVE  AddGroups(b, objs) \in X
  <1> DEFINE S == DOMAIN objs
             step == [k \in S |-> [f \in X |-> AddObject(f, objs[k])]]
             Is(h) == h = [s \in SUBSET S |-> IF s = {} THEN b
                           ELSE AddObject(h[s \ {Max(s)}], objs[Max(s)])]
             fold == CHOOSE h : Is(h)
  <1>1. Closed(step, S, X)
    BY DEF Closed
  <1>2. \A s \in SUBSET S : s # {} => Max(s) \in S
    BY RangeFinite, MaxExists, FS_Subset
  <1>3. \E h : Is(h)
    <2> HIDE DEF step
    <2>1. PICK h : IsFold(h, S, X, b, LastOf(S), step)
      BY <1>1, LeftFoldExists
    <2>2. Is(h)
      BY <1>2, <2>1 DEF step, IsFold, LastOf
    <2> QED
      BY <2>2
  <1>4. Is(fold)
    BY <1>3
  <1>5. FoldsBy(fold, S, X, step)
    <2> HIDE DEF fold
    <2> QED
      BY <1>2, <1>4 DEF FoldsBy
  <1>6. fold[S] \in X
    <2> HIDE DEF fold, step
    <2> QED
      BY <1>1, <1>5, LeftFoldReaches
  <1> QED
    BY <1>6 DEF AddGroups, FoldLeft, MapThenFoldSet

LEMMA AddGroupsReads ==
    ASSUME NEW b \in Sound, BusTypeOK, NEW objs \in Seq(Object)
    PROVE  AddGroups(b, objs) \in Reads(b)
  <1> DEFINE X == Reads(b)
  <1>1. ASSUME NEW f \in X, NEW o \in Object
        PROVE  AddObject(f, o) \in X
    <2>1. f \in Sound
      BY ReadsLearn
    <2>2. AddObject(f, o) \in Reads(f)
      BY <2>1, AddObjectReads
    <2> QED
      BY <2>1, <2>2, ReadsTrans
  <1>2. b \in X
    BY ActsRefl, ActsRead
  <1> HIDE DEF X
  <1>3. AddGroups(b, objs) \in X
    BY <1>1, <1>2, AddGroupsIn
  <1> QED
    BY <1>3 DEF X

-----------------------------------------------------------------------------
(* The floors and parameters that actions compute.                         *)

LEMMA ActionsTyped ==
    ASSUME NEW e \in Event
    PROVE  IsAction(Action[e]) /\ Group[e] \in Seq(Object) /\ Members(e) \in SUBSET Object
  <1>1. IsAction(Action[e]) /\ Group[e] \in Seq(Object)
    BY ControlActionsAssumption
  <1> QED
    BY <1>1, RangeFinite DEF Members

LEMMA GroupMaxType ==
    ASSUME NEW f \in Sound, NEW objs \in SUBSET Object
    PROVE  GroupMax(f, objs) \in Value \cup {NoValue} /\ GroupMax(f, objs) \in Int \cup {NoValue}
  <1>1. f.objects \in [Object -> Value \cup {NoValue}]
    BY DEF Sound, DaemonState
  <1>2. ValuesOf(f, objs) \in SUBSET Value
    BY <1>1 DEF ValuesOf
  <1>3. Value \in SUBSET Int /\ IsFiniteSet(Value)
    BY ObjectCacheAssumption
  <1>4. ValuesOf(f, objs) # {} => Max(ValuesOf(f, objs)) \in ValuesOf(f, objs)
    BY <1>2, <1>3, MaxExists, FS_Subset
  <1> QED
    BY <1>2, <1>3, <1>4 DEF GroupMax

\* The first of the positions of a sequence is one of them.
LEMMA FirstExists ==
    ASSUME NEW T, NEW q \in Seq(T), NEW K \in SUBSET DOMAIN q, K # {}
    PROVE  Min(K) \in K
  <1>1. DOMAIN q \subseteq Int /\ IsFiniteSet(DOMAIN q)
    BY RangeFinite
  <1> QED
    BY <1>1, MinExists, FS_Subset

LEMMA EntryFloorType ==
    ASSUME NEW v, NEW n \in Entry, NEW default \in Nat
    PROVE  EntryFloor(v, n, default) \in Nat
  <1> DEFINE fit == {k \in DOMAIN n.floors : v # NoValue /\ v <= n.floors[k][1]}
  <1>1. n.floors \in Seq(Int \X Nat)
    BY DEF Entry
  <1>2. fit # {} => Min(fit) \in fit
    BY <1>1, FirstExists
  <1>3. fit # {} => Min(fit) \in DOMAIN n.floors
    BY <1>2
  <1>4. EntryFloor(v, n, default) = IF fit = {} THEN default ELSE n.floors[Min(fit)][2]
    BY DEF EntryFloor
  <1> HIDE DEF fit
  <1> QED
    BY <1>1, <1>3, <1>4

\* A negative offset never wraps a floor.
LEMMA FloorOffsetType ==
    ASSUME NEW f \in Sound, NEW t \in Table, NEW floor \in Nat
    PROVE  ApplyFloorOffset(f, t, floor) \in Nat
  <1> DEFINE offset == IF t.offset = NoParam THEN NoValue ELSE f.params[t.offset]
  <1>1. f.params \in [Param -> Int \cup {NoValue}] /\ t.offset \in Param \cup {NoParam}
    BY DEF Sound, DaemonState, Table
  <1>2. offset \in Int \cup {NoValue}
    BY <1>1
  <1>3. ApplyFloorOffset(f, t, floor) = AddFloorOffset(floor, offset)
    BY DEF ApplyFloorOffset
  <1> HIDE DEF offset
  <1>4. AddFloorOffset(floor, offset) \in Nat
    BY <1>2 DEF AddFloorOffset
  <1> QED
    BY <1>3, <1>4

LEMMA TableFloorType ==
    ASSUME NEW f \in Sound, NEW t \in Table, NEW default \in Nat
    PROVE  TableFloor(f, t, default) \in Nat
  <1> DEFINE other == IF t.default = NoFloor THEN default ELSE t.default
             value(n) == IF n.param = NoParam THEN GroupMax(f, n.objects) ELSE f.params[n.param]
             N == {n \in Range(t.entries) : n.param = NoParam \/ value(n) # NoValue}
             found == {EntryFloor(value(n), n, other) : n \in N}
             floor == IF found = {} THEN t.default ELSE Max(found)
  <1>1. t.default \in Nat \cup {NoFloor} /\ t.entries \in Seq(Entry)
    BY DEF Table
  <1>2. other \in Nat
    BY <1>1
  <1>3. IsFiniteSet(Range(t.entries)) /\ Range(t.entries) \subseteq Entry
    BY <1>1, RangeFinite
  <1>4. found \in SUBSET Nat
    <2> HIDE DEF other, value
    <2> QED
      BY <1>2, <1>3, EntryFloorType
  <1>5. IsFiniteSet(found)
    <2> DEFINE g == [n \in N |-> EntryFloor(value(n), n, other)]
    <2>1. IsFiniteSet(N)
      <3> HIDE DEF value
      <3> QED
        BY <1>3, FS_Subset
    <2>2. found = {g[n] : n \in N}
      <3> HIDE DEF value, other, N
      <3> QED
        OBVIOUS
    <2> HIDE DEF g, found, N
    <2> QED
      BY <2>1, <2>2, ImageFinite
  <1>6. found # {} => Max(found) \in found
    <2> HIDE DEF found
    <2> QED
      BY <1>4, <1>5, MaxExists
  <1>7. floor \in Nat \cup {NoFloor}
    <2> HIDE DEF found
    <2> QED
      BY <1>1, <1>4, <1>6
  <1>8. TableFloor(f, t, default) = IF floor = NoFloor THEN default ELSE ApplyFloorOffset(f, t, floor)
    BY DEF TableFloor
  <1> HIDE DEF floor
  <1>9. floor # NoFloor => ApplyFloorOffset(f, t, floor) \in Nat
    BY <1>7, FloorOffsetType
  <1> QED
    BY <1>8, <1>9

LEMMA MappedFloorType ==
    ASSUME NEW f \in Sound, NEW e \in Event, Action[e].type = "mapped"
    PROVE  MappedFloor(f, Action[e]) \in Nat \cup {NoFloor}
  <1> DEFINE a == Action[e]
             key == GroupMax(f, a.key)
             fit == {k \in DOMAIN a.tables : key # NoValue /\ key < a.tables[k].key}
  <1>1. a.default \in Nat /\ a.tables \in Seq(Table)
    BY ActionsTyped DEF IsAction
  <1>2. fit # {} => Min(fit) \in fit
    BY <1>1, FirstExists
  <1>3. fit # {} => Min(fit) \in DOMAIN a.tables
    BY <1>2
  <1>4. MappedFloor(f, a) = IF ~MeetsCondition(f, a.condition) THEN NoFloor
                            ELSE IF fit = {} THEN a.default
                            ELSE TableFloor(f, a.tables[Min(fit)], a.default)
    BY DEF MappedFloor
  <1> HIDE DEF a, fit
  <1>5. fit # {} => a.tables[Min(fit)] \in Table
    BY <1>1, <1>3
  <1>6. fit # {} => TableFloor(f, a.tables[Min(fit)], a.default) \in Nat
    BY <1>1, <1>5, TableFloorType
  <1>7. MappedFloor(f, a) \in Nat \cup {NoFloor}
    BY <1>1, <1>4, <1>6
  <1> QED
    BY <1>7 DEF a

\* Modifier::doOp()
LEMMA ModifyType ==
    ASSUME NEW m, IsModifier(m), NEW v \in Int
    PROVE  Modify(m, v) \in Int
  <1> DEFINE above == {k \in DOMAIN m.ranges : v < m.ranges[k][1]}
  <1>1. CASE m.op = "less_than"
    <2>1. m.ranges \in Seq(Int \X Int) /\ m.default \in Int
      BY <1>1 DEF IsModifier
    <2>2. above # {} => Min(above) \in above
      BY <2>1, FirstExists
    <2>3. above # {} => Min(above) \in DOMAIN m.ranges
      BY <2>2
    <2>4. Modify(m, v) = IF above = {} THEN m.default ELSE m.ranges[Min(above)][2]
      BY <1>1 DEF Modify
    <2> HIDE DEF above
    <2>5. \A k \in DOMAIN m.ranges : m.ranges[k][2] \in Int
      BY <2>1
    <2> QED
      BY <2>1, <2>3, <2>4, <2>5
  <1>2. CASE m.op = "none"
    BY <1>2 DEF Modify
  <1>3. CASE m.op = "minus"
    BY <1>3 DEF Modify, IsModifier
  <1> QED
    BY <1>1, <1>2, <1>3 DEF IsModifier

LEMMA GroupParameterType ==
    ASSUME NEW f \in Sound, NEW e \in Event, Action[e].type = "param"
    PROVE  GroupParameter(f, e) \in Int \cup {NoValue}
  <1>1. IsModifier(Action[e].modifier)
    BY ActionsTyped DEF IsAction
  <1>2. GroupMax(f, Members(e)) \in Int \cup {NoValue}
    BY ActionsTyped, GroupMaxType
  <1>3. GroupMax(f, Members(e)) # NoValue =>
            Modify(Action[e].modifier, GroupMax(f, Members(e))) \in Int
    BY <1>1, <1>2, ModifyType
  <1> QED
    BY <1>3 DEF GroupParameter

LEMMA FloorIndexType ==
    ASSUME NEW f, NEW e \in Event, Action[e].type = "pcie"
    PROVE  FloorIndex(f, Action[e]) \in Int \cup {NoValue}
  <1> DEFINE a == Action[e]
             C == {CardId(f, s) : s \in Powered(f, a)} \cap DOMAIN a.card
  <1>1. IsFiniteSet(DOMAIN a.card) /\ \A c \in DOMAIN a.card : a.card[c] \in Int
    BY ActionsTyped DEF IsAction
  <1>2. HotCards(f, a) = {a.card[c] : c \in C}
    BY DEF HotCards
  <1>3. C \subseteq DOMAIN a.card
    OBVIOUS
  <1> HIDE DEF C, a
  <1>4. IsFiniteSet(C)
    BY <1>1, <1>3, FS_Subset
  <1>5. IsFiniteSet(HotCards(f, a)) /\ HotCards(f, a) \in SUBSET Int
    BY <1>1, <1>2, <1>3, <1>4, ImageFinite
  <1>6. HotCards(f, a) # {} => Max(HotCards(f, a)) \in Int
    BY <1>5, MaxExists
  <1>7. FloorIndex(f, a) \in Int \cup {NoValue}
    BY <1>6 DEF FloorIndex
  <1> QED
    BY <1>7 DEF a

-----------------------------------------------------------------------------
(* The actions                                                             *)

Floors == [Event -> [Zone -> Nat \cup {NoFloor}]]

\* What only changes one field other than the caches, holds and floors is an action.
LEMMA FieldsAct ==
    ASSUME NEW f \in Sound
    PROVE  /\ \A x \in SUBSET EventsOf({"pcie"}) : [f EXCEPT !.settling = x] \in Acts(f)
           /\ \A x \in [Event -> SUBSET Iface] : [f EXCEPT !.cards = x] \in Acts(f)
           /\ \A x \in [Param -> Int \cup {NoValue}] : [f EXCEPT !.params = x] \in Acts(f)
           /\ \A x \in SUBSET (Param \X FloorEvent) : [f EXCEPT !.triggers = x] \in Acts(f)
           /\ \A x \in BOOLEAN : [f EXCEPT !.faulted = x] \in Acts(f)
  <1> DEFINE Same == {g \in Sound : /\ g.tree = f.tree /\ g.owned = f.owned /\ g.objects = f.objects
                                   /\ g.targets = f.targets /\ g.timed = f.timed
                                   /\ g.floors = f.floors /\ g.delays = f.delays}
  <1>1. \A g \in Same : g \in Acts(f)
    BY SameHolds, SameCounts DEF Acts, Reads, Learns
  <1>2. ASSUME NEW x \in SUBSET EventsOf({"pcie"})
        PROVE  [f EXCEPT !.settling = x] \in Same
    BY DEF Sound, DaemonState
  <1>3. ASSUME NEW x \in [Event -> SUBSET Iface]
        PROVE  [f EXCEPT !.cards = x] \in Same
    BY DEF Sound, DaemonState
  <1>4. ASSUME NEW x \in [Param -> Int \cup {NoValue}]
        PROVE  [f EXCEPT !.params = x] \in Same
    BY DEF Sound, DaemonState
  <1>5. ASSUME NEW x \in SUBSET (Param \X FloorEvent)
        PROVE  [f EXCEPT !.triggers = x] \in Same
    BY DEF Sound, DaemonState
  <1>6. ASSUME NEW x \in BOOLEAN
        PROVE  [f EXCEPT !.faulted = x] \in Same
    BY DEF Sound, DaemonState
  <1> HIDE DEF Same
  <1> QED
    BY <1>1, <1>2, <1>3, <1>4, <1>5, <1>6, Zenon

\* The floors of one event, and its delay.
LEMMA HoldFloorSets ==
    ASSUME NEW f \in Sound, NEW e \in Event, NEW Z, NEW floor \in Nat \cup {NoFloor}
    PROVE  LET g == HoldFloor(f, e, Z, floor)
           IN  /\ g \in Sound /\ g.tree = f.tree /\ g.owned = f.owned /\ g.objects = f.objects
               /\ g.targets = f.targets /\ g.timed = f.timed /\ g.delays = f.delays
               /\ \A x \in Event : x # e => g.floors[x] = f.floors[x]
               /\ \A z \in Zone : g.floors[e][z] = IF z \in Z THEN floor ELSE f.floors[e][z]
  <1> DEFINE row == [z \in Zone |-> IF z \in Z THEN floor ELSE f.floors[e][z]]
             floors == [f.floors EXCEPT ![e] = row]
             g == [f EXCEPT !.floors = floors]
  <1>1. f.floors \in Floors
    BY DEF Sound, DaemonState, Floors
  <1>2. row \in [Zone -> Nat \cup {NoFloor}]
    BY <1>1 DEF Floors
  <1>3. \A z \in Zone : row[z] = IF z \in Z THEN floor ELSE f.floors[e][z]
    OBVIOUS
  <1>4. HoldFloor(f, e, Z, floor) = g
    BY <1>1 DEF HoldFloor, Sound, DaemonState
  <1> HIDE DEF row
  <1>5. floors \in Floors /\ floors[e] = row /\ \A x \in Event : x # e => floors[x] = f.floors[x]
    BY <1>1, <1>2 DEF Floors
  <1> HIDE DEF floors
  <1>6. /\ g \in Sound /\ g.tree = f.tree /\ g.owned = f.owned /\ g.objects = f.objects
        /\ g.targets = f.targets /\ g.timed = f.timed /\ g.delays = f.delays /\ g.floors = floors
    BY <1>5 DEF Sound, DaemonState, Floors
  <1> HIDE DEF g
  <1> QED
    BY <1>3, <1>4, <1>5, <1>6

\* What only changes the delay of an event.
OnlyDelay(f, g, e) ==
    /\ g \in Sound /\ g.tree = f.tree /\ g.owned = f.owned /\ g.objects = f.objects
    /\ g.targets = f.targets /\ g.timed = f.timed /\ g.floors = f.floors
    /\ \A x : x # e => (x \in g.delays <=> x \in f.delays)

LEMMA SetDelays ==
    ASSUME NEW f \in Sound, NEW e \in CountEvent
    PROVE  LET on == [f EXCEPT !.delays = @ \cup {e}]
               off == [f EXCEPT !.delays = @ \ {e}]
           IN  /\ OnlyDelay(f, on, e) /\ e \in on.delays
               /\ OnlyDelay(f, off, e) /\ e \notin off.delays
  <1> DEFINE on == [f EXCEPT !.delays = @ \cup {e}]
             off == [f EXCEPT !.delays = @ \ {e}]
  <1>1. /\ f.delays \cup {e} \in SUBSET EventsOf({"count"})
        /\ f.delays \ {e} \in SUBSET EventsOf({"count"})
    BY DEF Sound, DaemonState, CountEvent
  <1>2. /\ on \in Sound /\ on.tree = f.tree /\ on.owned = f.owned /\ on.objects = f.objects
        /\ on.targets = f.targets /\ on.timed = f.timed /\ on.floors = f.floors
        /\ on.delays = f.delays \cup {e}
    BY <1>1 DEF Sound, DaemonState
  <1>3. /\ off \in Sound /\ off.tree = f.tree /\ off.owned = f.owned /\ off.objects = f.objects
        /\ off.targets = f.targets /\ off.timed = f.timed /\ off.floors = f.floors
        /\ off.delays = f.delays \ {e}
    BY <1>1 DEF Sound, DaemonState
  <1> HIDE DEF on, off
  <1>4. OnlyDelay(f, on, e) /\ e \in on.delays
    BY <1>2 DEF OnlyDelay
  <1>5. OnlyDelay(f, off, e) /\ e \notin off.delays
    BY <1>3 DEF OnlyDelay
  <1> QED
    BY <1>4, <1>5 DEF on, off

\* The floors of an event that counts are its own.
LEMMA HoldFloorActs ==
    ASSUME NEW f \in Sound, NEW e \in Event \ CountEvent, NEW Z, NEW floor \in Nat \cup {NoFloor}
    PROVE  HoldFloor(f, e, Z, floor) \in Acts(f)
  <1> DEFINE g == HoldFloor(f, e, Z, floor)
  <1>1. /\ g \in Sound /\ g.tree = f.tree /\ g.owned = f.owned /\ g.objects = f.objects
        /\ g.targets = f.targets /\ g.timed = f.timed /\ g.delays = f.delays
        /\ \A x \in Event : x # e => g.floors[x] = f.floors[x]
    BY HoldFloorSets
  <1> HIDE DEF g
  <1>2. \A x \in CountEvent : g.floors[x] = f.floors[x] /\ (x \in g.delays <=> x \in f.delays)
    BY <1>1 DEF CountEvent, EventsOf
  <1>3. KeepsCounts(f, g)
    BY <1>1, <1>2, SameFloor DEF KeepsCounts
  <1> QED
    BY <1>1, <1>3, ActsByCounts DEF g

\* A target that is held stays held while an owner is missing.
LEMMA HoldMissingActs ==
    ASSUME NEW f \in Sound, NEW e \in Event
    PROVE  /\ HoldMissing(f, e) \in Acts(f)
           /\ Lacks(f, e) => Holding(HoldMissing(f, e), e)
  <1> DEFINE targets == IF MissingOwner(f, e) THEN f.targets \cup HoldsOf(e)
                        ELSE f.targets \ HoldsOf(e)
             g == [f EXCEPT !.targets = targets]
  <1>1. f.targets \in SUBSET UNION {HoldsOf(x) : x \in Event}
    BY DEF Sound, DaemonState
  <1>2. HoldsOf(e) \in SUBSET UNION {HoldsOf(x) : x \in Event}
    OBVIOUS
  <1>3. targets \in SUBSET UNION {HoldsOf(x) : x \in Event}
    BY <1>1, <1>2
  <1>4. HoldMissing(f, e) = g
    BY DEF HoldMissing
  <1>5. \A x : Members(x) = Members(e) /\ Lacks(f, x) => HoldsOf(e) \subseteq targets
    BY DEF Lacks, MissingOwner, HasOwner
  <1>6. ASSUME NEW x \in OwnerEvent, HoldsOf(x) \subseteq f.targets, Lacks(f, x)
        PROVE  HoldsOf(x) \subseteq targets
    <2>1. CASE Group[x] = Group[e]
      BY <1>5, <1>6, <2>1 DEF HoldsOf, Members
    <2>2. CASE Group[x] # Group[e]
      <3>1. HoldsOf(x) \cap HoldsOf(e) = {}
        BY <2>2 DEF HoldsOf
      <3> QED
        BY <1>6, <3>1
    <2> QED
      BY <2>1, <2>2
  <1> HIDE DEF targets
  <1>7. /\ g \in Sound /\ g.tree = f.tree /\ g.owned = f.owned /\ g.objects = f.objects
        /\ g.targets = targets /\ g.timed = f.timed /\ g.floors = f.floors /\ g.delays = f.delays
    BY <1>3 DEF Sound, DaemonState
  <1> HIDE DEF g
  <1>8. g \in Acts(f)
    BY <1>6, <1>7, ActsByHolds DEF Holding
  <1>9. Lacks(f, e) => Holding(g, e)
    BY <1>5, <1>7 DEF Holding
  <1> QED
    BY <1>4, <1>8, <1>9, Zenon

\* The timer of an event, running and stopped.
LEMMA SetTimed ==
    ASSUME NEW f \in Sound, NEW e \in EventsOf({"timed"})
    PROVE  LET on == [f EXCEPT !.timed = @ \cup {e}]
               off == [f EXCEPT !.timed = @ \ {e}]
           IN  /\ on \in Acts(f) /\ Holding(on, e)
               /\ off \in Sound /\ off.timed = f.timed \ {e} /\ off.targets = f.targets
               /\ off.tree = f.tree /\ off.owned = f.owned /\ off.objects = f.objects
        /\ off.floors = f.floors /\ off.delays = f.delays
               /\ off.floors = f.floors /\ off.delays = f.delays
  <1> DEFINE on == [f EXCEPT !.timed = @ \cup {e}]
             off == [f EXCEPT !.timed = @ \ {e}]
  <1>1. f.timed \cup {e} \in SUBSET EventsOf({"timed"}) /\ f.timed \ {e} \in SUBSET EventsOf({"timed"})
    BY DEF Sound, DaemonState
  <1>2. /\ on \in Sound /\ on.tree = f.tree /\ on.owned = f.owned /\ on.objects = f.objects
        /\ on.targets = f.targets /\ on.timed = f.timed \cup {e}
        /\ on.floors = f.floors /\ on.delays = f.delays
    BY <1>1 DEF Sound, DaemonState
  <1>3. /\ off \in Sound /\ off.timed = f.timed \ {e} /\ off.targets = f.targets
        /\ off.tree = f.tree /\ off.owned = f.owned /\ off.objects = f.objects
        /\ off.floors = f.floors /\ off.delays = f.delays
    BY <1>1 DEF Sound, DaemonState
  <1> HIDE DEF on, off
  <1>4. on \in Acts(f) /\ Holding(on, e)
    BY <1>2, ActsByHolds DEF Holding
  <1> QED
    BY <1>3, <1>4 DEF on, off

LEMMA SetSettling ==
    ASSUME NEW f \in Sound, NEW e \in EventsOf({"pcie"})
    PROVE  [f EXCEPT !.settling = @ \cup {e}] \in Acts(f) /\ [f EXCEPT !.settling = @ \ {e}] \in Acts(f)
  <1>1. f.settling \cup {e} \in SUBSET EventsOf({"pcie"}) /\ f.settling \ {e} \in SUBSET EventsOf({"pcie"})
    BY DEF Sound, DaemonState
  <1> QED
    BY <1>1, FieldsAct

\* What only changes the floors of an event that counts, and its delay.
LEMMA ActsByCount ==
    ASSUME NEW f, NEW e \in CountEvent, NEW g \in Sound, g.tree = f.tree, g.owned = f.owned,
           g.objects = f.objects, g.targets = f.targets, g.timed = f.timed,
           \A x \in Event : x # e => g.floors[x] = f.floors[x],
           \A x : x # e => (x \in g.delays <=> x \in f.delays),
           KeepsCount(f, g, e)
    PROVE  g \in Acts(f)
  <1>1. \A x \in CountEvent : x # e => KeepsCount(f, g, x)
    BY SameFloor DEF CountEvent, EventsOf
  <1>2. KeepsCounts(f, g)
    BY <1>1 DEF KeepsCounts
  <1> QED
    BY <1>2, ActsByCounts

\* The floor is held, or the delay runs, as the count has it.
LEMMA CountFloorActs ==
    ASSUME NEW f \in Sound, NEW e \in CountEvent
    PROVE  CountFloor(f, e) \in Acts(f) /\ (OwnFloors(f, e) => Counted(CountFloor(f, e), e))
  <1> DEFINE floor == CountedFloor(f, e)
             h == HoldFloor(f, e, Zone, floor)
             none == HoldFloor(f, e, Zone, NoFloor)
             off == [none EXCEPT !.delays = @ \ {e}]
             on == [f EXCEPT !.delays = @ \cup {e}]
             Only(g) == /\ g \in Sound /\ g.tree = f.tree /\ g.owned = f.owned /\ g.objects = f.objects
                        /\ g.targets = f.targets /\ g.timed = f.timed
                        /\ \A x \in Event : x # e => g.floors[x] = f.floors[x]
                        /\ \A x : x # e => (x \in g.delays <=> x \in f.delays)
  <1>1. e \in Event /\ Action[e].floor \in Nat /\ FirstZone \in Zone
    BY ActionsTyped, ControlActionsAssumption DEF IsAction, CountEvent, EventsOf
  <1>2. floor = (IF CountReached(f, e) THEN Action[e].floor ELSE NoFloor) /\ floor \in Nat \cup {NoFloor}
    BY <1>1 DEF CountedFloor
  <1> HIDE DEF floor
  <1> DEFINE Sets(x, v) == Only(x) /\ x.delays = f.delays /\ \A z \in Zone : x.floors[e][z] = v
  <1>3. \A v \in Nat \cup {NoFloor} : Sets(HoldFloor(f, e, Zone, v), v)
    BY <1>1, HoldFloorSets
  <1>4. Sets(h, floor) /\ Sets(none, NoFloor)
    <2>1. NoFloor \in Nat \cup {NoFloor}
      OBVIOUS
    <2> HIDE DEF Sets
    <2> QED
      BY <1>2, <1>3, <2>1
  <1> HIDE DEF h, none
  <1>5. Only(off) /\ e \notin off.delays /\ off.floors = none.floors
    <2>1. OnlyDelay(none, off, e) /\ e \notin off.delays
      BY <1>4, SetDelays
    <2> HIDE DEF off
    <2> QED
      BY <1>4, <2>1 DEF OnlyDelay
  <1>6. Only(on) /\ e \in on.delays /\ on.floors = f.floors
    <2>1. OnlyDelay(f, on, e) /\ e \in on.delays
      BY SetDelays
    <2> HIDE DEF on
    <2> QED
      BY <2>1 DEF OnlyDelay
  <1>7. CountFloor(f, e) = IF ~Action[e].delay THEN h
                           ELSE IF ~CountReached(f, e) THEN off
                           ELSE IF \A z \in Zone : f.floors[e][z] # NoFloor THEN f
                           ELSE on
    BY DEF CountFloor, h, none, floor
  <1> HIDE DEF off, on
  <1> DEFINE g == CountFloor(f, e)
  <1>8. Only(g)
    BY <1>4, <1>5, <1>6, <1>7
  <1>9. OwnFloors(f, e) => OwnFloors(g, e)
    BY <1>2, <1>4, <1>5, <1>6, <1>7 DEF OwnFloors
  <1>10. SameFor(f, g, e)
    BY <1>8 DEF SameFor
  <1>11. CountReached(g, e) <=> CountReached(f, e)
    BY <1>10, SameReached
  <1>12. ASSUME OwnFloors(f, e)
         PROVE  Counted(g, e)
    <2>1. CASE ~Action[e].delay
      <3>1. g = h
        BY <1>7, <2>1
      <3>2. \A z \in Zone : g.floors[e][z] = floor
        BY <1>4, <3>1
      <3>3. CASE CountReached(f, e)
        BY <1>1, <1>2, <1>11, <3>2, <3>3 DEF Counted
      <3>4. CASE ~CountReached(f, e)
        <4>1. \A z \in Zone : g.floors[e][z] = NoFloor
          BY <1>2, <3>2, <3>4
        <4>2. e \notin g.delays
          BY <1>4, <1>12, <2>1, <3>1 DEF OwnFloors
        <4> QED
          BY <1>11, <3>4, <4>1, <4>2 DEF Counted
      <3> QED
        BY <3>3, <3>4
    <2>2. CASE Action[e].delay /\ ~CountReached(f, e)
      BY <1>4, <1>5, <1>7, <1>11, <2>2 DEF Counted
    <2>3. CASE Action[e].delay /\ CountReached(f, e)
      <3>1. g.floors[e][FirstZone] = Action[e].floor \/ e \in g.delays
        BY <1>1, <1>6, <1>7, <1>12, <2>3 DEF OwnFloors
      <3> QED
        BY <1>11, <2>3, <3>1 DEF Counted
    <2> QED
      BY <2>1, <2>2, <2>3
  <1>13. KeepsCount(f, g, e)
    BY <1>9, <1>12 DEF KeepsCount
  <1> HIDE DEF g
  <1>14. g \in Acts(f)
    BY <1>8, <1>13, ActsByCount
  <1> QED
    BY <1>12, <1>14 DEF g

\* The delay holds the floor if the count is still reached.
LEMMA DelayExpiredActs ==
    ASSUME NEW f \in Sound, NEW e \in CountEvent, e \in f.delays
    PROVE  DelayExpired(f, e) \in Acts(f)
  <1> DEFINE floor == CountedFloor(f, e)
             h == HoldFloor(f, e, {FirstZone}, floor)
             g == [h EXCEPT !.delays = @ \ {e}]
             Only(x) == /\ x \in Sound /\ x.tree = f.tree /\ x.owned = f.owned /\ x.objects = f.objects
                        /\ x.targets = f.targets /\ x.timed = f.timed
                        /\ \A y \in Event : y # e => x.floors[y] = f.floors[y]
                        /\ \A y : y # e => (y \in x.delays <=> y \in f.delays)
  <1>1. e \in Event /\ Action[e].floor \in Nat /\ FirstZone \in Zone
    BY ActionsTyped, ControlActionsAssumption DEF IsAction, CountEvent, EventsOf
  <1>2. floor = (IF CountReached(f, e) THEN Action[e].floor ELSE NoFloor) /\ floor \in Nat \cup {NoFloor}
    BY <1>1 DEF CountedFloor
  <1> HIDE DEF floor
  <1>3. Only(h) /\ \A z \in Zone : h.floors[e][z] = IF z \in {FirstZone} THEN floor ELSE f.floors[e][z]
    BY <1>1, <1>2, HoldFloorSets
  <1> HIDE DEF h
  <1>4. Only(g) /\ g.floors = h.floors
    <2>1. OnlyDelay(h, g, e)
      BY <1>3, SetDelays
    <2> HIDE DEF g
    <2> QED
      BY <1>3, <2>1 DEF OnlyDelay
  <1>5. DelayExpired(f, e) = g
    BY DEF DelayExpired, h, floor
  <1> HIDE DEF g
  <1>6. OwnFloors(f, e) => OwnFloors(g, e)
    BY <1>2, <1>3, <1>4 DEF OwnFloors
  <1>7. SameFor(f, g, e)
    BY <1>4 DEF SameFor
  <1>8. CountReached(g, e) <=> CountReached(f, e)
    BY <1>7, SameReached
  <1>9. ASSUME Counted(f, e)
        PROVE  Counted(g, e)
    <2>1. CASE CountReached(f, e)
      BY <1>1, <1>2, <1>3, <1>4, <1>8, <2>1 DEF Counted
    <2>2. CASE ~CountReached(f, e)
      <3>1. ~\A o \in Members(e) : f.objects[o] # NoValue
        BY <1>9, <2>2 DEF Counted
      <3>2. ~\A o \in Members(e) : g.objects[o] # NoValue
        BY <1>4, <3>1
      <3> QED
        BY <1>8, <2>2, <3>2 DEF Counted
    <2> QED
      BY <2>1, <2>2
  <1>10. KeepsCount(f, g, e)
    BY <1>6, <1>9 DEF KeepsCount
  <1>11. g \in Acts(f)
    BY <1>4, <1>10, ActsByCount
  <1> QED
    BY <1>5, <1>11

\* The actions that hold a target or a floor.
LEMMA RunFloorActs ==
    ASSUME NEW f \in Sound, NEW e \in FloorEvent
    PROVE  /\ RunFloor(f, e) \in Acts(f)
           /\ Action[e].type = "missing" /\ Lacks(f, e) => Holding(RunFloor(f, e), e)
           /\ e \in CountEvent /\ OwnFloors(f, e) => Counted(RunFloor(f, e), e)
  <1>1. e \in Event /\ Action[e].type \in {"missing", "count", "mapped"}
    BY DEF FloorEvent, EventsOf
  <1>2. CASE Action[e].type = "missing"
    <2>1. RunFloor(f, e) = HoldMissing(f, e)
      BY <1>2 DEF RunFloor
    <2> QED
      BY <1>1, <1>2, <2>1, HoldMissingActs DEF CountEvent, EventsOf
  <1>3. CASE Action[e].type = "count"
    <2>1. RunFloor(f, e) = CountFloor(f, e)
      BY <1>3 DEF RunFloor
    <2> QED
      BY <1>1, <1>3, <2>1, CountFloorActs DEF CountEvent, EventsOf
  <1>4. CASE Action[e].type = "mapped"
    <2>1. RunFloor(f, e) = HoldFloor(f, e, Zone, MappedFloor(f, Action[e]))
      BY <1>4 DEF RunFloor
    <2>2. MappedFloor(f, Action[e]) \in Nat \cup {NoFloor}
      BY <1>1, <1>4, MappedFloorType
    <2> QED
      BY <1>1, <1>4, <2>1, <2>2, HoldFloorActs DEF CountEvent, EventsOf
  <1> QED
    BY <1>1, <1>2, <1>3, <1>4

LEMMA AddParameterTriggerActs ==
    ASSUME NEW f \in Sound, NEW e \in FloorEvent, NEW P \in SUBSET Param
    PROVE  AddParameterTrigger(f, e, P) \in Acts(f)
  <1> DEFINE triggers == f.triggers \cup {<<p, e>> : p \in P}
  <1>1. triggers \in SUBSET (Param \X FloorEvent)
    BY DEF Sound, DaemonState
  <1>2. AddParameterTrigger(f, e, P) = [f EXCEPT !.triggers = triggers]
    BY DEF AddParameterTrigger
  <1> HIDE DEF triggers
  <1>3. [f EXCEPT !.triggers = triggers] \in Acts(f)
    BY <1>1, FieldsAct
  <1> QED
    BY <1>2, <1>3, Zenon

\* The actions of a parameter, in any order, do not leave a set that none of
\* them leaves, and come to one that one of them leads to and none leaves.
LEMMA RunParameterActionsIn ==
    ASSUME NEW f \in Sound, NEW p, NEW X, [f EXCEPT !.faulted = @ \/ p \in f.dangling] \in X,
           \A t \in {t \in f.triggers : t[1] = p}, g \in X : RunFloor(g, t[2]) \in X
    PROVE  /\ RunParameterActions(f, p) \in X
           /\ \A t0 \in {t \in f.triggers : t[1] = p}, Y \in SUBSET X :
                 /\ \A g \in X : RunFloor(g, t0[2]) \in Y
                 /\ \A t \in {t \in f.triggers : t[1] = p}, g \in Y : RunFloor(g, t[2]) \in Y
                 => RunParameterActions(f, p) \in Y
  <1> DEFINE S == {t \in f.triggers : t[1] = p}
             b == [f EXCEPT !.faulted = @ \/ p \in f.dangling]
             first(s) == CHOOSE x \in s : TRUE
             c == [s \in SUBSET S |-> first(s)]
             step == [t \in S |-> [g \in X |-> RunFloor(g, t[2])]]
             Is(h) == h = [s \in SUBSET S |-> IF s = {} THEN b
                           ELSE RunFloor(h[s \ {first(s)}], first(s)[2])]
             fold == CHOOSE h : Is(h)
  <1>1. IsFiniteSet(S)
    <2>1. IsFiniteSet(Param) /\ IsFiniteSet(FloorEvent)
      BY ControlActionsAssumption, FS_Subset DEF FloorEvent, EventsOf
    <2>2. IsFiniteSet(Param \X FloorEvent)
      BY <2>1, FS_Product
    <2>3. S \subseteq Param \X FloorEvent
      BY DEF Sound, DaemonState
    <2> QED
      BY <2>2, <2>3, FS_Subset
  <1>2. b \in X /\ \A t \in S, g \in X : RunFloor(g, t[2]) \in X
    OBVIOUS
  <1>3. \A s \in SUBSET S : s # {} => first(s) \in s
    OBVIOUS
  <1>4. Closed(step, S, X) /\ Picks(c, S)
    BY <1>2, <1>3 DEF Closed, Picks
  <1>5. RunParameterActions(f, p) = fold[S]
    BY DEF RunParameterActions, FoldSet, MapThenFoldSet
  <1> HIDE DEF b, S
  <1>6. \E h : Is(h)
    <2> HIDE DEF step, c
    <2>1. PICK h : IsFold(h, S, X, b, c, step)
      BY <1>1, <1>2, <1>4, FoldExists
    <2>2. \A s \in SUBSET S : s # {} => first(s) \in S /\ h[s \ {first(s)}] \in X
      <3> HIDE DEF first
      <3> QED
        BY <1>3, <2>1 DEF IsFold
    <2>3. Is(h)
      <3> HIDE DEF first
      <3> QED
        BY <2>1, <2>2 DEF step, c, IsFold
    <2> QED
      BY <2>3
  <1>7. Is(fold)
    BY <1>6
  <1>8. /\ fold[{}] = b
        /\ \A s \in SUBSET S : s # {} => fold[s] = RunFloor(fold[s \ {first(s)}], first(s)[2])
    <2> HIDE DEF fold, first
    <2> QED
      BY <1>7
  <1> HIDE DEF fold
  <1>9. ASSUME NEW t0, NEW Y,
               t0 \in S => /\ Y \subseteq X /\ \A g \in X : RunFloor(g, t0[2]) \in Y
                           /\ \A t \in S, g \in Y : RunFloor(g, t[2]) \in Y
        PROVE  fold[S] \in X /\ (t0 \in S => fold[S] \in Y)
    <2> DEFINE P == {s \in SUBSET S : fold[s] \in X /\ (t0 \in s => fold[s] \in Y)}
    <2>1. {} \in P
      BY <1>2, <1>8
    <2>2. \A s \in SUBSET S : s # {} => \E x \in s : s \ {x} \in P => s \in P
      <3> SUFFICES ASSUME NEW s \in SUBSET S, s # {}, s \ {first(s)} \in P
                   PROVE  s \in P
        BY <1>3
      <3> DEFINE x == first(s)
                 g == fold[s \ {x}]
      <3>1. x \in S /\ x \in s /\ fold[s] = RunFloor(g, x[2])
        BY <1>3, <1>8
      <3>2. g \in X /\ (t0 \in s \ {x} => g \in Y)
        OBVIOUS
      <3> HIDE DEF x, g
      <3>3. fold[s] \in X
        BY <1>2, <3>1, <3>2
      <3>4. ASSUME t0 \in s
            PROVE  fold[s] \in Y
        <4>1. CASE t0 = x
          BY <1>9, <3>1, <3>2, <3>4, <4>1
        <4>2. CASE t0 # x
          BY <1>9, <3>1, <3>2, <3>4, <4>2
        <4> QED
          BY <4>1, <4>2
      <3> QED
        BY <3>3, <3>4
    <2> HIDE DEF P
    <2>3. \A s \in SUBSET S : s \in P
      BY <1>1, <2>1, <2>2, SubsetInduction
    <2> QED
      BY <2>3 DEF P
  <1>10. fold[S] \in X
    <2>1. CASE S = {}
      BY <1>2, <1>8, <2>1
    <2>2. CASE S # {}
      <3>1. PICK t0 : t0 \in S
        BY <2>2
      <3> QED
        BY <1>2, <1>9, <3>1
    <2> QED
      BY <2>1, <2>2
  <1>11. ASSUME NEW t0 \in S, NEW Y \in SUBSET X, \A g \in X : RunFloor(g, t0[2]) \in Y,
                \A t \in S, g \in Y : RunFloor(g, t[2]) \in Y
         PROVE  fold[S] \in Y
    BY <1>9, <1>11
  <1> QED
    BY <1>5, <1>10, <1>11 DEF S

LEMMA RunParameterActionsActs ==
    ASSUME NEW f \in Sound, NEW p
    PROVE  RunParameterActions(f, p) \in Acts(f)
  <1> DEFINE X == Acts(f)
             b == [f EXCEPT !.faulted = @ \/ p \in f.dangling]
  <1>1. b \in X
    <2>1. (f.faulted \/ p \in f.dangling) \in BOOLEAN
      OBVIOUS
    <2> QED
      BY <2>1, FieldsAct
  <1>2. ASSUME NEW t \in {t \in f.triggers : t[1] = p}, NEW g \in X
        PROVE  RunFloor(g, t[2]) \in X
    <2>1. g \in Sound /\ t[2] \in FloorEvent
      BY ActsRead DEF Sound, DaemonState
    <2>2. RunFloor(g, t[2]) \in Acts(g)
      BY <2>1, RunFloorActs
    <2> QED
      BY <2>2, ActsTrans
  <1> HIDE DEF X
  <1>3. RunParameterActions(f, p) \in X
    BY <1>1, <1>2, RunParameterActionsIn
  <1> QED
    BY <1>3 DEF X

LEMMA SetParameterActs ==
    ASSUME NEW f \in Sound, NEW p \in Param, NEW v \in Int \cup {NoValue}
    PROVE  SetParameter(f, p, v) \in Acts(f)
  <1> DEFINE params == [f.params EXCEPT ![p] = v]
             g == [f EXCEPT !.params = params]
  <1>1. params \in [Param -> Int \cup {NoValue}]
    BY DEF Sound, DaemonState
  <1>2. g \in Acts(f)
    <2> HIDE DEF params
    <2> QED
      BY <1>1, FieldsAct
  <1>3. SetParameter(f, p, v) \in {f, RunParameterActions(g, p)}
    BY DEF SetParameter
  <1> HIDE DEF g
  <1>4. g \in Sound
    BY <1>2, ActsRead
  <1>5. RunParameterActions(g, p) \in Acts(g)
    BY <1>4, RunParameterActionsActs
  <1>6. RunParameterActions(g, p) \in Acts(f)
    BY <1>2, <1>5, ActsTrans
  <1>7. f \in Acts(f)
    BY ActsRefl
  <1> QED
    BY <1>3, <1>6, <1>7

LEMMA SettleExpiredActs ==
    ASSUME NEW f \in Sound, BusTypeOK, NEW e \in EventsOf({"pcie"})
    PROVE  SettleExpired(f, e) \in Acts(f)
  <1> e \in Event /\ Action[e].type = "pcie"
    BY DEF EventsOf
  <1> DEFINE a == Action[e]
             inUse == Powered(f, a)
             cards == IF f.cards[e] # {} \/ inUse = {} THEN f.cards[e]
                      ELSE {CardIface(s) : s \in a.slots} \cap present
             g == [f EXCEPT !.settling = @ \ {e}]
             k == [g EXCEPT !.cards = [@ EXCEPT ![e] = cards]]
  <1>1. g \in Acts(f)
    BY SetSettling
  <1>2. g \in Sound /\ g.cards = f.cards
    BY <1>1, ActsRead DEF Sound, DaemonState
  <1>3. f.cards \in [Event -> SUBSET Iface] /\ present \in SUBSET Iface
    BY DEF Sound, DaemonState, BusTypeOK
  <1>4. cards \in SUBSET Iface
    BY <1>3
  <1>5. k \in Acts(g)
    <2> HIDE DEF cards, g
    <2>1. [g.cards EXCEPT ![e] = cards] \in [Event -> SUBSET Iface]
      BY <1>2, <1>3, <1>4
    <2> QED
      BY <1>2, <2>1, FieldsAct
  <1>6. k \in Acts(f)
    <2> HIDE DEF g, k
    <2> QED
      BY <1>1, <1>5, ActsTrans
  <1>7. SettleExpired(f, e) \in {k, SetParameter(k, a.param, FloorIndex(k, a))}
    BY DEF SettleExpired
  <1> HIDE DEF k
  <1>8. k \in Sound
    BY <1>6, ActsRead
  <1>9. FloorIndex(k, a) \in Int \cup {NoValue} /\ a.param \in Param
    BY FloorIndexType, ActionsTyped DEF IsAction
  <1>10. SetParameter(k, a.param, FloorIndex(k, a)) \in Acts(k)
    BY <1>8, <1>9, SetParameterActs
  <1>11. SetParameter(k, a.param, FloorIndex(k, a)) \in Acts(f)
    BY <1>6, <1>10, ActsTrans
  <1> QED
    BY <1>6, <1>7, <1>11

\* The target is held before the timer stops, unless no owner is missing.
LEMMA HoldAndStop ==
    ASSUME NEW f \in Sound, NEW e \in EventsOf({"timed"})
    PROVE  HoldMissing([f EXCEPT !.timed = @ \ {e}], e) \in Acts(f)
  <1> DEFINE off == [f EXCEPT !.timed = @ \ {e}]
             g == HoldMissing(off, e)
  <1>1. /\ off \in Sound /\ off.timed = f.timed \ {e} /\ off.targets = f.targets
        /\ off.tree = f.tree /\ off.owned = f.owned /\ off.objects = f.objects
        /\ off.floors = f.floors /\ off.delays = f.delays
    BY SetTimed
  <1> HIDE DEF off
  <1>2. g \in Acts(off) /\ (Lacks(off, e) => Holding(g, e))
    BY <1>1, HoldMissingActs DEF EventsOf
  <1> HIDE DEF g
  <1>3. g \in Sound /\ g.objects = f.objects
    BY <1>1, <1>2, ActsRead
  <1>4. KeepsHolds(off, g) /\ off.owned \subseteq g.owned /\ KeepsCounts(off, g)
    BY <1>2 DEF Acts, Reads, Learns
  <1>5. ASSUME NEW x \in OwnerEvent, Lacks(f, x), Holding(f, x)
        PROVE  Holding(g, x)
    <2>1. Lacks(off, x)
      BY <1>1, <1>5 DEF Lacks
    <2>2. CASE x = e
      BY <1>2, <2>1, <2>2
    <2>3. CASE x # e
      <3>1. Holding(off, x)
        BY <1>1, <1>5, <2>3 DEF Holding
      <3> QED
        BY <1>4, <2>1, <3>1 DEF KeepsHolds
    <2> QED
      BY <2>2, <2>3
  <1>6. KeepsHolds(f, g)
    BY <1>1, <1>4, <1>5 DEF KeepsHolds
  <1>7. KeepsCounts(f, g)
    <2>1. KeepsCounts(f, off)
      BY <1>1, SameCounts
    <2> QED
      BY <1>1, <1>3, <1>4, <2>1, KeepsCountsTrans
  <1>8. g \in Acts(f)
    BY <1>1, <1>3, <1>4, <1>6, <1>7 DEF Acts, Reads, Learns
  <1> QED
    BY <1>8 DEF g, off

LEMMA RunTimedActs ==
    ASSUME NEW f \in Sound, NEW e \in EventsOf({"timed"})
    PROVE  /\ RunTimed(f, e) \in Acts(f) /\ TimedExpired(f, e) \in Acts(f)
           /\ e \in OwnerEvent /\ Lacks(f, e) => Holding(RunTimed(f, e), e)
  <1> DEFINE on == [f EXCEPT !.timed = @ \cup {e}]
             off == [f EXCEPT !.timed = @ \ {e}]
  <1>1. /\ on \in Acts(f) /\ Holding(on, e)
        /\ off \in Sound /\ off.timed = f.timed \ {e} /\ off.targets = f.targets
        /\ off.tree = f.tree /\ off.owned = f.owned /\ off.objects = f.objects
        /\ off.floors = f.floors /\ off.delays = f.delays
    BY SetTimed
  <1>2. e \in OwnerEvent /\ Lacks(f, e) => StartsTimer(f, e)
    BY DEF OwnerEvent, EventsOf, StartsTimer, Lacks, MissingOwner, HasOwner
  <1>3. RunTimed(f, e) = IF StartsTimer(f, e) THEN on
                         ELSE IF e \in f.timed /\ Cardinality(Zone) = 1 THEN off
                         ELSE HoldMissing(off, e)
    BY DEF RunTimed
  <1>4. HoldMissing(off, e) \in Acts(f) /\ HoldMissing(f, e) \in Acts(f)
    BY HoldAndStop, HoldMissingActs DEF EventsOf
  <1>5. TimedExpired(f, e) \in {HoldMissing(off, e), HoldMissing(f, e)}
    <2>1. [f EXCEPT !.timed = f.timed] = f
      BY DEF Sound, DaemonState
    <2> QED
      BY <2>1 DEF TimedExpired
  <1> HIDE DEF on, off
  <1>6. ASSUME ~StartsTimer(f, e)
        PROVE  off \in Acts(f)
    <2>1. ASSUME NEW x \in OwnerEvent, Lacks(f, x), Holding(f, x)
          PROVE  Holding(off, x)
      <3>1. x # e
        BY <1>2, <1>6, <2>1
      <3> QED
        BY <1>1, <2>1, <3>1 DEF Holding
    <2> QED
      BY <1>1, <2>1, ActsByHolds
  <1> QED
    BY <1>1, <1>2, <1>3, <1>4, <1>5, <1>6

\* No action touches the cache of properties, and those of an event whose
\* target depends on owners hold it, or start the timer to do so.
LEMMA RunActs ==
    ASSUME NEW f \in Sound, NEW e \in Event
    PROVE  /\ Run(f, e) \in Acts(f)
           /\ e \in OwnerEvent /\ Lacks(f, e) => Holding(Run(f, e), e)
           /\ e \in CountEvent /\ OwnFloors(f, e) => Counted(Run(f, e), e)
  <1>1. Action[e].type \in {"missing", "count", "mapped", "param", "pcie", "timed"}
    BY ActionsTyped DEF IsAction
  <1>2. CASE Action[e].type = "param"
    <2>1. Run(f, e) = SetParameter(f, Action[e].param, GroupParameter(f, e))
      BY <1>2 DEF Run
    <2>2. Action[e].param \in Param
      BY <1>2, ActionsTyped DEF IsAction
    <2>3. GroupParameter(f, e) \in Int \cup {NoValue}
      BY <1>2, GroupParameterType
    <2> QED
      BY <1>2, <2>1, <2>2, <2>3, SetParameterActs DEF OwnerEvent, CountEvent, EventsOf
  <1>3. CASE Action[e].type = "pcie"
    <2>1. Run(f, e) = [f EXCEPT !.settling = @ \cup {e}]
      BY <1>3 DEF Run, StartSettling
    <2>2. [f EXCEPT !.settling = @ \cup {e}] \in Acts(f)
      BY <1>3, SetSettling DEF EventsOf
    <2> QED
      BY <1>3, <2>1, <2>2, Zenon DEF OwnerEvent, CountEvent, EventsOf
  <1>4. CASE Action[e].type = "timed"
    <2>1. Run(f, e) = RunTimed(f, e)
      BY <1>4 DEF Run
    <2> QED
      BY <1>4, <2>1, RunTimedActs DEF CountEvent, EventsOf
  <1>5. CASE Action[e].type \in {"missing", "count", "mapped"}
    <2>1. Run(f, e) = RunFloor(f, e)
      BY <1>5 DEF Run
    <2>2. e \in FloorEvent
      BY <1>5 DEF FloorEvent, EventsOf
    <2> QED
      BY <1>5, <2>1, <2>2, RunFloorActs DEF OwnerEvent
  <1> QED
    BY <1>1, <1>2, <1>3, <1>4, <1>5

\* A step of RunAll(), and of powerStateChanged().
RunOne(f, E, e) == IF e \in E THEN Run(f, e) ELSE f
ReadOne(f, E, e) == IF e \in E THEN Run(GetProperties(f, Group[e]), e) ELSE f

LEMMA RunAllIn ==
    ASSUME config \in Seq(Event), NEW E, NEW X, NEW b \in X,
           \A g \in X, x \in E \cap Range(config) : Run(g, x) \in X
    PROVE  /\ RunAll(b, E) \in X
           /\ \A e \in E \cap Range(config), Y \in SUBSET X :
                 /\ \A g \in X : Run(g, e) \in Y
                 /\ \A g \in Y, x \in E \cap Range(config) : Run(g, x) \in Y
                 => RunAll(b, E) \in Y
  <1> DEFINE S == DOMAIN config
             step == [k \in S |-> [f \in X |-> RunOne(f, E, config[k])]]
             Is(h) == h = [s \in SUBSET S |-> IF s = {} THEN b
                           ELSE RunOne(h[s \ {Max(s)}], E, config[Max(s)])]
             fold == CHOOSE h : Is(h)
  <1>1. \A k \in S : config[k] \in Range(config)
    BY DEF Range
  <1>2. \A k \in S, g \in X : RunOne(g, E, config[k]) \in X /\ step[k][g] = RunOne(g, E, config[k])
    BY <1>1 DEF RunOne
  <1>3. Closed(step, S, X)
    BY <1>2 DEF Closed
  <1>4. \A s \in SUBSET S : s # {} => Max(s) \in s /\ Max(s) \in S
    BY RangeFinite, MaxExists, FS_Subset
  <1>5. RunAll(b, E) = fold[S]
    BY DEF RunAll, RunOne, FoldLeft, MapThenFoldSet
  <1>6. \E h : Is(h)
    <2> HIDE DEF step
    <2>1. PICK h : IsFold(h, S, X, b, LastOf(S), step)
      BY <1>3, LeftFoldExists
    <2>2. Is(h)
      BY <1>2, <1>4, <2>1 DEF IsFold, LastOf
    <2> QED
      BY <2>2
  <1>7. Is(fold)
    BY <1>6
  <1>8. /\ fold[{}] = b
        /\ \A s \in SUBSET S : s # {} => fold[s] = RunOne(fold[s \ {Max(s)}], E, config[Max(s)])
    <2> HIDE DEF fold
    <2> QED
      BY <1>7
  <1> HIDE DEF fold
  <1>9. FoldsBy(fold, S, X, step)
    BY <1>2, <1>4, <1>8 DEF FoldsBy
  <1>10. /\ fold[S] \in X
         /\ \A k \in S, Y \in SUBSET X :
               (\A g \in X : step[k][g] \in Y) /\ Closed(step, S, Y) => fold[S] \in Y
    <2> HIDE DEF step
    <2> QED
      BY <1>3, <1>9, LeftFoldReaches
  <1> HIDE DEF step, S
  <1>11. ASSUME NEW e \in E \cap Range(config), NEW Y \in SUBSET X, \A g \in X : Run(g, e) \in Y,
                \A g \in Y, x \in E \cap Range(config) : Run(g, x) \in Y
         PROVE  fold[S] \in Y
    <2>1. PICK k \in S : config[k] = e
      BY DEF Range, S
    <2>2. \A g \in X : step[k][g] \in Y
      BY <1>2, <1>11, <2>1 DEF RunOne
    <2>3. Closed(step, S, Y)
      BY <1>1, <1>2, <1>11 DEF Closed, RunOne
    <2> QED
      BY <1>10, <2>1, <2>2, <2>3
  <1> QED
    BY <1>5, <1>10, <1>11

LEMMA ReadAndRunIn ==
    ASSUME config \in Seq(Event), NEW E, NEW X, d \in X,
           \A g \in X, x \in E \cap Range(config) : Run(GetProperties(g, Group[x]), x) \in X
    PROVE  /\ ReadAndRun(E) \in X
           /\ \A e \in E \cap Range(config), Y \in SUBSET X :
                 /\ \A g \in X : Run(GetProperties(g, Group[e]), e) \in Y
                 /\ \A g \in Y, x \in E \cap Range(config) : Run(GetProperties(g, Group[x]), x) \in Y
                 => ReadAndRun(E) \in Y
  <1> DEFINE S == DOMAIN config
             step == [k \in S |-> [f \in X |-> ReadOne(f, E, config[k])]]
             Is(h) == h = [s \in SUBSET S |-> IF s = {} THEN d
                           ELSE ReadOne(h[s \ {Max(s)}], E, config[Max(s)])]
             fold == CHOOSE h : Is(h)
  <1>1. \A k \in S : config[k] \in Range(config)
    BY DEF Range
  <1>2. \A k \in S, g \in X : ReadOne(g, E, config[k]) \in X /\ step[k][g] = ReadOne(g, E, config[k])
    BY <1>1 DEF ReadOne
  <1>3. Closed(step, S, X)
    BY <1>2 DEF Closed
  <1>4. \A s \in SUBSET S : s # {} => Max(s) \in s /\ Max(s) \in S
    BY RangeFinite, MaxExists, FS_Subset
  <1>5. ReadAndRun(E) = fold[S]
    BY DEF ReadAndRun, ReadOne, FoldLeft, MapThenFoldSet
  <1>6. \E h : Is(h)
    <2> HIDE DEF step
    <2>1. PICK h : IsFold(h, S, X, d, LastOf(S), step)
      BY <1>3, LeftFoldExists
    <2>2. Is(h)
      BY <1>2, <1>4, <2>1 DEF IsFold, LastOf
    <2> QED
      BY <2>2
  <1>7. Is(fold)
    BY <1>6
  <1>8. /\ fold[{}] = d
        /\ \A s \in SUBSET S : s # {} => fold[s] = ReadOne(fold[s \ {Max(s)}], E, config[Max(s)])
    <2> HIDE DEF fold
    <2> QED
      BY <1>7
  <1> HIDE DEF fold
  <1>9. FoldsBy(fold, S, X, step)
    BY <1>2, <1>4, <1>8 DEF FoldsBy
  <1>10. /\ fold[S] \in X
         /\ \A k \in S, Y \in SUBSET X :
               (\A g \in X : step[k][g] \in Y) /\ Closed(step, S, Y) => fold[S] \in Y
    <2> HIDE DEF step
    <2> QED
      BY <1>3, <1>9, LeftFoldReaches
  <1> HIDE DEF step, S
  <1>11. ASSUME NEW e \in E \cap Range(config), NEW Y \in SUBSET X,
                \A g \in X : Run(GetProperties(g, Group[e]), e) \in Y,
                \A g \in Y, x \in E \cap Range(config) : Run(GetProperties(g, Group[x]), x) \in Y
         PROVE  fold[S] \in Y
    <2>1. PICK k \in S : config[k] = e
      BY DEF Range, S
    <2>2. \A g \in X : step[k][g] \in Y
      BY <1>2, <1>11, <2>1 DEF ReadOne
    <2>3. Closed(step, S, Y)
      BY <1>1, <1>2, <1>11 DEF Closed, ReadOne
    <2> QED
      BY <1>10, <2>1, <2>2, <2>3
  <1> QED
    BY <1>5, <1>10, <1>11

LEMMA ReadRunReads ==
    ASSUME NEW f \in Sound, BusTypeOK, NEW e \in Event
    PROVE  Run(GetProperties(f, Group[e]), e) \in Reads(f)
  <1> DEFINE g == GetProperties(f, Group[e])
  <1>1. g \in Reads(f)
    BY ActionsTyped, GetPropertiesReads
  <1> HIDE DEF g
  <1>2. g \in Sound
    BY <1>1, ReadsLearn
  <1>3. Run(g, e) \in Reads(g)
    BY <1>2, RunActs, ActsRead
  <1>4. Run(g, e) \in Reads(f)
    BY <1>1, <1>3, ReadsTrans
  <1> QED
    BY <1>4 DEF g

\* The actions of some events of the configuration.
LEMMA RunAllActs ==
    ASSUME NEW b \in Sound, config \in Seq(Event), NEW E
    PROVE  /\ RunAll(b, E) \in Acts(b)
           /\ \A e \in OwnerEvent \cap E \cap Range(config) :
                 Lacks(b, e) => Holding(RunAll(b, E), e)
           /\ \A e \in CountEvent \cap E \cap Range(config) :
                 OwnFloors(b, e) => Counted(RunAll(b, E), e)
  <1> DEFINE X == Acts(b)
             Right(f, e) == /\ e \in OwnerEvent /\ Lacks(b, e) => Holding(f, e)
                            /\ e \in CountEvent /\ OwnFloors(b, e) => Counted(f, e)
  <1>1. ASSUME NEW f \in X, NEW e \in Event
        PROVE  /\ Run(f, e) \in X /\ Right(Run(f, e), e)
               /\ \A x : Right(f, x) => Right(Run(f, e), x)
    <2> DEFINE g == Run(f, e)
    <2>1. f \in Sound
      BY ActsRead
    <2>2. /\ g \in Acts(f)
          /\ e \in OwnerEvent /\ Lacks(f, e) => Holding(g, e)
          /\ e \in CountEvent /\ OwnFloors(f, e) => Counted(g, e)
      BY <2>1, RunActs
    <2> HIDE DEF g
    <2>3. KeepsHolds(b, f) /\ KeepsHolds(f, g)
      BY <2>2 DEF Acts, Reads, Learns
    <2>4. \A x : Lacks(b, x) => Lacks(f, x)
      BY <2>3 DEF KeepsHolds, Lacks
    <2>5. g \in X
      BY <2>2, ActsTrans
    <2>6. \A x \in CountEvent : OwnFloors(b, x) => OwnFloors(f, x)
      BY DEF Acts, Reads, Learns, KeepsCounts, KeepsCount
    <2>7. \A x \in CountEvent : OwnFloors(f, x) /\ Counted(f, x) => Counted(g, x)
      BY <2>2 DEF Acts, Reads, Learns, KeepsCounts, KeepsCount, SameFor
    <2>8. \A x : Right(f, x) => Right(g, x)
      <3>1. ASSUME NEW x, Right(f, x), x \in OwnerEvent, Lacks(b, x)
            PROVE  Holding(g, x)
        BY <2>3, <2>4, <3>1 DEF KeepsHolds
      <3>2. ASSUME NEW x, Right(f, x), x \in CountEvent, OwnFloors(b, x)
            PROVE  Counted(g, x)
        BY <2>6, <2>7, <3>2
      <3> QED
        BY <3>1, <3>2
    <2>9. Right(g, e)
      BY <2>2, <2>4, <2>6
    <2> HIDE DEF Right
    <2> QED
      BY <2>5, <2>8, <2>9 DEF g
  <1>2. b \in X /\ Range(config) \subseteq Event
    BY ActsRefl, RangeFinite
  <1> HIDE DEF X, Right
  <1>3. RunAll(b, E) \in X
    BY <1>1, <1>2, RunAllIn
  <1>4. ASSUME NEW e \in E \cap Range(config)
        PROVE  Right(RunAll(b, E), e)
    <2> DEFINE Y == {f \in X : Right(f, e)}
    <2>1. /\ Y \in SUBSET X
          /\ \A g \in X : Run(g, e) \in Y
          /\ \A g \in Y, x \in E \cap Range(config) : Run(g, x) \in Y
      BY <1>1, <1>2
    <2> HIDE DEF Y
    <2>2. RunAll(b, E) \in Y
      BY <1>1, <1>2, <2>1, RunAllIn
    <2> QED
      BY <2>2 DEF Y
  <1> QED
    BY <1>3, <1>4 DEF X, Right

\* powerStateChanged() reads the groups of the events, and runs their actions.
LEMMA ReadAndRunReads ==
    ASSUME d \in Sound, BusTypeOK, config \in Seq(Event), NEW E
    PROVE  ReadAndRun(E) \in Reads(d)
  <1> DEFINE X == Reads(d)
  <1>1. ASSUME NEW f \in X, NEW e \in Event
        PROVE  Run(GetProperties(f, Group[e]), e) \in X
    <2>1. f \in Sound
      BY ReadsLearn
    <2>2. Run(GetProperties(f, Group[e]), e) \in Reads(f)
      BY <2>1, ReadRunReads
    <2> QED
      BY <2>1, <2>2, ReadsTrans
  <1>2. d \in X /\ Range(config) \subseteq Event
    BY ActsRefl, ActsRead, RangeFinite
  <1> HIDE DEF X
  <1>3. ReadAndRun(E) \in X
    BY <1>1, <1>2, ReadAndRunIn
  <1> QED
    BY <1>3 DEF X

-----------------------------------------------------------------------------
(* Signals that wait                                                       *)

Message ==
    [type : {"changed"}, object : Object, value : Value \cup {NoValue}]
    \cup (UNION {[type : {"added"}, iface : {i}, values : [ObjectsOf(i) -> Value]] : i \in Iface})
    \cup [type : {"removed"}, iface : Iface]
    \cup [type : {"owner"}, service : Service, on : BOOLEAN]

\* Signal m says what the value of an object is, and which.
Tells(m, o) ==
    \/ m.type = "changed" /\ m.object = o
    \/ m.type \in {"added", "removed"} /\ m.iface = IfaceOf[o]
    \/ m.type = "owner" /\ ~m.on /\ m.service = ServiceOf[IfaceOf[o]]
Told(m, o) ==
    IF m.type = "changed" THEN m.value
    ELSE IF m.type = "added" THEN m.values[o] ELSE NoValue

\* The last signal of q that tells of o says b; without one the cached value x is b.
Shows(q, o, x, b) ==
    /\ (\A k \in 1..Len(q) : ~Tells(q[k], o)) => x = b
    /\ \A k \in 1..Len(q) :
          Tells(q[k], o) /\ (\A j \in 1..Len(q) : j > k => ~Tells(q[j], o)) => Told(q[k], o) = b

\* With the signals that wait the cache becomes what is on D-Bus, for each
\* object whose last change a handler saw or will see.
Followed == \A o \in Object : Known(o) => Shows(inbox, o, d.objects[o], bus[o])

CacheState == TypeOK /\ inbox \in Seq(Message) /\ Followed

LEMMA ShowsAppendSilent ==
    ASSUME NEW S, NEW q \in Seq(S), NEW m \in S, NEW o, NEW x, NEW b,
           Shows(q, o, x, b), ~Tells(m, o)
    PROVE  Shows(Append(q, m), o, x, b)
  <1> DEFINE r == Append(q, m)
  <1>1. Len(r) = Len(q) + 1 /\ r[Len(q) + 1] = m /\ Len(q) \in Nat
    OBVIOUS
  <1>2. \A k \in 1..Len(q) : r[k] = q[k]
    OBVIOUS
  <1> HIDE DEF r
  <1>3. \A k \in 1..Len(r) : k \in 1..Len(q) \/ k = Len(q) + 1
    BY <1>1
  <1>4. \A k \in 1..Len(q) : k \in 1..Len(r)
    BY <1>1
  <1>5. Shows(r, o, x, b)
    BY <1>1, <1>2, <1>3, <1>4 DEF Shows
  <1> QED
    BY <1>5 DEF r

LEMMA ShowsAppendTold ==
    ASSUME NEW S, NEW q \in Seq(S), NEW m \in S, NEW o, NEW x, NEW b,
           Tells(m, o), Told(m, o) = b
    PROVE  Shows(Append(q, m), o, x, b)
  <1> DEFINE r == Append(q, m)
  <1>1. Len(r) = Len(q) + 1 /\ r[Len(q) + 1] = m /\ Len(q) \in Nat
    OBVIOUS
  <1>2. Len(q) + 1 \in 1..Len(r) /\ \A k \in 1..Len(r) : k # Len(q) + 1 => Len(q) + 1 > k
    BY <1>1
  <1> HIDE DEF r
  <1>3. Shows(r, o, x, b)
    BY <1>1, <1>2 DEF Shows
  <1> QED
    BY <1>3 DEF r

LEMMA ShowsTailSilent ==
    ASSUME NEW S, NEW q \in Seq(S), q # <<>>, NEW o, NEW x, NEW b,
           Shows(q, o, x, b), ~Tells(Head(q), o)
    PROVE  Shows(Tail(q), o, x, b)
  <1> DEFINE r == Tail(q)
  <1>1. Len(r) = Len(q) - 1 /\ Len(q) \in Nat /\ Len(r) \in Nat /\ q[1] = Head(q)
    OBVIOUS
  <1>2. \A k \in 1..Len(r) : r[k] = q[k + 1] /\ k + 1 \in 1..Len(q)
    OBVIOUS
  <1> HIDE DEF r
  <1>3. \A k \in 1..Len(q) : k = 1 \/ (k - 1 \in 1..Len(r) /\ r[k - 1] = q[k])
    BY <1>1, <1>2
  <1>4. (\A k \in 1..Len(r) : ~Tells(r[k], o)) => x = b
    <2> SUFFICES ASSUME \A k \in 1..Len(r) : ~Tells(r[k], o)
                 PROVE  \A k \in 1..Len(q) : ~Tells(q[k], o)
      BY DEF Shows
    <2> QED
      BY <1>1, <1>3
  <1>5. ASSUME NEW k \in 1..Len(r), Tells(r[k], o),
               \A j \in 1..Len(r) : j > k => ~Tells(r[j], o)
        PROVE  Told(r[k], o) = b
    <2>1. k + 1 \in 1..Len(q) /\ Tells(q[k + 1], o) /\ r[k] = q[k + 1]
      BY <1>2, <1>5
    <2>2. ASSUME NEW j \in 1..Len(q), j > k + 1
          PROVE  ~Tells(q[j], o)
      <3>1. j - 1 \in 1..Len(r) /\ r[j - 1] = q[j] /\ j - 1 > k
        BY <1>1, <1>3, <2>2
      <3> QED
        BY <1>5, <3>1
    <2> QED
      BY <2>1, <2>2 DEF Shows
  <1>6. Shows(r, o, x, b)
    BY <1>4, <1>5 DEF Shows
  <1> QED
    BY <1>6 DEF r

LEMMA ShowsTailTold ==
    ASSUME NEW S, NEW q \in Seq(S), q # <<>>, NEW o, NEW x, NEW b,
           Shows(q, o, x, b), Tells(Head(q), o)
    PROVE  Shows(Tail(q), o, Told(Head(q), o), b)
  <1> DEFINE r == Tail(q)
             y == Told(Head(q), o)
  <1>1. /\ Len(r) = Len(q) - 1 /\ Len(q) \in Nat /\ Len(r) \in Nat /\ q[1] = Head(q)
        /\ 1 \in 1..Len(q)
    OBVIOUS
  <1>2. \A k \in 1..Len(r) : r[k] = q[k + 1] /\ k + 1 \in 1..Len(q)
    OBVIOUS
  <1>3. Tells(q[1], o) /\ y = Told(q[1], o)
    BY <1>1
  <1> HIDE DEF r, y
  <1>4. \A k \in 1..Len(q) : k = 1 \/ (k - 1 \in 1..Len(r) /\ r[k - 1] = q[k])
    BY <1>1, <1>2
  <1>5. (\A k \in 1..Len(r) : ~Tells(r[k], o)) => y = b
    <2> SUFFICES ASSUME \A k \in 1..Len(r) : ~Tells(r[k], o)
                 PROVE  \A j \in 1..Len(q) : j > 1 => ~Tells(q[j], o)
      BY <1>1, <1>3 DEF Shows
    <2> QED
      BY <1>1, <1>4
  <1>6. ASSUME NEW k \in 1..Len(r), Tells(r[k], o),
               \A j \in 1..Len(r) : j > k => ~Tells(r[j], o)
        PROVE  Told(r[k], o) = b
    <2>1. k + 1 \in 1..Len(q) /\ Tells(q[k + 1], o) /\ r[k] = q[k + 1]
      BY <1>2, <1>6
    <2>2. ASSUME NEW j \in 1..Len(q), j > k + 1
          PROVE  ~Tells(q[j], o)
      <3>1. j - 1 \in 1..Len(r) /\ r[j - 1] = q[j] /\ j - 1 > k
        BY <1>1, <1>4, <2>2
      <3> QED
        BY <1>6, <3>1
    <2> QED
      BY <2>1, <2>2 DEF Shows
  <1>7. Shows(r, o, y, b)
    BY <1>5, <1>6 DEF Shows
  <1> QED
    BY <1>7 DEF r, y

LEMMA ShowsRead ==
    ASSUME NEW q, NEW o, NEW x, NEW b, Shows(q, o, x, b), NEW y \in {x, b}
    PROVE  Shows(q, o, y, b)
  BY DEF Shows

LEMMA ShowsCurrent ==
    ASSUME NEW q \in Seq(Message), NEW o \in Object, NEW x,
           \A m \in Range(q) : o \notin About(m)
    PROVE  Shows(q, o, x, x)
  <1>1. ASSUME NEW m \in Message, o \notin About(m)
        PROVE  ~Tells(m, o)
    <2>1. m.type \in {"changed", "added", "removed", "owner"}
      BY DEF Message
    <2> QED
      BY <1>1, <2>1 DEF About, Tells, ObjectsOf, ObjectsOfService
  <1>2. \A k \in 1..Len(q) : q[k] \in Message /\ q[k] \in Range(q)
    BY DEF Range
  <1>3. \A k \in 1..Len(q) : ~Tells(q[k], o)
    BY <1>1, <1>2
  <1> QED
    BY <1>3 DEF Shows

LEMMA ShowsAtRest ==
    ASSUME NEW o, NEW x, NEW b, Shows(<<>>, o, x, b)
    PROVE  x = b
  <1>1. 1..Len(<<>>) = {}
    OBVIOUS
  <1> QED
    BY <1>1 DEF Shows

\* A signal that tells of an object is about it.
LEMMA TellsAbout ==
    ASSUME NEW m \in Message, NEW o \in Object, Tells(m, o)
    PROVE  o \in About(m)
  <1>1. m.type \in {"changed", "added", "removed", "owner"}
    BY DEF Message
  <1> QED
    BY <1>1 DEF About, Tells, ObjectsOf, ObjectsOfService

-----------------------------------------------------------------------------
(* What a step has to do so that the cache follows.                        *)

LEMMA StateTyped ==
    ASSUME CacheState
    PROVE  /\ BusTypeOK /\ d \in Sound /\ config \in Seq(Event)
           /\ bus \in [Object -> Value \cup {NoValue}]
           /\ d.objects \in [Object -> Value \cup {NoValue}]
  <1>1. config \in Seq(Event)
    <2>1. config \in Configs \cup {<<>>}
      BY DEF CacheState, TypeOK
    <2>2. \A c \in Configs : c \in Seq(Event)
      BY ControlEventsAssumption
    <2>3. <<>> \in Seq(Event)
      OBVIOUS
    <2> QED
      BY <2>1, <2>2, <2>3
  <1>2. BusTypeOK /\ d \in Sound
    BY DEF CacheState, TypeOK, Sound
  <1> QED
    BY <1>1, <1>2 DEF BusTypeOK, Sound, DaemonState

\* Objects that are known after a step are current, or were known, and their
\* change was not missed in the step.
LEMMA FollowKept ==
    ASSUME CacheState, inbox' \in Seq(Message), NEW objs, NEW left, Lose(objs), Drop(left),
           \A o \in Object : o \notin objs /\ o \notin left /\ Shows(inbox, o, d.objects[o], bus[o])
                             => Shows(inbox', o, d'.objects[o], bus'[o])
    PROVE  Followed'
  <1> SUFFICES ASSUME NEW o \in Object, o \notin lost', o \notin dropped'
               PROVE  Shows(inbox', o, d'.objects[o], bus'[o])
    BY DEF Followed, Known
  <1>1. CASE Current(o)'
    <2>1. d'.objects[o] = bus'[o] /\ \A m \in Range(inbox') : o \notin About(m)
      BY <1>1 DEF Current
    <2> QED
      BY <2>1, ShowsCurrent
  <1>2. CASE ~Current(o)'
    <2>1. o \notin lost /\ o \notin objs
      BY <1>2 DEF Lose
    <2>2. o \notin dropped /\ o \notin left
      BY <1>2 DEF Drop
    <2>3. Shows(inbox, o, d.objects[o], bus[o])
      BY <2>1, <2>2 DEF CacheState, Followed, Known
    <2> QED
      BY <2>1, <2>2, <2>3
  <1> QED
    BY <1>1, <1>2

\* Reading properties, and actions.
LEMMA ReadFollows ==
    ASSUME CacheState, NEW ran, Read(ran), d' \in Learns(d), UNCHANGED <<bus, inbox>>
    PROVE  Followed'
  <1>1. inbox' \in Seq(Message)
    BY DEF CacheState
  <1>2. Lose({}) /\ Drop({})
    BY DEF Read
  <1>3. ASSUME NEW o \in Object, Shows(inbox, o, d.objects[o], bus[o])
        PROVE  Shows(inbox', o, d'.objects[o], bus'[o])
    <2>1. d'.objects[o] \in {d.objects[o], bus[o]}
      BY DEF Learns
    <2>2. Shows(inbox, o, d'.objects[o], bus[o])
      BY <1>3, <2>1, ShowsRead
    <2> QED
      BY <2>2
  <1> QED
    BY <1>1, <1>2, <1>3, FollowKept

\* A step that changes neither the cache nor the services.
LEMMA SilentFollows ==
    ASSUME CacheState, d'.objects = d.objects, UNCHANGED <<bus, inbox, lost, dropped>>
    PROVE  Followed'
  <1> SUFFICES ASSUME NEW o \in Object, Known(o)'
               PROVE  Shows(inbox', o, d'.objects[o], bus'[o])
    BY DEF Followed
  <1>1. Known(o)
    BY DEF Known
  <1>2. Shows(inbox, o, d.objects[o], bus[o])
    BY <1>1 DEF CacheState, Followed
  <1> QED
    BY <1>2

\* A service that changes a property tells of it, if anybody listens.
LEMMA SendFollows ==
    ASSUME CacheState, NEW m \in Message, NEW heard \in BOOLEAN, Send(m, heard),
           \A o \in Object : bus'[o] = IF Tells(m, o) THEN Told(m, o) ELSE bus[o]
    PROVE  Followed' /\ inbox' \in Seq(Message)
  <1>1. inbox \in Seq(Message) /\ inbox' = IF heard THEN Append(inbox, m) ELSE inbox
    BY DEF CacheState, Send
  <1>2. inbox' \in Seq(Message)
    BY <1>1
  <1>3. Lose(IF heard THEN {} ELSE About(m)) /\ Drop({}) /\ d' = d
    BY DEF Send, daemonVars
  <1> DEFINE objs == IF heard THEN {} ELSE About(m)
  <1>4. ASSUME NEW o \in Object, o \notin objs, Shows(inbox, o, d.objects[o], bus[o])
        PROVE  Shows(inbox', o, d'.objects[o], bus'[o])
    <2>1. CASE heard /\ Tells(m, o)
      <3>1. Shows(Append(inbox, m), o, d.objects[o], bus'[o])
        BY <1>1, <2>1, ShowsAppendTold
      <3> QED
        BY <1>1, <1>3, <2>1, <3>1
    <2>2. CASE heard /\ ~Tells(m, o)
      <3>1. Shows(Append(inbox, m), o, d.objects[o], bus[o])
        BY <1>1, <1>4, <2>2, ShowsAppendSilent
      <3> QED
        BY <1>1, <1>3, <2>2, <3>1
    <2>3. CASE ~heard
      <3>1. ~Tells(m, o)
        BY <1>4, <2>3, TellsAbout
      <3> QED
        BY <1>1, <1>3, <1>4, <2>3, <3>1
    <2> QED
      BY <2>1, <2>2, <2>3
  <1> HIDE DEF objs
  <1>5. Lose(objs)
    BY <1>3 DEF objs
  <1>6. Followed'
    BY <1>2, <1>3, <1>4, <1>5, FollowKept
  <1> QED
    BY <1>2, <1>6

\* A handler stores what the signal tells of an object.
LEMMA HandlerFollows ==
    ASSUME CacheState, inbox # <<>>, inbox' = Tail(inbox), UNCHANGED bus,
           NEW objs, NEW left, Lose(objs), Drop(left),
           \A o \in Object : o \notin objs /\ o \notin left =>
              d'.objects[o] = IF Tells(Head(inbox), o) THEN Told(Head(inbox), o) ELSE d.objects[o]
    PROVE  Followed' /\ inbox' \in Seq(Message)
  <1>1. inbox \in Seq(Message)
    BY DEF CacheState
  <1>2. inbox' \in Seq(Message)
    BY <1>1
  <1>3. ASSUME NEW o \in Object, o \notin objs, o \notin left,
               Shows(inbox, o, d.objects[o], bus[o])
        PROVE  Shows(inbox', o, d'.objects[o], bus'[o])
    <2>1. CASE Tells(Head(inbox), o)
      <3>1. Shows(Tail(inbox), o, Told(Head(inbox), o), bus[o])
        BY <1>1, <1>3, <2>1, ShowsTailTold
      <3> QED
        BY <1>3, <2>1, <3>1
    <2>2. CASE ~Tells(Head(inbox), o)
      <3>1. Shows(Tail(inbox), o, d.objects[o], bus[o])
        BY <1>1, <1>3, <2>2, ShowsTailSilent
      <3> QED
        BY <1>3, <2>2, <3>1
    <2> QED
      BY <2>1, <2>2
  <1>4. Followed'
    BY <1>2, <1>3, FollowKept
  <1> QED
    BY <1>2, <1>4

-----------------------------------------------------------------------------
(* The services on D-Bus                                                   *)

\* What a service sends leaves the daemon as it is.
LEMMA SendTyped ==
    ASSUME CacheState, BusTypeOK', NEW m \in Message, NEW heard \in BOOLEAN, Send(m, heard),
           changes + reloads < MaxDisturbances
    PROVE  TypeOK'
  <1>1. inbox \in Seq(Message) /\ inbox' = IF heard THEN Append(inbox, m) ELSE inbox
    BY DEF CacheState, Send
  <1>2. Len(inbox') <= Len(inbox) + 1
    BY <1>1
  <1>3. /\ changes \in 0..MaxDisturbances /\ reloads \in 0..MaxDisturbances
        /\ Len(inbox) <= changes /\ MaxDisturbances \in Nat /\ Len(inbox) \in Nat
    BY <1>1, ControlEventsAssumption DEF CacheState, TypeOK
  <1>4. changes' = changes + 1 /\ reloads' = reloads /\ Len(inbox') \in Nat
    BY <1>1 DEF Send, daemonVars
  <1>5. {changes', reloads'} \subseteq 0..MaxDisturbances /\ Len(inbox') <= changes'
    BY <1>2, <1>3, <1>4
  <1>6. UNCHANGED <<status, power, config, todo, done, owners, timers, d>>
    BY DEF Send, daemonVars
  <1>7. Steps(config)' = Steps(config)
    BY <1>6 DEF Steps
  <1> QED
    BY <1>5, <1>6, <1>7 DEF CacheState, TypeOK

\* The services send signals.
LEMMA ServiceSends ==
    ASSUME CacheState, BusTypeOK', NEW m \in Message, NEW heard \in BOOLEAN, Send(m, heard),
           changes + reloads < MaxDisturbances,
           \A o \in Object : bus'[o] = IF Tells(m, o) THEN Told(m, o) ELSE bus[o]
    PROVE  CacheState'
  BY SendTyped, SendFollows DEF CacheState

LEMMA ChangeValueKeeps ==
    ASSUME CacheState, changes + reloads < MaxDisturbances,
           NEW o \in Object, NEW v \in Value \cup {NoValue}, ChangeValue(o, v)
    PROVE  CacheState'
  <1> DEFINE m == [type |-> "changed", object |-> o, value |-> v]
             heard == Watchers("changed", {o}) # {}
  <1>1. m \in Message /\ heard \in BOOLEAN
    BY DEF Message
  <1>2. bus' = [bus EXCEPT ![o] = v] /\ UNCHANGED <<up, present>> /\ Send(m, heard)
    BY DEF ChangeValue
  <1>3. BusTypeOK'
    BY <1>2, StateTyped DEF BusTypeOK
  <1>4. \A x \in Object : Tells(m, x) <=> x = o
    BY DEF Tells
  <1>5. \A x \in Object : Told(m, x) = v
    BY DEF Told
  <1>6. \A x \in Object : bus'[x] = IF x = o THEN v ELSE bus[x]
    BY <1>2, StateTyped
  <1> HIDE DEF m, heard
  <1>7. \A x \in Object : bus'[x] = IF Tells(m, x) THEN Told(m, x) ELSE bus[x]
    BY <1>4, <1>5, <1>6
  <1> QED
    BY <1>1, <1>2, <1>3, <1>7, ServiceSends

LEMMA AddIfaceKeeps ==
    ASSUME CacheState, changes + reloads < MaxDisturbances,
           NEW i \in Iface, NEW values \in [ObjectsOf(i) -> Value], AddIface(i, values)
    PROVE  CacheState'
  <1> DEFINE m == [type |-> "added", iface |-> i, values |-> values]
             heard == Watchers("added", ObjectsOf(i)) # {}
  <1>1. m \in Message /\ heard \in BOOLEAN
    BY DEF Message
  <1>2. /\ bus' = [x \in Object |-> IF IfaceOf[x] = i THEN values[x] ELSE bus[x]]
        /\ present' = present \cup {i} /\ up' = up /\ ServiceOf[i] \in up
        /\ Send(m, heard)
    BY DEF AddIface
  <1>3. \A x \in Object : IfaceOf[x] = i => values[x] \in Value
    BY DEF ObjectsOf
  <1>4. bus' \in [Object -> Value \cup {NoValue}]
    BY <1>2, <1>3, StateTyped
  <1>5. BusTypeOK'
    BY <1>2, <1>4, StateTyped DEF BusTypeOK
  <1>6. \A x \in Object : Tells(m, x) <=> IfaceOf[x] = i
    BY DEF Tells
  <1>7. \A x \in Object : Told(m, x) = values[x]
    BY DEF Told
  <1>8. \A x \in Object : bus'[x] = IF IfaceOf[x] = i THEN values[x] ELSE bus[x]
    BY <1>2
  <1> HIDE DEF m, heard
  <1>9. \A x \in Object : bus'[x] = IF Tells(m, x) THEN Told(m, x) ELSE bus[x]
    BY <1>6, <1>7, <1>8
  <1> QED
    BY <1>1, <1>2, <1>5, <1>9, ServiceSends

LEMMA RemoveIfaceKeeps ==
    ASSUME CacheState, changes + reloads < MaxDisturbances, NEW i \in Iface, RemoveIface(i)
    PROVE  CacheState'
  <1> DEFINE m == [type |-> "removed", iface |-> i]
             heard == Watchers("removed", ObjectsOf(i)) # {}
  <1>1. m \in Message /\ heard \in BOOLEAN
    BY DEF Message
  <1>2. /\ bus' = [x \in Object |-> IF IfaceOf[x] = i THEN NoValue ELSE bus[x]]
        /\ present' = present \ {i} /\ up' = up
        /\ Send(m, heard)
    BY DEF RemoveIface
  <1>3. BusTypeOK'
    BY <1>2, StateTyped DEF BusTypeOK
  <1>4. \A x \in Object : Tells(m, x) <=> IfaceOf[x] = i
    BY DEF Tells
  <1>5. \A x \in Object : Told(m, x) = NoValue
    BY DEF Told
  <1>6. \A x \in Object : bus'[x] = IF IfaceOf[x] = i THEN NoValue ELSE bus[x]
    BY <1>2
  <1> HIDE DEF m, heard
  <1>7. \A x \in Object : bus'[x] = IF Tells(m, x) THEN Told(m, x) ELSE bus[x]
    BY <1>4, <1>5, <1>6
  <1> QED
    BY <1>1, <1>2, <1>3, <1>7, ServiceSends

LEMMA ServiceStartsKeeps ==
    ASSUME CacheState, changes + reloads < MaxDisturbances, NEW s \in Service, ServiceStarts(s)
    PROVE  CacheState'
  <1> DEFINE m == [type |-> "owner", service |-> s, on |-> TRUE]
             heard == OwnerWatchers(s) # {}
  <1>1. m \in Message /\ heard \in BOOLEAN
    BY DEF Message
  <1>2. UNCHANGED <<present, bus>> /\ up' = up \cup {s} /\ Send(m, heard)
    BY DEF ServiceStarts
  <1>3. BusTypeOK'
    BY <1>2, StateTyped DEF BusTypeOK
  <1>4. \A x \in Object : ~Tells(m, x)
    BY DEF Tells
  <1> HIDE DEF m, heard
  <1>5. \A x \in Object : bus'[x] = IF Tells(m, x) THEN Told(m, x) ELSE bus[x]
    BY <1>2, <1>4
  <1> QED
    BY <1>1, <1>2, <1>3, <1>5, ServiceSends

LEMMA ServiceStopsKeeps ==
    ASSUME CacheState, changes + reloads < MaxDisturbances, NEW s \in Service, ServiceStops(s)
    PROVE  CacheState'
  <1> DEFINE m == [type |-> "owner", service |-> s, on |-> FALSE]
             heard == OwnerWatchers(s) # {}
  <1>1. m \in Message /\ heard \in BOOLEAN
    BY DEF Message
  <1>2. /\ bus' = [o \in Object |-> IF o \in ObjectsOfService(s) THEN NoValue ELSE bus[o]]
        /\ up' = up \ {s} /\ present' = {i \in present : ServiceOf[i] # s}
        /\ Send(m, heard)
    BY DEF ServiceStops
  <1>3. BusTypeOK'
    BY <1>2, StateTyped DEF BusTypeOK
  <1>4. \A x \in Object : Tells(m, x) <=> x \in ObjectsOfService(s)
    BY DEF Tells, ObjectsOfService
  <1>5. \A x \in Object : Told(m, x) = NoValue
    BY DEF Told
  <1>6. \A x \in Object : bus'[x] = IF x \in ObjectsOfService(s) THEN NoValue ELSE bus[x]
    BY <1>2
  <1> HIDE DEF m, heard
  <1>7. \A x \in Object : bus'[x] = IF Tells(m, x) THEN Told(m, x) ELSE bus[x]
    BY <1>4, <1>5, <1>6
  <1> QED
    BY <1>1, <1>2, <1>3, <1>7, ServiceSends

LEMMA EnvironmentKeeps ==
    ASSUME CacheState, Environment
    PROVE  CacheState'
  <1>1. changes + reloads < MaxDisturbances
    BY DEF Environment
  <1>2. CASE \E o \in Object, v \in Value \cup {NoValue} : ChangeValue(o, v)
    BY <1>1, <1>2, ChangeValueKeeps
  <1>3. CASE \E i \in Iface : \E values \in [ObjectsOf(i) -> Value] : AddIface(i, values)
    BY <1>1, <1>3, AddIfaceKeeps
  <1>4. CASE \E i \in Iface : RemoveIface(i)
    BY <1>1, <1>4, RemoveIfaceKeeps
  <1>5. CASE \E s \in Service : ServiceStarts(s) \/ ServiceStops(s)
    BY <1>1, <1>5, ServiceStartsKeeps, ServiceStopsKeeps
  <1> QED
    BY <1>2, <1>3, <1>4, <1>5 DEF Environment

-----------------------------------------------------------------------------
(* load()                                                                  *)

LEMMA StartTyped ==
    /\ NoDaemon \in Sound
    /\ d \in Sound => \A c : Renewed(c) \in Sound /\ Renewed(c).objects = d.objects
  <1>1. NoDaemon \in Sound
    BY DEF NoDaemon, Sound, DaemonState
  <1>2. ASSUME d \in Sound, NEW c
        PROVE  Renewed(c) \in Sound /\ Renewed(c).objects = d.objects
    <2> DEFINE dangling == d.dangling \cup {t[1] : t \in d.triggers}
    <2>1. dangling \in SUBSET Param
      BY <1>2 DEF Sound, DaemonState
    <2>2. Renewed(c) = [d EXCEPT !.triggers = {}, !.dangling = dangling,
                                 !.targets = {}, !.floors = NoDaemon.floors, !.delays = {},
                                 !.settling = {}, !.timed = {}, !.cards = NoDaemon.cards]
      BY DEF Renewed
    <2>3. NoDaemon.floors \in Floors /\ NoDaemon.cards \in [Event -> SUBSET Iface]
      BY DEF NoDaemon, Floors
    <2> DEFINE floors == NoDaemon.floors
               cards == NoDaemon.cards
               g == [d EXCEPT !.triggers = {}, !.dangling = dangling,
                              !.targets = {}, !.floors = floors, !.delays = {},
                              !.settling = {}, !.timed = {}, !.cards = cards]
    <2> HIDE DEF dangling, floors, cards
    <2>4. floors \in Floors /\ cards \in [Event -> SUBSET Iface]
      BY <2>3 DEF floors, cards
    <2>5. g \in Sound /\ g.objects = d.objects
      BY <1>2, <2>1, <2>4 DEF Sound, DaemonState, Floors
    <2> QED
      BY <2>2, <2>5 DEF floors, cards
  <1> QED
    BY <1>1, <1>2

LEMMA StartKeeps ==
    ASSUME CacheState, NEW c \in Configs, Start(c)
    PROVE  CacheState'
  <1>1. /\ status' = "loading" /\ config' = c /\ todo' = Steps(c) /\ done' = {} /\ owners' = {}
        /\ timers' = <<>> /\ reloads' = 0 /\ d' = NoDaemon /\ inbox' = <<>> /\ lost' = Object
        /\ UNCHANGED <<up, present, bus, power, changes>>
    BY DEF Start, Load, busVars
  <1>2. BusTypeOK'
    BY <1>1, StateTyped DEF BusTypeOK
  <1>3. d' \in Sound
    BY <1>1, StartTyped
  <1>4. /\ changes \in 0..MaxDisturbances /\ MaxDisturbances \in Nat /\ power \in BOOLEAN
        /\ Len(<<>>) = 0
    BY ControlEventsAssumption DEF CacheState, TypeOK
  <1>5. {changes', reloads'} \subseteq 0..MaxDisturbances /\ Len(inbox') <= changes'
    BY <1>1, <1>4
  <1>6. timers' \in Seq([event : Event, trigger : {"once", "repeat"}, armed : BOOLEAN])
    BY <1>1
  <1>7. todo' \subseteq Steps(config')
    BY <1>1
  <1>8. Steps(config') = Steps(config)'
    BY DEF Steps
  <1>9. TypeOK'
    BY <1>1, <1>2, <1>3, <1>4, <1>5, <1>6, <1>7, <1>8 DEF TypeOK, Sound
  <1>10. inbox' \in Seq(Message)
    BY <1>1
  <1>11. Followed'
    BY <1>1 DEF Followed, Known
  <1> QED
    BY <1>9, <1>10, <1>11 DEF CacheState

LEMMA SighupHandlerKeeps ==
    ASSUME CacheState, NEW c \in Configs, SighupHandler(c)
    PROVE  CacheState'
  <1>1. /\ status' = "loading" /\ config' = c /\ todo' = Steps(c) /\ done' = {} /\ owners' = {}
        /\ timers' = <<>> /\ reloads' = reloads + 1 /\ d' = Renewed(c)
        /\ changes + reloads < MaxDisturbances
        /\ UNCHANGED <<up, present, bus, power, changes, inbox, lost, dropped>>
    BY DEF SighupHandler, Load, busVars
  <1>2. BusTypeOK'
    BY <1>1, StateTyped DEF BusTypeOK
  <1>3. d \in Sound
    BY StateTyped
  <1>4. d' \in Sound /\ d'.objects = d.objects
    BY <1>1, <1>3, StartTyped
  <1>5. /\ changes \in 0..MaxDisturbances /\ reloads \in 0..MaxDisturbances
        /\ MaxDisturbances \in Nat /\ power \in BOOLEAN /\ Len(inbox) <= changes
    BY ControlEventsAssumption DEF CacheState, TypeOK
  <1>6. {changes', reloads'} \subseteq 0..MaxDisturbances /\ Len(inbox') <= changes'
    BY <1>1, <1>5
  <1>7. timers' \in Seq([event : Event, trigger : {"once", "repeat"}, armed : BOOLEAN])
    BY <1>1
  <1>8. todo' \subseteq Steps(config') /\ Steps(config') = Steps(config)'
    BY <1>1 DEF Steps
  <1>9. TypeOK'
    BY <1>1, <1>2, <1>4, <1>5, <1>6, <1>7, <1>8 DEF TypeOK, Sound
  <1>10. Followed'
    BY <1>1, <1>4, SilentFollows
  <1> QED
    BY <1>1, <1>9, <1>10 DEF CacheState

\* A trigger that is still to enable is one of an event of the configuration.
LEMMA StepsTyped ==
    ASSUME CacheState, NEW s \in todo
    PROVE  /\ s[1] \in DOMAIN config /\ s[2] \in DOMAIN Triggers[config[s[1]]]
           /\ config[s[1]] \in Event /\ config[s[1]] \in Range(config)
           /\ Contains(Triggers[config[s[1]]], Triggers[config[s[1]]][s[2]])
           /\ Triggers[config[s[1]]][s[2]] \in {"properties", "owners", "changed", "added", "removed",
                                               "owner", "param", "once", "repeat"}
  <1>1. s \in Steps(config)
    BY DEF CacheState, TypeOK
  <1>2. PICK k \in DOMAIN config : s \in {<<k, j>> : j \in {j \in DOMAIN Triggers[config[k]] :
                                                          ~OnPower(Triggers[config[k]][j])}}
    BY <1>1 DEF Steps
  <1>3. PICK j \in DOMAIN Triggers[config[k]] : s = <<k, j>> /\ ~OnPower(Triggers[config[k]][j])
    BY <1>2
  <1>4. config[k] \in Event /\ config[k] \in Range(config)
    BY StateTyped DEF Range
  <1>5. Triggers[config[k]] \in Seq({"properties", "owners", "changed", "added", "removed", "owner",
                                     "param", "once", "repeat", "poweron", "poweroff"})
    BY <1>4, ControlEventsAssumption
  <1>6. Contains(Triggers[config[k]], Triggers[config[k]][j])
    BY <1>5 DEF Contains
  <1>7. Triggers[config[k]][j] \in {"properties", "owners", "changed", "added", "removed",
                                    "owner", "param", "once", "repeat"}
    BY <1>3, <1>5 DEF OnPower
  <1> QED
    BY <1>3, <1>4, <1>6, <1>7

\* What a trigger does when it is enabled is reading and running actions.
LEMMA EnabledLearns ==
    ASSUME CacheState, NEW e \in Event, NEW t, Contains(Triggers[e], t)
    PROVE  Enabled(e, t) \in Learns(d)
  <1>1. BusTypeOK /\ d \in Sound /\ Group[e] \in Seq(Object)
    BY StateTyped, ActionsTyped
  <1>2. CASE t \in {"properties", "poweron", "poweroff"}
    <2>1. Enabled(e, t) = Run(GetProperties(d, Group[e]), e)
      BY <1>2 DEF Enabled
    <2> QED
      BY <1>1, <2>1, ReadRunReads, ReadsLearn
  <1>3. CASE t = "owners"
    <2> DEFINE g == NameHasOwner(d, Group[e])
    <2>1. g \in Learns(d)
      BY <1>1, NameHasOwnerLearns
    <2>2. Enabled(e, t) = Run(g, e)
      BY <1>3 DEF Enabled
    <2> HIDE DEF g
    <2>3. Run(g, e) \in Acts(g)
      BY <2>1, RunActs DEF Learns
    <2>4. Run(g, e) \in Learns(g)
      BY <2>3, ActsRead, ReadsLearn
    <2> QED
      BY <1>1, <2>1, <2>2, <2>4, LearnsTrans
  <1>4. CASE t = "owner"
    <2>1. Enabled(e, t) = GetServices(Group[e])
      BY <1>4 DEF Enabled
    <2> QED
      BY <1>1, <2>1, GetServicesActs, ActsRead, ReadsLearn
  <1>5. CASE t = "param"
    <2>1. Enabled(e, t) = AddParameterTrigger(d, e, ParamsOf[e])
      BY <1>5 DEF Enabled
    <2>2. e \in FloorEvent /\ ParamsOf[e] \in SUBSET Param
      BY <1>5, ControlEventsAssumption
    <2> QED
      BY <1>1, <2>1, <2>2, AddParameterTriggerActs, ActsRead, ReadsLearn
  <1>6. CASE t \notin {"properties", "poweron", "poweroff", "owners", "owner", "param"}
    <2>1. Enabled(e, t) = d
      BY <1>6 DEF Enabled
    <2> QED
      BY <1>1, <2>1, ActsRefl, ActsRead, ReadsLearn
  <1> QED
    BY <1>2, <1>3, <1>4, <1>5, <1>6

LEMMA EnableKeeps ==
    ASSUME CacheState, Enable
    PROVE  CacheState'
  <1> PICK s \in todo :
         LET e == config[s[1]]
             t == Triggers[e][s[2]]
         IN  /\ d' = Enabled(e, t) /\ done' = done \cup {<<e, t>>}
             /\ owners' = WatchOwners(e, t) /\ timers' = AddTimer(e, t)
             /\ todo' = todo \ {s} /\ Read({e})
    BY DEF Enable
  <1> DEFINE e == config[s[1]]
             t == Triggers[e][s[2]]
             Names == {"properties", "owners", "changed", "added", "removed",
                       "owner", "param", "once", "repeat"}
             Timer == [event : Event, trigger : {"once", "repeat"}, armed : BOOLEAN]
  <1>1. /\ d' = Enabled(e, t) /\ done' = done \cup {<<e, t>>} /\ owners' = WatchOwners(e, t)
        /\ timers' = AddTimer(e, t) /\ todo' = todo \ {s} /\ Read({e})
    OBVIOUS
  <1>2. UNCHANGED <<up, present, bus, power, changes, status, reloads, config, inbox>>
    BY DEF Enable, busVars
  <1>3. e \in Event /\ Contains(Triggers[e], t) /\ t \in Names
    BY StepsTyped
  <1> HIDE DEF e, t
  <1>4. d' \in Learns(d)
    BY <1>1, <1>3, EnabledLearns
  <1>5. d' \in Sound
    BY <1>4 DEF Learns
  <1>6. done' \subseteq {r \in Event \X Names : Contains(Triggers[r[1]], r[2])}
    <2>1. done \subseteq {r \in Event \X Names : Contains(Triggers[r[1]], r[2])}
      BY DEF CacheState, TypeOK
    <2> QED
      BY <1>1, <1>3, <2>1
  <1>7. owners' \subseteq Event \X Service
    <2>1. owners \subseteq Event \X Service
      BY DEF CacheState, TypeOK
    <2>2. \A o \in Members(e) : IfaceOf[o] \in Iface /\ ServiceOf[IfaceOf[o]] \in Service
      BY <1>3, ActionsTyped, ObjectCacheAssumption
    <2>3. {<<e, ServiceOf[i]>> : i \in {IfaceOf[o] : o \in Members(e)} \cap d'.tree}
            \subseteq Event \X Service
      BY <1>3, <2>2
    <2> QED
      BY <1>1, <2>1, <2>3 DEF WatchOwners
  <1>8. timers' \in Seq(Timer)
    <2>1. timers \in Seq(Timer)
      BY DEF CacheState, TypeOK
    <2>2. t \in {"once", "repeat"} => [event |-> e, trigger |-> t, armed |-> TRUE] \in Timer
      BY <1>3
    <2> HIDE DEF Timer
    <2> QED
      BY <1>1, <2>1, <2>2 DEF AddTimer
  <1>9. todo' \subseteq Steps(config) /\ Steps(config)' = Steps(config)
    BY <1>1, <1>2 DEF CacheState, TypeOK, Steps
  <1>10. TypeOK'
    <2>1. BusTypeOK'
      BY <1>2, StateTyped DEF BusTypeOK
    <2> QED
      BY <1>2, <1>5, <1>6, <1>7, <1>8, <1>9, <2>1 DEF CacheState, TypeOK, Sound
  <1>11. Followed'
    BY <1>1, <1>2, <1>4, ReadFollows
  <1> QED
    BY <1>2, <1>10, <1>11 DEF CacheState

\* A load that fails has asked for the members before the one it fails on.
LEMMA LoadFailsLearns ==
    ASSUME CacheState, LoadFails
    PROVE  d' \in Learns(d) /\ d'.objects = d.objects
  <1>1. PICK s \in todo :
         LET e == config[s[1]]
             t == Triggers[e][s[2]]
         IN  \E k \in DOMAIN Group[e] :
                LET before == SubSeq(Group[e], 1, k - 1)
                    f == IF t = "owners" THEN NameHasOwner(d, before) ELSE GetServices(before)
                IN  d' = f
    BY DEF LoadFails
  <1> DEFINE e == config[s[1]]
             t == Triggers[e][s[2]]
  <1>2. PICK k \in DOMAIN Group[e] :
            d' = IF t = "owners" THEN NameHasOwner(d, SubSeq(Group[e], 1, k - 1))
                 ELSE GetServices(SubSeq(Group[e], 1, k - 1))
    BY <1>1
  <1>3. e \in Event
    BY StepsTyped
  <1>4. BusTypeOK /\ d \in Sound /\ Group[e] \in Seq(Object)
    BY <1>3, StateTyped, ActionsTyped
  <1> HIDE DEF e, t
  <1>5. SubSeq(Group[e], 1, k - 1) \in Seq(Object)
    BY <1>4
  <1> QED
    BY <1>2, <1>4, <1>5, NameHasOwnerLearns, GetServicesActs, ActsRead, ReadsLearn

LEMMA LoadFailsKeeps ==
    ASSUME CacheState, LoadFails
    PROVE  CacheState'
  <1>1. d' \in Sound /\ d'.objects = d.objects
    BY LoadFailsLearns DEF Learns
  <1>2. /\ UNCHANGED <<up, present, bus, power, changes, reloads, config, done, owners, timers,
                       inbox, lost, dropped>>
        /\ status' \in {"off", "on"} /\ todo' = {}
    BY DEF LoadFails, busVars
  <1>3. BusTypeOK'
    BY <1>2, StateTyped DEF BusTypeOK
  <1>4. TypeOK'
    BY <1>1, <1>2, <1>3 DEF CacheState, TypeOK, Sound
  <1>5. Followed'
    BY <1>1, <1>2, SilentFollows
  <1> QED
    BY <1>2, <1>4, <1>5 DEF CacheState

LEMMA IdleKeeps ==
    ASSUME CacheState, Loaded \/ Dies \/ UNCHANGED vars
    PROVE  CacheState'
  <1>1. /\ UNCHANGED <<up, present, bus, power, changes, reloads, config, todo, done, owners, timers,
                       inbox, d, lost, dropped>>
        /\ status' \in {"off", "loading", "on"}
    BY DEF CacheState, TypeOK, Loaded, Dies, vars, busVars, daemonVars
  <1>2. BusTypeOK' /\ Steps(config)' = Steps(config)
    BY <1>1, StateTyped DEF BusTypeOK, Steps
  <1>3. TypeOK'
    BY <1>1, <1>2 DEF CacheState, TypeOK
  <1>4. Followed'
    BY <1>1, SilentFollows
  <1> QED
    BY <1>1, <1>3, <1>4 DEF CacheState

-----------------------------------------------------------------------------
(* handleSignal()                                                          *)

LEMMA MessageTyped ==
    ASSUME NEW m \in Message
    PROVE  /\ m.type \in {"changed", "added", "removed", "owner"}
           /\ m.type = "changed" => m.object \in Object /\ m.value \in Value \cup {NoValue}
           /\ m.type = "added" => m.iface \in Iface /\ m.values \in [ObjectsOf(m.iface) -> Value]
           /\ m.type = "removed" => m.iface \in Iface
           /\ m.type = "owner" => m.service \in Service /\ m.on \in BOOLEAN
  BY DEF Message

\* The actions of a handler leave what it has stored.
LEMMA HandledActs ==
    ASSUME CacheState, NEW f \in Sound, NEW E
    PROVE  RunAll(f, E) \in Sound /\ RunAll(f, E).objects = f.objects
  BY StateTyped, RunAllActs, ActsRead

LEMMA PropertiesChangedStores ==
    ASSUME CacheState, NEW m \in Message, PropertiesChanged(m)
    PROVE  /\ d' \in Sound
           /\ \E objs, left :
                /\ Lose(objs) /\ Drop(left)
                /\ \A o \in Object : o \notin objs /\ o \notin left =>
                      d'.objects[o] = IF Tells(m, o) THEN Told(m, o) ELSE d.objects[o]
  <1> DEFINE E == Watchers("changed", {m.object})
             objs == IF E = {} THEN {m.object} ELSE {}
             f == SetProperty(d, m.object, m.value)
  <1>1. /\ m.type = "changed" /\ d' = IF E = {} THEN d ELSE RunAll(f, E)
        /\ Lose(objs) /\ Drop({})
    BY DEF PropertiesChanged, Handled
  <1>2. \A o \in Object : (Tells(m, o) <=> o = m.object) /\ Told(m, o) = m.value
    BY <1>1 DEF Tells, Told
  <1>3. m.object \in Object /\ m.value \in Value \cup {NoValue} /\ d \in Sound
    BY <1>1, MessageTyped, StateTyped
  <1>4. /\ f \in Sound
        /\ \A o \in Object : f.objects[o] = IF o = m.object THEN m.value ELSE d.objects[o]
    BY <1>3, SetPropertySets
  <1>5. objs = IF E = {} THEN {m.object} ELSE {}
    OBVIOUS
  <1> HIDE DEF E, f, objs
  <1>6. RunAll(f, E) \in Sound /\ RunAll(f, E).objects = f.objects
    BY <1>4, HandledActs
  <1>7. d' \in Sound
    BY <1>1, <1>3, <1>6
  <1>8. \A o \in Object : o \notin objs /\ o \notin {} =>
            d'.objects[o] = IF Tells(m, o) THEN Told(m, o) ELSE d.objects[o]
    BY <1>1, <1>2, <1>4, <1>5, <1>6
  <1> QED
    BY <1>1, <1>7, <1>8

\* The object that interfacesAdded() stores is one of the interface.
LEMMA FirstObjectOf ==
    ASSUME CacheState, NEW i, NEW E, E = Watchers("added", ObjectsOf(i)), E # {}
    PROVE  FirstObject(FirstOf(E), i) \in ObjectsOf(i)
  <1> DEFINE K == {k \in DOMAIN config : config[k] \in E}
             e == FirstOf(E)
             J == {k \in DOMAIN Group[e] : IfaceOf[Group[e][k]] = i}
  <1>1. config \in Seq(Event)
    BY StateTyped
  <1>2. K # {}
    BY DEF Watchers, Range
  <1>3. Min(K) \in K
    BY <1>1, <1>2, FirstExists
  <1>4. e \in E /\ e \in Event
    BY <1>1, <1>3 DEF FirstOf
  <1>5. Members(e) \cap ObjectsOf(i) # {} /\ Group[e] \in Seq(Object)
    BY <1>4, ActionsTyped DEF Watchers
  <1> HIDE DEF e
  <1>6. J # {} /\ J \in SUBSET DOMAIN Group[e]
    BY <1>5 DEF Members, Range, ObjectsOf
  <1>7. Min(J) \in J
    <2> DEFINE q == Group[e]
    <2>1. q \in Seq(Object) /\ J \in SUBSET DOMAIN q
      BY <1>5, <1>6
    <2> HIDE DEF q, J
    <2> QED
      BY <1>6, <2>1, FirstExists
  <1>8. Min(J) \in DOMAIN Group[e] /\ IfaceOf[Group[e][Min(J)]] = i
    BY <1>7
  <1>9. Group[e][Min(J)] \in Object
    <2> DEFINE q == Group[e]
               n == Min(J)
    <2>1. q \in Seq(Object) /\ n \in DOMAIN q
      BY <1>5, <1>8
    <2> HIDE DEF q, n
    <2>2. q[n] \in Object
      BY <2>1
    <2> QED
      BY <2>2 DEF q, n
  <1>10. Group[e][Min(J)] \in ObjectsOf(i)
    BY <1>8, <1>9 DEF ObjectsOf
  <1> QED
    BY <1>10 DEF FirstObject, e

LEMMA InterfacesAddedStores ==
    ASSUME CacheState, NEW m \in Message, InterfacesAdded(m)
    PROVE  /\ d' \in Sound
           /\ \E objs, left :
                /\ Lose(objs) /\ Drop(left)
                /\ \A o \in Object : o \notin objs /\ o \notin left =>
                      d'.objects[o] = IF Tells(m, o) THEN Told(m, o) ELSE d.objects[o]
  <1> DEFINE E == Watchers("added", ObjectsOf(m.iface))
             first == FirstObject(FirstOf(E), m.iface)
             f == SetProperty(d, first, m.values[first])
             objs == IF E = {} THEN ObjectsOf(m.iface) ELSE {}
             left == IF E = {} THEN {} ELSE ObjectsOf(m.iface) \ {first}
  <1>1. /\ m.type = "added" /\ d' = IF E = {} THEN d ELSE RunAll(f, E)
        /\ Lose(objs) /\ Drop(left)
    BY DEF InterfacesAdded, Handled
  <1>2. \A o \in Object : (Tells(m, o) <=> o \in ObjectsOf(m.iface)) /\ Told(m, o) = m.values[o]
    BY <1>1 DEF Tells, Told, ObjectsOf
  <1>3. m.values \in [ObjectsOf(m.iface) -> Value] /\ d \in Sound
    BY <1>1, MessageTyped, StateTyped
  <1>4. E # {} => first \in ObjectsOf(m.iface) /\ first \in Object /\ m.values[first] \in Value
    BY <1>3, FirstObjectOf DEF ObjectsOf
  <1>5. E # {} =>
        /\ f \in Sound
        /\ \A o \in Object : f.objects[o] = IF o = first THEN m.values[first] ELSE d.objects[o]
    BY <1>3, <1>4, SetPropertySets
  <1>6. /\ objs = IF E = {} THEN ObjectsOf(m.iface) ELSE {}
        /\ left = IF E = {} THEN {} ELSE ObjectsOf(m.iface) \ {first}
    OBVIOUS
  <1> HIDE DEF E, f, objs, left, first
  <1>7. E # {} => RunAll(f, E) \in Sound /\ RunAll(f, E).objects = f.objects
    BY <1>5, HandledActs
  <1>8. d' \in Sound
    BY <1>1, <1>3, <1>7
  <1>9. \A o \in Object : o \notin objs /\ o \notin left =>
            d'.objects[o] = IF Tells(m, o) THEN Told(m, o) ELSE d.objects[o]
    BY <1>1, <1>2, <1>4, <1>5, <1>6, <1>7
  <1> QED
    BY <1>1, <1>8, <1>9

LEMMA InterfacesRemovedStores ==
    ASSUME CacheState, NEW m \in Message, InterfacesRemoved(m)
    PROVE  /\ d' \in Sound
           /\ \E objs, left :
                /\ Lose(objs) /\ Drop(left)
                /\ \A o \in Object : o \notin objs /\ o \notin left =>
                      d'.objects[o] = IF Tells(m, o) THEN Told(m, o) ELSE d.objects[o]
  <1> DEFINE E == Watchers("removed", ObjectsOf(m.iface))
             f == RemoveInterface(d, m.iface)
             objs == IF E = {} THEN ObjectsOf(m.iface) ELSE {}
  <1>1. /\ m.type = "removed" /\ d' = IF E = {} THEN d ELSE RunAll(f, E)
        /\ Lose(objs) /\ Drop({})
    BY DEF InterfacesRemoved, Handled
  <1>2. \A o \in Object : (Tells(m, o) <=> IfaceOf[o] = m.iface) /\ Told(m, o) = NoValue
    BY <1>1 DEF Tells, Told
  <1>3. d \in Sound
    BY StateTyped
  <1>4. /\ f \in Sound
        /\ \A o \in Object : f.objects[o] = IF IfaceOf[o] = m.iface THEN NoValue ELSE d.objects[o]
    BY <1>3, RemoveInterfaceSets
  <1>5. E = {} => \A o \in Object : IfaceOf[o] = m.iface => o \in objs
    BY DEF ObjectsOf
  <1> HIDE DEF E, f, objs
  <1>6. RunAll(f, E) \in Sound /\ RunAll(f, E).objects = f.objects
    BY <1>4, HandledActs
  <1>7. d' \in Sound
    BY <1>1, <1>3, <1>6
  <1>8. \A o \in Object : o \notin objs /\ o \notin {} =>
            d'.objects[o] = IF Tells(m, o) THEN Told(m, o) ELSE d.objects[o]
    BY <1>1, <1>2, <1>4, <1>5, <1>6
  <1> QED
    BY <1>1, <1>7, <1>8

LEMMA NameOwnerChangedStores ==
    ASSUME CacheState, NEW m \in Message, NameOwnerChanged(m)
    PROVE  /\ d' \in Sound
           /\ \E objs, left :
                /\ Lose(objs) /\ Drop(left)
                /\ \A o \in Object : o \notin objs /\ o \notin left =>
                      d'.objects[o] = IF Tells(m, o) THEN Told(m, o) ELSE d.objects[o]
  <1> DEFINE E == OwnerWatchers(m.service)
             f == SetOwner(d, m.service, m.on)
             objs == {o \in ObjectsOfService(m.service) :
                          ~m.on /\ (E = {} \/ IfaceOf[o] \notin d.tree)}
  <1>1. /\ m.type = "owner" /\ d' = IF E = {} THEN d ELSE RunAll(f, E)
        /\ Lose(objs) /\ Drop({})
    BY DEF NameOwnerChanged, Handled
  <1>2. \A o \in Object : /\ Tells(m, o) <=> ~m.on /\ m.service = ServiceOf[IfaceOf[o]]
                          /\ Told(m, o) = NoValue
    BY <1>1 DEF Tells, Told
  <1>3. d \in Sound /\ m.on \in BOOLEAN
    BY <1>1, MessageTyped, StateTyped
  <1>4. /\ f \in Sound
        /\ \A o \in Object : f.objects[o] =
                IF ~m.on /\ IfaceOf[o] \in d.tree /\ ServiceOf[IfaceOf[o]] = m.service
                THEN NoValue ELSE d.objects[o]
    <2> DEFINE s == m.service
               on == m.on
    <2>1. on \in BOOLEAN /\ f = SetOwner(d, s, on)
      BY <1>3
    <2> HIDE DEF s, on, f
    <2>2. /\ f \in Sound
          /\ \A o \in Object : f.objects[o] =
                IF ~on /\ IfaceOf[o] \in d.tree /\ ServiceOf[IfaceOf[o]] = s
                THEN NoValue ELSE d.objects[o]
      BY <1>3, <2>1, SetOwnerSets
    <2> QED
      BY <2>2 DEF s, on
  <1>5. \A o \in Object : ~m.on /\ ServiceOf[IfaceOf[o]] = m.service
                          /\ (E = {} \/ IfaceOf[o] \notin d.tree) => o \in objs
    BY DEF ObjectsOfService
  <1> HIDE DEF E, f, objs
  <1>6. RunAll(f, E) \in Sound /\ RunAll(f, E).objects = f.objects
    BY <1>4, HandledActs
  <1>7. d' \in Sound
    BY <1>1, <1>3, <1>6
  <1>8. ASSUME NEW o \in Object, o \notin objs
        PROVE  d'.objects[o] = IF Tells(m, o) THEN Told(m, o) ELSE d.objects[o]
    <2>1. CASE E = {}
      BY <1>1, <1>2, <1>5, <1>8, <2>1
    <2>2. CASE E # {}
      BY <1>1, <1>2, <1>4, <1>5, <1>6, <1>8, <2>2
    <2> QED
      BY <2>1, <2>2
  <1> QED
    BY <1>1, <1>7, <1>8

LEMMA HandleSignalKeeps ==
    ASSUME CacheState, HandleSignal
    PROVE  CacheState'
  <1> DEFINE m == Head(inbox)
  <1>1. /\ inbox # <<>> /\ inbox' = Tail(inbox)
        /\ UNCHANGED <<up, present, bus, power, changes, status, reloads, config, todo, done,
                       owners, timers>>
        /\ PropertiesChanged(m) \/ InterfacesAdded(m) \/ InterfacesRemoved(m) \/ NameOwnerChanged(m)
    BY DEF HandleSignal, busVars
  <1>2. inbox \in Seq(Message)
    BY DEF CacheState
  <1>3. m \in Message
    BY <1>1, <1>2
  <1> HIDE DEF m
  <1>4. /\ d' \in Sound
        /\ \E objs, left :
                /\ Lose(objs) /\ Drop(left)
                /\ \A o \in Object : o \notin objs /\ o \notin left =>
                      d'.objects[o] = IF Tells(m, o) THEN Told(m, o) ELSE d.objects[o]
    BY <1>1, <1>3, PropertiesChangedStores, InterfacesAddedStores, InterfacesRemovedStores,
       NameOwnerChangedStores
  <1>5. PICK objs, left :
                /\ Lose(objs) /\ Drop(left)
                /\ \A o \in Object : o \notin objs /\ o \notin left =>
                      d'.objects[o] = IF Tells(m, o) THEN Told(m, o) ELSE d.objects[o]
    BY <1>4
  <1>6. Followed' /\ inbox' \in Seq(Message)
    BY <1>1, <1>5, HandlerFollows DEF m
  <1>7. Len(inbox') <= changes'
    <2>1. Len(inbox') <= Len(inbox) /\ Len(inbox) \in Nat /\ Len(inbox') \in Nat
      BY <1>1, <1>2
    <2>2. Len(inbox) <= changes /\ changes \in Nat
      BY DEF CacheState, TypeOK
    <2> QED
      BY <1>1, <2>1, <2>2
  <1>8. BusTypeOK' /\ Steps(config)' = Steps(config)
    BY <1>1, StateTyped DEF BusTypeOK, Steps
  <1>9. TypeOK'
    BY <1>1, <1>4, <1>7, <1>8 DEF CacheState, TypeOK, Sound
  <1> QED
    BY <1>6, <1>9 DEF CacheState

-----------------------------------------------------------------------------
(* Timers and power changes                                                *)

TimersOf(S) == [event : S, trigger : {"once", "repeat"}, armed : BOOLEAN]
Timer == TimersOf(Event)

\* A timer that expires is removed, or an earlier one of its event.
LEMMA TimersTyped ==
    ASSUME NEW S, timers \in Seq(TimersOf(S)), NEW k \in DOMAIN timers, TimerExpired(k)
    PROVE  timers' \in Seq(TimersOf(S)) /\ timers[k].event \in S
  <1> DEFINE t == timers[k]
             same == {j \in DOMAIN timers : timers[j].event = t.event /\ timers[j].trigger = "once"}
             rest == [timers EXCEPT ![k].armed = (t.trigger = "repeat")]
             armed == [t EXCEPT !.armed = (t.trigger = "repeat")]
             n == Min(same)
  <1>1. t \in TimersOf(S)
    OBVIOUS
  <1>2. armed \in TimersOf(S)
    BY <1>1 DEF TimersOf
  <1>3. rest = [timers EXCEPT ![k] = armed]
    OBVIOUS
  <1>4. rest \in Seq(TimersOf(S)) /\ DOMAIN rest = DOMAIN timers
    <2> HIDE DEF t, armed
    <2> QED
      BY <1>2, <1>3
  <1>5. t.trigger = "once" => n \in DOMAIN rest
    <2> SUFFICES ASSUME t.trigger = "once"
                 PROVE  n \in DOMAIN timers
      BY <1>4
    <2>1. same # {} /\ same \in SUBSET DOMAIN timers
      OBVIOUS
    <2> HIDE DEF same
    <2>2. Min(same) \in same
      BY <2>1, FirstExists
    <2> QED
      BY <2>1, <2>2
  <1>6. timers' = IF t.trigger = "once" THEN RemoveAt(rest, n) ELSE timers
    BY DEF TimerExpired
  <1>7. t.trigger = "once" => RemoveAt(rest, n) \in Seq(TimersOf(S))
    <2> HIDE DEF rest, n, t
    <2> SUFFICES ASSUME n \in DOMAIN rest, rest \in Seq(TimersOf(S))
                 PROVE  RemoveAt(rest, n) \in Seq(TimersOf(S))
      BY <1>4, <1>5
    <2>1. SubSeq(rest, 1, n - 1) \in Seq(TimersOf(S)) /\ SubSeq(rest, n + 1, Len(rest)) \in Seq(TimersOf(S))
      OBVIOUS
    <2> QED
      BY <2>1 DEF RemoveAt
  <1>8. t.event \in S
    BY <1>1 DEF TimersOf
  <1> HIDE DEF t
  <1> QED
    BY <1>6, <1>7, <1>8 DEF t

\* What the daemon runs outside of a load or a signal keeps the cache.
LEMMA RanKeeps ==
    ASSUME CacheState, NEW g \in Reads(d), NEW ran, Ran(g, ran), timers' \in Seq(Timer),
           power' \in BOOLEAN, changes' \in 0..MaxDisturbances, changes <= changes'
    PROVE  CacheState'
  <1>1. /\ d' = g /\ Read(ran)
        /\ UNCHANGED <<up, present, bus, status, reloads, config, todo, done, owners, inbox>>
    BY DEF Ran, busVars
  <1>2. d' \in Sound /\ d' \in Learns(d)
    BY <1>1, ReadsLearn
  <1>3. Len(inbox') <= changes'
    <2>1. Len(inbox) \in Nat /\ Len(inbox) <= changes /\ changes \in Nat /\ changes' \in Nat
      BY ControlEventsAssumption DEF CacheState, TypeOK
    <2> QED
      BY <1>1, <2>1
  <1>4. BusTypeOK' /\ Steps(config)' = Steps(config)
    BY <1>1, StateTyped DEF BusTypeOK, Steps
  <1>5. TypeOK'
    BY <1>1, <1>2, <1>3, <1>4 DEF CacheState, TypeOK, Sound, Timer, TimersOf
  <1>6. Followed'
    BY <1>1, <1>2, ReadFollows
  <1> QED
    BY <1>1, <1>5, <1>6 DEF CacheState

\* What runs when a timer expires.
LEMMA TimerExpiredReads ==
    ASSUME CacheState, NEW k \in DOMAIN timers, TimerExpired(k)
    PROVE  /\ \E g \in Reads(d) :
                 /\ Ran(g, {timers[k].event})
                 /\ \A e \in CountEvent \cap {timers[k].event} : OwnFloors(d, e) => Counted(g, e)
           /\ timers' \in Seq(Timer) /\ UNCHANGED <<power, changes>>
  <1> DEFINE e == timers[k].event
             g == IF e \in Preloads THEN AddGroups(d, Group[e]) ELSE d
  <1>1. timers \in Seq(Timer)
    BY DEF CacheState, TypeOK, Timer, TimersOf
  <1>2. timers' \in Seq(Timer) /\ e \in Event
    BY <1>1, TimersTyped DEF Timer
  <1>3. Ran(Run(g, e), {e}) /\ UNCHANGED <<power, changes>>
    BY DEF TimerExpired
  <1> HIDE DEF e
  <1>4. d \in Sound /\ BusTypeOK /\ Group[e] \in Seq(Object)
    BY <1>2, StateTyped, ActionsTyped
  <1>5. g \in Reads(d)
    BY <1>4, AddGroupsReads, ActsRefl, ActsRead
  <1> HIDE DEF g
  <1>6. g \in Sound
    BY <1>5, ReadsLearn
  <1>7. Run(g, e) \in Reads(g)
    BY <1>2, <1>6, RunActs, ActsRead
  <1>8. Run(g, e) \in Reads(d)
    BY <1>4, <1>5, <1>7, ReadsTrans
  <1>9. ASSUME e \in CountEvent, OwnFloors(d, e)
        PROVE  Counted(Run(g, e), e)
    <2>1. OwnFloors(g, e)
      BY <1>5, <1>9 DEF Reads, Learns, KeepsCounts, KeepsCount
    <2> QED
      BY <1>2, <1>6, <1>9, <2>1, RunActs
  <1>10. \E h \in Reads(d) : /\ Ran(h, {e})
                             /\ \A x \in CountEvent \cap {e} : OwnFloors(d, x) => Counted(h, x)
    BY <1>3, <1>8, <1>9
  <1> QED
    BY <1>2, <1>3, <1>10 DEF e

LEMMA TimerExpiredKeeps ==
    ASSUME CacheState, NEW k \in DOMAIN timers, TimerExpired(k)
    PROVE  CacheState'
  <1>1. PICK g \in Reads(d) : Ran(g, {timers[k].event})
    BY TimerExpiredReads
  <1>2. timers' \in Seq(Timer) /\ UNCHANGED <<power, changes>>
    BY TimerExpiredReads
  <1>3. changes \in 0..MaxDisturbances /\ power \in BOOLEAN /\ MaxDisturbances \in Nat
    BY ControlEventsAssumption DEF CacheState, TypeOK
  <1>4. power' \in BOOLEAN /\ changes' \in 0..MaxDisturbances /\ changes <= changes'
    BY <1>2, <1>3
  <1> QED
    BY <1>1, <1>2, <1>4, RanKeeps

LEMMA ActionTimerExpiredReads ==
    ASSUME CacheState, NEW e \in Event, ActionTimerExpired(e)
    PROVE  \E g \in Reads(d) : Ran(g, {})
  <1>1. d \in Sound /\ BusTypeOK
    BY StateTyped
  <1>2. PICK g : Ran(g, {}) /\ \/ e \in d.delays /\ g = DelayExpired(d, e)
                               \/ e \in d.settling /\ g = SettleExpired(d, e)
                               \/ e \in d.timed /\ g = TimedExpired(d, e)
    BY DEF ActionTimerExpired
  <1>3. g \in Acts(d)
    <2>1. CASE e \in d.delays /\ g = DelayExpired(d, e)
      <3>1. e \in CountEvent
        BY <1>1, <2>1 DEF Sound, DaemonState, CountEvent
      <3> QED
        BY <1>1, <2>1, <3>1, DelayExpiredActs
    <2>2. CASE e \in d.settling /\ g = SettleExpired(d, e)
      <3>1. e \in EventsOf({"pcie"})
        BY <1>1, <2>2 DEF Sound, DaemonState
      <3> QED
        BY <1>1, <2>2, <3>1, SettleExpiredActs
    <2>3. CASE e \in d.timed /\ g = TimedExpired(d, e)
      <3>1. e \in EventsOf({"timed"})
        BY <1>1, <2>3 DEF Sound, DaemonState
      <3> QED
        BY <1>1, <2>3, <3>1, RunTimedActs
    <2> QED
      BY <1>2, <2>1, <2>2, <2>3
  <1>4. g \in Reads(d)
    BY <1>1, <1>3, ActsRead
  <1> QED
    BY <1>2, <1>4

LEMMA ActionTimerExpiredKeeps ==
    ASSUME CacheState, NEW e \in Event, ActionTimerExpired(e)
    PROVE  CacheState'
  <1>1. PICK g \in Reads(d) : Ran(g, {})
    BY ActionTimerExpiredReads
  <1>2. UNCHANGED <<power, changes, timers>>
    BY DEF ActionTimerExpired
  <1>3. /\ changes \in 0..MaxDisturbances /\ power \in BOOLEAN /\ MaxDisturbances \in Nat
        /\ timers \in Seq(Timer)
    BY ControlEventsAssumption DEF CacheState, TypeOK, Timer, TimersOf
  <1>4. /\ power' \in BOOLEAN /\ changes' \in 0..MaxDisturbances /\ changes <= changes'
        /\ timers' \in Seq(Timer)
    BY <1>2, <1>3
  <1> QED
    BY <1>1, <1>4, RanKeeps

LEMMA PowerStateChangedKeeps ==
    ASSUME CacheState, PowerStateChanged
    PROVE  CacheState'
  <1>1. /\ Ran(ReadAndRun(PowerEvents(~power)), PowerEvents(~power))
        /\ changes' = changes + 1 /\ power' = ~power /\ timers' = timers
        /\ changes + reloads < MaxDisturbances
    BY DEF PowerStateChanged
  <1>2. ReadAndRun(PowerEvents(~power)) \in Reads(d)
    BY StateTyped, ReadAndRunReads
  <1>3. /\ changes \in 0..MaxDisturbances /\ reloads \in 0..MaxDisturbances
        /\ MaxDisturbances \in Nat /\ timers \in Seq(Timer)
    BY ControlEventsAssumption DEF CacheState, TypeOK, Timer, TimersOf
  <1>4. changes' \in 0..MaxDisturbances /\ changes <= changes' /\ timers' \in Seq(Timer)
    BY <1>1, <1>3
  <1>5. power' \in BOOLEAN
    BY <1>1
  <1> QED
    BY <1>1, <1>2, <1>4, <1>5, RanKeeps

-----------------------------------------------------------------------------
LEMMA CacheStateInit == Init => CacheState
  <1> SUFFICES ASSUME Init
               PROVE  CacheState
    OBVIOUS
  <1>1. Min(Value) \in Value
    BY ObjectCacheAssumption, MinExists
  <1>2. bus \in [Object -> Value \cup {NoValue}]
    BY <1>1 DEF Init
  <1>3. BusTypeOK
    BY <1>2, ObjectCacheAssumption DEF Init, BusTypeOK
  <1>4. d \in Sound
    BY StartTyped DEF Init
  <1>5. Len(inbox) = 0 /\ changes = 0 /\ reloads = 0 /\ MaxDisturbances \in Nat
    BY ControlEventsAssumption DEF Init
  <1>6. {changes, reloads} \subseteq 0..MaxDisturbances /\ Len(inbox) <= changes
    BY <1>5
  <1>7. timers \in Seq([event : Event, trigger : {"once", "repeat"}, armed : BOOLEAN])
    BY DEF Init
  <1>8. TypeOK
    BY <1>3, <1>4, <1>6, <1>7 DEF Init, TypeOK, Sound
  <1>9. inbox \in Seq(Message)
    BY DEF Init
  <1>10. Followed
    BY DEF Init, Followed, Known
  <1> QED
    BY <1>8, <1>9, <1>10 DEF CacheState

LEMMA CacheStateNext == CacheState /\ [Next]_vars => CacheState'
  <1> SUFFICES ASSUME CacheState, [Next]_vars
               PROVE  CacheState'
    OBVIOUS
  <1>1. CASE Environment
    BY <1>1, EnvironmentKeeps
  <1>2. CASE \E c \in Configs : Start(c) \/ SighupHandler(c)
    BY <1>2, StartKeeps, SighupHandlerKeeps
  <1>3. CASE Enable
    BY <1>3, EnableKeeps
  <1>4. CASE LoadFails
    BY <1>4, LoadFailsKeeps
  <1>5. CASE HandleSignal
    BY <1>5, HandleSignalKeeps
  <1>6. CASE \E k \in DOMAIN timers : TimerExpired(k)
    BY <1>6, TimerExpiredKeeps
  <1>7. CASE \E e \in Event : ActionTimerExpired(e)
    BY <1>7, ActionTimerExpiredKeeps
  <1>8. CASE PowerStateChanged
    BY <1>8, PowerStateChangedKeeps
  <1>9. CASE Loaded \/ Dies \/ UNCHANGED vars
    BY <1>9, IdleKeeps
  <1> QED
    BY <1>1, <1>2, <1>3, <1>4, <1>5, <1>6, <1>7, <1>8, <1>9 DEF Next, Daemon

\* The caches, parameters and holds keep their types, so that no offset makes
\* a floor negative; and whatever services do while load() enables the
\* triggers, the cache shows what is on D-Bus once all signals are handled, for
\* every object of which a handler saw the last change.
THEOREM CacheIsKept == Spec => []CacheInv
  <1>1. CacheState => CacheInv
    <2> SUFFICES ASSUME CacheState, Quiet, NEW o \in Object, Known(o)
                 PROVE  d.objects[o] = bus[o]
      BY DEF CacheInv, CacheFollows, CacheState
    <2>1. Shows(<<>>, o, d.objects[o], bus[o])
      BY DEF CacheState, Followed, Quiet
    <2> QED
      BY <2>1, ShowsAtRest
  <1> QED
    BY CacheStateInit, CacheStateNext, <1>1, PTL DEF Spec

-----------------------------------------------------------------------------
(* Services that are down are held for: the signals of owners.             *)

\* Signal m is about the owner of service s.
IsOwner(m, s) == m.type = "owner" /\ m.service = s

Silent(q, s) == \A k \in 1..Len(q) : ~IsOwner(q[k], s)

\* The last signal of q about the owner of s says whether it has one.
LastSays(q, s, on) ==
    \E k \in 1..Len(q) : /\ IsOwner(q[k], s) /\ q[k].on = on
                         /\ \A j \in 1..Len(q) : j > k => ~IsOwner(q[j], s)

LEMMA SilentSays ==
    ASSUME NEW q, NEW s, NEW on, Silent(q, s)
    PROVE  ~LastSays(q, s, on)
  BY DEF Silent, LastSays

LEMMA AppendOther ==
    ASSUME NEW S, NEW q \in Seq(S), NEW m \in S, NEW s, ~IsOwner(m, s)
    PROVE  /\ \A on : LastSays(Append(q, m), s, on) <=> LastSays(q, s, on)
           /\ Silent(Append(q, m), s) <=> Silent(q, s)
  <1> DEFINE r == Append(q, m)
  <1>1. Len(r) = Len(q) + 1 /\ r[Len(q) + 1] = m /\ Len(q) \in Nat
    OBVIOUS
  <1>2. \A k \in 1..Len(q) : r[k] = q[k]
    OBVIOUS
  <1> HIDE DEF r
  <1>3. \A k \in 1..Len(r) : k \in 1..Len(q) \/ k = Len(q) + 1
    BY <1>1
  <1>4. \A k \in 1..Len(q) : k \in 1..Len(r)
    BY <1>1
  <1>5. \A k \in 1..Len(r) : IsOwner(r[k], s) => k \in 1..Len(q)
    BY <1>1, <1>3
  <1>6. ASSUME NEW on, LastSays(r, s, on)
        PROVE  LastSays(q, s, on)
    BY <1>2, <1>4, <1>5, <1>6 DEF LastSays
  <1>7. ASSUME NEW on, LastSays(q, s, on)
        PROVE  LastSays(r, s, on)
    BY <1>2, <1>4, <1>5, <1>7 DEF LastSays
  <1>8. Silent(r, s) <=> Silent(q, s)
    BY <1>2, <1>4, <1>5 DEF Silent
  <1> QED
    BY <1>6, <1>7, <1>8 DEF r

LEMMA AppendOwner ==
    ASSUME NEW S, NEW q \in Seq(S), NEW m \in S, NEW s, IsOwner(m, s)
    PROVE  \A on : LastSays(Append(q, m), s, on) <=> on = m.on
  <1> DEFINE r == Append(q, m)
  <1>1. Len(r) = Len(q) + 1 /\ r[Len(q) + 1] = m /\ Len(q) \in Nat
    OBVIOUS
  <1>2. Len(q) + 1 \in 1..Len(r) /\ \A k \in 1..Len(r) : k # Len(q) + 1 => Len(q) + 1 > k
    BY <1>1
  <1>3. \A k \in 1..Len(r) : ~(k > Len(q) + 1)
    BY <1>1
  <1> HIDE DEF r
  <1>4. LastSays(r, s, m.on)
    BY <1>1, <1>2, <1>3 DEF LastSays
  <1>5. ASSUME NEW on, LastSays(r, s, on)
        PROVE  on = m.on
    BY <1>1, <1>2, <1>5 DEF LastSays
  <1> QED
    BY <1>4, <1>5 DEF r

LEMMA TailSays ==
    ASSUME NEW S, NEW q \in Seq(S), q # <<>>, NEW s
    PROVE  /\ \A on : LastSays(Tail(q), s, on) => LastSays(q, s, on)
           /\ \A on : LastSays(q, s, on) /\ ~LastSays(Tail(q), s, on)
                      => IsOwner(Head(q), s) /\ Head(q).on = on
           /\ Silent(Tail(q), s) /\ ~IsOwner(Head(q), s) => Silent(q, s)
  <1> DEFINE r == Tail(q)
  <1>1. /\ Len(r) = Len(q) - 1 /\ Len(q) \in Nat /\ Len(r) \in Nat /\ q[1] = Head(q)
        /\ 1 \in 1..Len(q)
    OBVIOUS
  <1>2. \A k \in 1..Len(r) : r[k] = q[k + 1] /\ k + 1 \in 1..Len(q)
    OBVIOUS
  <1> HIDE DEF r
  <1>3. \A k \in 1..Len(q) : k = 1 \/ (k - 1 \in 1..Len(r) /\ r[k - 1] = q[k])
    BY <1>1, <1>2
  <1>4. ASSUME NEW on, LastSays(r, s, on)
        PROVE  LastSays(q, s, on)
    <2>1. PICK k \in 1..Len(r) : /\ IsOwner(r[k], s) /\ r[k].on = on
                                 /\ \A j \in 1..Len(r) : j > k => ~IsOwner(r[j], s)
      BY <1>4 DEF LastSays
    <2>2. k + 1 \in 1..Len(q) /\ IsOwner(q[k + 1], s) /\ q[k + 1].on = on
      BY <1>2, <2>1
    <2>3. ASSUME NEW j \in 1..Len(q), j > k + 1
          PROVE  ~IsOwner(q[j], s)
      <3>1. j - 1 \in 1..Len(r) /\ r[j - 1] = q[j] /\ j - 1 > k
        BY <1>1, <1>3, <2>3
      <3> QED
        BY <2>1, <3>1
    <2> QED
      BY <2>2, <2>3 DEF LastSays
  <1>5. ASSUME NEW on, LastSays(q, s, on), ~LastSays(r, s, on)
        PROVE  IsOwner(q[1], s) /\ q[1].on = on
    <2>1. PICK k \in 1..Len(q) : /\ IsOwner(q[k], s) /\ q[k].on = on
                                 /\ \A j \in 1..Len(q) : j > k => ~IsOwner(q[j], s)
      BY <1>5 DEF LastSays
    <2>2. CASE k = 1
      BY <2>1, <2>2
    <2>3. CASE k # 1
      <3>1. k - 1 \in 1..Len(r) /\ r[k - 1] = q[k]
        BY <1>3, <2>3
      <3>2. ASSUME NEW j \in 1..Len(r), j > k - 1
            PROVE  ~IsOwner(r[j], s)
        <4>1. j + 1 \in 1..Len(q) /\ r[j] = q[j + 1] /\ j + 1 > k
          BY <1>1, <1>2, <3>2
        <4> QED
          BY <2>1, <4>1
      <3>3. LastSays(r, s, on)
        BY <2>1, <3>1, <3>2 DEF LastSays
      <3> QED
        BY <1>5, <3>3
    <2> QED
      BY <2>2, <2>3
  <1>6. ASSUME Silent(r, s), ~IsOwner(q[1], s)
        PROVE  Silent(q, s)
    BY <1>3, <1>6 DEF Silent
  <1> QED
    BY <1>1, <1>4, <1>5, <1>6 DEF r

\* If there are signals about the owner there is a last one.
LEMMA LastExists ==
    ASSUME NEW S, NEW q \in Seq(S), q # <<>>, NEW s, IsOwner(Head(q), s)
    PROVE  \E on : LastSays(q, s, on)
  <1> DEFINE K == {k \in 1..Len(q) : IsOwner(q[k], s)}
  <1>1. q[1] = Head(q) /\ 1 \in 1..Len(q) /\ Len(q) \in Nat
    OBVIOUS
  <1>2. K \in SUBSET Int /\ K # {}
    BY <1>1
  <1>3. IsFiniteSet(K)
    <2>1. IsFiniteSet(1..Len(q))
      BY <1>1, FS_Interval
    <2> QED
      BY <2>1, FS_Subset
  <1> DEFINE n == Max(K)
  <1>4. n \in K /\ \A k \in K : n >= k
    <2> HIDE DEF K
    <2> QED
      BY <1>2, <1>3, MaxExists
  <1> HIDE DEF n
  <1>5. LastSays(q, s, q[n].on)
    BY <1>4 DEF LastSays
  <1> QED
    BY <1>5

\* For event e the target is held, or the timer runs, as service s is down.
Held(f, e, s) ==
    /\ \E o \in Members(e) : ServiceOf[IfaceOf[o]] = s /\ IfaceOf[o] \notin f.owned
    /\ Holding(f, e)

\* The daemon knows that service s is down, and no signal will change that.
KnownDown(f, q, s) ==
    Silent(q, s) /\ \A i \in f.tree : ServiceOf[i] = s => i \notin f.owned

\* Owners are watched of services that members of the group have.
WatchedKnown ==
    \A e \in Event, s \in Service : <<e, s>> \in owners =>
        /\ Contains(Triggers[e], "owner")
        /\ \E o \in Members(e) : ServiceOf[IfaceOf[o]] = s /\ IfaceOf[o] \in d.tree

\* An event asks for owners once it watches them.
AsksLast ==
    \A r \in todo : Triggers[config[r[1]]][r[2]] = "owner"
                    => <<config[r[1]], "owners">> \notin done

\* The last signal about an owner is true, unless a later one was missed.
LastTrue ==
    \A s \in Service \ lost, on \in BOOLEAN : LastSays(inbox, s, on) => (on <=> s \in up)

\* Where the owner of a service that is down is watched, and was asked for, the
\* event holds, or a signal makes it do so that waits; once loaded, the signals
\* before that one have their turn, and only where a change was missed the
\* daemon may take the service to be up.
DownHeld ==
    \A e \in Range(config), s \in Service \ up :
        <<e, s>> \in owners /\ <<e, "owners">> \in done =>
            /\ status = "loading" => Held(d, e, s) \/ LastSays(inbox, s, FALSE)
            /\ status = "on" => /\ KnownDown(d, inbox, s) => Held(d, e, s)
                                /\ s \notin lost => Held(d, e, s) \/ LastSays(inbox, s, FALSE)

HoldState == WatchedKnown /\ AsksLast /\ LastTrue /\ DownHeld

\* A hold for a service that is down outlives what the daemon learns.
LEMMA HeldKept ==
    ASSUME NEW e \in OwnerEvent, NEW s, s \notin up, NEW f, NEW g, KeepsHolds(f, g), Held(f, e, s)
    PROVE  Held(g, e, s)
  <1>1. PICK o \in Members(e) : ServiceOf[IfaceOf[o]] = s /\ IfaceOf[o] \notin f.owned
    BY DEF Held
  <1>2. Lacks(f, e) /\ Holding(f, e)
    BY <1>1 DEF Held, Lacks
  <1>3. Holding(g, e) /\ IfaceOf[o] \notin g.owned
    BY <1>1, <1>2 DEF KeepsHolds
  <1> QED
    BY <1>1, <1>3 DEF Held

LEMMA NotAboutSilent ==
    ASSUME NEW q \in Seq(Message), NEW s, \A m \in Range(q) : s \notin About(m)
    PROVE  Silent(q, s)
  <1>1. ASSUME NEW k \in 1..Len(q), IsOwner(q[k], s)
        PROVE  FALSE
    <2>1. q[k] \in Range(q) /\ q[k].type = "owner" /\ q[k].service = s
      BY <1>1 DEF Range, IsOwner
    <2>2. s \in About(q[k])
      BY <2>1 DEF About
    <2> QED
      BY <2>1, <2>2
  <1> QED
    BY <1>1 DEF Silent

\* A service that a step finds no more lost is current, or was not lost.
LEMMA LostKept ==
    ASSUME inbox' \in Seq(Message), NEW objs, Lose(objs), NEW s \in Service, s \notin lost'
    PROVE  \/ s \notin lost /\ s \notin objs
           \/ Silent(inbox', s) /\ (s \notin up' => KnownDown(d', inbox', s))
  <1>1. CASE Current(s)'
    <2>1. s \notin Object
      BY ControlEventsAssumption
    <2>2. /\ \A m \in Range(inbox') : s \notin About(m)
          /\ \A i \in d'.tree : ServiceOf[i] = s => (i \in d'.owned <=> s \in up')
      BY <1>1, <2>1 DEF Current
    <2>3. Silent(inbox', s)
      BY <2>2, NotAboutSilent
    <2> QED
      BY <2>2, <2>3 DEF KnownDown
  <1>2. CASE ~Current(s)'
    BY <1>2 DEF Lose
  <1> QED
    BY <1>1, <1>2

\* A watching event is one of those whose holds depend on owners.
LEMMA WatchingEvent ==
    ASSUME CacheState, HoldState, OwnerEventsHold, NEW e \in Range(config), NEW s \in Service,
           <<e, s>> \in owners
    PROVE  e \in OwnerEvent /\ e \in Event
  <1>1. e \in Event
    <2>1. config \in Seq(Event)
      BY StateTyped
    <2> QED
      BY <2>1, RangeFinite
  <1>2. Contains(Triggers[e], "owner")
    BY <1>1 DEF HoldState, WatchedKnown
  <1> QED
    BY <1>1, <1>2 DEF OwnerEventsHold

\* What a service sends leaves the daemon as it is.
LEMMA SendHolds ==
    ASSUME CacheState, HoldState, OwnerEventsHold, NEW m \in Message, NEW heard \in BOOLEAN,
           Send(m, heard), inbox' \in Seq(Message),
           \A s \in Service : s \in up' <=> IF IsOwner(m, s) THEN m.on ELSE s \in up,
           \A s \in Service : IsOwner(m, s) /\ OwnerWatchers(s) # {} => heard
    PROVE  HoldState'
  <1> DEFINE objs == IF heard THEN {} ELSE About(m)
  <1>1. /\ inbox \in Seq(Message) /\ inbox' = IF heard THEN Append(inbox, m) ELSE inbox
        /\ Lose(objs)
        /\ UNCHANGED <<status, config, todo, done, owners, d>>
    BY DEF CacheState, Send, daemonVars
  <1>2. \A s : IsOwner(m, s) /\ ~heard => s \in objs
    BY DEF IsOwner, About
  <1> HIDE DEF objs
  <1>3. ASSUME NEW s \in Service, ~IsOwner(m, s)
        PROVE  /\ \A on : LastSays(inbox', s, on) <=> LastSays(inbox, s, on)
               /\ Silent(inbox', s) <=> Silent(inbox, s)
    BY <1>1, <1>3, AppendOther
  <1>4. ASSUME NEW s \in Service, IsOwner(m, s), heard
        PROVE  \A on : LastSays(inbox', s, on) <=> on = m.on
    BY <1>1, <1>4, AppendOwner
  <1>5. WatchedKnown' /\ AsksLast'
    BY <1>1 DEF HoldState, WatchedKnown, AsksLast
  <1>6. ASSUME NEW s \in Service, s \notin lost', NEW on \in BOOLEAN, LastSays(inbox', s, on)
        PROVE  on <=> s \in up'
    <2>1. ~Silent(inbox', s)
      BY <1>6, SilentSays
    <2>2. s \notin lost /\ s \notin objs
      BY <1>1, <1>6, <2>1, LostKept
    <2>3. CASE IsOwner(m, s)
      BY <1>2, <1>4, <1>6, <2>2, <2>3
    <2>4. CASE ~IsOwner(m, s)
      BY <1>3, <1>6, <2>2, <2>4 DEF HoldState, LastTrue
    <2> QED
      BY <2>3, <2>4
  <1>7. ASSUME NEW e \in Range(config), NEW s \in Service, s \notin up',
               <<e, s>> \in owners, <<e, "owners">> \in done
        PROVE  /\ status = "loading" => Held(d, e, s) \/ LastSays(inbox', s, FALSE)
               /\ status = "on" => /\ KnownDown(d, inbox', s) => Held(d, e, s)
                                   /\ s \notin lost' => Held(d, e, s) \/ LastSays(inbox', s, FALSE)
    <2>1. CASE IsOwner(m, s)
      <3>1. e \in OwnerWatchers(s)
        BY <1>7 DEF OwnerWatchers
      <3>2. heard /\ ~m.on
        BY <1>7, <2>1, <3>1
      <3>3. m.on = FALSE
        BY <2>1, <3>2, MessageTyped DEF IsOwner
      <3>4. LastSays(inbox', s, FALSE)
        BY <1>4, <2>1, <3>2, <3>3
      <3>5. ~KnownDown(d, inbox', s)
        BY <3>4, SilentSays DEF KnownDown
      <3> QED
        BY <3>4, <3>5
    <2>2. CASE ~IsOwner(m, s)
      <3>1. s \notin up
        BY <1>7, <2>2
      <3>2. /\ status = "loading" => Held(d, e, s) \/ LastSays(inbox, s, FALSE)
            /\ status = "on" => /\ KnownDown(d, inbox, s) => Held(d, e, s)
                                /\ s \notin lost => Held(d, e, s) \/ LastSays(inbox, s, FALSE)
        BY <1>7, <3>1 DEF HoldState, DownHeld
      <3>3. /\ LastSays(inbox', s, FALSE) <=> LastSays(inbox, s, FALSE)
            /\ Silent(inbox', s) <=> Silent(inbox, s)
        BY <1>3, <2>2
      <3>4. KnownDown(d, inbox', s) <=> KnownDown(d, inbox, s)
        BY <3>3 DEF KnownDown
      <3>5. s \notin lost' => s \notin lost \/ KnownDown(d, inbox', s)
        BY <1>1, <1>7, LostKept
      <3> QED
        BY <3>2, <3>3, <3>4, <3>5
    <2> QED
      BY <2>1, <2>2
  <1>8. LastTrue'
    BY <1>6 DEF LastTrue
  <1>9. DownHeld'
    BY <1>1, <1>7 DEF DownHeld
  <1> QED
    BY <1>5, <1>8, <1>9 DEF HoldState

LEMMA EnvironmentHolds ==
    ASSUME CacheState, HoldState, OwnerEventsHold, Environment, inbox' \in Seq(Message)
    PROVE  HoldState'
  <1>1. CASE \E o \in Object, v \in Value \cup {NoValue} : ChangeValue(o, v)
    <2> PICK o \in Object, v \in Value \cup {NoValue} : ChangeValue(o, v)
      BY <1>1
    <2> DEFINE m == [type |-> "changed", object |-> o, value |-> v]
               heard == Watchers("changed", {o}) # {}
    <2>1. m \in Message /\ heard \in BOOLEAN /\ Send(m, heard) /\ up' = up
      BY DEF Message, ChangeValue
    <2>2. \A s : ~IsOwner(m, s)
      BY DEF IsOwner
    <2> HIDE DEF m, heard
    <2> QED
      BY <2>1, <2>2, SendHolds
  <1>2. CASE \E i \in Iface : \E values \in [ObjectsOf(i) -> Value] : AddIface(i, values)
    <2> PICK i \in Iface : \E values \in [ObjectsOf(i) -> Value] : AddIface(i, values)
      BY <1>2
    <2> PICK values \in [ObjectsOf(i) -> Value] : AddIface(i, values)
      OBVIOUS
    <2> DEFINE m == [type |-> "added", iface |-> i, values |-> values]
               heard == Watchers("added", ObjectsOf(i)) # {}
    <2>1. m \in Message /\ heard \in BOOLEAN /\ Send(m, heard) /\ up' = up
      BY DEF Message, AddIface
    <2>2. \A s : ~IsOwner(m, s)
      BY DEF IsOwner
    <2> HIDE DEF m, heard
    <2> QED
      BY <2>1, <2>2, SendHolds
  <1>3. CASE \E i \in Iface : RemoveIface(i)
    <2> PICK i \in Iface : RemoveIface(i)
      BY <1>3
    <2> DEFINE m == [type |-> "removed", iface |-> i]
               heard == Watchers("removed", ObjectsOf(i)) # {}
    <2>1. m \in Message /\ heard \in BOOLEAN /\ Send(m, heard) /\ up' = up
      BY DEF Message, RemoveIface
    <2>2. \A s : ~IsOwner(m, s)
      BY DEF IsOwner
    <2> HIDE DEF m, heard
    <2> QED
      BY <2>1, <2>2, SendHolds
  <1>4. CASE \E s \in Service : ServiceStarts(s)
    <2> PICK s \in Service : ServiceStarts(s)
      BY <1>4
    <2> DEFINE m == [type |-> "owner", service |-> s, on |-> TRUE]
               heard == OwnerWatchers(s) # {}
    <2>1. m \in Message /\ heard \in BOOLEAN /\ Send(m, heard) /\ up' = up \cup {s}
      BY DEF Message, ServiceStarts
    <2>2. m.on = TRUE /\ \A x : IsOwner(m, x) <=> x = s
      BY DEF IsOwner
    <2>3. heard <=> OwnerWatchers(s) # {}
      OBVIOUS
    <2> HIDE DEF m, heard
    <2> QED
      BY <2>1, <2>2, <2>3, SendHolds
  <1>5. CASE \E s \in Service : ServiceStops(s)
    <2> PICK s \in Service : ServiceStops(s)
      BY <1>5
    <2> DEFINE m == [type |-> "owner", service |-> s, on |-> FALSE]
               heard == OwnerWatchers(s) # {}
    <2>1. m \in Message /\ heard \in BOOLEAN /\ Send(m, heard) /\ up' = up \ {s}
      BY DEF Message, ServiceStops
    <2>2. m.on = FALSE /\ \A x : IsOwner(m, x) <=> x = s
      BY DEF IsOwner
    <2>3. heard <=> OwnerWatchers(s) # {}
      OBVIOUS
    <2> HIDE DEF m, heard
    <2> QED
      BY <2>1, <2>2, <2>3, SendHolds
  <1> QED
    BY <1>1, <1>2, <1>3, <1>4, <1>5 DEF Environment

\* Once loaded, what reads, acts or handles another signal keeps the holds.
LEMMA LearnHolds ==
    ASSUME CacheState, HoldState, OwnerEventsHold, inbox' \in Seq(Message), NEW objs, Lose(objs),
           KeepsHolds(d, d'), d.owned \subseteq d'.owned,
           status = "on", UNCHANGED <<up, status, config, todo, done, owners>>,
           \A s \in Service : /\ \A on : LastSays(inbox', s, on) <=> LastSays(inbox, s, on)
                              /\ Silent(inbox', s) => Silent(inbox, s)
    PROVE  HoldState'
  <1>1. d.tree \subseteq d'.tree
    BY DEF KeepsHolds
  <1>2. WatchedKnown'
    <2>1. \A e \in Event, s \in Service : <<e, s>> \in owners =>
            /\ Contains(Triggers[e], "owner")
            /\ \E o \in Members(e) : ServiceOf[IfaceOf[o]] = s /\ IfaceOf[o] \in d'.tree
      BY <1>1 DEF HoldState, WatchedKnown
    <2> QED
      BY <2>1 DEF WatchedKnown
  <1>3. AsksLast'
    BY DEF HoldState, AsksLast
  <1>4. ASSUME NEW s \in Service, s \notin lost', NEW on \in BOOLEAN, LastSays(inbox', s, on)
        PROVE  on <=> s \in up
    <2>1. ~Silent(inbox', s)
      BY <1>4, SilentSays
    <2>2. s \notin lost
      BY <1>4, <2>1, LostKept
    <2> QED
      BY <1>4, <2>2 DEF HoldState, LastTrue
  <1>5. ASSUME NEW e \in Range(config), NEW s \in Service, s \notin up,
               <<e, s>> \in owners, <<e, "owners">> \in done
        PROVE  /\ KnownDown(d', inbox', s) => Held(d', e, s)
               /\ s \notin lost' => Held(d', e, s) \/ LastSays(inbox', s, FALSE)
    <2>1. /\ KnownDown(d, inbox, s) => Held(d, e, s)
          /\ s \notin lost => Held(d, e, s) \/ LastSays(inbox, s, FALSE)
      BY <1>5 DEF HoldState, DownHeld
    <2>2. e \in OwnerEvent
      BY <1>5, WatchingEvent
    <2>3. Held(d, e, s) => Held(d', e, s)
      BY <1>5, <2>2, HeldKept
    <2>4. KnownDown(d', inbox', s) => KnownDown(d, inbox, s)
      BY <1>1 DEF KnownDown
    <2>5. s \notin lost' => s \notin lost \/ KnownDown(d', inbox', s)
      BY <1>5, LostKept
    <2> QED
      BY <2>1, <2>3, <2>4, <2>5
  <1>6. LastTrue'
    BY <1>4 DEF LastTrue
  <1>7. DownHeld'
    BY <1>5 DEF DownHeld
  <1> QED
    BY <1>2, <1>3, <1>6, <1>7 DEF HoldState

LEMMA RanHolds ==
    ASSUME CacheState, HoldState, OwnerEventsHold, NEW g \in Reads(d), NEW ran, Ran(g, ran)
    PROVE  HoldState'
  <1>1. /\ d' = g /\ Lose({}) /\ status = "on"
        /\ UNCHANGED <<up, status, config, todo, done, owners, inbox>>
    BY DEF Ran, Read, busVars
  <1>2. KeepsHolds(d, d') /\ d.owned \subseteq d'.owned
    BY <1>1 DEF Reads, Learns
  <1>3. inbox' \in Seq(Message)
    BY <1>1 DEF CacheState
  <1> QED
    BY <1>1, <1>2, <1>3, LearnHolds

\* Handlers of signals that are not about owners.
LEMMA HandlesOther ==
    ASSUME CacheState, HoldState, OwnerEventsHold, status = "on", inbox # <<>>, inbox' = Tail(inbox),
           UNCHANGED <<up, status, config, todo, done, owners>>,
           NEW objs, Lose(objs), Head(inbox).type # "owner",
           NEW f \in Sound, f.tree = d.tree, f.owned = d.owned, f.targets = d.targets, f.timed = d.timed,
           NEW E, d' = d \/ d' = RunAll(f, E)
    PROVE  HoldState'
  <1>1. inbox \in Seq(Message)
    BY DEF CacheState
  <1>2. inbox' \in Seq(Message)
    BY <1>1
  <1>3. KeepsHolds(d, d') /\ d.owned \subseteq d'.owned
    <2>1. CASE d' = d
      BY <2>1 DEF KeepsHolds
    <2>2. CASE d' = RunAll(f, E)
      <3>1. KeepsHolds(d, f)
        BY SameHolds
      <3>2. d' \in Acts(f)
        BY <2>2, StateTyped, RunAllActs
      <3>3. KeepsHolds(f, d') /\ f.owned \subseteq d'.owned
        BY <3>2 DEF Acts, Reads, Learns
      <3> QED
        BY <3>1, <3>3, KeepsHoldsTrans
    <2> QED
      BY <2>1, <2>2
  <1>4. ASSUME NEW s \in Service
        PROVE  /\ \A on : LastSays(inbox', s, on) <=> LastSays(inbox, s, on)
               /\ Silent(inbox', s) => Silent(inbox, s)
    <2>1. ~IsOwner(Head(inbox), s)
      BY DEF IsOwner
    <2> QED
      BY <1>1, <2>1, TailSays
  <1> QED
    BY <1>2, <1>3, <1>4, LearnHolds

\* A signal about another service keeps the hold for s.
LEMMA HeldForOther ==
    ASSUME CacheState, NEW e \in OwnerEvent, NEW s, s \notin up, NEW t, t # s, NEW on \in BOOLEAN,
           NEW f, f = SetOwner(d, t, on), NEW g, KeepsHolds(f, g), Held(d, e, s)
    PROVE  Held(g, e, s)
  <1>1. d \in Sound
    BY StateTyped
  <1>2. /\ f.targets = d.targets /\ f.timed = d.timed
        /\ \A i : i \in f.owned => i \in d.owned \/ ServiceOf[i] = t
    BY <1>1, SetOwnerSets
  <1>3. Held(f, e, s)
    BY <1>2 DEF Held, Holding
  <1> QED
    BY <1>3, HeldKept

\* nameOwnerChanged(): the events that watch the service hold when it is down.
LEMMA OwnerHolds ==
    ASSUME CacheState, HoldState, OwnerEventsHold, status = "on", inbox # <<>>, inbox' = Tail(inbox),
           UNCHANGED <<up, status, config, todo, done, owners>>,
           NEW m, m = Head(inbox), NameOwnerChanged(m)
    PROVE  HoldState'
  <1> DEFINE t == m.service
             on == m.on
             E == OwnerWatchers(t)
             f == SetOwner(d, t, on)
  <1>1. inbox \in Seq(Message) /\ m \in Message /\ d \in Sound
    BY StateTyped DEF CacheState
  <1>2. inbox' \in Seq(Message)
    BY <1>1
  <1>3. t \in Service /\ on \in BOOLEAN /\ \A s : IsOwner(m, s) <=> s = t
    BY <1>1, MessageTyped DEF NameOwnerChanged, IsOwner
  <1>4. PICK objs : Lose(objs)
    BY DEF NameOwnerChanged, Handled
  <1>5. d' = IF E = {} THEN d ELSE RunAll(f, E)
    BY DEF NameOwnerChanged
  <1>6. f = SetOwner(d, t, on)
    OBVIOUS
  <1>7. \A e \in Range(config), s \in Service : <<e, s>> \in owners /\ s = t => e \in E
    BY DEF OwnerWatchers
  <1> HIDE DEF t, on, E, f
  <1>8. /\ f \in Sound /\ f.tree = d.tree
        /\ \A i : i \in f.owned <=> \/ i \in d.owned /\ (on \/ ServiceOf[i] # t)
                                    \/ i \in d.tree /\ on /\ ServiceOf[i] = t
    BY <1>1, <1>3, <1>6, SetOwnerSets
  <1>9. ASSUME E # {}
        PROVE  /\ KeepsHolds(f, d') /\ f.owned \subseteq d'.owned
               /\ \A e \in OwnerEvent \cap E \cap Range(config) : Lacks(f, e) => Holding(d', e)
    <2>1. d' = RunAll(f, E)
      BY <1>5, <1>9
    <2>2. config \in Seq(Event)
      BY StateTyped
    <2>3. d' \in Acts(f)
      BY <1>8, <2>1, <2>2, RunAllActs
    <2>4. \A e \in OwnerEvent \cap E \cap Range(config) : Lacks(f, e) => Holding(d', e)
      BY <1>8, <2>1, <2>2, RunAllActs
    <2> QED
      BY <2>3, <2>4 DEF Acts, Reads, Learns
  <1>10. d.tree \subseteq d'.tree
    BY <1>5, <1>8, <1>9 DEF KeepsHolds
  <1>11. WatchedKnown'
    <2>1. \A e \in Event, s \in Service : <<e, s>> \in owners =>
            /\ Contains(Triggers[e], "owner")
            /\ \E o \in Members(e) : ServiceOf[IfaceOf[o]] = s /\ IfaceOf[o] \in d'.tree
      BY <1>10 DEF HoldState, WatchedKnown
    <2> QED
      BY <2>1 DEF WatchedKnown
  <1>12. AsksLast'
    BY DEF HoldState, AsksLast
  <1>13. ASSUME NEW s \in Service, s \notin lost', NEW b \in BOOLEAN, LastSays(inbox', s, b)
         PROVE  b <=> s \in up
    <2>1. ~Silent(inbox', s)
      BY <1>13, SilentSays
    <2>2. s \notin lost
      BY <1>2, <1>4, <1>13, <2>1, LostKept
    <2>3. LastSays(inbox, s, b)
      BY <1>1, <1>13, TailSays
    <2> QED
      BY <1>13, <2>2, <2>3 DEF HoldState, LastTrue
  <1>14. ASSUME NEW e \in Range(config), NEW s \in Service, s \notin up,
                <<e, s>> \in owners, <<e, "owners">> \in done
         PROVE  /\ KnownDown(d', inbox', s) => Held(d', e, s)
                /\ s \notin lost' => Held(d', e, s) \/ LastSays(inbox', s, FALSE)
    <2>1. /\ KnownDown(d, inbox, s) => Held(d, e, s)
          /\ s \notin lost => Held(d, e, s) \/ LastSays(inbox, s, FALSE)
      BY <1>14 DEF HoldState, DownHeld
    <2>2. e \in OwnerEvent /\ e \in Event
      BY <1>14, WatchingEvent
    <2>3. s \notin lost' => s \notin lost \/ KnownDown(d', inbox', s)
      BY <1>2, <1>4, <1>14, LostKept
    <2>4. CASE s # t
      <3>1. Held(d, e, s) => Held(d', e, s)
        BY <1>3, <1>5, <1>6, <1>9, <1>14, <2>2, <2>4, HeldForOther
      <3>2. /\ LastSays(inbox, s, FALSE) => LastSays(inbox', s, FALSE)
            /\ Silent(inbox', s) => Silent(inbox, s)
        BY <1>1, <1>3, <2>4, TailSays
      <3>3. \A i \in d.owned : ServiceOf[i] = s => i \in d'.owned
        BY <1>5, <1>8, <1>9, <2>4
      <3>4. KnownDown(d', inbox', s) => KnownDown(d, inbox, s)
        BY <1>10, <3>2, <3>3 DEF KnownDown
      <3> QED
        BY <2>1, <2>3, <3>1, <3>2, <3>4
    <2>5. CASE s = t
      <3>1. e \in E
        BY <1>7, <1>14, <2>5
      <3>2. PICK o \in Members(e) : ServiceOf[IfaceOf[o]] = s /\ IfaceOf[o] \in d.tree
        BY <1>14, <2>2 DEF HoldState, WatchedKnown
      <3>3. CASE ~on
        <4>1. IfaceOf[o] \notin f.owned
          BY <1>8, <2>5, <3>2, <3>3
        <4>2. Lacks(f, e)
          BY <1>14, <3>2, <4>1 DEF Lacks
        <4>3. Holding(d', e)
          BY <1>9, <2>2, <3>1, <4>2
        <4>4. IfaceOf[o] \notin d'.owned
          BY <1>9, <1>14, <3>1, <3>2, <4>1 DEF KeepsHolds
        <4>5. Held(d', e, s)
          BY <3>2, <4>3, <4>4 DEF Held
        <4> QED
          BY <4>5
      <3>4. CASE on
        <4>1. IfaceOf[o] \in d'.owned /\ IfaceOf[o] \in d'.tree
          BY <1>8, <1>9, <1>10, <2>5, <3>1, <3>2, <3>4
        <4>2. ~KnownDown(d', inbox', s)
          BY <3>2, <4>1 DEF KnownDown
        <4>3. ASSUME s \notin lost'
              PROVE  LastSays(inbox', s, FALSE)
          <5>1. s \notin lost
            BY <2>3, <4>2, <4>3
          <5>2. PICK b : LastSays(inbox, s, b)
            BY <1>1, <1>3, <2>5, LastExists
          <5>3. b \in BOOLEAN
            BY <1>1, <5>2, MessageTyped DEF LastSays, IsOwner
          <5>4. b = FALSE
            BY <1>14, <5>1, <5>2, <5>3 DEF HoldState, LastTrue
          <5>5. ~(m.on = FALSE)
            BY <3>4 DEF on
          <5> QED
            BY <1>1, <5>2, <5>4, <5>5, TailSays
        <4> QED
          BY <4>2, <4>3
      <3> QED
        BY <3>3, <3>4
    <2> QED
      BY <2>4, <2>5
  <1>15. LastTrue'
    BY <1>13 DEF LastTrue
  <1>16. DownHeld'
    BY <1>14 DEF DownHeld
  <1> QED
    BY <1>11, <1>12, <1>15, <1>16 DEF HoldState

LEMMA HandleSignalHolds ==
    ASSUME CacheState, HoldState, OwnerEventsHold, HandleSignal
    PROVE  HoldState'
  <1> DEFINE m == Head(inbox)
  <1>1. /\ status = "on" /\ inbox # <<>> /\ inbox' = Tail(inbox)
        /\ UNCHANGED <<up, status, config, todo, done, owners>>
        /\ PropertiesChanged(m) \/ InterfacesAdded(m) \/ InterfacesRemoved(m) \/ NameOwnerChanged(m)
    BY DEF HandleSignal, busVars
  <1>2. m \in Message /\ d \in Sound /\ m = Head(inbox)
    BY <1>1, StateTyped DEF CacheState
  <1> HIDE DEF m
  <1>3. CASE PropertiesChanged(m)
    <2> DEFINE E == Watchers("changed", {m.object})
               f == SetProperty(d, m.object, m.value)
    <2>1. m.type = "changed" /\ (d' = d \/ d' = RunAll(f, E)) /\ \E objs : Lose(objs)
      BY <1>3 DEF PropertiesChanged, Handled
    <2>2. m.object \in Object /\ m.value \in Value \cup {NoValue}
      BY <1>2, <2>1, MessageTyped
    <2>3. /\ f \in Sound /\ f.tree = d.tree /\ f.owned = d.owned
          /\ f.targets = d.targets /\ f.timed = d.timed
      BY <1>2, <2>2, SetPropertySets
    <2> HIDE DEF f, E
    <2> QED
      BY <1>1, <1>2, <2>1, <2>3, HandlesOther
  <1>4. CASE InterfacesAdded(m)
    <2> DEFINE E == Watchers("added", ObjectsOf(m.iface))
               first == FirstObject(FirstOf(E), m.iface)
               f == IF E = {} THEN d ELSE SetProperty(d, first, m.values[first])
    <2>1. m.type = "added" /\ (d' = d \/ d' = RunAll(f, E)) /\ \E objs : Lose(objs)
      BY <1>4 DEF InterfacesAdded, Handled
    <2>2. E # {} => first \in ObjectsOf(m.iface)
      BY FirstObjectOf
    <2>3. E # {} => first \in Object /\ m.values[first] \in Value \cup {NoValue}
      <3>1. m.values \in [ObjectsOf(m.iface) -> Value]
        BY <1>2, <2>1, MessageTyped
      <3> HIDE DEF first
      <3> QED
        BY <2>2, <3>1 DEF ObjectsOf
    <2>4. /\ f \in Sound /\ f.tree = d.tree /\ f.owned = d.owned
          /\ f.targets = d.targets /\ f.timed = d.timed
      <3>1. CASE E = {}
        BY <1>2, <3>1
      <3>2. CASE E # {}
        <4> DEFINE v == m.values[first]
        <4>1. first \in Object /\ v \in Value \cup {NoValue} /\ f = SetProperty(d, first, v)
          BY <2>3, <3>2
        <4> HIDE DEF first, v, f
        <4> QED
          BY <1>2, <4>1, SetPropertySets
      <3> QED
        BY <3>1, <3>2
    <2> HIDE DEF f, E
    <2> QED
      BY <1>1, <1>2, <2>1, <2>4, HandlesOther
  <1>5. CASE InterfacesRemoved(m)
    <2> DEFINE E == Watchers("removed", ObjectsOf(m.iface))
               f == RemoveInterface(d, m.iface)
    <2>1. m.type = "removed" /\ (d' = d \/ d' = RunAll(f, E)) /\ \E objs : Lose(objs)
      BY <1>5 DEF InterfacesRemoved, Handled
    <2>2. /\ f \in Sound /\ f.tree = d.tree /\ f.owned = d.owned
          /\ f.targets = d.targets /\ f.timed = d.timed
      BY <1>2, RemoveInterfaceSets
    <2> HIDE DEF f, E
    <2> QED
      BY <1>1, <1>2, <2>1, <2>2, HandlesOther
  <1>6. CASE NameOwnerChanged(m)
    BY <1>1, <1>2, <1>6, OwnerHolds
  <1> QED
    BY <1>1, <1>3, <1>4, <1>5, <1>6

\* Timers and the power: what runs keeps the holds.
LEMMA TimersHold ==
    ASSUME CacheState, HoldState, OwnerEventsHold,
           \/ \E k \in DOMAIN timers : TimerExpired(k)
           \/ \E e \in Event : ActionTimerExpired(e)
           \/ PowerStateChanged
    PROVE  HoldState'
  <1>1. CASE \E k \in DOMAIN timers : TimerExpired(k)
    <2> PICK k \in DOMAIN timers : TimerExpired(k)
      BY <1>1
    <2>1. PICK g \in Reads(d) : Ran(g, {timers[k].event})
      BY TimerExpiredReads
    <2> QED
      BY <2>1, RanHolds
  <1>2. CASE \E e \in Event : ActionTimerExpired(e)
    <2> PICK e \in Event : ActionTimerExpired(e)
      BY <1>2
    <2>1. PICK g \in Reads(d) : Ran(g, {})
      BY ActionTimerExpiredReads
    <2> QED
      BY <2>1, RanHolds
  <1>3. CASE PowerStateChanged
    <2>1. Ran(ReadAndRun(PowerEvents(~power)), PowerEvents(~power))
      BY <1>3 DEF PowerStateChanged
    <2>2. ReadAndRun(PowerEvents(~power)) \in Reads(d)
      BY StateTyped, ReadAndRunReads
    <2> QED
      BY <2>1, <2>2, RanHolds
  <1> QED
    BY <1>1, <1>2, <1>3

\* A load forgets which owners are watched, but not the signals that wait.
LEMMA LoadHolds ==
    ASSUME HoldState, NEW c, Start(c) \/ SighupHandler(c)
    PROVE  HoldState'
  <1>1. done' = {} /\ owners' = {}
    BY DEF Start, SighupHandler, Load
  <1>2. WatchedKnown' /\ AsksLast' /\ DownHeld'
    BY <1>1 DEF WatchedKnown, AsksLast, DownHeld
  <1>3. CASE Start(c)
    <2>1. inbox' = <<>>
      BY <1>3 DEF Start
    <2>2. LastTrue'
      BY <2>1 DEF LastTrue, LastSays
    <2> QED
      BY <1>2, <2>2 DEF HoldState
  <1>4. CASE SighupHandler(c)
    <2>1. UNCHANGED <<up, inbox, lost>>
      BY <1>4 DEF SighupHandler, busVars
    <2>2. LastTrue'
      BY <2>1 DEF HoldState, LastTrue
    <2> QED
      BY <1>2, <2>2 DEF HoldState
  <1> QED
    BY <1>3, <1>4

\* A load that is done, or given up, and the daemon's end.
LEMMA LoadedHolds ==
    ASSUME CacheState, HoldState, OwnerEventsHold, Loaded \/ LoadFails \/ Dies \/ UNCHANGED vars
    PROVE  HoldState'
  <1>1. /\ UNCHANGED <<up, config, done, owners, inbox, lost>>
        /\ todo' = todo \/ todo' = {}
        /\ \/ status' = status \/ status' = "off"
           \/ status = "loading" /\ status' = "on"
    BY DEF Loaded, LoadFails, Dies, vars, busVars, daemonVars
  <1>2. KeepsHolds(d, d')
    <2>1. CASE LoadFails
      BY <2>1, LoadFailsLearns DEF Learns
    <2>2. CASE ~LoadFails
      <3>1. d' = d
        BY <2>2 DEF Loaded, Dies, vars, daemonVars
      <3> QED
        BY <3>1 DEF KeepsHolds
    <2> QED
      BY <2>1, <2>2
  <1>3. d.tree \subseteq d'.tree
    BY <1>2 DEF KeepsHolds
  <1>4. status' = status => d' = d
    BY DEF Loaded, LoadFails, Dies, vars, daemonVars
  <1>5. WatchedKnown'
    <2>1. \A e \in Event, s \in Service : <<e, s>> \in owners =>
            /\ Contains(Triggers[e], "owner")
            /\ \E o \in Members(e) : ServiceOf[IfaceOf[o]] = s /\ IfaceOf[o] \in d'.tree
      BY <1>3 DEF HoldState, WatchedKnown
    <2> QED
      BY <1>1, <2>1 DEF WatchedKnown
  <1>6. AsksLast'
    BY <1>1 DEF HoldState, AsksLast
  <1>7. LastTrue'
    BY <1>1 DEF HoldState, LastTrue
  <1>8. ASSUME NEW e \in Range(config), NEW s \in Service, s \notin up,
               <<e, s>> \in owners, <<e, "owners">> \in done
        PROVE  /\ status' = "loading" => Held(d', e, s) \/ LastSays(inbox, s, FALSE)
               /\ status' = "on" => /\ KnownDown(d', inbox, s) => Held(d', e, s)
                                    /\ s \notin lost => Held(d', e, s) \/ LastSays(inbox, s, FALSE)
    <2>1. CASE status' = status
      BY <1>4, <1>8, <2>1 DEF HoldState, DownHeld
    <2>2. CASE status' = "off"
      BY <2>2
    <2>3. CASE status = "loading" /\ status' = "on"
      <3>1. Held(d, e, s) \/ LastSays(inbox, s, FALSE)
        BY <1>8, <2>3 DEF HoldState, DownHeld
      <3>2. e \in OwnerEvent
        BY <1>8, WatchingEvent
      <3>3. Held(d, e, s) => Held(d', e, s)
        BY <1>2, <1>8, <3>2, HeldKept
      <3>4. LastSays(inbox, s, FALSE) => ~KnownDown(d', inbox, s)
        BY SilentSays DEF KnownDown
      <3> QED
        BY <2>3, <3>1, <3>3, <3>4
    <2> QED
      BY <1>1, <2>1, <2>2, <2>3
  <1>9. DownHeld'
    BY <1>1, <1>8 DEF DownHeld
  <1> QED
    BY <1>5, <1>6, <1>7, <1>9 DEF HoldState

\* Every event of a configuration has a name of its own.
LEMMA NamesDiffer ==
    ASSUME CacheState, NEW j \in DOMAIN config, NEW k \in DOMAIN config, config[j] = config[k]
    PROVE  j = k
  <1>1. config \in Configs \cup {<<>>}
    BY DEF CacheState, TypeOK
  <1>2. \A c \in Configs : IsInjective(c)
    BY ControlEventsAssumption
  <1>3. IsInjective(<<>>)
    BY DEF IsInjective
  <1>4. IsInjective(config)
    BY <1>1, <1>2, <1>3
  <1> QED
    BY <1>4 DEF IsInjective

\* The triggers of an event are enabled in their order.
LEMMA StepsOrdered ==
    ASSUME CacheState, OwnerEventsHold, NEW s \in todo, NEW r \in todo, IsNext(s),
           config[s[1]] = config[r[1]], Triggers[config[s[1]]][s[2]] = "owners"
    PROVE  Triggers[config[r[1]]][r[2]] # "owner"
  <1>1. s[1] = r[1]
    <2>1. s[1] \in DOMAIN config /\ r[1] \in DOMAIN config
      BY StepsTyped
    <2> QED
      BY <2>1, NamesDiffer
  <1> DEFINE e == config[s[1]]
  <1>2. e \in Event /\ DOMAIN Triggers[e] \subseteq Int
    <2>1. e \in Event
      BY StepsTyped
    <2>2. Triggers[e] \in Seq({"properties", "owners", "changed", "added", "removed", "owner",
                               "param", "once", "repeat", "poweron", "poweroff"})
      BY <2>1, ControlEventsAssumption
    <2> QED
      BY <2>1, <2>2
  <1>3. s[2] \in DOMAIN Triggers[e] /\ r[2] \in DOMAIN Triggers[e]
    BY <1>1, StepsTyped
  <1>4. s[2] \in Int /\ r[2] \in Int
    BY <1>2, <1>3
  <1>5. s[1] \in Int
    BY StateTyped, StepsTyped
  <1>6. s[2] <= r[2]
    BY <1>1, <1>5 DEF IsNext
  <1>7. Contains(Triggers[e], Triggers[config[r[1]]][r[2]])
    BY <1>1, StepsTyped
  <1> SUFFICES ASSUME Triggers[e][r[2]] = "owner"
               PROVE  FALSE
    BY <1>1
  <1>8. r[2] < s[2]
    BY <1>1, <1>2, <1>3, <1>7 DEF OwnerEventsHold
  <1> QED
    BY <1>4, <1>6, <1>8

\* The trigger that asks for owners: what is down then is held for.
LEMMA AskedHeld ==
    ASSUME CacheState, NEW e \in OwnerEvent, NEW s, s \notin up, NEW o \in Members(e),
           ServiceOf[IfaceOf[o]] = s, IfaceOf[o] \in d.tree
    PROVE  Held(Enabled(e, "owners"), e, s)
  <1> DEFINE g == NameHasOwner(d, Group[e])
             h == Run(g, e)
  <1>1. e \in Event
    BY DEF OwnerEvent
  <1>2. BusTypeOK /\ d \in Sound /\ Group[e] \in Seq(Object)
    BY <1>1, StateTyped, ActionsTyped
  <1>3. o \in Range(Group[e])
    BY DEF Members
  <1>4. g \in Sound /\ IfaceOf[o] \notin g.owned
    BY <1>2, <1>3, NameHasOwnerLearns DEF Learns
  <1> HIDE DEF g
  <1>5. Lacks(g, e)
    BY <1>4 DEF Lacks
  <1>6. h \in Acts(g) /\ Holding(h, e)
    BY <1>1, <1>4, <1>5, RunActs
  <1>7. Enabled(e, "owners") = h
    BY DEF Enabled, g
  <1> HIDE DEF h
  <1>8. IfaceOf[o] \notin h.owned
    BY <1>4, <1>6 DEF Acts, Reads, Learns, KeepsHolds
  <1> QED
    BY <1>6, <1>7, <1>8 DEF Held

\* The triggers of an event watch its owners first and ask for them then.
LEMMA EnableHolds ==
    ASSUME CacheState, HoldState, OwnerEventsHold, Enable
    PROVE  HoldState'
  <1> PICK r \in todo :
         LET e == config[r[1]]
             t == Triggers[e][r[2]]
         IN  /\ IsNext(r) /\ d' = Enabled(e, t) /\ done' = done \cup {<<e, t>>}
             /\ owners' = WatchOwners(e, t) /\ todo' = todo \ {r} /\ Read({e})
    BY DEF Enable
  <1> DEFINE e == config[r[1]]
             t == Triggers[e][r[2]]
  <1>1. /\ IsNext(r) /\ d' = Enabled(e, t) /\ done' = done \cup {<<e, t>>}
        /\ owners' = WatchOwners(e, t) /\ todo' = todo \ {r} /\ Lose({})
    BY DEF Read
  <1>2. status = "loading" /\ UNCHANGED <<up, status, config, inbox>>
    BY DEF Enable, busVars
  <1>3. e \in Event /\ Contains(Triggers[e], t)
    BY StepsTyped
  <1>4. ASSUME NEW q \in todo, t = "owners", config[q[1]] = e
        PROVE  Triggers[config[q[1]]][q[2]] # "owner"
    BY <1>1, <1>4, StepsOrdered
  <1>5. t = "owner" => <<e, "owners">> \notin done
    BY DEF HoldState, AsksLast
  <1> HIDE DEF e, t
  <1>6. d' \in Learns(d)
    BY <1>1, <1>3, EnabledLearns
  <1>7. KeepsHolds(d, d') /\ d.tree \subseteq d'.tree
    BY <1>6 DEF Learns, KeepsHolds
  <1>8. ASSUME NEW x, NEW s, <<x, s>> \in owners', <<x, s>> \notin owners
        PROVE  /\ t = "owner" /\ x = e
               /\ \E o \in Members(e) : ServiceOf[IfaceOf[o]] = s /\ IfaceOf[o] \in d'.tree
    BY <1>1, <1>8 DEF WatchOwners
  <1>9. WatchedKnown'
    <2>1. ASSUME NEW x \in Event, NEW s \in Service, <<x, s>> \in owners'
          PROVE  /\ Contains(Triggers[x], "owner")
                 /\ \E o \in Members(x) : ServiceOf[IfaceOf[o]] = s /\ IfaceOf[o] \in d'.tree
      <3>1. CASE <<x, s>> \in owners
        BY <1>7, <3>1 DEF HoldState, WatchedKnown
      <3>2. CASE <<x, s>> \notin owners
        BY <1>3, <1>8, <2>1, <3>2
      <3> QED
        BY <3>1, <3>2
    <2> QED
      BY <2>1 DEF WatchedKnown
  <1>10. AsksLast'
    <2>1. ASSUME NEW q \in todo', Triggers[config[q[1]]][q[2]] = "owner"
          PROVE  <<config[q[1]], "owners">> \notin done'
      <3>1. q \in todo
        BY <1>1
      <3>2. <<config[q[1]], "owners">> \notin done
        BY <2>1, <3>1 DEF HoldState, AsksLast
      <3>3. ~(config[q[1]] = e /\ t = "owners")
        BY <1>4, <2>1, <3>1
      <3> QED
        BY <1>1, <3>2, <3>3
    <2> QED
      BY <1>2, <2>1 DEF AsksLast
  <1>11. LastTrue'
    <2>1. ASSUME NEW s \in Service, s \notin lost', NEW on \in BOOLEAN, LastSays(inbox, s, on)
          PROVE  on <=> s \in up
      <3>1. ~Silent(inbox', s) /\ inbox' \in Seq(Message)
        BY <1>2, <2>1, SilentSays DEF CacheState
      <3>2. s \notin lost
        BY <1>1, <2>1, <3>1, LostKept
      <3> QED
        BY <2>1, <3>2 DEF HoldState, LastTrue
    <2> QED
      BY <1>2, <2>1 DEF LastTrue
  <1>12. ASSUME NEW x \in Range(config), NEW s \in Service, s \notin up,
                <<x, s>> \in owners', <<x, "owners">> \in done'
         PROVE  Held(d', x, s) \/ LastSays(inbox, s, FALSE)
    <2>1. <<x, s>> \in owners
      BY <1>1, <1>5, <1>8, <1>12
    <2>2. x \in OwnerEvent /\ x \in Event
      BY <2>1, WatchingEvent
    <2>3. CASE <<x, "owners">> \in done
      <3>1. Held(d, x, s) \/ LastSays(inbox, s, FALSE)
        BY <1>2, <1>12, <2>1, <2>3 DEF HoldState, DownHeld
      <3>2. Held(d, x, s) => Held(d', x, s)
        BY <1>7, <1>12, <2>2, HeldKept
      <3> QED
        BY <3>1, <3>2
    <2>4. CASE <<x, "owners">> \notin done
      <3>1. x = e /\ t = "owners"
        BY <1>1, <1>12, <2>4
      <3>2. PICK o \in Members(x) : ServiceOf[IfaceOf[o]] = s /\ IfaceOf[o] \in d.tree
        BY <2>1, <2>2 DEF HoldState, WatchedKnown
      <3>3. Held(Enabled(x, "owners"), x, s)
        BY <1>12, <2>2, <3>2, AskedHeld
      <3> QED
        BY <1>1, <3>1, <3>3
    <2> QED
      BY <2>3, <2>4
  <1>13. DownHeld'
    BY <1>2, <1>12 DEF DownHeld
  <1> QED
    BY <1>9, <1>10, <1>11, <1>13 DEF HoldState

-----------------------------------------------------------------------------
LEMMA HoldStateInit == Init => HoldState
  BY DEF Init, HoldState, WatchedKnown, AsksLast, LastTrue, LastSays, DownHeld

LEMMA HoldStateNext ==
    ASSUME OwnerEventsHold
    PROVE  CacheState /\ HoldState /\ [Next]_vars => HoldState'
  <1> SUFFICES ASSUME CacheState, HoldState, [Next]_vars
               PROVE  HoldState'
    OBVIOUS
  <1>1. CASE Environment
    <2>1. inbox' \in Seq(Message)
      BY CacheStateNext DEF CacheState
    <2> QED
      BY <1>1, <2>1, EnvironmentHolds
  <1>2. CASE \E c \in Configs : Start(c) \/ SighupHandler(c)
    BY <1>2, LoadHolds
  <1>3. CASE Enable
    BY <1>3, EnableHolds
  <1>4. CASE HandleSignal
    BY <1>4, HandleSignalHolds
  <1>5. CASE \/ \E k \in DOMAIN timers : TimerExpired(k)
             \/ \E e \in Event : ActionTimerExpired(e)
             \/ PowerStateChanged
    BY <1>5, TimersHold
  <1>6. CASE Loaded \/ LoadFails \/ Dies \/ UNCHANGED vars
    BY <1>6, LoadedHolds
  <1> QED
    BY <1>1, <1>2, <1>3, <1>4, <1>5, <1>6 DEF Next, Daemon

\* Whatever happens to the services while load() enables the triggers, or
\* between two signals: once all signals are handled, an event that watches
\* the owners of its group holds its target, or runs the timer that makes it,
\* as long as one of them is down, unless no handler saw that.
THEOREM MissingServicesAreHeld ==
    ASSUME OwnerEventsHold
    PROVE  Spec => []MissingServicesHeld
  <1>1. CacheState /\ HoldState => MissingServicesHeld
    <2> SUFFICES ASSUME CacheState, HoldState, Quiet, NEW e \in Range(config), Complete(e),
                        Contains(Triggers[e], "owner"),
                        NEW s \in Service \ (up \cup lost), <<e, s>> \in owners
                 PROVE  Holding(d, e)
      BY DEF MissingServicesHeld, Holding
    <2>1. e \in Event
      BY WatchingEvent
    <2>2. Contains(Triggers[e], "owners")
      BY <2>1 DEF OwnerEventsHold
    <2>3. "owners" \in Range(Triggers[e])
      BY <2>2 DEF Contains, Range
    <2>4. <<e, "owners">> \in done
      BY <2>3 DEF Complete, OnPower, Watching
    <2>5. ~LastSays(inbox, s, FALSE)
      BY DEF Quiet, LastSays
    <2>6. Held(d, e, s)
      BY <2>4, <2>5 DEF HoldState, DownHeld, Quiet
    <2> QED
      BY <2>6 DEF Held
  <1> QED
    BY CacheStateInit, CacheStateNext, HoldStateInit, HoldStateNext, <1>1, PTL DEF Spec

-----------------------------------------------------------------------------
(* The events that count                                                   *)

\* The event has read its group, nothing was read behind its back, and once
\* loaded it hears of the changes.
Ready(e) ==
    /\ Watching(e, "properties") /\ e \notin behind
    /\ status # "loading" => Watching(e, "changed") /\ Watching(e, "added")

FloorsOwn == \A e \in CountEvent : OwnFloors(d, e)

\* Triggers are enabled event by event: what is left is of the last event, or later.
LoadInOrder ==
    /\ status = "on" => todo = {}
    /\ \A x \in done, r \in todo, k \in DOMAIN config : config[k] = x[1] => k <= r[1]

\* While the triggers of an event are enabled, no other event reads its objects.
NotBehind ==
    \A r \in todo : <<config[r[1]], "properties">> \in done => config[r[1]] \notin behind

ReadyCounted == \A e \in CountEvent \cap Range(config) : Ready(e) => Counted(d, e)

CountState == FloorsOwn /\ LoadInOrder /\ NotBehind /\ ReadyCounted

\* When values are only forgotten, the floor may stay as it is.
LEMMA ForgottenCounted ==
    ASSUME NEW f, NEW g, NEW e \in CountEvent, Counted(f, e),
           g.floors = f.floors, g.delays = f.delays,
           \A o \in Members(e) : g.objects[o] \in {f.objects[o], NoValue}
    PROVE  Counted(g, e)
  <1>1. e \in Event /\ Action[e].type = "count" /\ Action[e].count \in Nat /\ Action[e].state # NoValue
    BY ActionsTyped, ObjectCacheAssumption DEF IsAction, CountEvent, EventsOf
  <1>2. \A k \in DOMAIN Group[e] : g.objects[Group[e][k]] \in {f.objects[Group[e][k]], NoValue}
    BY DEF Members, Range
  <1>3. AtState(g, e) \subseteq AtState(f, e)
    BY <1>1, <1>2 DEF AtState
  <1>4. IsFiniteSet(AtState(f, e))
    <2>1. IsFiniteSet(DOMAIN Group[e])
      BY <1>1, ActionsTyped, RangeFinite
    <2>2. AtState(f, e) \subseteq DOMAIN Group[e]
      BY DEF AtState
    <2> QED
      BY <2>1, <2>2, FS_Subset
  <1>5. /\ Cardinality(AtState(g, e)) \in Nat /\ Cardinality(AtState(f, e)) \in Nat
        /\ Cardinality(AtState(g, e)) <= Cardinality(AtState(f, e))
    BY <1>3, <1>4, FS_Subset, FS_CardinalityType
  <1>6. CountReached(g, e) => CountReached(f, e)
    BY <1>1, <1>3, <1>5 DEF CountReached
  <1>7. CASE CountReached(g, e)
    BY <1>6, <1>7 DEF Counted
  <1>8. CASE ~CountReached(g, e)
    <2> SUFFICES ASSUME \A o \in Members(e) : g.objects[o] # NoValue
                 PROVE  (\A z \in Zone : g.floors[e][z] = NoFloor) /\ e \notin g.delays
      BY <1>8 DEF Counted
    <2>1. SameFor(f, g, e) /\ \A o \in Members(e) : f.objects[o] # NoValue
      BY DEF SameFor
    <2>2. ~CountReached(f, e)
      BY <1>8, <2>1, SameReached
    <2> QED
      BY <2>1, <2>2 DEF Counted
  <1> QED
    BY <1>7, <1>8

LEMMA LearnsCounts ==
    ASSUME NEW f, NEW g \in Learns(f), NEW e \in CountEvent, OwnFloors(f, e)
    PROVE  OwnFloors(g, e) /\ (SameFor(f, g, e) /\ Counted(f, e) => Counted(g, e))
  BY DEF Learns, KeepsCounts, KeepsCount

\* The timers, the power: what runs for an event counts for it, and the others
\* keep their floors unless their objects were read.
LEMMA RanCounts ==
    ASSUME CacheState, CountState, NEW g \in Reads(d), NEW ran, Ran(g, ran),
           \A e \in CountEvent \cap ran : Counted(g, e)
    PROVE  CountState'
  <1>1. /\ d' = g /\ status = "on" /\ UNCHANGED <<status, config, todo, done>>
        /\ behind' = {e \in Event \ ran :
                        e \in behind \/ \E o \in Members(e) : d'.objects[o] # d.objects[o]}
    BY DEF Ran, Read
  <1>2. g \in Learns(d) /\ todo = {}
    BY <1>1 DEF Reads, CountState, LoadInOrder
  <1>3. FloorsOwn'
    BY <1>1, <1>2, LearnsCounts DEF CountState, FloorsOwn
  <1>4. LoadInOrder' /\ NotBehind'
    BY <1>1, <1>2 DEF LoadInOrder, NotBehind
  <1>5. ASSUME NEW e \in CountEvent \cap Range(config), Ready(e)'
        PROVE  Counted(g, e)
    <2>1. CASE e \in ran
      BY <2>1
    <2>2. CASE e \notin ran
      <3>1. e \in Event
        BY DEF CountEvent, EventsOf
      <3>2. e \notin behind /\ SameFor(d, g, e)
        BY <1>1, <1>5, <2>2, <3>1 DEF Ready, SameFor
      <3>3. Ready(e)
        BY <1>1, <1>5, <3>2 DEF Ready, Watching
      <3>4. Counted(d, e) /\ OwnFloors(d, e)
        BY <3>3 DEF CountState, ReadyCounted, FloorsOwn
      <3> QED
        BY <1>2, <3>2, <3>4, LearnsCounts
    <2> QED
      BY <2>1, <2>2
  <1>6. ReadyCounted'
    BY <1>1, <1>5 DEF ReadyCounted
  <1> QED
    BY <1>3, <1>4, <1>6 DEF CountState

\* A handler: the events it runs count what is stored, and those it does not
\* run lose values at most.
LEMMA HandlerCounts ==
    ASSUME CacheState, CountState, UNCHANGED <<status, config, todo, done>>, status = "on",
           NEW E, behind' = behind \ E,
           NEW f \in Sound, f.floors = d.floors, f.delays = d.delays,
           \A e \in Range(config) : Watching(e, "changed") /\ Watching(e, "added") /\ e \notin E =>
              \A o \in Members(e) : f.objects[o] \in {d.objects[o], NoValue},
           d' = IF E = {} THEN d ELSE RunAll(f, E)
    PROVE  CountState'
  <1>1. \A e \in CountEvent : OwnFloors(f, e)
    BY DEF CountState, FloorsOwn, OwnFloors
  <1> DEFINE g == RunAll(f, E)
  <1>2. /\ g \in Learns(f) /\ g.objects = f.objects
        /\ \A e \in CountEvent \cap E \cap Range(config) : Counted(g, e)
    BY <1>1, StateTyped, RunAllActs DEF Acts, Reads
  <1> HIDE DEF g
  <1>3. FloorsOwn'
    <2>1. \A e \in CountEvent : OwnFloors(g, e)
      BY <1>1, <1>2, LearnsCounts
    <2>2. d' = d \/ d' = g
      BY DEF g
    <2> QED
      BY <2>1, <2>2 DEF CountState, FloorsOwn
  <1>4. LoadInOrder' /\ NotBehind'
    BY DEF CountState, LoadInOrder, NotBehind
  <1>5. ASSUME NEW e \in CountEvent \cap Range(config), Ready(e)'
        PROVE  Counted(d', e)
    <2>1. CASE e \in E
      <3>1. d' = g
        BY <2>1 DEF g
      <3> QED
        BY <1>2, <2>1, <3>1
    <2>2. CASE e \notin E
      <3>1. Ready(e) /\ Watching(e, "changed") /\ Watching(e, "added")
        BY <1>5, <2>2 DEF Ready, Watching
      <3>2. Counted(d, e)
        BY <3>1 DEF CountState, ReadyCounted
      <3>3. Counted(f, e)
        BY <2>2, <3>1, <3>2, ForgottenCounted
      <3>4. Counted(g, e)
        BY <1>1, <1>2, <3>3, LearnsCounts DEF SameFor
      <3> QED
        BY <3>2, <3>4 DEF g
    <2> QED
      BY <2>1, <2>2
  <1>6. ReadyCounted'
    BY <1>5 DEF ReadyCounted
  <1> QED
    BY <1>3, <1>4, <1>6 DEF CountState

LEMMA HandleSignalCounts ==
    ASSUME CacheState, CountState, HandleSignal
    PROVE  CountState'
  <1> DEFINE m == Head(inbox)
  <1>1. /\ status = "on" /\ inbox # <<>>
        /\ UNCHANGED <<status, config, todo, done>>
        /\ PropertiesChanged(m) \/ InterfacesAdded(m) \/ InterfacesRemoved(m) \/ NameOwnerChanged(m)
    BY DEF HandleSignal
  <1>2. m \in Message /\ d \in Sound
    BY <1>1, StateTyped DEF CacheState
  <1> HIDE DEF m
  <1>3. \A e \in Range(config) : Members(e) \subseteq Object
    <2>1. Range(config) \subseteq Event
      BY StateTyped, RangeFinite
    <2> QED
      BY <2>1, MembersTyped
  <1>4. CASE PropertiesChanged(m)
    <2> DEFINE E == Watchers("changed", {m.object})
               f == SetProperty(d, m.object, m.value)
    <2>1. /\ m.type = "changed" /\ behind' = behind \ E
          /\ d' = IF E = {} THEN d ELSE RunAll(f, E)
      BY <1>4 DEF PropertiesChanged, Handled
    <2>2. m.object \in Object /\ m.value \in Value \cup {NoValue}
      BY <1>2, <2>1, MessageTyped
    <2>3. /\ f \in Sound /\ f.floors = d.floors /\ f.delays = d.delays
          /\ \A o \in Object : f.objects[o] = IF o = m.object THEN m.value ELSE d.objects[o]
      BY <1>2, <2>2, SetPropertySets
    <2>4. \A e \in Range(config) : Watching(e, "changed") /\ e \notin E => m.object \notin Members(e)
      BY DEF Watchers
    <2> HIDE DEF f, E
    <2>5. \A e \in Range(config) : Watching(e, "changed") /\ Watching(e, "added") /\ e \notin E =>
             \A o \in Members(e) : f.objects[o] \in {d.objects[o], NoValue}
      BY <1>3, <2>3, <2>4
    <2> QED
      BY <1>1, <2>1, <2>3, <2>5, HandlerCounts
  <1>5. CASE InterfacesAdded(m)
    <2> DEFINE E == Watchers("added", ObjectsOf(m.iface))
               first == FirstObject(FirstOf(E), m.iface)
               f == IF E = {} THEN d ELSE SetProperty(d, first, m.values[first])
    <2>1. /\ m.type = "added" /\ behind' = behind \ E
          /\ d' = IF E = {} THEN d ELSE RunAll(f, E)
      BY <1>5 DEF InterfacesAdded, Handled
    <2>2. E # {} => first \in ObjectsOf(m.iface)
      BY FirstObjectOf
    <2>3. E # {} => first \in Object /\ m.values[first] \in Value \cup {NoValue}
      <3>1. m.values \in [ObjectsOf(m.iface) -> Value]
        BY <1>2, <2>1, MessageTyped
      <3> HIDE DEF first
      <3> QED
        BY <2>2, <3>1 DEF ObjectsOf
    <2>4. /\ f \in Sound /\ f.floors = d.floors /\ f.delays = d.delays
          /\ \A o \in Object : o \notin ObjectsOf(m.iface) => f.objects[o] = d.objects[o]
      <3>1. CASE E = {}
        BY <1>2, <3>1
      <3>2. CASE E # {}
        <4> DEFINE v == m.values[first]
        <4>1. first \in Object /\ v \in Value \cup {NoValue} /\ f = SetProperty(d, first, v)
          BY <2>3, <3>2
        <4>2. first \in ObjectsOf(m.iface)
          BY <2>2, <3>2
        <4> HIDE DEF first, v, f
        <4> QED
          BY <1>2, <4>1, <4>2, SetPropertySets
      <3> QED
        BY <3>1, <3>2
    <2>5. \A e \in Range(config) : Watching(e, "added") /\ e \notin E =>
             \A o \in Members(e) : o \notin ObjectsOf(m.iface)
      BY DEF Watchers
    <2> HIDE DEF f, E
    <2>6. \A e \in Range(config) : Watching(e, "changed") /\ Watching(e, "added") /\ e \notin E =>
             \A o \in Members(e) : f.objects[o] \in {d.objects[o], NoValue}
      BY <1>3, <2>4, <2>5
    <2> QED
      BY <1>1, <2>1, <2>4, <2>6, HandlerCounts
  <1>6. CASE InterfacesRemoved(m)
    <2> DEFINE E == Watchers("removed", ObjectsOf(m.iface))
               f == RemoveInterface(d, m.iface)
    <2>1. behind' = behind \ E /\ d' = IF E = {} THEN d ELSE RunAll(f, E)
      BY <1>6 DEF InterfacesRemoved, Handled
    <2>2. /\ f \in Sound /\ f.floors = d.floors /\ f.delays = d.delays
          /\ \A o \in Object : f.objects[o] \in {d.objects[o], NoValue}
      BY <1>2, RemoveInterfaceSets
    <2> HIDE DEF f, E
    <2> QED
      BY <1>1, <1>3, <2>1, <2>2, HandlerCounts
  <1>7. CASE NameOwnerChanged(m)
    <2> DEFINE E == OwnerWatchers(m.service)
               f == SetOwner(d, m.service, m.on)
    <2>1. m.type = "owner" /\ behind' = behind \ E /\ d' = IF E = {} THEN d ELSE RunAll(f, E)
      BY <1>7 DEF NameOwnerChanged, Handled
    <2>2. m.on \in BOOLEAN
      BY <1>2, <2>1, MessageTyped
    <2>3. /\ f \in Sound /\ f.floors = d.floors /\ f.delays = d.delays
          /\ \A o \in Object : f.objects[o] \in {d.objects[o], NoValue}
      BY <1>2, <2>2, SetOwnerSets
    <2> HIDE DEF f, E
    <2> QED
      BY <1>1, <1>3, <2>1, <2>3, HandlerCounts
  <1> QED
    BY <1>1, <1>4, <1>5, <1>6, <1>7

LEMMA TimersCount ==
    ASSUME CacheState, CountState, CountEventsHear,
           \/ \E k \in DOMAIN timers : TimerExpired(k)
           \/ \E e \in Event : ActionTimerExpired(e)
           \/ PowerStateChanged
    PROVE  CountState'
  <1>1. CASE \E k \in DOMAIN timers : TimerExpired(k)
    <2> PICK k \in DOMAIN timers : TimerExpired(k)
      BY <1>1
    <2>1. PICK g \in Reads(d) :
             /\ Ran(g, {timers[k].event})
             /\ \A e \in CountEvent \cap {timers[k].event} : OwnFloors(d, e) => Counted(g, e)
      BY TimerExpiredReads
    <2>2. \A e \in CountEvent \cap {timers[k].event} : Counted(g, e)
      BY <2>1 DEF CountState, FloorsOwn
    <2> QED
      BY <2>1, <2>2, RanCounts
  <1>2. CASE \E e \in Event : ActionTimerExpired(e)
    <2> PICK e \in Event : ActionTimerExpired(e)
      BY <1>2
    <2>1. PICK g \in Reads(d) : Ran(g, {})
      BY ActionTimerExpiredReads
    <2> QED
      BY <2>1, RanCounts
  <1>3. CASE PowerStateChanged
    <2> DEFINE E == PowerEvents(~power)
               g == ReadAndRun(E)
    <2>1. Ran(g, E)
      BY <1>3 DEF PowerStateChanged
    <2>2. g \in Reads(d)
      BY StateTyped, ReadAndRunReads
    <2>3. CountEvent \cap E = {}
      <3>1. \A e \in CountEvent : /\ e \in Event /\ Action[e].type = "count"
                                  /\ "poweron" \notin Range(Triggers[e])
                                  /\ "poweroff" \notin Range(Triggers[e])
        BY DEF CountEventsHear, CountEvent, EventsOf
      <3>2. \A e \in E : Contains(Triggers[e], "poweron") \/ Contains(Triggers[e], "poweroff")
        BY DEF PowerEvents
      <3> QED
        BY <3>1, <3>2 DEF Contains, Range
    <2> HIDE DEF E, g
    <2> QED
      BY <2>1, <2>2, <2>3, RanCounts
  <1> QED
    BY <1>1, <1>2, <1>3

\* The first load and a reload start without floors.
LEMMA LoadCounts ==
    ASSUME CacheState, NEW c, Start(c) \/ SighupHandler(c)
    PROVE  CountState'
  <1>1. done' = {} /\ status' = "loading"
    BY DEF Start, SighupHandler, Load
  <1>2. \A e \in Event, z \in Zone : NoDaemon.floors[e][z] = NoFloor
    BY DEF NoDaemon
  <1>3. d'.floors = NoDaemon.floors /\ d'.delays = {}
    <2>1. CASE Start(c)
      BY <2>1 DEF Start, NoDaemon
    <2>2. CASE SighupHandler(c)
      <3> DEFINE g == [d EXCEPT !.triggers = {}, !.dangling = @ \cup {t[1] : t \in d.triggers},
                                !.targets = {}]
                 h == [g EXCEPT !.floors = NoDaemon.floors, !.delays = {}]
      <3>1. d' = [h EXCEPT !.settling = {}, !.timed = {}, !.cards = NoDaemon.cards]
        BY <2>2 DEF SighupHandler, Renewed
      <3>2. d \in DaemonState
        BY StateTyped DEF Sound
      <3> QED
        BY <3>1, <3>2 DEF DaemonState
    <2> QED
      BY <2>1, <2>2
  <1>4. FloorsOwn'
    <2>1. \A e \in CountEvent : OwnFloors(d', e)
      BY <1>2, <1>3 DEF OwnFloors, CountEvent, EventsOf
    <2> QED
      BY <2>1 DEF FloorsOwn
  <1>5. LoadInOrder' /\ NotBehind' /\ ReadyCounted'
    BY <1>1 DEF LoadInOrder, NotBehind, ReadyCounted, Ready, Watching
  <1> QED
    BY <1>4, <1>5 DEF CountState

\* The services, a load that is done or given up, and the daemon's end.
LEMMA IdleCounts ==
    ASSUME CacheState, CountState, Environment \/ Loaded \/ LoadFails \/ Dies \/ UNCHANGED vars
    PROVE  CountState'
  <1>1. /\ UNCHANGED <<config, done, behind>>
        /\ \/ status' = status /\ todo' = todo
           \/ status' \in {"off", "on"} /\ todo' = {}
           \/ status' = "off" /\ status = "on" /\ todo' = todo
    BY DEF Environment, ChangeValue, AddIface, RemoveIface, ServiceStarts, ServiceStops, Send,
           Loaded, LoadFails, Dies, vars, daemonVars
  <1>2. d' \in Learns(d) /\ d'.objects = d.objects
    <2>1. CASE LoadFails
      BY <2>1, LoadFailsLearns
    <2>2. CASE ~LoadFails
      <3>1. d' = d
        BY <2>2 DEF Environment, ChangeValue, AddIface, RemoveIface, ServiceStarts, ServiceStops,
                    Send, Loaded, Dies, vars, daemonVars
      <3>2. d \in Acts(d)
        BY StateTyped, ActsRefl
      <3> QED
        BY <3>1, <3>2 DEF Acts, Reads
    <2> QED
      BY <2>1, <2>2
  <1>3. FloorsOwn'
    BY <1>2, LearnsCounts DEF CountState, FloorsOwn
  <1>4. LoadInOrder' /\ NotBehind'
    BY <1>1 DEF CountState, LoadInOrder, NotBehind
  <1>5. ASSUME NEW e \in CountEvent \cap Range(config), Ready(e)'
        PROVE  Counted(d', e)
    <2>1. Ready(e)
      BY <1>1, <1>5 DEF Ready, Watching
    <2>2. Counted(d, e) /\ OwnFloors(d, e)
      BY <2>1 DEF CountState, ReadyCounted, FloorsOwn
    <2> QED
      BY <1>2, <2>2, LearnsCounts DEF SameFor
  <1>6. ReadyCounted'
    BY <1>1, <1>5 DEF ReadyCounted
  <1> QED
    BY <1>3, <1>4, <1>6 DEF CountState

\* The trigger that reads the group runs the event, and the others that are
\* enabled for it read nothing.
LEMMA EnabledCounts ==
    ASSUME CacheState, NEW e \in CountEvent, OwnFloors(d, e),
           NEW t \in {"properties", "owners", "changed", "added", "removed", "owner", "param",
                      "once", "repeat"}
    PROVE  IF t \in {"properties", "owners"} THEN Counted(Enabled(e, t), e)
           ELSE Enabled(e, t) \in Acts(d)
  <1>1. e \in Event /\ e \in FloorEvent
    BY DEF CountEvent, FloorEvent, EventsOf
  <1>2. BusTypeOK /\ d \in Sound /\ Group[e] \in Seq(Object)
    BY <1>1, StateTyped, ActionsTyped
  <1>3. CASE t \in {"properties", "owners"}
    <2> DEFINE g == IF t = "properties" THEN GetProperties(d, Group[e]) ELSE NameHasOwner(d, Group[e])
    <2>1. Enabled(e, t) = Run(g, e)
      BY <1>3 DEF Enabled
    <2>2. g \in Learns(d)
      BY <1>2, GetPropertiesReads, NameHasOwnerLearns DEF Reads
    <2> HIDE DEF g
    <2>3. g \in Sound /\ OwnFloors(g, e)
      BY <2>2, LearnsCounts DEF Learns
    <2> QED
      BY <1>1, <1>3, <2>1, <2>3, RunActs
  <1>4. CASE t = "owner"
    <2>1. Enabled(e, t) = GetServices(Group[e])
      BY <1>4 DEF Enabled
    <2> QED
      BY <1>2, <1>4, <2>1, GetServicesActs
  <1>5. CASE t = "param"
    <2>1. Enabled(e, t) = AddParameterTrigger(d, e, ParamsOf[e])
      BY <1>5 DEF Enabled
    <2>2. ParamsOf[e] \in SUBSET Param
      BY <1>1, ControlEventsAssumption
    <2> QED
      BY <1>1, <1>2, <1>5, <2>1, <2>2, AddParameterTriggerActs
  <1>6. CASE t \in {"changed", "added", "removed", "once", "repeat"}
    <2>1. Enabled(e, t) = d
      BY <1>6 DEF Enabled
    <2> QED
      BY <1>2, <1>6, <2>1, ActsRefl
  <1> QED
    BY <1>3, <1>4, <1>5, <1>6

\* load() goes through the triggers in their order.
LEMMA EnableInOrder ==
    ASSUME CacheState, LoadInOrder, NotBehind, Enable
    PROVE  LoadInOrder' /\ NotBehind'
  <1> PICK s \in todo :
         LET e == config[s[1]]
             t == Triggers[e][s[2]]
         IN  IsNext(s) /\ done' = done \cup {<<e, t>>} /\ todo' = todo \ {s} /\ Read({e})
    BY DEF Enable
  <1> DEFINE e == config[s[1]]
             t == Triggers[e][s[2]]
  <1>1. /\ IsNext(s) /\ done' = done \cup {<<e, t>>} /\ todo' = todo \ {s}
        /\ behind' = {x \in Event \ {e} :
                        x \in behind \/ \E o \in Members(x) : d'.objects[o] # d.objects[o]}
    BY DEF Read
  <1>2. status = "loading" /\ UNCHANGED <<status, config>>
    BY DEF Enable
  <1>3. s[1] \in DOMAIN config /\ e = config[s[1]]
    BY StepsTyped
  <1> HIDE DEF e, t
  <1>4. \A r \in todo : r[1] \in DOMAIN config /\ config[r[1]] \in Event
    BY StepsTyped
  <1>5. DOMAIN config \subseteq Int
    BY StateTyped
  <1>6. \A r \in todo : s[1] <= r[1]
    BY <1>1, <1>3, <1>4, <1>5 DEF IsNext
  <1>7. LoadInOrder'
    <2>1. ASSUME NEW x \in done', NEW r \in todo', NEW k \in DOMAIN config, config[k] = x[1]
          PROVE  k <= r[1]
      <3>1. CASE x \in done
        BY <1>1, <2>1, <3>1 DEF LoadInOrder
      <3>2. CASE x = <<e, t>>
        <4>1. k = s[1]
          BY <1>3, <2>1, <3>2, NamesDiffer
        <4> QED
          BY <1>1, <1>6, <4>1
      <3> QED
        BY <1>1, <3>1, <3>2
    <2> QED
      BY <1>2, <2>1 DEF LoadInOrder
  <1>8. NotBehind'
    <2>1. ASSUME NEW r \in todo', <<config[r[1]], "properties">> \in done'
          PROVE  config[r[1]] \notin behind'
      <3>1. CASE config[r[1]] = e
        BY <1>1, <3>1
      <3>2. CASE config[r[1]] # e
        <4>1. r \in todo /\ <<config[r[1]], "properties">> \in done
          BY <1>1, <2>1, <3>2
        <4>2. r[1] <= s[1]
          BY <1>4, <4>1 DEF LoadInOrder
        <4>3. r[1] = s[1]
          BY <1>3, <1>4, <1>5, <1>6, <4>1, <4>2
        <4> QED
          BY <1>3, <3>2, <4>3
      <3> QED
        BY <3>1, <3>2
    <2> QED
      BY <1>2, <2>1 DEF NotBehind
  <1> QED
    BY <1>7, <1>8

\* load() enables the triggers of one event after the other.
LEMMA EnableCounts ==
    ASSUME CacheState, CountState, Enable
    PROVE  CountState'
  <1> PICK s \in todo :
         LET e == config[s[1]]
             t == Triggers[e][s[2]]
         IN  /\ IsNext(s) /\ d' = Enabled(e, t) /\ done' = done \cup {<<e, t>>}
             /\ todo' = todo \ {s} /\ Read({e})
    BY DEF Enable
  <1> DEFINE e == config[s[1]]
             t == Triggers[e][s[2]]
  <1>1. /\ IsNext(s) /\ d' = Enabled(e, t) /\ done' = done \cup {<<e, t>>} /\ todo' = todo \ {s}
        /\ behind' = {x \in Event \ {e} :
                        x \in behind \/ \E o \in Members(x) : d'.objects[o] # d.objects[o]}
    BY DEF Read
  <1>2. status = "loading" /\ UNCHANGED <<status, config>>
    BY DEF Enable
  <1>3. /\ s[1] \in DOMAIN config /\ e = config[s[1]] /\ e \in Event /\ Contains(Triggers[e], t)
        /\ t \in {"properties", "owners", "changed", "added", "removed", "owner", "param",
                  "once", "repeat"}
    BY StepsTyped
  <1>4. <<e, "properties">> \in done => e \notin behind
    BY DEF CountState, NotBehind
  <1> HIDE DEF e, t
  <1>5. FloorsOwn' /\ d' \in Learns(d)
    <2>1. d' \in Learns(d)
      BY <1>1, <1>3, EnabledLearns
    <2> QED
      BY <2>1, LearnsCounts DEF CountState, FloorsOwn
  <1>6. LoadInOrder' /\ NotBehind'
    BY EnableInOrder DEF CountState
  <1>7. ASSUME NEW x \in CountEvent \cap Range(config), Ready(x)'
         PROVE  Counted(d', x)
    <2>1. OwnFloors(d, x) /\ x \in Event
      BY DEF CountState, FloorsOwn, CountEvent, EventsOf
    <2>2. CASE x = e /\ t \in {"properties", "owners"}
      BY <1>1, <2>1, <2>2, EnabledCounts
    <2>3. CASE ~(x = e /\ t \in {"properties", "owners"})
      <3>1. <<x, "properties">> \in done
        BY <1>1, <1>7, <2>3 DEF Ready, Watching
      <3>2. x \notin behind /\ SameFor(d, d', x)
        <4>1. CASE x = e
          <5>1. d' \in Acts(d)
            BY <1>1, <1>3, <2>1, <2>3, <4>1, EnabledCounts
          <5> QED
            BY <1>4, <3>1, <4>1, <5>1 DEF Acts, SameFor
        <4>2. CASE x # e
          BY <1>1, <1>7, <2>1, <4>2 DEF Ready, SameFor
        <4> QED
          BY <4>1, <4>2
      <3>3. Ready(x)
        BY <1>2, <3>1, <3>2 DEF Ready, Watching
      <3>4. Counted(d, x)
        BY <3>3 DEF CountState, ReadyCounted
      <3> QED
        BY <1>5, <2>1, <3>2, <3>4, LearnsCounts
    <2> QED
      BY <2>2, <2>3
  <1>8. ReadyCounted'
    BY <1>2, <1>7 DEF ReadyCounted
  <1> QED
    BY <1>5, <1>6, <1>8 DEF CountState

LEMMA CountStateInit == Init => CountState
  <1> SUFFICES ASSUME Init
               PROVE  CountState
    OBVIOUS
  <1>1. d.floors = NoDaemon.floors /\ d.delays = {} /\ todo = {} /\ done = {}
    BY DEF Init, NoDaemon
  <1>2. \A e \in Event, z \in Zone : NoDaemon.floors[e][z] = NoFloor
    BY DEF NoDaemon
  <1>3. FloorsOwn
    BY <1>1, <1>2 DEF FloorsOwn, OwnFloors, CountEvent, EventsOf
  <1> QED
    BY <1>1, <1>3 DEF CountState, LoadInOrder, NotBehind, ReadyCounted, Ready, Watching

LEMMA CountStateNext ==
    ASSUME CountEventsHear
    PROVE  CacheState /\ CountState /\ [Next]_vars => CountState'
  <1> SUFFICES ASSUME CacheState, CountState, [Next]_vars
               PROVE  CountState'
    OBVIOUS
  <1>1. CASE Environment \/ Loaded \/ LoadFails \/ Dies \/ UNCHANGED vars
    BY <1>1, IdleCounts
  <1>2. CASE \E c \in Configs : Start(c) \/ SighupHandler(c)
    BY <1>2, LoadCounts
  <1>3. CASE Enable
    BY <1>3, EnableCounts
  <1>4. CASE HandleSignal
    BY <1>4, HandleSignalCounts
  <1>5. CASE \/ \E k \in DOMAIN timers : TimerExpired(k)
             \/ \E e \in Event : ActionTimerExpired(e)
             \/ PowerStateChanged
    BY <1>5, TimersCount
  <1> QED
    BY <1>1, <1>2, <1>3, <1>4, <1>5 DEF Next, Daemon

\* Whatever changed while load() read the group, or between two signals, and
\* whichever events and parameters ran the action: once all signals are
\* handled, the floor of a count is that of the values on D-Bus, or its delay
\* is running, unless no handler saw a change of a member, or another event
\* read one.
THEOREM CountsAreHeld ==
    ASSUME CountEventsHear
    PROVE  Spec => []CountHeld
  <1>1. CacheState /\ CountState => CountHeld
    <2> SUFFICES ASSUME CacheState, CountState, Quiet, NEW e \in Range(config), Complete(e),
                        Action[e].type = "count", e \notin behind, \A o \in Members(e) : Known(o)
                 PROVE  IF CountReached([d EXCEPT !.objects = bus], e)
                        THEN d.floors[e][FirstZone] = Action[e].floor \/ e \in d.delays
                        ELSE (\A o \in Members(e) : bus[o] # NoValue) =>
                             (\A z \in Zone : d.floors[e][z] = NoFloor) /\ e \notin d.delays
      BY DEF CountHeld
    <2>1. e \in Event /\ e \in CountEvent
      <3>1. Range(config) \subseteq Event
        BY StateTyped, RangeFinite
      <3> QED
        BY <3>1 DEF CountEvent, EventsOf
    <2>2. {"properties", "changed", "added"} \subseteq Range(Triggers[e])
      BY <2>1 DEF CountEventsHear
    <2>3. Ready(e)
      BY <2>2 DEF Complete, OnPower, Ready, Watching
    <2>4. Counted(d, e)
      BY <2>1, <2>3 DEF CountState, ReadyCounted
    <2>5. \A o \in Members(e) : bus[o] = d.objects[o]
      <3>1. Members(e) \subseteq Object
        BY <2>1, MembersTyped
      <3>2. ASSUME NEW o \in Members(e)
            PROVE  Shows(<<>>, o, d.objects[o], bus[o])
        BY <3>1 DEF CacheState, Followed, Quiet
      <3> QED
        BY <3>2, ShowsAtRest
    <2> DEFINE g == [d EXCEPT !.objects = bus]
    <2>6. g.objects = bus
      BY StateTyped DEF Sound, DaemonState
    <2> HIDE DEF g
    <2>7. CountReached(g, e) <=> CountReached(d, e)
      BY <2>1, <2>5, <2>6, SameReached DEF SameFor
    <2>8. (\A o \in Members(e) : bus[o] # NoValue) <=> \A o \in Members(e) : d.objects[o] # NoValue
      BY <2>5
    <2>9. IF CountReached(g, e)
          THEN d.floors[e][FirstZone] = Action[e].floor \/ e \in d.delays
          ELSE (\A o \in Members(e) : bus[o] # NoValue) =>
               (\A z \in Zone : d.floors[e][z] = NoFloor) /\ e \notin d.delays
      BY <2>4, <2>7, <2>8 DEF Counted
    <2> QED
      BY <2>9 DEF g
  <1> QED
    BY CacheStateInit, CacheStateNext, CountStateInit, CountStateNext, <1>1, PTL DEF Spec

-----------------------------------------------------------------------------
(* What floors and parameters are computed from                            *)

LEMMA GroupMaxSame ==
    ASSUME NEW f, NEW g, NEW objs, \A o \in objs : g.objects[o] = f.objects[o]
    PROVE  GroupMax(g, objs) = GroupMax(f, objs)
  <1>1. ValuesOf(g, objs) = ValuesOf(f, objs)
    BY DEF ValuesOf
  <1> QED
    BY <1>1 DEF GroupMax

LEMMA TableFloorSame ==
    ASSUME NEW f, NEW g, NEW t, NEW default,
           \A n \in Range(t.entries) : n.param # NoParam => g.params[n.param] = f.params[n.param],
           \A o \in UNION {n.objects : n \in Range(t.entries)} : g.objects[o] = f.objects[o],
           t.offset # NoParam => g.params[t.offset] = f.params[t.offset]
    PROVE  TableFloor(g, t, default) = TableFloor(f, t, default)
  <1> DEFINE other == IF t.default = NoFloor THEN default ELSE t.default
             value(k, n) == IF n.param = NoParam THEN GroupMax(k, n.objects) ELSE k.params[n.param]
             found(k) == {EntryFloor(value(k, n), n, other) :
                             n \in {n \in Range(t.entries) : n.param = NoParam \/ value(k, n) # NoValue}}
             floor(k) == IF found(k) = {} THEN t.default ELSE Max(found(k))
  <1>1. ASSUME NEW n \in Range(t.entries)
        PROVE  value(g, n) = value(f, n)
    <2>1. \A o \in n.objects : g.objects[o] = f.objects[o]
      OBVIOUS
    <2>2. GroupMax(g, n.objects) = GroupMax(f, n.objects)
      BY <2>1, GroupMaxSame
    <2> QED
      BY <2>2
  <1> HIDE DEF value
  <1>2. found(g) = found(f)
    BY <1>1
  <1> HIDE DEF found
  <1>3. floor(g) = floor(f)
    BY <1>2
  <1>4. \A x : ApplyFloorOffset(g, t, x) = ApplyFloorOffset(f, t, x)
    BY DEF ApplyFloorOffset
  <1>5. \A k : TableFloor(k, t, default) = IF floor(k) = NoFloor THEN default
                                           ELSE ApplyFloorOffset(k, t, floor(k))
    BY DEF TableFloor, found, value
  <1> HIDE DEF floor
  <1> QED
    BY <1>3, <1>4, <1>5

\* A floor depends on the objects and the parameters its action names.
LEMMA MappedFloorSame ==
    ASSUME NEW f, NEW g, NEW e \in Event, Action[e].type = "mapped",
           \A o \in FloorObjects(Action[e]) : g.objects[o] = f.objects[o],
           \A p \in FloorParams(Action[e]) : g.params[p] = f.params[p]
    PROVE  MappedFloor(g, Action[e]) = MappedFloor(f, Action[e])
  <1> DEFINE a == Action[e]
             key == GroupMax(f, a.key)
             fit == {k \in DOMAIN a.tables : key # NoValue /\ key < a.tables[k].key}
  <1>1. a.tables \in Seq(Table)
    BY ActionsTyped DEF IsAction
  <1>2. GroupMax(g, a.key) = key
    BY GroupMaxSame DEF FloorObjects
  <1> HIDE DEF a
  <1>3. MeetsCondition(g, a.condition) <=> MeetsCondition(f, a.condition)
    <2> DEFINE c == a.condition
    <2>1. c.op # "none" => c.object \in FloorObjects(a)
      <3> DEFINE tables == UNION {UNION {n.objects : n \in Range(t.entries)} : t \in Range(a.tables)}
      <3>1. FloorObjects(a) = a.key \cup tables \cup (IF c.op = "none" THEN {} ELSE {c.object})
        BY DEF FloorObjects
      <3> HIDE DEF tables, c
      <3> QED
        BY <3>1
    <2>2. c.op # "none" => g.objects[c.object] = f.objects[c.object]
      BY <2>1 DEF a
    <2> HIDE DEF c
    <2>3. MeetsCondition(g, c) <=> MeetsCondition(f, c)
      BY <2>2 DEF MeetsCondition
    <2> QED
      BY <2>3 DEF c
  <1>4. fit \in SUBSET DOMAIN a.tables
    OBVIOUS
  <1> HIDE DEF key, fit
  <1>5. ASSUME fit # {}
        PROVE  TableFloor(g, a.tables[Min(fit)], a.default) = TableFloor(f, a.tables[Min(fit)], a.default)
    <2>1. Min(fit) \in DOMAIN a.tables
      BY <1>1, <1>4, <1>5, FirstExists
    <2> DEFINE t == a.tables[Min(fit)]
    <2>2. t \in Range(a.tables)
      BY <2>1 DEF Range
    <2> HIDE DEF t
    <2> DEFINE names(u) == {n.param : n \in Range(u.entries)} \cup {u.offset}
    <2>3. names(t) \ {NoParam} \subseteq FloorParams(a)
      <3>1. FloorParams(a) = (UNION {names(u) : u \in Range(a.tables)}) \ {NoParam}
        BY DEF FloorParams
      <3> HIDE DEF names
      <3>2. names(t) \in {names(u) : u \in Range(a.tables)}
        BY <2>2
      <3> QED
        BY <3>1, <3>2
    <2>4. (\A n \in Range(t.entries) : n.param \in names(t)) /\ t.offset \in names(t)
      OBVIOUS
    <2> HIDE DEF names
    <2>5. \A o \in UNION {n.objects : n \in Range(t.entries)} : o \in FloorObjects(a)
      BY <2>2 DEF FloorObjects
    <2>6. \A n \in Range(t.entries) : n.param # NoParam => g.params[n.param] = f.params[n.param]
      BY <2>3, <2>4 DEF a
    <2>7. t.offset # NoParam => g.params[t.offset] = f.params[t.offset]
      BY <2>3, <2>4 DEF a
    <2>8. \A o \in UNION {n.objects : n \in Range(t.entries)} : g.objects[o] = f.objects[o]
      BY <2>5 DEF a
    <2>9. TableFloor(g, t, a.default) = TableFloor(f, t, a.default)
      BY <2>6, <2>7, <2>8, TableFloorSame
    <2> QED
      BY <2>9 DEF t
  <1>6. MappedFloor(g, a) = MappedFloor(f, a)
    BY <1>2, <1>3, <1>5 DEF MappedFloor, key, fit
  <1> QED
    BY <1>6 DEF a

LEMMA GroupParameterSame ==
    ASSUME NEW f, NEW g, NEW e, SameFor(f, g, e)
    PROVE  GroupParameter(g, e) = GroupParameter(f, e)
  <1>1. GroupMax(g, Members(e)) = GroupMax(f, Members(e))
    BY GroupMaxSame DEF SameFor
  <1> QED
    BY <1>1 DEF GroupParameter

LEMMA FloorIndexSame ==
    ASSUME NEW f, NEW g, NEW a, \A o \in CardObjects(a) : g.objects[o] = f.objects[o]
    PROVE  FloorIndex(g, a) = FloorIndex(f, a)
  <1>1. Powered(g, a) = Powered(f, a)
    BY DEF Powered, CardObjects
  <1>2. ASSUME NEW s \in a.slots
        PROVE  CardId(g, s) = CardId(f, s)
    <2>1. \A k \in DOMAIN s.id : s.id[k] \in CardObjects(a)
      BY DEF CardObjects, Range
    <2> QED
      BY <2>1 DEF CardId
  <1>3. {CardId(g, s) : s \in Powered(g, a)} = {CardId(f, s) : s \in Powered(f, a)}
    BY <1>1, <1>2 DEF Powered
  <1>4. HotCards(g, a) = HotCards(f, a)
    BY <1>3 DEF HotCards
  <1> QED
    BY <1>4 DEF FloorIndex

-----------------------------------------------------------------------------
(* What actions change of that                                             *)

\* The objects and parameters, the cards and the parameters' triggers are the same.
SameData(f, g) ==
    /\ g.objects = f.objects /\ g.params = f.params /\ g.triggers = f.triggers
    /\ g.settling = f.settling /\ g.cards = f.cards

\* From f to g only the floors of x change, of what a floor or a parameter depends on.
OnlyFloors(f, g, x) ==
    /\ g \in Sound /\ SameData(f, g)
    /\ \A y \in Event : y # x => g.floors[y] = f.floors[y]

LEMMA FieldsKeepData ==
    ASSUME NEW f \in Sound, NEW x
    PROVE  /\ SameData(f, [f EXCEPT !.targets = x]) /\ [f EXCEPT !.targets = x].floors = f.floors
           /\ SameData(f, [f EXCEPT !.delays = x]) /\ [f EXCEPT !.delays = x].floors = f.floors
           /\ SameData(f, [f EXCEPT !.timed = x]) /\ [f EXCEPT !.timed = x].floors = f.floors
           /\ SameData(f, [f EXCEPT !.faulted = x]) /\ [f EXCEPT !.faulted = x].floors = f.floors
           /\ SameData(f, [f EXCEPT !.floors = x])
  BY DEF SameData, Sound, DaemonState

LEMMA HoldFloorKeeps ==
    ASSUME NEW f \in Sound, NEW x \in Event, NEW Z, NEW floor \in Nat \cup {NoFloor}
    PROVE  LET g == HoldFloor(f, x, Z, floor)
           IN  /\ OnlyFloors(f, g, x)
               /\ \A z \in Zone : g.floors[x][z] = IF z \in Z THEN floor ELSE f.floors[x][z]
  <1> DEFINE row == [z \in Zone |-> IF z \in Z THEN floor ELSE f.floors[x][z]]
             floors == [f.floors EXCEPT ![x] = row]
             g == HoldFloor(f, x, Z, floor)
  <1>1. f.floors \in Floors
    BY DEF Sound, DaemonState, Floors
  <1>2. g = [f EXCEPT !.floors = floors]
    BY <1>1 DEF HoldFloor, Sound, DaemonState, Floors
  <1> HIDE DEF floors, g
  <1>3. SameData(f, g)
    BY <1>2, FieldsKeepData
  <1> QED
    BY <1>3, HoldFloorSets DEF g, OnlyFloors

LEMMA HoldMissingKeeps ==
    ASSUME NEW f \in Sound, NEW x \in Event
    PROVE  /\ HoldMissing(f, x) \in Sound /\ SameData(f, HoldMissing(f, x))
           /\ HoldMissing(f, x).floors = f.floors
  <1> DEFINE targets == IF MissingOwner(f, x) THEN f.targets \cup HoldsOf(x)
                        ELSE f.targets \ HoldsOf(x)
             g == HoldMissing(f, x)
  <1>1. g = [f EXCEPT !.targets = targets]
    BY DEF HoldMissing
  <1>2. g \in Sound
    BY HoldMissingActs, ActsRead
  <1> HIDE DEF targets, g
  <1>3. SameData(f, g) /\ g.floors = f.floors
    BY <1>1, FieldsKeepData
  <1> QED
    BY <1>2, <1>3 DEF g

LEMMA CountFloorKeeps ==
    ASSUME NEW f \in Sound, NEW x \in CountEvent
    PROVE  OnlyFloors(f, CountFloor(f, x), x)
  <1> DEFINE floor == CountedFloor(f, x)
             h == HoldFloor(f, x, Zone, floor)
             none == HoldFloor(f, x, Zone, NoFloor)
             off == [none EXCEPT !.delays = @ \ {x}]
             on == [f EXCEPT !.delays = @ \cup {x}]
  <1>1. x \in Event /\ Action[x].floor \in Nat
    BY ActionsTyped DEF IsAction, CountEvent, EventsOf
  <1>2. floor \in Nat \cup {NoFloor} /\ NoFloor \in Nat \cup {NoFloor}
    BY <1>1 DEF CountedFloor
  <1>3. CountFloor(f, x) \in {h, off, f, on}
    BY DEF CountFloor
  <1>4. CountFloor(f, x) \in Sound
    BY CountFloorActs, ActsRead
  <1> HIDE DEF floor
  <1>5. OnlyFloors(f, h, x) /\ OnlyFloors(f, none, x)
    BY <1>1, <1>2, HoldFloorKeeps
  <1> HIDE DEF h, none
  <1>6. /\ SameData(none, off) /\ off.floors = none.floors
        /\ SameData(f, on) /\ on.floors = f.floors
    BY <1>5, FieldsKeepData DEF OnlyFloors
  <1>7. SameData(f, f)
    BY DEF SameData
  <1> HIDE DEF off, on
  <1>8. SameData(f, off)
    BY <1>5, <1>6 DEF OnlyFloors, SameData
  <1>9. \A g \in {h, off, f, on} :
           SameData(f, g) /\ \A y \in Event : y # x => g.floors[y] = f.floors[y]
    BY <1>5, <1>6, <1>7, <1>8 DEF OnlyFloors
  <1> QED
    BY <1>3, <1>4, <1>9 DEF OnlyFloors

LEMMA DelayExpiredKeeps ==
    ASSUME NEW f \in Sound, NEW x \in CountEvent, x \in f.delays
    PROVE  OnlyFloors(f, DelayExpired(f, x), x)
  <1> DEFINE floor == CountedFloor(f, x)
             h == HoldFloor(f, x, {FirstZone}, floor)
             g == [h EXCEPT !.delays = @ \ {x}]
  <1>1. x \in Event /\ floor \in Nat \cup {NoFloor}
    BY ActionsTyped DEF IsAction, CountEvent, EventsOf, CountedFloor
  <1>2. DelayExpired(f, x) = g
    BY DEF DelayExpired
  <1>3. g \in Sound
    BY <1>2, DelayExpiredActs, ActsRead
  <1> HIDE DEF floor
  <1>4. OnlyFloors(f, h, x)
    BY <1>1, HoldFloorKeeps
  <1> HIDE DEF h
  <1>5. SameData(h, g) /\ g.floors = h.floors
    BY <1>4, FieldsKeepData DEF OnlyFloors
  <1> HIDE DEF g
  <1> QED
    BY <1>2, <1>3, <1>4, <1>5 DEF OnlyFloors, SameData

\* The action of a mapped floor.
FollowsNow(f, g, x) == \A z \in Zone : g.floors[x][z] = MappedFloor(f, Action[x])

LEMMA RunFloorKeeps ==
    ASSUME NEW f \in Sound, NEW x \in FloorEvent
    PROVE  /\ OnlyFloors(f, RunFloor(f, x), x)
           /\ Action[x].type = "mapped" => FollowsNow(f, RunFloor(f, x), x)
  <1>1. x \in Event /\ Action[x].type \in {"missing", "count", "mapped"}
    BY DEF FloorEvent, EventsOf
  <1>2. CASE Action[x].type = "missing"
    <2>1. RunFloor(f, x) = HoldMissing(f, x)
      BY <1>2 DEF RunFloor
    <2> QED
      BY <1>1, <1>2, <2>1, HoldMissingKeeps DEF OnlyFloors
  <1>3. CASE Action[x].type = "count"
    <2>1. RunFloor(f, x) = CountFloor(f, x)
      BY <1>3 DEF RunFloor
    <2> QED
      BY <1>1, <1>3, <2>1, CountFloorKeeps DEF CountEvent, EventsOf
  <1>4. CASE Action[x].type = "mapped"
    <2>1. RunFloor(f, x) = HoldFloor(f, x, Zone, MappedFloor(f, Action[x]))
      BY <1>4 DEF RunFloor
    <2>2. MappedFloor(f, Action[x]) \in Nat \cup {NoFloor}
      BY <1>1, <1>4, MappedFloorType
    <2> DEFINE v == MappedFloor(f, Action[x])
               g == HoldFloor(f, x, Zone, v)
    <2> HIDE DEF v
    <2>3. OnlyFloors(f, g, x) /\ \A z \in Zone : g.floors[x][z] = v
      BY <1>1, <2>2, HoldFloorKeeps DEF v
    <2> HIDE DEF g
    <2> QED
      BY <2>1, <2>3 DEF FollowsNow, g, v
  <1> QED
    BY <1>1, <1>2, <1>3, <1>4

-----------------------------------------------------------------------------
(* The events that map a floor or set a parameter                          *)

FollowEvent == EventsOf({"mapped", "param", "pcie"})

CardsFound(f, e) ==
    \A s \in Action[e].slots : f.objects[s.power] = Action[e].on => CardIface(s) \in f.cards[e]

\* The floor of e, or its parameter, is that of the values cached, or the timer
\* runs that sets it, or it waits for a card that was not found.
Agrees(f, e) ==
    CASE Action[e].type = "mapped" -> \A z \in Zone : f.floors[e][z] = MappedFloor(f, Action[e])
      [] Action[e].type = "param" -> f.params[Action[e].param] = GroupParameter(f, e)
      [] Action[e].type = "pcie" -> \/ e \in f.settling \/ ~CardsFound(f, e)
                                    \/ f.params[Action[e].param] = FloorIndex(f, Action[e])

\* And the parameters of a floor trigger it.
Hooked(f, e) == Action[e].type = "mapped" => \A p \in FloorParams(Action[e]) : <<p, e>> \in f.triggers
Obeys(f, e) == Agrees(f, e) /\ Hooked(f, e)

\* The group of e has all its floor or parameter is computed from.
GroupHas(e) ==
    /\ Action[e].type = "mapped" => FloorObjects(Action[e]) \subseteq Members(e)
                                    /\ FloorParams(Action[e]) \subseteq ParamsOf[e]
    /\ Action[e].type = "pcie" => CardObjects(Action[e]) \subseteq Members(e)

\* Events that do not set the same parameter.
Apart(x, e) ==
    x = e \/ ({Action[x].type, Action[e].type} \subseteq {"param", "pcie"} => Action[x].param # Action[e].param)

LEMMA FollowEventType ==
    ASSUME NEW e \in FollowEvent
    PROVE  /\ e \in Event /\ Action[e].type \in {"mapped", "param", "pcie"}
           /\ Action[e].type \in {"param", "pcie"} => Action[e].param \in Param
           /\ ParamsOf[e] \in SUBSET Param /\ Members(e) \in SUBSET Object
  <1>1. e \in Event /\ Action[e].type \in {"mapped", "param", "pcie"}
    BY DEF FollowEvent, EventsOf
  <1> QED
    BY <1>1, ActionsTyped, ControlEventsAssumption DEF IsAction

\* What keeps the objects, parameters, floors and cards of e.
LEMMA AgreesKept ==
    ASSUME NEW e \in FollowEvent, GroupHas(e), NEW f, NEW g, Agrees(f, e), SameFor(f, g, e),
           Action[e].type = "mapped" => /\ g.floors[e] = f.floors[e]
                                        /\ \A p \in FloorParams(Action[e]) : g.params[p] = f.params[p],
           Action[e].type \in {"param", "pcie"} => g.params[Action[e].param] = f.params[Action[e].param],
           Action[e].type = "pcie" => g.cards[e] = f.cards[e] /\ (e \in f.settling => e \in g.settling)
    PROVE  Agrees(g, e)
  <1>1. e \in Event /\ Action[e].type \in {"mapped", "param", "pcie"}
    BY FollowEventType
  <1>2. CASE Action[e].type = "mapped"
    <2>1. MappedFloor(g, Action[e]) = MappedFloor(f, Action[e])
      BY <1>1, <1>2, MappedFloorSame DEF GroupHas, SameFor
    <2> QED
      BY <1>2, <2>1 DEF Agrees
  <1>3. CASE Action[e].type = "param"
    BY <1>3, GroupParameterSame DEF Agrees
  <1>4. CASE Action[e].type = "pcie"
    <2>1. \A o \in CardObjects(Action[e]) : g.objects[o] = f.objects[o]
      BY <1>4 DEF GroupHas, SameFor
    <2>2. FloorIndex(g, Action[e]) = FloorIndex(f, Action[e])
      BY <2>1, FloorIndexSame
    <2>3. \A s \in Action[e].slots : g.objects[s.power] = f.objects[s.power]
      BY <2>1 DEF CardObjects
    <2>4. CardsFound(g, e) => CardsFound(f, e)
      BY <1>4, <2>3 DEF CardsFound
    <2> QED
      BY <1>4, <2>2, <2>4 DEF Agrees
  <1> QED
    BY <1>1, <1>2, <1>3, <1>4

\* What changes the floors of another event at most.
LEMMA OthersFloorsAgree ==
    ASSUME NEW e \in FollowEvent, GroupHas(e), NEW f, NEW g, SameData(f, g),
           Action[e].type = "mapped" => g.floors[e] = f.floors[e], Agrees(f, e)
    PROVE  Agrees(g, e)
  BY AgreesKept DEF SameData, SameFor

LEMMA MappedNow ==
    ASSUME NEW e \in Event, Action[e].type = "mapped", NEW f, NEW g, SameData(f, g), FollowsNow(f, g, e)
    PROVE  Agrees(g, e)
  <1>1. MappedFloor(g, Action[e]) = MappedFloor(f, Action[e])
    BY MappedFloorSame DEF SameData
  <1> QED
    BY <1>1 DEF Agrees, FollowsNow

\* The actions of a parameter that changed.
LEMMA RunParameterActionsKeeps ==
    ASSUME NEW f \in Sound, NEW p
    PROVE  LET g == RunParameterActions(f, p)
           IN  /\ g \in Sound /\ SameData(f, g)
               /\ \A e \in FollowEvent :
                     /\ GroupHas(e)
                     /\ Agrees(f, e) \/ (Action[e].type = "mapped" /\ <<p, e>> \in f.triggers)
                     => Agrees(g, e)
  <1> DEFINE b == [f EXCEPT !.faulted = @ \/ p \in f.dangling]
             S == {t \in f.triggers : t[1] = p}
             X == {g \in Sound : SameData(f, g)}
             Y(e) == {g \in X : Agrees(g, e)}
             g == RunParameterActions(f, p)
  <1>1. b \in X /\ b.floors = f.floors
    <2>1. (f.faulted \/ p \in f.dangling) \in BOOLEAN
      OBVIOUS
    <2>2. b \in Sound
      BY <2>1, FieldsAct, ActsRead
    <2> QED
      BY <2>2, FieldsKeepData
  <1> HIDE DEF b
  <1>2. ASSUME NEW t \in S, NEW k \in X
        PROVE  /\ RunFloor(k, t[2]) \in X
               /\ \A e \in FollowEvent : GroupHas(e) /\ k \in Y(e) => RunFloor(k, t[2]) \in Y(e)
               /\ Action[t[2]].type = "mapped" => RunFloor(k, t[2]) \in Y(t[2])
    <2> DEFINE n == RunFloor(k, t[2])
    <2>1. t[2] \in FloorEvent /\ t[2] \in Event
      BY DEF Sound, DaemonState, FloorEvent, EventsOf
    <2>2. OnlyFloors(k, n, t[2]) /\ (Action[t[2]].type = "mapped" => FollowsNow(k, n, t[2]))
      BY <2>1, RunFloorKeeps
    <2> HIDE DEF n
    <2>3. n \in X
      BY <2>2 DEF OnlyFloors, SameData
    <2>4. Action[t[2]].type = "mapped" => Agrees(n, t[2])
      BY <2>1, <2>2, MappedNow DEF OnlyFloors
    <2>5. ASSUME NEW e \in FollowEvent, GroupHas(e), Agrees(k, e)
          PROVE  Agrees(n, e)
      <3>1. CASE e = t[2] /\ Action[e].type = "mapped"
        BY <2>4, <3>1
      <3>2. CASE ~(e = t[2] /\ Action[e].type = "mapped")
        <4>1. Action[e].type = "mapped" => n.floors[e] = k.floors[e]
          BY <2>2, <3>2, FollowEventType DEF OnlyFloors
        <4> QED
          BY <2>2, <2>5, <4>1, OthersFloorsAgree DEF OnlyFloors
      <3> QED
        BY <3>1, <3>2
    <2> QED
      BY <2>3, <2>4, <2>5 DEF n
  <1>3. g \in X
    <2> HIDE DEF X
    <2>1. \A t \in S, k \in X : RunFloor(k, t[2]) \in X
      BY <1>2
    <2> QED
      BY <1>1, <2>1, RunParameterActionsIn DEF b
  <1>4. ASSUME NEW e \in FollowEvent, GroupHas(e), Agrees(f, e)
        PROVE  g \in Y(e)
    <2>1. b \in Y(e)
      BY <1>1, <1>4, OthersFloorsAgree
    <2>2. \A t \in S, k \in Y(e) : RunFloor(k, t[2]) \in Y(e)
      BY <1>2, <1>4
    <2> HIDE DEF Y
    <2> QED
      BY <2>1, <2>2, RunParameterActionsIn DEF b
  <1>5. ASSUME NEW e \in FollowEvent, GroupHas(e), Action[e].type = "mapped", <<p, e>> \in f.triggers
        PROVE  g \in Y(e)
    <2>1. <<p, e>> \in S /\ <<p, e>>[2] = e
      BY <1>5
    <2>2. \A k \in X : RunFloor(k, <<p, e>>[2]) \in Y(e)
      BY <1>2, <1>5, <2>1
    <2>3. \A t \in S, k \in Y(e) : RunFloor(k, t[2]) \in Y(e)
      BY <1>2, <1>5
    <2>4. Y(e) \in SUBSET X
      OBVIOUS
    <2>5. \A t \in S, k \in X : RunFloor(k, t[2]) \in X
      BY <1>2
    <2> HIDE DEF Y, X
    <2> QED
      BY <1>1, <2>1, <2>2, <2>3, <2>4, <2>5, RunParameterActionsIn DEF b
  <1> HIDE DEF g
  <1>6. g \in Sound /\ SameData(f, g)
    BY <1>3
  <1>7. \A e \in FollowEvent :
           /\ GroupHas(e)
           /\ Agrees(f, e) \/ (Action[e].type = "mapped" /\ <<p, e>> \in f.triggers)
           => Agrees(g, e)
    BY <1>4, <1>5
  <1> QED
    BY <1>6, <1>7 DEF g

LEMMA SetParameterKeeps ==
    ASSUME NEW f \in Sound, NEW p \in Param, NEW v \in Int \cup {NoValue}
    PROVE  LET g == SetParameter(f, p, v)
           IN  /\ g \in Sound /\ g.objects = f.objects /\ g.triggers = f.triggers
               /\ g.settling = f.settling /\ g.cards = f.cards
               /\ \A q \in Param : g.params[q] = IF q = p THEN v ELSE f.params[q]
               /\ \A e \in FollowEvent :
                     /\ GroupHas(e) /\ Obeys(f, e)
                     /\ Action[e].type \in {"param", "pcie"} => Action[e].param # p
                     => Agrees(g, e)
  <1> DEFINE params == [f.params EXCEPT ![p] = v]
             b == [f EXCEPT !.params = params]
             g == SetParameter(f, p, v)
             n == RunParameterActions(b, p)
  <1>1. f.params \in [Param -> Int \cup {NoValue}]
    BY DEF Sound, DaemonState
  <1>2. /\ params \in [Param -> Int \cup {NoValue}]
        /\ \A q \in Param : params[q] = IF q = p THEN v ELSE f.params[q]
    BY <1>1
  <1>3. g = IF f.params[p] = v THEN f ELSE n
    BY DEF SetParameter
  <1> HIDE DEF params
  <1>4. b \in Sound
    BY <1>2, FieldsAct, ActsRead
  <1>5. /\ b.objects = f.objects /\ b.triggers = f.triggers /\ b.settling = f.settling
        /\ b.cards = f.cards /\ b.params = params /\ b.floors = f.floors
    BY DEF Sound, DaemonState
  <1> HIDE DEF b
  <1>6. n \in Sound /\ SameData(b, n)
    BY <1>4, RunParameterActionsKeeps
  <1>7. ASSUME NEW e \in FollowEvent, GroupHas(e), Obeys(f, e),
               Action[e].type \in {"param", "pcie"} => Action[e].param # p
        PROVE  Agrees(n, e)
    <2>1. Agrees(f, e) /\ Hooked(f, e)
      BY <1>7 DEF Obeys
    <2>2. CASE Action[e].type = "mapped" /\ p \in FloorParams(Action[e])
      <3>1. <<p, e>> \in b.triggers
        BY <1>5, <2>1, <2>2 DEF Hooked
      <3> QED
        BY <1>4, <1>7, <2>2, <3>1, RunParameterActionsKeeps
    <2>3. CASE ~(Action[e].type = "mapped" /\ p \in FloorParams(Action[e]))
      <3>1. Action[e].type = "mapped" =>
               /\ b.floors[e] = f.floors[e]
               /\ \A q \in FloorParams(Action[e]) : b.params[q] = f.params[q]
        BY <1>2, <1>5, <1>7, <2>3, FollowEventType DEF GroupHas
      <3>2. Action[e].type \in {"param", "pcie"} => b.params[Action[e].param] = f.params[Action[e].param]
        BY <1>2, <1>5, <1>7, FollowEventType
      <3>3. Agrees(b, e)
        BY <1>5, <1>7, <2>1, <3>1, <3>2, AgreesKept DEF SameFor
      <3> QED
        BY <1>4, <1>7, <3>3, RunParameterActionsKeeps
    <2> QED
      BY <2>2, <2>3
  <1> HIDE DEF n
  <1>8. n \in Sound /\ n.objects = f.objects /\ n.triggers = f.triggers
        /\ n.settling = f.settling /\ n.cards = f.cards
        /\ \A q \in Param : n.params[q] = IF q = p THEN v ELSE f.params[q]
    BY <1>2, <1>5, <1>6 DEF SameData
  <1>9. f.params[p] = v => \A q \in Param : f.params[q] = IF q = p THEN v ELSE f.params[q]
    OBVIOUS
  <1> HIDE DEF g
  <1>10. /\ g \in Sound /\ g.objects = f.objects /\ g.triggers = f.triggers
         /\ g.settling = f.settling /\ g.cards = f.cards
         /\ \A q \in Param : g.params[q] = IF q = p THEN v ELSE f.params[q]
    BY <1>3, <1>8, <1>9
  <1>11. \A e \in FollowEvent :
            /\ GroupHas(e) /\ Obeys(f, e)
            /\ Action[e].type \in {"param", "pcie"} => Action[e].param # p
            => Agrees(g, e)
    BY <1>3, <1>7 DEF Obeys
  <1> QED
    BY <1>10, <1>11 DEF g

\* From f to g objects are read and the actions of the events E are run: who
\* followed does so still, if its objects are the same.
Moves(f, g, E) ==
    /\ g \in Sound /\ g.triggers = f.triggers /\ g.settling \subseteq f.settling \cup E
    /\ \A o \in Object : g.objects[o] \in {f.objects[o], bus[o]}
    /\ \A e \in FollowEvent :
          GroupHas(e) /\ (\A x \in E : Apart(x, e)) /\ SameFor(f, g, e) /\ Obeys(f, e) => Obeys(g, e)

LEMMA RunTimedKeeps ==
    ASSUME NEW f \in Sound, NEW x \in EventsOf({"timed"})
    PROVE  /\ OnlyFloors(f, RunTimed(f, x), x) /\ RunTimed(f, x).floors = f.floors
           /\ OnlyFloors(f, TimedExpired(f, x), x) /\ TimedExpired(f, x).floors = f.floors
  <1> DEFINE on == [f EXCEPT !.timed = @ \cup {x}]
             off == [f EXCEPT !.timed = @ \ {x}]
             Same(g) == SameData(f, g) /\ g.floors = f.floors
  <1>1. x \in Event
    BY DEF EventsOf
  <1>2. off \in Sound
    BY SetTimed
  <1>3. RunTimed(f, x) \in {on, off, HoldMissing(off, x)}
    BY DEF RunTimed
  <1>4. TimedExpired(f, x) \in {HoldMissing(off, x), HoldMissing(f, x)}
    <2>1. [f EXCEPT !.timed = f.timed] = f
      BY DEF Sound, DaemonState
    <2> QED
      BY <2>1 DEF TimedExpired
  <1>5. RunTimed(f, x) \in Sound /\ TimedExpired(f, x) \in Sound
    BY RunTimedActs, ActsRead
  <1>6. Same(on) /\ Same(off)
    BY FieldsKeepData
  <1> HIDE DEF on, off
  <1>7. SameData(off, HoldMissing(off, x)) /\ HoldMissing(off, x).floors = off.floors
    BY <1>1, <1>2, HoldMissingKeeps
  <1>8. Same(HoldMissing(off, x))
    BY <1>6, <1>7 DEF SameData
  <1>9. Same(HoldMissing(f, x))
    BY <1>1, HoldMissingKeeps
  <1>10. Same(RunTimed(f, x)) /\ Same(TimedExpired(f, x))
    <2> HIDE DEF Same
    <2> QED
      BY <1>3, <1>4, <1>6, <1>8, <1>9
  <1> QED
    BY <1>5, <1>10 DEF OnlyFloors

\* What keeps the floors of the others and all data keeps what they follow.
LEMMA OnlyFloorsMove ==
    ASSUME NEW f, NEW g, NEW x \in Event, OnlyFloors(f, g, x),
           x \in FollowEvent => Agrees(g, x), NEW E
    PROVE  Moves(f, g, E)
  <1>1. ASSUME NEW e \in FollowEvent, GroupHas(e), Obeys(f, e)
        PROVE  Obeys(g, e)
    <2>1. Hooked(g, e)
      BY <1>1 DEF Obeys, Hooked, OnlyFloors, SameData
    <2>2. CASE e = x
      BY <2>1, <2>2 DEF Obeys
    <2>3. CASE e # x
      <3>1. g.floors[e] = f.floors[e]
        BY <2>3, FollowEventType DEF OnlyFloors
      <3>2. Agrees(g, e)
        BY <1>1, <3>1, OthersFloorsAgree DEF OnlyFloors, Obeys
      <3> QED
        BY <2>1, <3>2 DEF Obeys
    <2> QED
      BY <2>2, <2>3
  <1> QED
    BY <1>1 DEF Moves, OnlyFloors, SameData

\* The action of an event makes it follow, and keeps the others that do.
LEMMA RunKeeps ==
    ASSUME NEW f \in Sound, NEW x \in Event
    PROVE  Moves(f, Run(f, x), {x}) /\ (x \in FollowEvent => Agrees(Run(f, x), x))
  <1> DEFINE g == Run(f, x)
             p == Action[x].param
  <1>1. Action[x].type \in {"missing", "count", "mapped", "param", "pcie", "timed"}
    BY ActionsTyped DEF IsAction
  <1>2. CASE Action[x].type \in {"missing", "count", "mapped"}
    <2>1. g = RunFloor(f, x) /\ x \in FloorEvent
      BY <1>2 DEF Run, FloorEvent, EventsOf
    <2> HIDE DEF g
    <2>2. OnlyFloors(f, g, x) /\ (Action[x].type = "mapped" => FollowsNow(f, g, x))
      BY <2>1, RunFloorKeeps
    <2>3. x \in FollowEvent => Agrees(g, x)
      BY <1>2, <2>2, FollowEventType, MappedNow DEF OnlyFloors
    <2> QED
      BY <2>2, <2>3, OnlyFloorsMove DEF g
  <1>3. CASE Action[x].type = "timed"
    <2>1. g = RunTimed(f, x) /\ x \in EventsOf({"timed"})
      BY <1>3 DEF Run, EventsOf
    <2> HIDE DEF g
    <2>2. OnlyFloors(f, g, x)
      BY <2>1, RunTimedKeeps
    <2>3. x \notin FollowEvent
      BY <1>3, FollowEventType
    <2> QED
      BY <2>2, <2>3, OnlyFloorsMove DEF g
  <1>4. CASE Action[x].type = "pcie"
    <2>1. g = [f EXCEPT !.settling = @ \cup {x}] /\ x \in EventsOf({"pcie"})
      BY <1>4 DEF Run, StartSettling, EventsOf
    <2>2. g \in Sound
      BY <2>1, SetSettling, ActsRead
    <2>3. /\ g.objects = f.objects /\ g.triggers = f.triggers /\ g.cards = f.cards
          /\ g.params = f.params /\ g.floors = f.floors /\ g.settling = f.settling \cup {x}
      BY <2>1 DEF Sound, DaemonState
    <2> HIDE DEF g
    <2>4. ASSUME NEW e \in FollowEvent, GroupHas(e), Obeys(f, e)
          PROVE  Obeys(g, e)
      <3>1. Agrees(g, e)
        BY <2>3, <2>4, AgreesKept DEF Obeys, SameFor
      <3> QED
        BY <2>3, <2>4, <3>1 DEF Obeys, Hooked
    <2>5. Agrees(g, x)
      BY <1>4, <2>3 DEF Agrees
    <2> QED
      BY <2>2, <2>3, <2>4, <2>5 DEF Moves, g
  <1>5. CASE Action[x].type = "param"
    <2> DEFINE v == GroupParameter(f, x)
    <2>1. g = SetParameter(f, p, v) /\ p \in Param /\ v \in Int \cup {NoValue}
      BY <1>5, ActionsTyped, GroupParameterType DEF Run, IsAction
    <2> HIDE DEF g, v, p
    <2>2. /\ g \in Sound /\ g.objects = f.objects /\ g.triggers = f.triggers
          /\ g.settling = f.settling /\ g.cards = f.cards
          /\ \A q \in Param : g.params[q] = IF q = p THEN v ELSE f.params[q]
          /\ \A e \in FollowEvent :
                /\ GroupHas(e) /\ Obeys(f, e)
                /\ Action[e].type \in {"param", "pcie"} => Action[e].param # p
                => Agrees(g, e)
      BY <2>1, SetParameterKeeps
    <2>3. Agrees(g, x)
      <3>1. GroupParameter(g, x) = v
        BY <2>2, GroupParameterSame DEF SameFor, v
      <3> QED
        BY <1>5, <2>1, <2>2, <3>1 DEF Agrees, p
    <2>4. ASSUME NEW e \in FollowEvent, GroupHas(e), Apart(x, e), Obeys(f, e)
          PROVE  Obeys(g, e)
      <3>1. Hooked(g, e)
        BY <2>2, <2>4 DEF Obeys, Hooked
      <3>2. CASE e = x
        BY <2>3, <3>1, <3>2 DEF Obeys
      <3>3. CASE e # x
        <4>1. Action[e].type \in {"param", "pcie"} => Action[e].param # p
          BY <1>5, <2>4, <3>3 DEF Apart, p
        <4> QED
          BY <2>2, <2>4, <3>1, <4>1 DEF Obeys
      <3> QED
        BY <3>2, <3>3
    <2> QED
      BY <2>2, <2>3, <2>4 DEF Moves, g
  <1> QED
    BY <1>1, <1>2, <1>3, <1>4, <1>5

\* Once its cards have settled the parameter of an event is set, or a card is missing.
LEMMA SettleExpiredKeeps ==
    ASSUME NEW f \in Sound, BusTypeOK, NEW x \in EventsOf({"pcie"}), GroupHas(x)
    PROVE  Moves(f, SettleExpired(f, x), {x}) /\ Agrees(SettleExpired(f, x), x)
  <1> DEFINE a == Action[x]
             p == Action[x].param
             inUse == Powered(f, a)
             cards == IF f.cards[x] # {} \/ inUse = {} THEN f.cards[x]
                      ELSE {CardIface(s) : s \in a.slots} \cap present
             k == [f EXCEPT !.settling = @ \ {x}, !.cards[x] = cards]
             v == FloorIndex(k, a)
             n == SetParameter(k, p, v)
             g == SettleExpired(f, x)
  <1>1. x \in Event /\ Action[x].type = "pcie" /\ p \in Param /\ x \in FollowEvent
    BY ActionsTyped DEF IsAction, EventsOf, FollowEvent
  <1>2. f.cards \in [Event -> SUBSET Iface]
    BY DEF Sound, DaemonState
  <1>3. cards \in SUBSET Iface
    BY <1>1, <1>2 DEF BusTypeOK
  <1>4. g = IF \E s \in inUse : CardIface(s) \notin cards THEN k ELSE n
    BY DEF SettleExpired
  <1> HIDE DEF cards
  <1>5. /\ k \in Sound /\ k.objects = f.objects /\ k.triggers = f.triggers /\ k.params = f.params
        /\ k.floors = f.floors /\ k.settling = f.settling \ {x} /\ k.cards[x] = cards
        /\ \A e \in Event : e # x => k.cards[e] = f.cards[e]
    <2> DEFINE row == [f.cards EXCEPT ![x] = cards]
               settling == f.settling \ {x}
    <2>1. /\ row \in [Event -> SUBSET Iface] /\ row[x] = cards
          /\ \A e \in Event : e # x => row[e] = f.cards[e]
      BY <1>1, <1>2, <1>3
    <2>2. settling \in SUBSET EventsOf({"pcie"})
      BY DEF Sound, DaemonState
    <2>3. k = [f EXCEPT !.settling = settling, !.cards = row]
      BY DEF Sound, DaemonState
    <2> HIDE DEF row, settling, k
    <2>4. /\ k \in Sound /\ k.objects = f.objects /\ k.triggers = f.triggers /\ k.params = f.params
          /\ k.floors = f.floors /\ k.settling = settling /\ k.cards = row
      BY <2>1, <2>2, <2>3 DEF Sound, DaemonState
    <2> QED
      BY <2>1, <2>4 DEF settling
  <1> HIDE DEF k
  <1>6. v \in Int \cup {NoValue}
    BY <1>1, FloorIndexType
  <1> HIDE DEF v
  <1>7. /\ n \in Sound /\ n.objects = k.objects /\ n.triggers = k.triggers
        /\ n.settling = k.settling /\ n.cards = k.cards
        /\ \A q \in Param : n.params[q] = IF q = p THEN v ELSE k.params[q]
        /\ \A e \in FollowEvent :
              /\ GroupHas(e) /\ Obeys(k, e)
              /\ Action[e].type \in {"param", "pcie"} => Action[e].param # p
              => Agrees(n, e)
    <2> HIDE DEF p
    <2> QED
      BY <1>1, <1>5, <1>6, SetParameterKeeps
  <1>8. ASSUME NEW e \in FollowEvent, GroupHas(e), e # x, Obeys(f, e)
        PROVE  Obeys(k, e)
    <2>1. Agrees(k, e)
      BY <1>5, <1>8, FollowEventType, AgreesKept DEF Obeys, SameFor
    <2> QED
      BY <1>5, <1>8, <2>1 DEF Obeys, Hooked
  <1> HIDE DEF n
  <1>9. /\ g \in {k, n} /\ g \in Sound /\ g.objects = f.objects /\ g.triggers = f.triggers
        /\ g.settling \subseteq f.settling
    BY <1>4, <1>5, <1>7
  <1>10. Agrees(g, x)
    <2>1. CASE \E s \in inUse : CardIface(s) \notin cards
      <3>1. PICK s \in inUse : CardIface(s) \notin cards
        BY <2>1
      <3>2. s \in a.slots /\ f.objects[s.power] = a.on
        BY DEF Powered
      <3>3. ~CardsFound(k, x)
        BY <1>5, <3>1, <3>2 DEF CardsFound
      <3> QED
        BY <1>1, <1>4, <2>1, <3>3 DEF Agrees
    <2>2. CASE ~\E s \in inUse : CardIface(s) \notin cards
      <3>1. FloorIndex(n, a) = v
        BY <1>7, FloorIndexSame DEF v
      <3>2. g = n
        BY <1>4, <2>2
      <3> QED
        BY <1>1, <1>7, <3>1, <3>2 DEF Agrees
    <2> QED
      BY <2>1, <2>2
  <1>11. ASSUME NEW e \in FollowEvent, GroupHas(e), Apart(x, e), Obeys(f, e)
         PROVE  Obeys(g, e)
    <2>1. Hooked(g, e)
      BY <1>9, <1>11 DEF Obeys, Hooked
    <2>2. CASE e = x
      BY <1>10, <2>1, <2>2 DEF Obeys
    <2>3. CASE e # x
      <3>1. Obeys(k, e)
        BY <1>8, <1>11, <2>3
      <3>2. Action[e].type \in {"param", "pcie"} => Action[e].param # p
        BY <1>1, <1>11, <2>3 DEF Apart
      <3>3. Agrees(n, e)
        BY <1>7, <1>11, <3>1, <3>2
      <3>4. Agrees(g, e)
        BY <1>9, <3>1, <3>3 DEF Obeys
      <3> QED
        BY <2>1, <3>4 DEF Obeys
    <2> QED
      BY <2>2, <2>3
  <1> HIDE DEF g
  <1> QED
    BY <1>9, <1>10, <1>11 DEF g, Moves

-----------------------------------------------------------------------------
(* Filling the caches                                                      *)

\* From f to g only what is cached changes.
OnlyCaches(f, g) ==
    /\ g \in Sound /\ g.params = f.params /\ g.triggers = f.triggers
    /\ g.settling = f.settling /\ g.cards = f.cards /\ g.floors = f.floors

\* An event follows as long as its objects are the same.
LEMMA CachesObey ==
    ASSUME NEW f, NEW g, OnlyCaches(f, g), NEW e \in FollowEvent, GroupHas(e), SameFor(f, g, e),
           Obeys(f, e)
    PROVE  Obeys(g, e)
  <1>1. Agrees(g, e)
    BY AgreesKept DEF OnlyCaches, Obeys
  <1> QED
    BY <1>1 DEF OnlyCaches, Obeys, Hooked

LEMMA CachesTrans ==
    ASSUME NEW f, NEW g, NEW k, OnlyCaches(f, g), OnlyCaches(g, k)
    PROVE  OnlyCaches(f, k)
  BY DEF OnlyCaches

LEMMA SetPropertyCaches ==
    ASSUME NEW f \in Sound, NEW o \in Object, NEW v \in Value \cup {NoValue}
    PROVE  OnlyCaches(f, SetProperty(f, o, v))
  <1> DEFINE x == [f.objects EXCEPT ![o] = v]
             g == SetProperty(f, o, v)
  <1>1. g = [f EXCEPT !.objects = x]
    BY DEF SetProperty
  <1>2. g \in Sound
    BY SetPropertySets
  <1> HIDE DEF x, g
  <1>3. OnlyCaches(f, g)
    BY <1>1, <1>2 DEF OnlyCaches, Sound, DaemonState
  <1> QED
    BY <1>3 DEF g

LEMMA RemoveInterfaceCaches ==
    ASSUME NEW f \in Sound, NEW i
    PROVE  OnlyCaches(f, RemoveInterface(f, i))
  <1> DEFINE x == [o \in Object |-> IF IfaceOf[o] = i THEN NoValue ELSE f.objects[o]]
             g == RemoveInterface(f, i)
  <1>1. g = [f EXCEPT !.objects = x]
    BY DEF RemoveInterface
  <1>2. g \in Sound
    BY RemoveInterfaceSets
  <1> HIDE DEF x, g
  <1>3. OnlyCaches(f, g)
    BY <1>1, <1>2 DEF OnlyCaches, Sound, DaemonState
  <1> QED
    BY <1>3 DEF g

LEMMA SetPropertiesCaches ==
    ASSUME NEW f \in Sound, BusTypeOK, NEW I
    PROVE  OnlyCaches(f, SetProperties(f, I))
  <1> DEFINE x == [o \in Object |-> IF IfaceOf[o] \in I THEN bus[o] ELSE f.objects[o]]
             g == SetProperties(f, I)
  <1>1. g = [f EXCEPT !.objects = x]
    BY DEF SetProperties
  <1>2. g \in Sound
    BY SetPropertiesReads, ReadsLearn
  <1> HIDE DEF x, g
  <1>3. OnlyCaches(f, g)
    BY <1>1, <1>2 DEF OnlyCaches, Sound, DaemonState
  <1> QED
    BY <1>3 DEF g

LEMMA SetOwnerCaches ==
    ASSUME NEW f \in Sound, NEW s, NEW on \in BOOLEAN
    PROVE  OnlyCaches(f, SetOwner(f, s, on))
  <1> DEFINE mine == {i \in f.tree : ServiceOf[i] = s}
             O == IF on THEN f.owned \cup mine ELSE f.owned \ mine
             x == [o \in Object |-> IF ~on /\ IfaceOf[o] \in mine THEN NoValue ELSE f.objects[o]]
             g == SetOwner(f, s, on)
  <1>1. g = [f EXCEPT !.owned = O, !.objects = x]
    BY DEF SetOwner
  <1>2. g \in Sound
    BY SetOwnerSets
  <1> HIDE DEF x, g, O
  <1>3. OnlyCaches(f, g)
    BY <1>1, <1>2 DEF OnlyCaches, Sound, DaemonState
  <1> QED
    BY <1>3 DEF g

LEMMA GetServiceCaches ==
    ASSUME NEW f \in Sound, BusTypeOK, NEW i
    PROVE  OnlyCaches(f, GetService(f, i))
  <1> DEFINE new == {j \in present : NameOf[j] = NameOf[i]} \ f.tree
             T == f.tree \cup new
             O == f.owned \cup new
             g == GetService(f, i)
  <1>1. g \in {f, [f EXCEPT !.tree = T, !.owned = O]}
    BY DEF GetService, AddServices
  <1>2. g \in Sound
    BY GetServiceActs, ActsRead
  <1> HIDE DEF T, O, g
  <1>3. OnlyCaches(f, g)
    BY <1>1, <1>2 DEF OnlyCaches, Sound, DaemonState
  <1> QED
    BY <1>3 DEF g

LEMMA SetObjectOwnerCaches ==
    ASSUME NEW f \in Sound, NEW i \in Iface
    PROVE  OnlyCaches(f, SetObjectOwner(f, i, ServiceOf[i] \in up))
  <1> DEFINE T == f.tree \cup {i}
             same == {j \in T : ServiceOf[j] = ServiceOf[i] /\ NameOf[j] = NameOf[i]}
             O == IF ServiceOf[i] \in up THEN f.owned \cup same ELSE f.owned \ same
             g == SetObjectOwner(f, i, ServiceOf[i] \in up)
  <1>1. g = [f EXCEPT !.tree = T, !.owned = O]
    BY DEF SetObjectOwner
  <1>2. g \in Sound
    BY SetObjectOwnerLearns DEF Learns
  <1> HIDE DEF T, O, g
  <1>3. OnlyCaches(f, g)
    BY <1>1, <1>2 DEF OnlyCaches, Sound, DaemonState
  <1> QED
    BY <1>3 DEF g

LEMMA AddObjectCaches ==
    ASSUME NEW f \in Sound, BusTypeOK, NEW o \in Object
    PROVE  OnlyCaches(f, AddObject(f, o))
  <1> DEFINE e == GetService(f, IfaceOf[o])
             I == {j \in present : ServiceOf[j] = ServiceOf[IfaceOf[o]]}
  <1>1. e \in Sound /\ OnlyCaches(f, e)
    BY GetServiceCaches DEF OnlyCaches
  <1>2. AddObject(f, o) \in {e, SetProperty(e, o, bus[o]), SetProperties(e, I)}
    BY DEF AddObject
  <1>3. bus[o] \in Value \cup {NoValue}
    BY DEF BusTypeOK
  <1> HIDE DEF e, I
  <1>4. OnlyCaches(e, SetProperty(e, o, bus[o])) /\ OnlyCaches(e, SetProperties(e, I))
    BY <1>1, <1>3, SetPropertyCaches, SetPropertiesCaches
  <1> QED
    BY <1>1, <1>2, <1>4, CachesTrans

LEMMA CachesRefl ==
    ASSUME NEW f \in Sound
    PROVE  OnlyCaches(f, f)
  BY DEF OnlyCaches

LEMMA OwnerKnownCaches ==
    ASSUME NEW f \in Sound, BusTypeOK, NEW o \in Object
    PROVE  OnlyCaches(f, OwnerKnown(f, o))
  <1> DEFINE i == IfaceOf[o]
             g == GetService(f, i)
             k == SetObjectOwner(g, i, ServiceOf[i] \in up)
  <1>1. g \in Sound /\ OnlyCaches(f, g)
    BY GetServiceCaches DEF OnlyCaches
  <1>2. OwnerKnown(f, o) \in {g, k}
    BY DEF OwnerKnown
  <1>3. OnlyCaches(g, k)
    <2> HIDE DEF g
    <2> QED
      BY <1>1, IfaceOfType, SetObjectOwnerCaches
  <1> HIDE DEF g, k
  <1> QED
    BY <1>1, <1>2, <1>3, CachesTrans

LEMMA FoldsAreCaches ==
    ASSUME NEW f \in Sound, BusTypeOK, NEW objs \in Seq(Object)
    PROVE  /\ OnlyCaches(f, GetProperties(f, objs)) /\ OnlyCaches(f, AddGroups(f, objs))
           /\ OnlyCaches(f, NameHasOwner(f, objs))
  <1> DEFINE X == {g \in Sound : OnlyCaches(f, g)}
  <1>1. f \in X
    BY CachesRefl
  <1>2. ASSUME NEW g \in X, NEW o \in Object
        PROVE  Cached(g, o) \in X /\ AddObject(g, o) \in X /\ OwnerKnown(g, o) \in X
    <2>1. g \in Sound /\ OnlyCaches(f, g)
      OBVIOUS
    <2>2. \A k \in {g, AddObject(g, o), OwnerKnown(g, o)} : OnlyCaches(g, k)
      BY <2>1, CachesRefl, AddObjectCaches, OwnerKnownCaches
    <2>3. \A k \in {g, AddObject(g, o), OwnerKnown(g, o)} : k \in X
      BY <2>1, <2>2, CachesTrans DEF OnlyCaches
    <2> HIDE DEF X
    <2> QED
      BY <2>3 DEF Cached
  <1> HIDE DEF X
  <1>3. GetProperties(f, objs) \in X
    BY <1>1, <1>2, GetPropertiesIn
  <1>4. AddGroups(f, objs) \in X
    BY <1>1, <1>2, AddGroupsIn
  <1>5. NameHasOwner(f, objs) \in X
    BY <1>1, <1>2, NameHasOwnerIn
  <1> QED
    BY <1>3, <1>4, <1>5 DEF X

LEMMA GetServicesCaches ==
    ASSUME d \in Sound, BusTypeOK, NEW objs \in Seq(Object)
    PROVE  OnlyCaches(d, GetServices(objs))
  <1> DEFINE X == {g \in Sound : OnlyCaches(d, g)}
  <1>1. d \in X
    BY CachesRefl
  <1>2. ASSUME NEW g \in X, NEW o \in Object
        PROVE  GetService(g, IfaceOf[o]) \in X
    BY GetServiceCaches, CachesTrans DEF OnlyCaches
  <1> HIDE DEF X
  <1>3. GetServices(objs) \in X
    BY <1>1, <1>2, GetServicesIn
  <1> QED
    BY <1>3 DEF X

-----------------------------------------------------------------------------
(* Running the events of a configuration                                   *)

LEMMA CachesMove ==
    ASSUME NEW f, NEW g \in Learns(f), OnlyCaches(f, g)
    PROVE  Moves(f, g, {})
  BY CachesObey DEF Moves, Learns, OnlyCaches

\* What was read once is not read again otherwise.
LEMMA MovesTrans ==
    ASSUME NEW f, NEW g, NEW k, NEW E, NEW F \in SUBSET E, NEW G \in SUBSET E,
           Moves(f, g, F), Moves(g, k, G)
    PROVE  Moves(f, k, E)
  <1>1. ASSUME NEW e \in FollowEvent, SameFor(f, k, e)
        PROVE  SameFor(f, g, e) /\ SameFor(g, k, e)
    <2>1. ASSUME NEW o \in Members(e)
          PROVE  g.objects[o] = f.objects[o] /\ k.objects[o] = g.objects[o]
      <3>1. k.objects[o] = f.objects[o]
        BY <1>1 DEF SameFor
      <3>2. g.objects[o] \in {f.objects[o], bus[o]} /\ k.objects[o] \in {g.objects[o], bus[o]}
        BY FollowEventType DEF Moves
      <3> QED
        BY <3>1, <3>2
    <2> QED
      BY <2>1 DEF SameFor
  <1>2. ASSUME NEW e \in FollowEvent, GroupHas(e), \A x \in E : Apart(x, e), SameFor(f, k, e), Obeys(f, e)
        PROVE  Obeys(k, e)
    <2>1. Obeys(g, e)
      BY <1>1, <1>2 DEF Moves
    <2> QED
      BY <1>1, <1>2, <2>1 DEF Moves
  <1>3. \A o \in Object : k.objects[o] \in {f.objects[o], bus[o]}
    BY DEF Moves
  <1> QED
    BY <1>2, <1>3 DEF Moves

LEMMA MovesRefl ==
    ASSUME NEW f \in Sound, NEW E
    PROVE  Moves(f, f, E)
  BY DEF Moves

\* Reading the group of an event before its action.
LEMMA ReadRunMoves ==
    ASSUME NEW f \in Sound, NEW g \in Learns(f), OnlyCaches(f, g), NEW x \in Event
    PROVE  Moves(f, Run(g, x), {x}) /\ (x \in FollowEvent => Agrees(Run(g, x), x))
  <1>1. g \in Sound /\ Moves(f, g, {})
    BY CachesMove DEF OnlyCaches
  <1>2. Moves(g, Run(g, x), {x}) /\ (x \in FollowEvent => Agrees(Run(g, x), x))
    BY <1>1, RunKeeps
  <1>3. {} \in SUBSET {x} /\ {x} \in SUBSET {x}
    OBVIOUS
  <1> QED
    BY <1>1, <1>2, <1>3, MovesTrans

LEMMA RunAllMoves ==
    ASSUME NEW f \in Sound, config \in Seq(Event), NEW E
    PROVE  /\ Moves(f, RunAll(f, E), E \cap Range(config))
           /\ \A e \in FollowEvent \cap E \cap Range(config) :
                 GroupHas(e) /\ (\A x \in Range(config) : Apart(x, e)) /\ Hooked(f, e)
                 => Obeys(RunAll(f, E), e)
  <1> DEFINE F == E \cap Range(config)
             X == {g \in Acts(f) : Moves(f, g, F)}
             Y(e) == {g \in X : Agrees(g, e)}
             g == RunAll(f, E)
  <1>1. f \in X
    BY ActsRefl, MovesRefl
  <1>2. ASSUME NEW k \in X, NEW x \in F
        PROVE  Run(k, x) \in X /\ Moves(k, Run(k, x), {x}) /\ (x \in FollowEvent => Agrees(Run(k, x), x))
    <2>1. x \in Event /\ k \in Sound
      BY ActsRead, RangeFinite
    <2>2. Moves(k, Run(k, x), {x}) /\ (x \in FollowEvent => Agrees(Run(k, x), x))
      BY <2>1, RunKeeps
    <2>3. Run(k, x) \in Acts(f)
      BY <2>1, RunActs, ActsTrans
    <2>4. Moves(f, k, F) /\ {x} \in SUBSET F /\ F \in SUBSET F
      OBVIOUS
    <2>5. Moves(f, Run(k, x), F)
      <3> HIDE DEF F, X
      <3> QED
        BY <2>2, <2>4, MovesTrans
    <2> QED
      BY <2>2, <2>3, <2>5
  <1>3. g \in X
    <2> HIDE DEF X
    <2> QED
      BY <1>1, <1>2, RunAllIn
  <1>4. ASSUME NEW e \in FollowEvent \cap F, GroupHas(e), \A x \in Range(config) : Apart(x, e), Hooked(f, e)
        PROVE  Obeys(g, e)
    <2>1. \A k \in X : Hooked(k, e)
      BY <1>4 DEF Moves, Hooked
    <2>2. \A k \in X : Run(k, e) \in Y(e)
      BY <1>2, <1>4
    <2>3. ASSUME NEW k \in Y(e), NEW x \in F
          PROVE  Run(k, x) \in Y(e)
      <3>1. k \in X /\ Obeys(k, e)
        BY <2>1 DEF Obeys
      <3>2. Run(k, x) \in X /\ Moves(k, Run(k, x), {x})
        BY <1>2, <3>1
      <3>3. SameFor(k, Run(k, x), e)
        BY <3>1, <3>2 DEF SameFor, Acts
      <3>4. Obeys(Run(k, x), e)
        BY <1>4, <3>1, <3>2, <3>3 DEF Moves
      <3> QED
        BY <3>2, <3>4 DEF Obeys
    <2>4. Y(e) \in SUBSET X
      OBVIOUS
    <2>5. g \in Y(e)
      <3> HIDE DEF Y, X
      <3> QED
        BY <1>1, <1>2, <1>4, <2>2, <2>3, <2>4, RunAllIn
    <2> QED
      BY <1>3, <2>1, <2>5 DEF Obeys
  <1> HIDE DEF g
  <1>5. Moves(f, g, F)
    BY <1>3
  <1> QED
    BY <1>4, <1>5 DEF g

LEMMA ReadAndRunMoves ==
    ASSUME d \in Sound, BusTypeOK, config \in Seq(Event), NEW E
    PROVE  /\ Moves(d, ReadAndRun(E), E \cap Range(config))
           /\ \A e \in FollowEvent : E \cap Range(config) = {e} => Agrees(ReadAndRun(E), e)
  <1> DEFINE F == E \cap Range(config)
             X == {g \in Sound : Moves(d, g, F)}
             Y(e) == {g \in X : Agrees(g, e)}
             step(k, x) == Run(GetProperties(k, Group[x]), x)
             g == ReadAndRun(E)
  <1>1. d \in X
    BY MovesRefl
  <1>2. ASSUME NEW k \in X, NEW x \in F
        PROVE  step(k, x) \in X /\ (x \in FollowEvent => Agrees(step(k, x), x))
    <2> DEFINE n == GetProperties(k, Group[x])
    <2>1. x \in Event /\ k \in Sound /\ Group[x] \in Seq(Object)
      BY RangeFinite, ActionsTyped
    <2>2. n \in Learns(k) /\ OnlyCaches(k, n)
      BY <2>1, GetPropertiesReads, FoldsAreCaches, ReadsLearn
    <2> HIDE DEF n
    <2>3. Moves(k, Run(n, x), {x}) /\ (x \in FollowEvent => Agrees(Run(n, x), x))
      BY <2>1, <2>2, ReadRunMoves
    <2>4. Moves(d, k, F) /\ {x} \in SUBSET F /\ F \in SUBSET F
      OBVIOUS
    <2>5. Moves(d, Run(n, x), F)
      <3> HIDE DEF F, X
      <3> QED
        BY <2>3, <2>4, MovesTrans
    <2> QED
      BY <2>3, <2>5 DEF n, Moves
  <1>3. \A k \in X, x \in F : step(k, x) \in X
    BY <1>2
  <1>4. g \in X
    <2> HIDE DEF X
    <2> QED
      BY <1>1, <1>3, ReadAndRunIn
  <1>5. ASSUME NEW e \in FollowEvent, F = {e}
        PROVE  g \in Y(e)
    <2>1. \A k \in X : step(k, e) \in Y(e)
      BY <1>2, <1>5
    <2>2. \A k \in Y(e), x \in F : step(k, x) \in Y(e)
      BY <1>5, <2>1
    <2>3. Y(e) \in SUBSET X
      OBVIOUS
    <2> HIDE DEF Y, X
    <2> QED
      BY <1>1, <1>3, <1>5, <2>1, <2>2, <2>3, ReadAndRunIn
  <1> HIDE DEF g
  <1>6. Moves(d, g, F)
    BY <1>4
  <1> QED
    BY <1>5, <1>6 DEF g

-----------------------------------------------------------------------------
(* The events that follow what is on D-Bus                                 *)

\* The event has read its group, nothing was read behind its back, and once
\* loaded all its triggers are enabled.
ReadyToFollow(e) ==
    /\ Watching(e, "properties") /\ e \notin behind
    /\ status # "loading" => Complete(e)

\* While a configuration is loaded each trigger is to enable, or was enabled.
AllListed ==
    status = "loading" => \A s \in Steps(config) :
        s \in todo \/ <<config[s[1]], Triggers[config[s[1]]][s[2]]>> \in done

\* What waits for the daemon waits for events of its configuration.
InConfig ==
    /\ d.settling \subseteq Range(config)
    /\ timers \in Seq(TimersOf(Range(config)))
    /\ \A x \in Event, s \in Service : <<x, s>> \in owners =>
          /\ x \in Range(config) /\ Contains(Triggers[x], "owner")
          /\ \E o \in Members(x) : ServiceOf[IfaceOf[o]] = s

\* An enabled parameter trigger is told of the parameters of its event.
Hooks ==
    \A e \in EventsOf({"mapped"}) : Watching(e, "param") => \A p \in ParamsOf[e] : <<p, e>> \in d.triggers

ReadyAgree == \A e \in FollowEvent \cap Range(config) : ReadyToFollow(e) => Agrees(d, e)

FollowState == LoadInOrder /\ NotBehind /\ AllListed /\ InConfig /\ Hooks /\ ReadyAgree

\* What the configuration says of one of these events.
LEMMA HearsOf ==
    ASSUME CacheState, FloorEventsHear, NEW e \in FollowEvent \cap Range(config)
    PROVE  /\ GroupHas(e) /\ \A x \in Range(config) : Apart(x, e)
           /\ {"properties", "changed", "added"} \subseteq Range(Triggers[e])
           /\ Action[e].type = "mapped" /\ FloorParams(Action[e]) # {} => "param" \in Range(Triggers[e])
           /\ \A x \in Range(config) \ {e} :
                 /\ Contains(Triggers[x], "removed") /\ ~Contains(Triggers[e], "removed")
                    => \A o \in Members(e), m \in Members(x) : IfaceOf[o] # IfaceOf[m]
                 /\ Contains(Triggers[x], "owner")
                    => \A o \in Members(e), m \in Members(x) : ServiceOf[IfaceOf[o]] # ServiceOf[IfaceOf[m]]
                 /\ Range(Triggers[e]) \cap Range(Triggers[x]) \cap {"poweron", "poweroff"} = {}
  <1>1. config \in Configs \cup {<<>>} /\ e \in Range(config)
    BY DEF CacheState, TypeOK
  <1>2. Range(<<>>) = {}
    BY DEF Range
  <1>3. config \in Configs
    BY <1>1, <1>2
  <1>4. e \in Event /\ Action[e].type \in {"mapped", "param", "pcie"}
    BY FollowEventType
  <1>5. /\ {"properties", "changed", "added"} \subseteq Range(Triggers[e])
        /\ Action[e].type = "mapped" =>
              /\ FloorObjects(Action[e]) \subseteq Members(e)
              /\ FloorParams(Action[e]) \subseteq ParamsOf[e]
              /\ FloorParams(Action[e]) # {} => Contains(Triggers[e], "param")
        /\ Action[e].type = "pcie" => CardObjects(Action[e]) \subseteq Members(e)
    BY <1>1, <1>3, <1>4 DEF FloorEventsHear
  <1>6. ASSUME NEW x \in Range(config) \ {e}
        PROVE  /\ {Action[e].type, Action[x].type} \subseteq {"param", "pcie"}
                     => Action[e].param # Action[x].param
               /\ Contains(Triggers[x], "removed") /\ ~Contains(Triggers[e], "removed")
                     => \A o \in Members(e), m \in Members(x) : IfaceOf[o] # IfaceOf[m]
               /\ Contains(Triggers[x], "owner")
                     => \A o \in Members(e), m \in Members(x) :
                           ServiceOf[IfaceOf[o]] # ServiceOf[IfaceOf[m]]
               /\ Range(Triggers[e]) \cap Range(Triggers[x]) \cap {"poweron", "poweroff"} = {}
    BY <1>1, <1>3, <1>4 DEF FloorEventsHear
  <1>7. GroupHas(e)
    BY <1>5 DEF GroupHas
  <1>8. \A x \in Range(config) : Apart(x, e)
    BY <1>6 DEF Apart
  <1>9. Contains(Triggers[e], "param") => "param" \in Range(Triggers[e])
    BY <1>4, ControlEventsAssumption DEF Contains, Range
  <1> QED
    BY <1>5, <1>6, <1>7, <1>8, <1>9

\* Once its triggers are enabled the parameters of a floor run it.
LEMMA OnHooked ==
    ASSUME CacheState, FloorEventsHear, Hooks, NEW e \in FollowEvent \cap Range(config), Complete(e)
    PROVE  Hooked(d, e)
  <1> SUFFICES ASSUME Action[e].type = "mapped", NEW p \in FloorParams(Action[e])
               PROVE  <<p, e>> \in d.triggers
    BY DEF Hooked
  <1>1. "param" \in Range(Triggers[e]) /\ p \in ParamsOf[e]
    BY HearsOf DEF GroupHas
  <1>2. Watching(e, "param")
    BY <1>1 DEF Complete, OnPower
  <1>3. e \in EventsOf({"mapped"})
    BY FollowEventType DEF EventsOf
  <1> QED
    BY <1>1, <1>2, <1>3 DEF Hooks

\* The timers, the power: what runs for an event follows, and the others follow
\* still unless their objects were read.
LEMMA RanFollows ==
    ASSUME CacheState, FloorEventsHear, FollowState, NEW g, NEW ran, Ran(g, ran),
           NEW F \in SUBSET Range(config), Moves(d, g, F),
           \A e \in FollowEvent \cap ran \cap Range(config) : Agrees(g, e),
           timers' \in Seq(TimersOf(Range(config)))
    PROVE  FollowState'
  <1>1. /\ d' = g /\ status = "on" /\ UNCHANGED <<status, config, todo, done, owners>>
        /\ behind' = {e \in Event \ ran :
                        e \in behind \/ \E o \in Members(e) : d'.objects[o] # d.objects[o]}
    BY DEF Ran, Read
  <1>2. LoadInOrder' /\ NotBehind' /\ AllListed'
    BY <1>1 DEF FollowState, LoadInOrder, NotBehind, AllListed
  <1>3. InConfig'
    <2>1. g.settling \subseteq Range(config)
      BY DEF Moves, FollowState, InConfig
    <2> QED
      BY <1>1, <2>1 DEF FollowState, InConfig
  <1>4. Hooks'
    BY <1>1 DEF Moves, FollowState, Hooks, Watching
  <1>5. ASSUME NEW e \in FollowEvent \cap Range(config), ReadyToFollow(e)'
        PROVE  Agrees(g, e)
    <2>1. CASE e \in ran
      BY <2>1
    <2>2. CASE e \notin ran
      <3>1. e \in Event
        BY FollowEventType
      <3>2. e \notin behind /\ SameFor(d, g, e)
        BY <1>1, <1>5, <2>2, <3>1 DEF ReadyToFollow, SameFor
      <3>3. ReadyToFollow(e) /\ Complete(e)
        BY <1>1, <1>5, <3>2 DEF ReadyToFollow, Complete, Watching
      <3>4. Agrees(d, e) /\ Hooked(d, e)
        BY <3>3, OnHooked DEF FollowState, ReadyAgree
      <3>5. GroupHas(e) /\ \A x \in F : Apart(x, e)
        BY HearsOf
      <3> QED
        BY <3>2, <3>4, <3>5 DEF Moves, Obeys
    <2> QED
      BY <2>1, <2>2
  <1>6. ReadyAgree'
    BY <1>1, <1>5 DEF ReadyAgree
  <1> QED
    BY <1>2, <1>3, <1>4, <1>6 DEF FollowState

LEMMA TimerExpiredFollows ==
    ASSUME CacheState, FloorEventsHear, FollowState, NEW k \in DOMAIN timers, TimerExpired(k)
    PROVE  FollowState'
  <1> DEFINE e == timers[k].event
             g == IF e \in Preloads THEN AddGroups(d, Group[e]) ELSE d
  <1>1. timers' \in Seq(TimersOf(Range(config))) /\ e \in Range(config)
    BY TimersTyped DEF FollowState, InConfig
  <1>2. Ran(Run(g, e), {e})
    BY DEF TimerExpired
  <1> HIDE DEF e
  <1>3. e \in Event
    BY <1>1, StateTyped, RangeFinite
  <1>4. d \in Sound /\ BusTypeOK /\ Group[e] \in Seq(Object)
    BY <1>3, StateTyped, ActionsTyped
  <1>5. g \in Learns(d) /\ OnlyCaches(d, g)
    BY <1>4, AddGroupsReads, ActsRefl, ActsRead, ReadsLearn, FoldsAreCaches, CachesRefl
  <1> HIDE DEF g
  <1>6. Moves(d, Run(g, e), {e}) /\ (e \in FollowEvent => Agrees(Run(g, e), e))
    BY <1>3, <1>4, <1>5, ReadRunMoves
  <1>7. {e} \in SUBSET Range(config) /\ \A x \in FollowEvent \cap {e} : Agrees(Run(g, e), x)
    BY <1>1, <1>6
  <1> QED
    BY <1>1, <1>2, <1>6, <1>7, RanFollows

LEMMA ActionTimerExpiredFollows ==
    ASSUME CacheState, FloorEventsHear, FollowState, NEW e \in Event, ActionTimerExpired(e)
    PROVE  FollowState'
  <1>1. d \in Sound /\ BusTypeOK
    BY StateTyped
  <1>2. timers' = timers
    BY DEF ActionTimerExpired
  <1>3. PICK g : Ran(g, {}) /\ \/ e \in d.delays /\ g = DelayExpired(d, e)
                               \/ e \in d.settling /\ g = SettleExpired(d, e)
                               \/ e \in d.timed /\ g = TimedExpired(d, e)
    BY DEF ActionTimerExpired
  <1>4. CASE e \in d.delays /\ g = DelayExpired(d, e)
    <2>1. e \in CountEvent
      BY <1>1, <1>4 DEF Sound, DaemonState, CountEvent
    <2>2. OnlyFloors(d, g, e) /\ e \notin FollowEvent
      BY <1>1, <1>4, <2>1, DelayExpiredKeeps DEF CountEvent, FollowEvent, EventsOf
    <2>3. Moves(d, g, {})
      BY <1>1, <2>2, OnlyFloorsMove
    <2> QED
      BY <1>2, <1>3, <2>3, RanFollows DEF FollowState, InConfig
  <1>5. CASE e \in d.settling /\ g = SettleExpired(d, e)
    <2>1. e \in EventsOf({"pcie"}) /\ e \in Range(config)
      BY <1>1, <1>5 DEF Sound, DaemonState, FollowState, InConfig
    <2>2. GroupHas(e)
      BY <2>1, HearsOf DEF FollowEvent, EventsOf
    <2>3. Moves(d, g, {e})
      BY <1>1, <1>5, <2>1, <2>2, SettleExpiredKeeps
    <2>4. {e} \in SUBSET Range(config)
      BY <2>1
    <2> QED
      BY <1>2, <1>3, <2>3, <2>4, RanFollows DEF FollowState, InConfig
  <1>6. CASE e \in d.timed /\ g = TimedExpired(d, e)
    <2>1. e \in EventsOf({"timed"})
      BY <1>1, <1>6 DEF Sound, DaemonState
    <2>2. OnlyFloors(d, g, e) /\ e \notin FollowEvent
      BY <1>1, <1>6, <2>1, RunTimedKeeps DEF FollowEvent, EventsOf
    <2>3. Moves(d, g, {})
      BY <1>1, <2>2, OnlyFloorsMove
    <2> QED
      BY <1>2, <1>3, <2>3, RanFollows DEF FollowState, InConfig
  <1> QED
    BY <1>3, <1>4, <1>5, <1>6

\* Of the events a power change runs, one that follows is the only one.
LEMMA PowerStateChangedFollows ==
    ASSUME CacheState, FloorEventsHear, FollowState, PowerStateChanged
    PROVE  FollowState'
  <1> DEFINE E == PowerEvents(~power)
             g == ReadAndRun(E)
             t == IF ~power THEN "poweron" ELSE "poweroff"
  <1>1. Ran(g, E) /\ timers' = timers
    BY DEF PowerStateChanged
  <1>2. E \in SUBSET Range(config) /\ \A e \in E : Contains(Triggers[e], t)
    BY DEF PowerEvents
  <1>3. t \in {"poweron", "poweroff"}
    OBVIOUS
  <1>4. E \cap Range(config) = E
    BY <1>2
  <1> HIDE DEF E, t
  <1>5. /\ Moves(d, g, E)
        /\ \A e \in FollowEvent : E = {e} => Agrees(g, e)
    BY <1>4, StateTyped, ReadAndRunMoves
  <1> HIDE DEF g
  <1>6. ASSUME NEW e \in FollowEvent \cap E
        PROVE  E = {e}
    <2>1. e \in Range(config)
      BY <1>2
    <2>2. \A x \in E : t \in Range(Triggers[x])
      <3>1. \A x \in E : x \in Event
        BY <1>2, StateTyped, RangeFinite
      <3> QED
        BY <1>2, <3>1, ControlEventsAssumption DEF Contains, Range
    <2>3. ASSUME NEW x \in E, x # e
          PROVE  FALSE
      <3>1. Range(Triggers[e]) \cap Range(Triggers[x]) \cap {"poweron", "poweroff"} = {}
        BY <1>2, <2>1, <2>3, HearsOf
      <3> QED
        BY <1>3, <2>2, <3>1
    <2> QED
      BY <2>3
  <1>7. \A e \in FollowEvent \cap E \cap Range(config) : Agrees(g, e)
    BY <1>5, <1>6
  <1> QED
    BY <1>1, <1>2, <1>5, <1>7, RanFollows DEF FollowState, InConfig

\* What a handler stores in f is none of the objects of the events it does not run.
Spared(f, E) ==
    \A e \in FollowEvent \cap Range(config) : E # {} /\ Complete(e) /\ e \notin E => SameFor(d, f, e)

\* A handler: the events it runs follow what is stored, and of those it does not
\* run no object was stored.
LEMMA HandlerAgrees ==
    ASSUME CacheState, FloorEventsHear, FollowState,
           UNCHANGED <<status, config, todo, done, owners, timers>>, status = "on",
           NEW E, E \subseteq Range(config), behind' = behind \ E, NEW f, OnlyCaches(d, f),
           Spared(f, E),
           d' = IF E = {} THEN d ELSE RunAll(f, E)
    PROVE  FollowState'
  <1> DEFINE g == RunAll(f, E)
  <1>1. f \in Sound /\ config \in Seq(Event) /\ E \cap Range(config) = E
    BY StateTyped DEF OnlyCaches
  <1>2. /\ Moves(f, g, E) /\ g.objects = f.objects
        /\ \A e \in FollowEvent \cap E :
              GroupHas(e) /\ (\A x \in Range(config) : Apart(x, e)) /\ Hooked(f, e) => Obeys(g, e)
    <2>1. /\ Moves(f, g, E \cap Range(config))
          /\ \A e \in FollowEvent \cap E \cap Range(config) :
                GroupHas(e) /\ (\A x \in Range(config) : Apart(x, e)) /\ Hooked(f, e) => Obeys(g, e)
      BY <1>1, RunAllMoves
    <2>2. g.objects = f.objects
      BY <1>1, HandledActs
    <2> QED
      BY <1>1, <2>1, <2>2
  <1>3. d' = IF E = {} THEN d ELSE g
    OBVIOUS
  <1> HIDE DEF g
  <1>4. g.triggers = d.triggers /\ g.settling \subseteq Range(config)
    BY <1>2 DEF Moves, OnlyCaches, FollowState, InConfig
  <1>5. LoadInOrder' /\ NotBehind' /\ AllListed'
    BY DEF FollowState, LoadInOrder, NotBehind, AllListed
  <1>6. InConfig'
    <2>1. d'.settling \subseteq Range(config)
      BY <1>3, <1>4 DEF FollowState, InConfig
    <2> QED
      BY <2>1 DEF FollowState, InConfig
  <1>7. Hooks'
    <2>1. d'.triggers = d.triggers
      BY <1>3, <1>4
    <2> QED
      BY <2>1 DEF FollowState, Hooks, Watching
  <1>8. ASSUME NEW e \in FollowEvent \cap Range(config), ReadyToFollow(e)'
        PROVE  Agrees(d', e)
    <2>1. Complete(e)
      BY <1>8 DEF ReadyToFollow, Complete, Watching
    <2>2. GroupHas(e) /\ \A x \in Range(config) : Apart(x, e)
      BY HearsOf
    <2>3. Hooked(d, e)
      BY <2>1, OnHooked DEF FollowState
    <2>4. CASE e \in E
      <3>1. Hooked(f, e)
        BY <2>3 DEF Hooked, OnlyCaches
      <3>2. Obeys(g, e)
        BY <1>2, <2>2, <2>4, <3>1
      <3> QED
        BY <1>3, <2>4, <3>2 DEF Obeys
    <2>5. CASE e \notin E
      <3>1. ReadyToFollow(e)
        BY <1>8, <2>5 DEF ReadyToFollow, Complete, Watching
      <3>2. Obeys(d, e)
        BY <2>3, <3>1 DEF FollowState, ReadyAgree, Obeys
      <3>3. CASE E # {}
        <4>1. SameFor(d, f, e) /\ SameFor(f, g, e)
          BY <1>2, <2>1, <2>5, <3>3 DEF Spared, SameFor
        <4>2. Obeys(f, e)
          BY <2>2, <3>2, <4>1, CachesObey
        <4>3. Obeys(g, e)
          BY <1>2, <2>2, <4>1, <4>2 DEF Moves
        <4> QED
          BY <1>3, <3>3, <4>3 DEF Obeys
      <3>4. CASE E = {}
        BY <1>3, <3>2, <3>4 DEF Obeys
      <3> QED
        BY <3>3, <3>4
    <2> QED
      BY <2>4, <2>5
  <1>9. ReadyAgree'
    BY <1>8 DEF ReadyAgree
  <1> QED
    BY <1>5, <1>6, <1>7, <1>9 DEF FollowState

\* A trigger that is enabled is one of its event.
LEMMA WatchingHas ==
    ASSUME CacheState, NEW e, NEW t, Watching(e, t)
    PROVE  e \in Event /\ Contains(Triggers[e], t)
  BY DEF CacheState, TypeOK, Watching

\* An event that watches all it is to has each of its classes of triggers enabled.
LEMMA CompleteWatches ==
    ASSUME NEW e \in Event, Complete(e), NEW t, ~OnPower(t), Contains(Triggers[e], t)
    PROVE  Watching(e, t)
  <1>1. t \in Range(Triggers[e])
    BY ControlEventsAssumption DEF Contains, Range
  <1> QED
    BY <1>1 DEF Complete

LEMMA HandleSignalFollows ==
    ASSUME CacheState, FloorEventsHear, FollowState, HandleSignal
    PROVE  FollowState'
  <1> DEFINE m == Head(inbox)
  <1>1. /\ status = "on" /\ inbox # <<>>
        /\ UNCHANGED <<status, config, todo, done, owners, timers>>
        /\ PropertiesChanged(m) \/ InterfacesAdded(m) \/ InterfacesRemoved(m) \/ NameOwnerChanged(m)
    BY DEF HandleSignal
  <1>2. m \in Message /\ d \in Sound
    BY <1>1, StateTyped DEF CacheState
  <1> HIDE DEF m
  <1>3. ASSUME NEW e \in FollowEvent \cap Range(config), Complete(e)
        PROVE  /\ e \in Event /\ Members(e) \subseteq Object
               /\ Watching(e, "changed") /\ Watching(e, "added")
    <2>1. e \in Event /\ Members(e) \subseteq Object
      BY FollowEventType
    <2>2. {"changed", "added"} \subseteq Range(Triggers[e])
      BY HearsOf
    <2> QED
      BY <1>3, <2>1, <2>2 DEF Complete, OnPower
  <1>4. CASE PropertiesChanged(m)
    <2> DEFINE E == Watchers("changed", {m.object})
               f == SetProperty(d, m.object, m.value)
    <2>1. /\ m.type = "changed" /\ behind' = behind \ E
          /\ d' = IF E = {} THEN d ELSE RunAll(f, E)
      BY <1>4 DEF PropertiesChanged, Handled
    <2>2. m.object \in Object /\ m.value \in Value \cup {NoValue}
      BY <1>2, <2>1, MessageTyped
    <2>3. OnlyCaches(d, f) /\ \A o \in Object : o # m.object => f.objects[o] = d.objects[o]
      BY <1>2, <2>2, SetPropertySets, SetPropertyCaches
    <2>4. /\ E \subseteq Range(config)
          /\ \A e \in Range(config) : Watching(e, "changed") /\ e \notin E => m.object \notin Members(e)
      BY DEF Watchers
    <2> HIDE DEF f, E
    <2>5. Spared(f, E)
      BY <1>3, <2>3, <2>4 DEF Spared, SameFor
    <2> QED
      BY <1>1, <2>1, <2>3, <2>4, <2>5, HandlerAgrees
  <1>5. CASE InterfacesAdded(m)
    <2> DEFINE E == Watchers("added", ObjectsOf(m.iface))
               first == FirstObject(FirstOf(E), m.iface)
               f == IF E = {} THEN d ELSE SetProperty(d, first, m.values[first])
    <2>1. /\ m.type = "added" /\ behind' = behind \ E
          /\ d' = IF E = {} THEN d ELSE RunAll(f, E)
      BY <1>5 DEF InterfacesAdded, Handled
    <2>2. E # {} => first \in ObjectsOf(m.iface)
      BY FirstObjectOf
    <2>3. E # {} => first \in Object /\ m.values[first] \in Value \cup {NoValue}
      <3>1. m.values \in [ObjectsOf(m.iface) -> Value]
        BY <1>2, <2>1, MessageTyped
      <3> HIDE DEF first
      <3> QED
        BY <2>2, <3>1 DEF ObjectsOf
    <2>4. OnlyCaches(d, f) /\ \A o \in Object : o \notin ObjectsOf(m.iface) => f.objects[o] = d.objects[o]
      <3>1. CASE E = {}
        BY <1>2, <3>1, CachesRefl
      <3>2. CASE E # {}
        <4> DEFINE v == m.values[first]
        <4>1. first \in Object /\ v \in Value \cup {NoValue} /\ f = SetProperty(d, first, v)
          BY <2>3, <3>2
        <4>2. first \in ObjectsOf(m.iface)
          BY <2>2, <3>2
        <4> HIDE DEF first, v, f
        <4> QED
          BY <1>2, <4>1, <4>2, SetPropertySets, SetPropertyCaches
      <3> QED
        BY <3>1, <3>2
    <2>5. /\ E \subseteq Range(config)
          /\ \A e \in Range(config) : Watching(e, "added") /\ e \notin E =>
                \A o \in Members(e) : o \notin ObjectsOf(m.iface)
      BY DEF Watchers
    <2> HIDE DEF f, E
    <2>6. Spared(f, E)
      BY <1>3, <2>4, <2>5 DEF Spared, SameFor
    <2> QED
      BY <1>1, <2>1, <2>4, <2>5, <2>6, HandlerAgrees
  <1>6. CASE InterfacesRemoved(m)
    <2> DEFINE i == m.iface
               E == Watchers("removed", ObjectsOf(i))
               f == RemoveInterface(d, i)
    <2>1. behind' = behind \ E /\ d' = IF E = {} THEN d ELSE RunAll(f, E)
      BY <1>6 DEF InterfacesRemoved, Handled
    <2>2. OnlyCaches(d, f) /\ \A o \in Object : IfaceOf[o] # i => f.objects[o] = d.objects[o]
      <3>1. f = [d EXCEPT !.objects = [o \in Object |-> IF IfaceOf[o] = i THEN NoValue ELSE d.objects[o]]]
        BY DEF RemoveInterface
      <3>2. f.objects = [o \in Object |-> IF IfaceOf[o] = i THEN NoValue ELSE d.objects[o]]
        BY <1>2, <3>1 DEF Sound, DaemonState
      <3> QED
        BY <1>2, <3>2, RemoveInterfaceCaches
    <2>3. /\ E \subseteq Range(config)
          /\ \A x \in Range(config) : x \in E <=> Watching(x, "removed") /\ Members(x) \cap ObjectsOf(i) # {}
      BY DEF Watchers
    <2> HIDE DEF f, E, i
    <2>4. ASSUME NEW e \in FollowEvent \cap Range(config), E # {}, Complete(e), e \notin E
          PROVE  SameFor(d, f, e)
      <3>1. e \in Event /\ Members(e) \subseteq Object
        BY <1>3, <2>4
      <3>2. PICK x \in E : TRUE
        BY <2>4
      <3>3. x # e /\ x \in Range(config) /\ Contains(Triggers[x], "removed")
        BY <2>3, <2>4, <3>2, WatchingHas
      <3>4. PICK p \in Members(x) : p \in ObjectsOf(i)
        BY <2>3, <3>2
      <3>5. \A o \in Members(e) : IfaceOf[o] # i
        <4>1. CASE Contains(Triggers[e], "removed")
          <5>1. Watching(e, "removed")
            BY <2>4, <3>1, <4>1, CompleteWatches DEF OnPower
          <5> QED
            BY <2>3, <2>4, <3>1, <5>1 DEF ObjectsOf
        <4>2. CASE ~Contains(Triggers[e], "removed")
          BY <3>3, <3>4, <4>2, HearsOf DEF ObjectsOf
        <4> QED
          BY <4>1, <4>2
      <3> QED
        BY <2>2, <3>1, <3>5 DEF SameFor
    <2>5. Spared(f, E)
      BY <2>4 DEF Spared
    <2> QED
      BY <1>1, <2>1, <2>2, <2>3, <2>5, HandlerAgrees
  <1>7. CASE NameOwnerChanged(m)
    <2> DEFINE s == m.service
               E == OwnerWatchers(s)
               f == SetOwner(d, s, m.on)
    <2>1. m.type = "owner" /\ behind' = behind \ E /\ d' = IF E = {} THEN d ELSE RunAll(f, E)
      BY <1>7 DEF NameOwnerChanged, Handled
    <2>2. m.on \in BOOLEAN /\ s \in Service
      BY <1>2, <2>1, MessageTyped
    <2>3. OnlyCaches(d, f) /\ \A o \in Object : ServiceOf[IfaceOf[o]] # s => f.objects[o] = d.objects[o]
      <3> DEFINE mine == {j \in d.tree : ServiceOf[j] = s}
                 O == IF m.on THEN d.owned \cup mine ELSE d.owned \ mine
                 v == [o \in Object |-> IF ~m.on /\ IfaceOf[o] \in mine THEN NoValue ELSE d.objects[o]]
      <3>1. f = [d EXCEPT !.owned = O, !.objects = v]
        BY DEF SetOwner
      <3>2. \A o \in Object : ServiceOf[IfaceOf[o]] # s => v[o] = d.objects[o]
        OBVIOUS
      <3> HIDE DEF O, v, f
      <3>3. f.objects = v
        BY <1>2, <3>1 DEF Sound, DaemonState
      <3> QED
        BY <1>2, <2>2, <3>2, <3>3, SetOwnerCaches DEF f
    <2>4. E \subseteq Range(config) /\ \A x \in E : <<x, s>> \in owners
      BY DEF OwnerWatchers
    <2> HIDE DEF f, E, s
    <2>5. ASSUME NEW e \in FollowEvent \cap Range(config), E # {}, Complete(e), e \notin E
          PROVE  SameFor(d, f, e)
      <3>1. e \in Event /\ Members(e) \subseteq Object
        BY <1>3, <2>5
      <3>2. PICK x \in E : TRUE
        BY <2>5
      <3>3. x # e /\ x \in Range(config) /\ <<x, s>> \in owners
        BY <2>4, <2>5, <3>2
      <3>4. x \in Event
        BY <3>3, StateTyped, RangeFinite
      <3>5. Contains(Triggers[x], "owner") /\ \E o \in Members(x) : ServiceOf[IfaceOf[o]] = s
        BY <2>2, <3>3, <3>4 DEF FollowState, InConfig
      <3>6. \A o \in Members(e) : ServiceOf[IfaceOf[o]] # s
        BY <3>3, <3>5, HearsOf
      <3> QED
        BY <2>3, <3>1, <3>6 DEF SameFor
    <2>6. Spared(f, E)
      BY <2>5 DEF Spared
    <2> QED
      BY <1>1, <2>1, <2>3, <2>4, <2>6, HandlerAgrees
  <1> QED
    BY <1>1, <1>4, <1>5, <1>6, <1>7

\* All a floor or a parameter depends on is the same, and no trigger is removed.
Keeps(f, g) ==
    /\ g.objects = f.objects /\ g.params = f.params /\ g.floors = f.floors
    /\ g.settling = f.settling /\ g.cards = f.cards /\ f.triggers \subseteq g.triggers

\* The trigger that reads the group runs the event, and the others that are
\* enabled for it read nothing.
LEMMA EnabledFollows ==
    ASSUME CacheState, NEW e \in Event,
           NEW t \in {"properties", "owners", "changed", "added", "removed", "owner", "param",
                      "once", "repeat"}
    PROVE  /\ t \in {"properties", "owners"} =>
                 Moves(d, Enabled(e, t), {e}) /\ (e \in FollowEvent => Agrees(Enabled(e, t), e))
           /\ t \notin {"properties", "owners"} => Keeps(d, Enabled(e, t))
           /\ t = "param" => \A p \in ParamsOf[e] : <<p, e>> \in Enabled(e, t).triggers
  <1>1. BusTypeOK /\ d \in Sound /\ Group[e] \in Seq(Object)
    BY StateTyped, ActionsTyped
  <1>2. CASE t \in {"properties", "owners"}
    <2> DEFINE g == IF t = "properties" THEN GetProperties(d, Group[e]) ELSE NameHasOwner(d, Group[e])
    <2>1. Enabled(e, t) = Run(g, e)
      BY <1>2 DEF Enabled
    <2>2. g \in Learns(d) /\ OnlyCaches(d, g)
      BY <1>1, GetPropertiesReads, NameHasOwnerLearns, FoldsAreCaches DEF Reads
    <2> HIDE DEF g
    <2> QED
      BY <1>1, <1>2, <2>1, <2>2, ReadRunMoves
  <1>3. CASE t = "owner"
    <2>1. Enabled(e, t) = GetServices(Group[e])
      BY <1>3 DEF Enabled
    <2>2. OnlyCaches(d, Enabled(e, t)) /\ Enabled(e, t).objects = d.objects
      BY <1>1, <2>1, GetServicesCaches, GetServicesActs DEF Acts
    <2> QED
      BY <1>3, <2>2 DEF OnlyCaches, Keeps
  <1>4. CASE t = "param"
    <2> DEFINE triggers == d.triggers \cup {<<p, e>> : p \in ParamsOf[e]}
    <2>1. Enabled(e, t) = [d EXCEPT !.triggers = triggers]
      BY <1>4 DEF Enabled, AddParameterTrigger
    <2>2. d.triggers \subseteq triggers /\ \A p \in ParamsOf[e] : <<p, e>> \in triggers
      OBVIOUS
    <2> HIDE DEF triggers
    <2>3. Keeps(d, Enabled(e, t)) /\ Enabled(e, t).triggers = triggers
      BY <1>1, <2>1, <2>2 DEF Keeps, Sound, DaemonState
    <2> QED
      BY <1>4, <2>2, <2>3
  <1>5. CASE t \in {"changed", "added", "removed", "once", "repeat"}
    <2>1. Enabled(e, t) = d
      BY <1>5 DEF Enabled
    <2> QED
      BY <1>5, <2>1 DEF Keeps
  <1> QED
    BY <1>2, <1>3, <1>4, <1>5

\* While the triggers of an event are enabled, those of another that has read
\* its group all are.
LEMMA OthersListed ==
    ASSUME CacheState, FollowState, status = "loading", NEW s \in todo, IsNext(s),
           NEW y \in Event, y # config[s[1]], Watching(y, "properties"), y \in Range(config)
    PROVE  Complete(y)
  <1> SUFFICES ASSUME NEW t \in Range(Triggers[y]), ~OnPower(t)
               PROVE  Watching(y, t)
    BY DEF Complete
  <1>1. PICK k \in DOMAIN config : config[k] = y
    BY DEF Range
  <1>2. PICK j \in DOMAIN Triggers[y] : Triggers[y][j] = t
    BY DEF Range
  <1>3. /\ s[1] \in DOMAIN config /\ DOMAIN config \subseteq Int
        /\ \A r \in todo : r[1] \in DOMAIN config
    BY StateTyped, StepsTyped
  <1>4. k <= s[1]
    BY <1>1 DEF FollowState, LoadInOrder, Watching
  <1>5. k < s[1]
    BY <1>1, <1>3, <1>4
  <1>6. <<k, j>> \notin todo
    <2>1. \A r \in todo : s[1] <= r[1]
      BY <1>3 DEF IsNext
    <2> QED
      BY <1>1, <1>3, <1>5, <2>1
  <1>7. <<k, j>> \in Steps(config)
    BY <1>1, <1>2 DEF Steps
  <1>8. <<config[k], Triggers[config[k]][j]>> \in done
    BY <1>6, <1>7 DEF FollowState, AllListed
  <1> QED
    BY <1>1, <1>2, <1>8 DEF Watching

\* load() enables the triggers of one event after the other.
LEMMA EnableFollows ==
    ASSUME CacheState, FloorEventsHear, FollowState, Enable
    PROVE  FollowState'
  <1> PICK s \in todo :
         LET e == config[s[1]]
             t == Triggers[e][s[2]]
         IN  /\ IsNext(s) /\ d' = Enabled(e, t) /\ done' = done \cup {<<e, t>>}
             /\ owners' = WatchOwners(e, t) /\ timers' = AddTimer(e, t)
             /\ todo' = todo \ {s} /\ Read({e})
    BY DEF Enable
  <1> DEFINE e == config[s[1]]
             t == Triggers[e][s[2]]
             g == Enabled(e, t)
  <1>1. /\ IsNext(s) /\ d' = g /\ done' = done \cup {<<e, t>>} /\ todo' = todo \ {s}
        /\ owners' = WatchOwners(e, t) /\ timers' = AddTimer(e, t)
        /\ behind' = {x \in Event \ {e} :
                        x \in behind \/ \E o \in Members(x) : d'.objects[o] # d.objects[o]}
    BY DEF Read
  <1>2. status = "loading" /\ UNCHANGED <<status, config>>
    BY DEF Enable
  <1>3. /\ s[1] \in DOMAIN config /\ e = config[s[1]] /\ e \in Event /\ e \in Range(config)
        /\ Contains(Triggers[e], t)
        /\ t \in {"properties", "owners", "changed", "added", "removed", "owner", "param",
                  "once", "repeat"}
    BY StepsTyped
  <1>4. <<e, "properties">> \in done => e \notin behind
    BY DEF FollowState, NotBehind
  <1>5. s \in Steps(config) => <<config[s[1]], Triggers[config[s[1]]][s[2]]>> \in done'
    BY <1>1
  <1> HIDE DEF e, t
  <1>6. /\ t \in {"properties", "owners"} => Moves(d, g, {e}) /\ (e \in FollowEvent => Agrees(g, e))
        /\ t \notin {"properties", "owners"} => Keeps(d, g)
        /\ t = "param" => \A p \in ParamsOf[e] : <<p, e>> \in g.triggers
    BY <1>3, EnabledFollows
  <1> HIDE DEF g
  <1>7. d.triggers \subseteq g.triggers /\ g.settling \subseteq d.settling \cup {e}
    BY <1>6 DEF Moves, Keeps
  <1>8. LoadInOrder' /\ NotBehind'
    BY EnableInOrder DEF FollowState
  <1>9. AllListed'
    <2>1. ASSUME NEW r \in Steps(config)
          PROVE  r \in todo' \/ <<config[r[1]], Triggers[config[r[1]]][r[2]]>> \in done'
      <3>1. r \in todo \/ <<config[r[1]], Triggers[config[r[1]]][r[2]]>> \in done
        BY <1>2 DEF FollowState, AllListed
      <3> QED
        BY <1>1, <1>5, <3>1
    <2>2. Steps(config)' = Steps(config)
      BY <1>2 DEF Steps
    <2> QED
      BY <1>2, <2>1, <2>2 DEF AllListed
  <1>10. InConfig'
    <2>1. d'.settling \subseteq Range(config)
      BY <1>1, <1>3, <1>7 DEF FollowState, InConfig
    <2>2. timers' \in Seq(TimersOf(Range(config)))
      <3>1. timers \in Seq(TimersOf(Range(config)))
        BY DEF FollowState, InConfig
      <3>2. t \in {"once", "repeat"} =>
               [event |-> e, trigger |-> t, armed |-> TRUE] \in TimersOf(Range(config))
        BY <1>3 DEF TimersOf
      <3> QED
        BY <1>1, <3>1, <3>2 DEF AddTimer
    <2>3. ASSUME NEW x \in Event, NEW u \in Service, <<x, u>> \in owners'
          PROVE  /\ x \in Range(config) /\ Contains(Triggers[x], "owner")
                 /\ \E o \in Members(x) : ServiceOf[IfaceOf[o]] = u
      <3>1. CASE <<x, u>> \in owners
        BY <3>1 DEF FollowState, InConfig
      <3>2. CASE <<x, u>> \notin owners
        <4>1. /\ t = "owner"
              /\ <<x, u>> \in {<<e, ServiceOf[i]>> : i \in {IfaceOf[o] : o \in Members(e)} \cap d'.tree}
          BY <1>1, <2>3, <3>2 DEF WatchOwners
        <4>2. x = e /\ \E o \in Members(e) : u = ServiceOf[IfaceOf[o]]
          BY <4>1
        <4> QED
          BY <1>3, <4>1, <4>2
      <3> QED
        BY <3>1, <3>2
    <2> QED
      BY <1>2, <2>1, <2>2, <2>3 DEF InConfig
  <1>11. Hooks'
    <2>1. ASSUME NEW y \in EventsOf({"mapped"}), <<y, "param">> \in done', NEW p \in ParamsOf[y]
          PROVE  <<p, y>> \in g.triggers
      <3>1. CASE <<y, "param">> \in done
        BY <1>7, <3>1 DEF FollowState, Hooks, Watching
      <3>2. CASE <<y, "param">> \notin done
        BY <1>1, <1>6, <2>1, <3>2
      <3> QED
        BY <3>1, <3>2
    <2> QED
      BY <1>1, <2>1 DEF Hooks, Watching
  <1>12. ASSUME NEW y \in FollowEvent \cap Range(config), ReadyToFollow(y)'
         PROVE  Agrees(g, y)
    <2>1. y \in Event /\ GroupHas(y) /\ Apart(e, y)
      BY <1>3, FollowEventType, HearsOf
    <2>2. CASE y = e /\ t \in {"properties", "owners"}
      BY <1>6, <2>2
    <2>3. CASE ~(y = e /\ t \in {"properties", "owners"})
      <3>1. Watching(y, "properties")
        BY <1>1, <1>12, <2>3 DEF ReadyToFollow, Watching
      <3>2. y \notin behind /\ SameFor(d, g, y)
        <4>1. CASE y = e
          BY <1>4, <1>6, <2>3, <3>1, <4>1 DEF Watching, Keeps, SameFor
        <4>2. CASE y # e
          BY <1>1, <1>12, <2>1, <4>2 DEF ReadyToFollow, SameFor
        <4> QED
          BY <4>1, <4>2
      <3>3. ReadyToFollow(y)
        BY <1>2, <3>1, <3>2 DEF ReadyToFollow
      <3>4. Agrees(d, y)
        BY <3>3 DEF FollowState, ReadyAgree
      <3>5. CASE t \in {"properties", "owners"}
        <4>1. Complete(y)
          BY <1>1, <1>2, <1>3, <2>1, <2>3, <3>1, <3>5, OthersListed
        <4>2. Hooked(d, y)
          BY <4>1, OnHooked DEF FollowState
        <4> QED
          BY <1>6, <2>1, <3>2, <3>4, <3>5, <4>2 DEF Moves, Obeys
      <3>6. CASE t \notin {"properties", "owners"}
        BY <1>6, <2>1, <3>2, <3>4, <3>6, AgreesKept DEF Keeps
      <3> QED
        BY <3>5, <3>6
    <2> QED
      BY <2>2, <2>3
  <1>13. ReadyAgree'
    BY <1>1, <1>2, <1>12 DEF ReadyAgree
  <1> QED
    BY <1>8, <1>9, <1>10, <1>11, <1>13 DEF FollowState

\* The first load and a reload start without triggers.
LEMMA LoadFollows ==
    ASSUME CacheState, NEW c, Start(c) \/ SighupHandler(c)
    PROVE  FollowState'
  <1>1. /\ status' = "loading" /\ config' = c /\ todo' = Steps(c)
        /\ done' = {} /\ owners' = {} /\ timers' = <<>>
    BY DEF Start, SighupHandler, Load
  <1>2. d'.settling = {}
    <2>1. CASE Start(c)
      BY <2>1 DEF Start, NoDaemon
    <2>2. CASE SighupHandler(c)
      <3> DEFINE g == [d EXCEPT !.triggers = {}, !.dangling = @ \cup {t[1] : t \in d.triggers},
                                !.targets = {}, !.floors = NoDaemon.floors, !.delays = {}]
                 h == [g EXCEPT !.settling = {}]
      <3>1. d' = [h EXCEPT !.timed = {}, !.cards = NoDaemon.cards]
        BY <2>2 DEF SighupHandler, Renewed
      <3>2. d \in DaemonState
        BY StateTyped DEF Sound
      <3> QED
        BY <3>1, <3>2 DEF DaemonState
    <2> QED
      BY <2>1, <2>2
  <1>3. Steps(config)' = Steps(c)
    BY <1>1 DEF Steps
  <1>4. LoadInOrder' /\ NotBehind' /\ AllListed'
    BY <1>1, <1>3 DEF LoadInOrder, NotBehind, AllListed
  <1>5. InConfig' /\ Hooks' /\ ReadyAgree'
    BY <1>1, <1>2 DEF InConfig, Hooks, ReadyAgree, ReadyToFollow, Watching
  <1> QED
    BY <1>4, <1>5 DEF FollowState

\* A load that fails has filled the caches.
LEMMA LoadFailsCaches ==
    ASSUME CacheState, LoadFails
    PROVE  OnlyCaches(d, d') /\ d'.objects = d.objects
  <1>1. PICK s \in todo :
         LET e == config[s[1]]
             t == Triggers[e][s[2]]
         IN  \E k \in DOMAIN Group[e] :
                LET before == SubSeq(Group[e], 1, k - 1)
                    f == IF t = "owners" THEN NameHasOwner(d, before) ELSE GetServices(before)
                IN  d' = f
    BY DEF LoadFails
  <1> DEFINE e == config[s[1]]
             t == Triggers[e][s[2]]
  <1>2. PICK k \in DOMAIN Group[e] :
            d' = IF t = "owners" THEN NameHasOwner(d, SubSeq(Group[e], 1, k - 1))
                 ELSE GetServices(SubSeq(Group[e], 1, k - 1))
    BY <1>1
  <1>3. e \in Event
    BY StepsTyped
  <1>4. BusTypeOK /\ d \in Sound /\ Group[e] \in Seq(Object)
    BY <1>3, StateTyped, ActionsTyped
  <1> HIDE DEF e, t
  <1>5. SubSeq(Group[e], 1, k - 1) \in Seq(Object)
    BY <1>4
  <1>6. OnlyCaches(d, d')
    BY <1>2, <1>4, <1>5, FoldsAreCaches, GetServicesCaches
  <1> QED
    BY <1>6, LoadFailsLearns

\* The services, a load that is done or given up, and the daemon's end.
LEMMA IdleFollows ==
    ASSUME CacheState, FloorEventsHear, FollowState,
           Environment \/ Loaded \/ LoadFails \/ Dies \/ UNCHANGED vars
    PROVE  FollowState'
  <1>1. /\ UNCHANGED <<config, done, owners, timers, behind>>
        /\ \/ status' = status /\ todo' = todo
           \/ status' \in {"off", "on"} /\ todo' = {}
           \/ status' = "off" /\ status = "on" /\ todo' = todo
    BY DEF Environment, ChangeValue, AddIface, RemoveIface, ServiceStarts, ServiceStops, Send,
           Loaded, LoadFails, Dies, vars, daemonVars
  <1>2. OnlyCaches(d, d') /\ d'.objects = d.objects
    <2>1. CASE LoadFails
      BY <2>1, LoadFailsCaches
    <2>2. CASE ~LoadFails
      <3>1. d' = d
        BY <2>2 DEF Environment, ChangeValue, AddIface, RemoveIface, ServiceStarts, ServiceStops,
                    Send, Loaded, Dies, vars, daemonVars
      <3> QED
        BY <3>1, StateTyped, CachesRefl
    <2> QED
      BY <2>1, <2>2
  <1>3. LoadInOrder' /\ NotBehind'
    BY <1>1 DEF FollowState, LoadInOrder, NotBehind
  <1>4. AllListed'
    <2>1. Steps(config)' = Steps(config)
      BY <1>1 DEF Steps
    <2> QED
      BY <1>1, <2>1 DEF FollowState, AllListed
  <1>5. InConfig' /\ Hooks'
    BY <1>1, <1>2 DEF FollowState, InConfig, Hooks, OnlyCaches, Watching
  <1>6. ASSUME NEW e \in FollowEvent \cap Range(config), ReadyToFollow(e)'
        PROVE  Agrees(d', e)
    <2>1. ReadyToFollow(e)
      BY <1>1, <1>6 DEF ReadyToFollow, Complete, Watching
    <2>2. Agrees(d, e) /\ GroupHas(e)
      BY <2>1, HearsOf DEF FollowState, ReadyAgree
    <2> QED
      BY <1>2, <2>2, AgreesKept DEF OnlyCaches, SameFor
  <1>7. ReadyAgree'
    BY <1>1, <1>6 DEF ReadyAgree
  <1> QED
    BY <1>3, <1>4, <1>5, <1>7 DEF FollowState

LEMMA FollowStateInit == Init => FollowState
  <1> SUFFICES ASSUME Init
               PROVE  FollowState
    OBVIOUS
  <1>1. /\ status = "off" /\ todo = {} /\ done = {} /\ owners = {} /\ timers = <<>> /\ config = <<>>
        /\ d.settling = {}
    BY DEF Init, NoDaemon
  <1>2. LoadInOrder /\ NotBehind /\ AllListed
    BY <1>1 DEF LoadInOrder, NotBehind, AllListed
  <1>3. InConfig /\ Hooks /\ ReadyAgree
    BY <1>1 DEF InConfig, Hooks, ReadyAgree, ReadyToFollow, Watching
  <1> QED
    BY <1>2, <1>3 DEF FollowState

LEMMA FollowStateNext ==
    ASSUME FloorEventsHear
    PROVE  CacheState /\ FollowState /\ [Next]_vars => FollowState'
  <1> SUFFICES ASSUME CacheState, FollowState, [Next]_vars
               PROVE  FollowState'
    OBVIOUS
  <1>1. CASE Environment \/ Loaded \/ LoadFails \/ Dies \/ UNCHANGED vars
    BY <1>1, IdleFollows
  <1>2. CASE \E c \in Configs : Start(c) \/ SighupHandler(c)
    BY <1>2, LoadFollows
  <1>3. CASE Enable
    BY <1>3, EnableFollows
  <1>4. CASE HandleSignal
    BY <1>4, HandleSignalFollows
  <1>5. CASE \E k \in DOMAIN timers : TimerExpired(k)
    BY <1>5, TimerExpiredFollows
  <1>6. CASE \E e \in Event : ActionTimerExpired(e)
    BY <1>6, ActionTimerExpiredFollows
  <1>7. CASE PowerStateChanged
    BY <1>7, PowerStateChangedFollows
  <1> QED
    BY <1>1, <1>2, <1>3, <1>4, <1>5, <1>6, <1>7 DEF Next, Daemon

\* Whatever changed while load() read the groups, or between two signals, over
\* parameters that are set and removed again, their triggers and reloads: once
\* all signals are handled and the cards have settled, the floor is that of the
\* values on D-Bus, unless no handler saw a change of a member, another event
\* read one, or a card is missing.
THEOREM FloorsAreFollowed ==
    ASSUME FloorEventsHear
    PROVE  Spec => []FloorsFollow
  <1>1. CacheState /\ FollowState => FloorsFollow
    <2> SUFFICES ASSUME CacheState, FollowState, Quiet, d.settling = {}, NEW e \in Range(config),
                        Action[e].type = "mapped",
                        \A f \in Range(config) : /\ Complete(f) /\ CardsKnown(f) /\ f \notin behind
                                                 /\ \A o \in Members(f) : Known(o),
                        NEW z \in Zone
                 PROVE  d.floors[e][z] = MappedFloor([Shown EXCEPT !.params = ShownParams], Action[e])
      BY DEF FloorsFollow
    <2> DEFINE g == [Shown EXCEPT !.params = ShownParams]
    <2>1. Shown.objects = bus /\ g.objects = bus /\ g.params = ShownParams
      BY StateTyped DEF Shown, Sound, DaemonState
    <2> HIDE DEF g
    <2>2. Range(config) \subseteq Event
      BY StateTyped, RangeFinite
    <2>3. ASSUME NEW f \in FollowEvent \cap Range(config)
          PROVE  Agrees(d, f) /\ \A o \in Members(f) : bus[o] = d.objects[o]
      <3>1. {"properties", "changed", "added"} \subseteq Range(Triggers[f])
        BY HearsOf
      <3>2. ReadyToFollow(f)
        BY <3>1 DEF Complete, OnPower, ReadyToFollow
      <3>3. Members(f) \subseteq Object /\ \A o \in Members(f) : Known(o)
        BY FollowEventType
      <3>4. ASSUME NEW o \in Members(f)
            PROVE  Shows(<<>>, o, d.objects[o], bus[o])
        BY <3>3 DEF CacheState, Followed, Quiet
      <3> QED
        BY <3>2, <3>4, ShowsAtRest DEF FollowState, ReadyAgree
    <2>4. e \in FollowEvent /\ e \in Event
      BY <2>2 DEF FollowEvent, EventsOf
    <2>5. FloorObjects(Action[e]) \subseteq Members(e) /\ FloorParams(Action[e]) \subseteq Param
      BY <2>4, HearsOf, FollowEventType DEF GroupHas
    <2>6. ASSUME NEW p \in FloorParams(Action[e])
          PROVE  g.params[p] = d.params[p]
      <3> DEFINE f == CHOOSE f \in ParamSetters(p) : TRUE
      <3>1. ShownParams[p] = IF ParamSetters(p) = {} THEN d.params[p]
                             ELSE IF Action[f].type = "param" THEN GroupParameter(Shown, f)
                                  ELSE FloorIndex(Shown, Action[f])
        BY <2>5 DEF ShownParams
      <3>2. CASE ParamSetters(p) # {}
        <4>1. f \in ParamSetters(p)
          BY <3>2
        <4> HIDE DEF f
        <4>2. f \in Range(config) /\ Action[f].type \in {"param", "pcie"} /\ Action[f].param = p
          BY <4>1 DEF ParamSetters
        <4>3. f \in FollowEvent
          BY <2>2, <4>2 DEF FollowEvent, EventsOf
        <4>4. Agrees(d, f) /\ SameFor(d, Shown, f)
          BY <2>1, <2>3, <4>2, <4>3 DEF SameFor
        <4>5. CASE Action[f].type = "param"
          <5>1. GroupParameter(Shown, f) = GroupParameter(d, f)
            BY <4>4, GroupParameterSame
          <5> QED
            BY <2>1, <3>1, <3>2, <4>2, <4>4, <4>5, <5>1 DEF Agrees
        <4>6. CASE Action[f].type = "pcie"
          <5>1. CardObjects(Action[f]) \subseteq Members(f)
            BY <4>2, <4>3, <4>6, HearsOf DEF GroupHas
          <5>2. FloorIndex(Shown, Action[f]) = FloorIndex(d, Action[f])
            BY <4>4, <5>1, FloorIndexSame DEF SameFor
          <5>3. CardsFound(d, f)
            BY <4>2, <4>6 DEF CardsKnown, CardsFound
          <5> QED
            BY <2>1, <3>1, <3>2, <4>2, <4>4, <4>6, <5>2, <5>3 DEF Agrees
        <4> QED
          BY <4>2, <4>5, <4>6
      <3> QED
        BY <2>1, <3>1, <3>2
    <2>7. \A o \in FloorObjects(Action[e]) : g.objects[o] = d.objects[o]
      BY <2>1, <2>3, <2>4, <2>5
    <2>8. MappedFloor(g, Action[e]) = MappedFloor(d, Action[e])
      BY <2>4, <2>6, <2>7, MappedFloorSame
    <2>9. d.floors[e][z] = MappedFloor(g, Action[e])
      BY <2>3, <2>4, <2>8 DEF Agrees
    <2> QED
      BY <2>9 DEF g
  <1> QED
    BY CacheStateInit, CacheStateNext, FollowStateInit, FollowStateNext, <1>1, PTL DEF Spec

=============================================================================
