------------------------------ MODULE ObjectCache ------------------------------
(***************************************************************************)
(* The caches of phosphor-fan-control (control/json/manager.cpp): which    *)
(* service provides which object and whether it has an owner (_servTree),  *)
(* and the values of properties (_objects).                                *)
(*                                                                         *)
(* An Iface is an interface at an object path, an Object one property of   *)
(* an Iface that a group names.  The operators take and return the record  *)
(* of the daemon's state, of which they use the fields tree, owned and     *)
(* objects.                                                                *)
(***************************************************************************)
EXTENDS Integers, FiniteSets, SequencesExt

CONSTANTS
    Service,
    Iface,
    Object,
    ServiceOf,  \* the service that provides an Iface
    NameOf,     \* the name of its interface
    IfaceOf,    \* the Iface of an object
    Managed,    \* the services with an ObjectManager
    Value,
    NoValue     \* no value is cached; on D-Bus: the value is NaN

ASSUME ObjectCacheAssumption ==
    /\ ServiceOf \in [Iface -> Service]
    /\ IfaceOf \in [Object -> Iface]
    /\ DOMAIN NameOf = Iface
    /\ Managed \subseteq Service
    /\ Value \subseteq Int /\ Value # {} /\ IsFiniteSet(Value)
    /\ NoValue \notin Value

VARIABLES
    up,         \* the services that have an owner
    present,    \* the ifaces on D-Bus
    bus         \* object -> the value of its property, while its iface is there

busVars == <<up, present, bus>>

BusTypeOK ==
    /\ up \in SUBSET Service
    /\ present \in SUBSET {i \in Iface : ServiceOf[i] \in up}
    /\ bus \in [Object -> Value \cup {NoValue}]

ObjectsOf(i) == {o \in Object : IfaceOf[o] = i}

-----------------------------------------------------------------------------
(* _servTree                                                               *)

\* hasOwner()
HasOwner(d, o) == IfaceOf[o] \in d.owned

\* setOwner() of a service: without an owner its objects are forgotten.
KeptWithoutOwner(d, s, on) == \* mutant: its objects stay in the cache
    LET mine == {i \in d.tree : ServiceOf[i] = s}
    IN  [d EXCEPT !.owned = IF on THEN @ \cup mine ELSE @ \ mine]
SetOwner(d, s, on) ==
    LET mine == {i \in d.tree : ServiceOf[i] = s}
    IN  [d EXCEPT !.owned = IF on THEN @ \cup mine ELSE @ \ mine,
                  !.objects = [o \in Object |-> IF ~on /\ IfaceOf[o] \in mine
                                                THEN NoValue ELSE @[o]]]

\* setOwner() of an object, and of others with its service and interface name.
SetObjectOwner(d, i, on) ==
    LET tree == d.tree \cup {i}
        same == {j \in tree : ServiceOf[j] = ServiceOf[i] /\ NameOf[j] = NameOf[i]}
    IN  [d EXCEPT !.tree = tree,
                  !.owned = IF on THEN @ \cup same ELSE @ \ same]

\* addServices(): services that are new have an owner.
AddServices(d, i) ==
    LET new == {j \in present : NameOf[j] = NameOf[i]} \ d.tree
    IN  [d EXCEPT !.tree = @ \cup new, !.owned = @ \cup new]

\* findService() knows the service of i.
FindService(d, i) == i \in d.tree

\* getService(), that looks for services only if it does not know one.
GetService(d, i) == IF FindService(d, i) THEN d ELSE AddServices(d, i)

\* getPaths() of the interface ObjectManager is not empty.
HasObjectManager(i) == ServiceOf[i] \in Managed

-----------------------------------------------------------------------------
(* _objects                                                                *)

\* setProperty(), removeInterface(): NaN is not cached.
SetProperty(d, o, v) == [d EXCEPT !.objects[o] = v]
RemoveInterface(d, i) ==
    [d EXCEPT !.objects = [o \in Object |-> IF IfaceOf[o] = i THEN NoValue ELSE @[o]]]

\* insertFilteredObjects(): the properties of all ifaces I.
SetProperties(d, I) ==
    [d EXCEPT !.objects = [o \in Object |-> IF IfaceOf[o] \in I THEN bus[o] ELSE @[o]]]

\* addObjects(): everything its service manages, or only the object.
AddObject(d, o) ==
    LET i == IfaceOf[o]
        e == GetService(d, i)
    IN  IF ~FindService(e, i) THEN e
        ELSE IF HasObjectManager(i)
        THEN SetProperties(e, {j \in present : ServiceOf[j] = ServiceOf[i]})
        ELSE IF i \in present THEN SetProperty(e, o, bus[o])
        ELSE e

\* getProperties(): what is cached is not read.
GetProperties(d, objs) ==
    FoldLeft(LAMBDA e, o : IF e.objects[o] = NoValue THEN AddObject(e, o) ELSE e, d, objs)

\* addGroups(): all is read.
AddGroups(d, objs) == FoldLeft(AddObject, d, objs)

\* nameHasOwner()
OwnerAssumed(d, objs) == \* mutant: the services found are taken to have an owner
    FoldLeft(LAMBDA e, o : GetService(e, IfaceOf[o]), d, objs)
NameHasOwner(d, objs) ==
    FoldLeft(LAMBDA e, o :
               LET g == GetService(e, IfaceOf[o])
               IN  IF FindService(g, IfaceOf[o])
                   THEN SetObjectOwner(g, IfaceOf[o], ServiceOf[IfaceOf[o]] \in up)
                   ELSE g,
             d, objs)

=============================================================================
