---------------------------- MODULE MCControlEvents ----------------------------
EXTENDS ControlEvents

CONSTANTS inv, sens,                            \* services
          slot, card, temp1, temp2,             \* ifaces
          powered, device, vendor, t1, t2,      \* objects
          floors, pcie, hold, count, offset, retry,     \* events
          z1, index, altitude

McServiceOf == (slot :> inv) @@ (card :> inv) @@ (temp1 :> sens) @@ (temp2 :> sens)
McNameOf == (slot :> "PowerState") @@ (card :> "PCIeDevice")
            @@ (temp1 :> "Value") @@ (temp2 :> "Value")
McIfaceOf == (powered :> slot) @@ (device :> card) @@ (vendor :> card)
             @@ (t1 :> temp1) @@ (t2 :> temp2)

McGroup == (floors :> <<t1>>) @@ (pcie :> <<powered, device, vendor>>)
           @@ (hold :> <<t1, t2>>) @@ (count :> <<t1, t2>>) @@ (offset :> <<t2>>)
           @@ (retry :> <<t1, t2>>)

McAction ==
    (floors :> [type |-> "mapped", key |-> {t1}, default |-> 9,
                condition |-> [op |-> "none"],
                tables |-> <<[key |-> 2, default |-> NoFloor, offset |-> altitude,
                              entries |-> <<[param |-> index, objects |-> {},
                                             floors |-> <<<<1, 3>>, <<2, 5>>>>]>>]>>])
    @@ (pcie :> [type |-> "pcie", param |-> index, on |-> 2,
                 slots |-> {[power |-> powered, id |-> <<device, vendor>>]},
                 card |-> (<<1, 1>> :> 1) @@ (<<2, 1>> :> 2)])
    @@ (hold :> [type |-> "timed", byOwner |-> TRUE, oneshot |-> TRUE])
    @@ (count :> [type |-> "count", state |-> 2, count |-> 2, floor |-> 7, delay |-> TRUE])
    @@ (offset :> [type |-> "param", param |-> altitude,
                   modifier |-> [op |-> "less_than", ranges |-> <<<<2, -4>>>>, default |-> 1]])
    @@ (retry :> [type |-> "missing"])

McTriggers ==
    (floors :> <<"properties", "changed", "added", "param">>)
    @@ (pcie :> <<"properties", "changed", "added">>)
    @@ (hold :> <<"owner", "owners">>)
    @@ (count :> <<"changed", "added", "removed", "properties">>)
    @@ (offset :> <<"properties", "added", "changed", "poweron">>)
    @@ (retry :> <<"once">>)

McParamsOf == [e \in Event |-> IF e = floors THEN {index, altitude} ELSE {}]
McConfigs == {<<floors, pcie>>, <<retry, count, hold>>, <<offset, floors>>}

\* The conditions under which MissingServicesHeld, CountHeld and FloorsFollow
\* are theorems.
ASSUME McEventsHold == OwnerEventsHold /\ CountEventsHear /\ FloorEventsHear
===============================================================================
