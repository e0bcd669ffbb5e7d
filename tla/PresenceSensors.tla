---------------------------- MODULE PresenceSensors ----------------------------
(***************************************************************************)
(* What detects that a fan is plugged: tachometers on D-Bus (tach.cpp) and *)
(* GPIOs (gpio.cpp), with the inventory on D-Bus that the daemon tells     *)
(* (fan.cpp), and the power.                                               *)
(*                                                                         *)
(* D-Bus signals wait in `inbox`, the edges of a GPIO in the queue of its  *)
(* event device, where they are read one by one while its sensor is        *)
(* started.  A tachometer is read live, a GPIO as of the last edge read.   *)
(***************************************************************************)
EXTENDS Naturals, Sequences

CONSTANTS
    Fan,
    Tach,       \* presence sensors of each kind
    Gpio,
    Rotor,      \* tach sensors on D-Bus
    TachOf,     \* the presence sensor that uses a rotor
    Methods,    \* the presence sensors of a fan in the order of its configuration
    MaxInbox,   \* bound: the signals that may wait
    MaxEdges    \* bound: the edges that may wait

Sensor == Tach \cup Gpio

SensorsOf(f) == {Methods[f][i] : i \in DOMAIN Methods[f]}
FanOf(s) == CHOOSE f \in Fan : s \in SensorsOf(f)

ASSUME PresenceSensorsAssumption ==
    /\ Tach \cap Gpio = {}
    /\ TachOf \in [Rotor -> Tach]
    /\ Methods \in [Fan -> Seq(Sensor)]
    /\ \A f \in Fan : Methods[f] # <<>>
    /\ \A f \in Fan : \A i, j \in DOMAIN Methods[f] : i # j => Methods[f][i] # Methods[f][j]
    /\ \A s \in Sensor : \E f \in Fan : s \in SensorsOf(f)
    /\ \A f, g \in Fan : f # g => SensorsOf(f) \cap SensorsOf(g) = {}
    /\ MaxInbox \in Nat
    /\ MaxEdges \in Nat

VARIABLES
    spinning,   \* rotor -> its value on D-Bus is not 0
    level,      \* GPIO -> its level
    pgood,      \* the power on D-Bus
    inventory,  \* fan -> its property Present on D-Bus
    alive,      \* the daemon runs
    inbox,
    edges,      \* GPIO -> the edges that wait in its event device
    fetched,    \* GPIO -> its level as of the last edge read
    started,    \* the sensors that listen to changes
    value,      \* rotor -> the value last seen
    current     \* sensor -> currentState

hardwareVars == <<spinning, level, pgood>>
sensorVars == <<edges, fetched, started, value, current>>

SensorsTypeOK ==
    /\ spinning \in [Rotor -> BOOLEAN]
    /\ level \in [Gpio -> BOOLEAN]
    /\ pgood \in BOOLEAN
    /\ inventory \in [Fan -> BOOLEAN]
    /\ alive \in BOOLEAN
    /\ edges \in [Gpio -> Seq(BOOLEAN)]
    /\ fetched \in [Gpio -> BOOLEAN]
    /\ started \in SUBSET Sensor
    /\ value \in [Rotor -> BOOLEAN]
    /\ current \in [Sensor -> BOOLEAN]

-----------------------------------------------------------------------------
(* The environment.                                                        *)

Send(m) ==
    /\ Len(inbox) < MaxInbox
    /\ inbox' = IF alive THEN Append(inbox, m) ELSE inbox

RotorChanges(r) ==
    /\ spinning' = [spinning EXCEPT ![r] = ~@]
    /\ Send([kind |-> "tach", rotor |-> r, on |-> ~spinning[r]])
    /\ UNCHANGED <<level, pgood, edges>>

GpioChanges(g) ==
    /\ level' = [level EXCEPT ![g] = ~@]
    /\ IF alive THEN /\ Len(edges[g]) < MaxEdges
                     /\ Len(inbox) <= MaxInbox
                     /\ edges' = [edges EXCEPT ![g] = Append(@, ~level[g])]
                ELSE UNCHANGED edges
    /\ UNCHANGED <<spinning, pgood, inbox>>

PowerChanges ==
    /\ pgood' = ~pgood
    /\ Send([kind |-> "power", on |-> ~pgood])
    /\ UNCHANGED <<spinning, level, edges>>

PresenceEnvironment ==
    /\ \/ \E r \in Rotor : RotorChanges(r)
       \/ \E g \in Gpio : GpioChanges(g)
       \/ PowerChanges
    /\ UNCHANGED <<inventory, alive, fetched, started, value, current>>

-----------------------------------------------------------------------------
(* Sensors                                                                 *)

\* What the hardware says.
Detects(s) == IF s \in Tach THEN \E r \in Rotor : TachOf[r] = s /\ spinning[r]
                            ELSE level[s]

\* present() and the state that start() returns.
Reading(s) == IF s \in Tach THEN Detects(s) ELSE fetched[s]

\* The state of the sensors once those of S have been started.
CurrentOnStart(S, c) == [s \in Sensor |-> IF s \in S THEN Reading(s) ELSE c[s]]
ValueOnStart(S, v) == [r \in Rotor |-> IF TachOf[r] \in S THEN spinning[r] ELSE v[r]]

\* setPresence(): the inventory announces what changes.
PresentSignal(f, present) == [kind |-> "present", fan |-> f, on |-> present]
Notify(f, present, pending) ==
    /\ inventory' = [inventory EXCEPT ![f] = present]
    /\ inbox' = IF inventory[f] = present THEN pending
                ELSE Append(pending, PresentSignal(f, present))

InitSensors ==
    /\ spinning \in [Rotor -> BOOLEAN]
    /\ level \in [Gpio -> BOOLEAN]
    /\ pgood \in BOOLEAN
    /\ inventory \in [Fan -> BOOLEAN]
    /\ alive = FALSE
    /\ inbox = <<>>
    /\ edges = [g \in Gpio |-> <<>>]
    /\ fetched = [g \in Gpio |-> FALSE]
    /\ started = {}
    /\ value = [r \in Rotor |-> FALSE]
    /\ current = [s \in Sensor |-> FALSE]

=============================================================================
