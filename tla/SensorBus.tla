------------------------------- MODULE SensorBus -------------------------------
(***************************************************************************)
(* What the daemon sensor-monitor has in common for its two monitors: the  *)
(* power state (power_state.hpp), the signals that wait for its event      *)
(* loop, and the sensors on D-Bus that send them.                          *)
(*                                                                         *)
(* A property is read with a call, which returns its value now, while the  *)
(* signals about earlier changes may still wait.  Signals are delivered in *)
(* the order they were sent, and only to a daemon that runs.               *)
(***************************************************************************)
EXTENDS Naturals, Sequences

CONSTANTS
    Iface,      \* threshold interfaces of sensors, one per sensor and type
    Alarm,      \* alarm properties
    IfaceOf,    \* the interface an alarm is a property of
    MaxInbox    \* bound: the signals that may wait

ASSUME SensorBusAssumption ==
    /\ IfaceOf \in [Alarm -> Iface]
    /\ MaxInbox \in Nat

VARIABLES
    alive,      \* the daemon runs
    powerOn,    \* _powerState
    inbox,      \* signals that wait for the event loop
    pgood,      \* is the system powered?
    pgoodUp,    \* the service of the property pgood runs
    present,    \* the interfaces on D-Bus
    asserted    \* the alarms on D-Bus that are set

busVars == <<alive, powerOn, inbox, pgood, pgoodUp, present, asserted>>

AlarmsOf(i) == {a \in Alarm : IfaceOf[a] = i}

OnBus == {a \in Alarm : IfaceOf[a] \in present}

PowerSignal      == [kind : {"power"}, on : BOOLEAN]
PropertiesSignal == [kind : {"changed"}, alarm : Alarm, on : BOOLEAN]
AddedSignal      == [kind : {"added"}, iface : Iface, set : SUBSET Alarm]
RemovedSignal    == [kind : {"removed"}, iface : Iface]

Signal == PowerSignal \cup PropertiesSignal \cup AddedSignal \cup RemovedSignal

SensorBusTypeOK ==
    /\ alive \in BOOLEAN
    /\ powerOn \in BOOLEAN
    /\ inbox \in Seq(Signal)
    /\ pgood \in BOOLEAN
    /\ pgoodUp \in BOOLEAN
    /\ present \in SUBSET Iface
    /\ asserted \in SUBSET Alarm

-----------------------------------------------------------------------------
(* The environment.                                                        *)

Send(m) ==
    /\ Len(inbox) < MaxInbox
    /\ inbox' = IF alive THEN Append(inbox, m) ELSE inbox

SetPower ==
    /\ pgoodUp
    /\ pgood' = ~pgood
    /\ Send([kind |-> "power", on |-> ~pgood])
    /\ UNCHANGED <<alive, powerOn, pgoodUp, present, asserted>>

\* The service of pgood starts, and announces a power that is on.
PgoodServiceStarts ==
    /\ ~pgoodUp
    /\ pgoodUp' = TRUE
    /\ IF pgood THEN Send([kind |-> "power", on |-> TRUE])
                ELSE UNCHANGED inbox
    /\ UNCHANGED <<alive, powerOn, pgood, present, asserted>>

ChangeAlarm(a) ==
    /\ a \in OnBus
    /\ asserted' = IF a \in asserted THEN asserted \ {a} ELSE asserted \cup {a}
    /\ Send([kind |-> "changed", alarm |-> a, on |-> a \notin asserted])
    /\ UNCHANGED <<alive, powerOn, pgood, pgoodUp, present>>

AddSensor(i, on) ==
    /\ i \notin present
    /\ present' = present \cup {i}
    /\ asserted' = asserted \cup on
    /\ Send([kind |-> "added", iface |-> i, set |-> on])
    /\ UNCHANGED <<alive, powerOn, pgood, pgoodUp>>

\* A sensor that is removed is announced, one whose service dies is not.
RemoveSensor(i) ==
    /\ i \in present
    /\ present' = present \ {i}
    /\ asserted' = asserted \ AlarmsOf(i)
    /\ Send([kind |-> "removed", iface |-> i]) \/ UNCHANGED inbox
    /\ UNCHANGED <<alive, powerOn, pgood, pgoodUp>>

Environment ==
    \/ SetPower
    \/ PgoodServiceStarts
    \/ \E a \in Alarm : ChangeAlarm(a)
    \/ \E i \in Iface : \E on \in SUBSET AlarmsOf(i) : AddSensor(i, on)
    \/ \E i \in Iface : RemoveSensor(i)

-----------------------------------------------------------------------------
(* The process and its power state.                                        *)

\* readPGood(): a power that cannot be read is taken to be off.
PowerRead == pgoodUp /\ pgood

\* The daemon starts: the signals it gets from now on wait for the event loop.
StartBus ==
    /\ ~alive
    /\ alive' = TRUE
    /\ powerOn' = PowerRead
    /\ UNCHANGED <<inbox, pgood, pgoodUp, present, asserted>>

\* It exits, at an exception of a callback or otherwise.
DieBus ==
    /\ alive
    /\ alive' = FALSE
    /\ powerOn' = FALSE
    /\ inbox' = <<>>
    /\ UNCHANGED <<pgood, pgoodUp, present, asserted>>

\* The event loop delivers a signal; pgoodChanged() keeps the power state.
Deliver(m) ==
    /\ alive
    /\ inbox # <<>>
    /\ m = Head(inbox)
    /\ inbox' = Tail(inbox)
    /\ powerOn' = IF m.kind = "power" THEN m.on ELSE powerOn
    /\ UNCHANGED <<alive, pgood, pgoodUp, present, asserted>>

\* setPowerState(): its callbacks run if the state changes.
PowerChanges(m) == m.kind = "power" /\ m.on # powerOn

-----------------------------------------------------------------------------

InitBus ==
    /\ alive = FALSE
    /\ powerOn = FALSE
    /\ inbox = <<>>
    /\ pgood \in BOOLEAN
    /\ pgoodUp \in BOOLEAN
    /\ present \in SUBSET Iface
    /\ asserted \in SUBSET OnBus

=============================================================================
