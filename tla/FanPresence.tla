------------------------------ MODULE FanPresence ------------------------------
(***************************************************************************)
(* The daemon phosphor-fan-presence-tach (tach_detect.cpp) with its JSON   *)
(* configuration (json_parser.cpp): sensors, policies and the reporter of  *)
(* missing fans on one event loop, and their reload at SIGHUP.             *)
(*                                                                         *)
(* All of them share one PowerState (get_power_state.cpp) that lives on at *)
(* a reload, and with it the callbacks registered so far: those of objects *)
(* that were destroyed, and no others, since addCallback() keeps the first *)
(* callback of a name.  `listeners` are the callbacks whose object lives.  *)
(* Calling another one is undefined: the daemon dies (Exit), or nothing is *)
(* seen of it.                                                             *)
(***************************************************************************)
EXTENDS PresencePolicy, MissingFans, SequencesExt

CONSTANT
    Before      \* fan -> the fans before it in the configuration

ASSUME FanPresenceAssumption ==
    /\ IsFiniteSet(Fan)
    /\ ErrorFan \subseteq Fan
    /\ "reporter" \notin Fan

ASSUME BeforeAssumption == \A f \in Fan : Before[f] \subseteq Fan \ {f}

VARIABLES
    listeners,  \* the fans, and "reporter", that the power state calls
    monitored   \* history: the fans whose monitor() was done when the
                \* configuration was loaded

callbackVars == <<powerOn, listeners, monitored>>

vars == <<hardwareVars, inventory, alive, inbox, sensorVars, policyVars,
          reporterVars, callbackVars>>

PresenceTypeOK ==
    /\ SensorsTypeOK
    /\ PolicyTypeOK
    /\ ReporterTypeOK
    /\ powerOn \in BOOLEAN
    /\ listeners \in SUBSET (AnyOf \cup {"reporter"})
    /\ monitored \in SUBSET Fan

-----------------------------------------------------------------------------
(* Events                                                                  *)

Environment ==
    /\ PresenceEnvironment
    /\ UNCHANGED <<policyVars, reporterVars, callbackVars>>

Edge(g) ==
    /\ alive
    /\ GpioReceives(g)
    /\ UNCHANGED <<hardwareVars, alive, reporterVars, callbackVars>>

TachSignal(m) ==
    /\ m.kind = "tach"
    /\ TachReceives(m, Tail(inbox))
    /\ UNCHANGED <<reporterVars, callbackVars>>

PresentSignalReceived(m) ==
    /\ m.kind = "present"
    /\ ReporterPresent(m, powerOn)
    /\ inbox' = Tail(inbox)
    /\ UNCHANGED <<inventory, sensorVars, policyVars, callbackVars>>

\* pgoodChanged() and setPowerState()
PowerSignal(m) ==
    /\ m.kind = "power"
    /\ inbox' = Tail(inbox)
    /\ powerOn' = m.on
    /\ IF m.on = powerOn
       THEN UNCHANGED <<policyVars, reporterVars>>
       ELSE /\ AnyOfPowerChanged(listeners \cap AnyOf, m.on)
            /\ IF "reporter" \in listeners THEN ReporterPowerChanged(m.on)
                                           ELSE UNCHANGED reporterVars
    /\ UNCHANGED <<inventory, sensorVars, listeners, monitored>>

Receive ==
    /\ alive
    /\ inbox # <<>>
    /\ TachSignal(Head(inbox)) \/ PresentSignalReceived(Head(inbox)) \/ PowerSignal(Head(inbox))
    /\ UNCHANGED <<hardwareVars, alive>>

Timer ==
    /\ alive
    /\ \/ (\E f \in AnyOf : DelayExpires(f)) /\ UNCHANGED reporterVars
       \/ (\E f \in Eeprom : BindTimerExpires(f)) /\ UNCHANGED reporterVars
       \/ (\E f \in ErrorFan : MissingTimerExpires(f)) /\ UNCHANGED policyVars
    /\ UNCHANGED <<hardwareVars, inventory, alive, inbox, sensorVars, callbackVars>>

-----------------------------------------------------------------------------
(* Start, reload and exit.                                                 *)

\* The policies are created and replace the old ones, and the sensors of the fans
\* `begun` are started: `done` of them come to tell the inventory what they found.
Load(begun, done, pending) ==
    /\ MonitorFans(begun)
    /\ monitored' = done
    /\ inventory' = [f \in Fan |-> IF f \in done THEN FoundPresent(f) ELSE inventory[f]]
    /\ inbox' = pending \o SetToSeq({PresentSignal(f, inventory'[f]) :
                                       f \in {g \in Fan : inventory'[g] # inventory[g]}})

\* JsonConfig::start(), with a new PowerState.  The reporter reads the inventory
\* before the policies write it.
Start ==
    /\ ~alive
    /\ alive' = TRUE
    /\ powerOn' = pgood
    /\ Load(Fan, Fan, <<>>)
    /\ ReporterStarts(inventory, powerOn')
    /\ listeners' = AnyOf \cup IF ErrorFan = {} THEN {} ELSE {"reporter"}
    /\ UNCHANGED hardwareVars

\* sighupHandler() with a configuration that is good.
ReloadAs(begun, done) ==
    /\ alive
    /\ Len(inbox) <= MaxInbox
    /\ UNCHANGED powerOn
    /\ Load(begun, done, inbox)
    /\ listeners' = {}
    /\ UNCHANGED <<hardwareVars, alive>>

Reload ==
    /\ ReloadAs(Fan, Fan)
    /\ ReporterStarts(inventory, powerOn)

\* A call on D-Bus fails once the policies are replaced, and the daemon goes on:
\* in the constructor of the reporter, when nothing is started yet, ...
ReporterFails ==
    /\ ErrorFan # {}
    /\ ReloadAs({}, {})
    /\ ReporterGone

\* ... or in monitor() of a fan f, before its sensors are started (Fallback asks
\* each) or after it, before the inventory is told.  Those after it in the
\* configuration are left as constructed.
MonitorFails ==
    /\ \E f \in Fan :
         \/ f \in Fallback /\ ReloadAs(Before[f], Before[f])
         \/ ReloadAs(Before[f] \cup {f}, Before[f])
    /\ ReporterStarts(inventory, powerOn)

\* sighupHandler() with a configuration that is refused, by load() or by process()
\* before it replaces the policies.
ReloadFails ==
    /\ alive
    /\ ReporterGone
    /\ listeners' = listeners \ {"reporter"}
    /\ UNCHANGED <<hardwareVars, inventory, alive, inbox, sensorVars, policyVars, powerOn, monitored>>

\* The daemon exits: at an exception, as a call on D-Bus may throw, or at a
\* callback of an object that is gone.
Exit ==
    /\ alive
    /\ alive' = FALSE
    /\ powerOn' = FALSE
    /\ inbox' = <<>>
    /\ edges' = [g \in Gpio |-> <<>>]
    /\ fetched' = [g \in Gpio |-> FALSE]
    /\ started' = {}
    /\ value' = [r \in Rotor |-> FALSE]
    /\ current' = [s \in Sensor |-> FALSE]
    /\ seen' = {}
    /\ conflict' = {}
    /\ delay' = {}
    /\ powered' = {}
    /\ active' = [f \in Fallback |-> 1]
    /\ binding' = {}
    /\ ReporterGone
    /\ listeners' = {}
    /\ monitored' = {}
    /\ UNCHANGED <<hardwareVars, inventory>>

Init ==
    /\ InitSensors
    /\ powerOn = FALSE
    /\ seen = {}
    /\ conflict = {}
    /\ delay = {}
    /\ powered = {}
    /\ active = [f \in Fallback |-> 1]
    /\ binding = {}
    /\ InitReporter
    /\ listeners = {}
    /\ monitored = {}

Next ==
    \/ Environment
    \/ \E g \in Gpio : Edge(g)
    \/ Receive
    \/ Timer
    \/ Start
    \/ Reload
    \/ ReporterFails
    \/ MonitorFails
    \/ ReloadFails
    \/ Exit

Spec == Init /\ [][Next]_vars

-----------------------------------------------------------------------------
(* Properties.                                                             *)

\* The daemon has handled everything that happened.
Quiet == alive /\ inbox = <<>> /\ \A g \in started \cap Gpio : edges[g] = <<>>

\* An AnyOf fan that is monitored is in the inventory as present exactly if one
\* of its sensors sees it, once every signal and edge is handled
\* (stateChanged(), monitor()).
AnyOfFollows ==
    Quiet => \A f \in AnyOf \cap monitored :
               inventory[f] = \E s \in SensorsOf(f) : Detects(s)

\* A Fallback fan that is monitored follows its active sensor, which alone
\* listens: no sensor that was contradicted is heard again
\* (Fallback::stateChanged()).
FallbackFollows ==
    alive => \A f \in Fallback \cap monitored :
      LET s == Methods[f][active[f]]
      IN  /\ started \cap SensorsOf(f) = {s}
          /\ inventory[f] = current[s]
          /\ Quiet => inventory[f] = Detects(s)

\* The inventory follows the sensors under both policies, for every fan whose
\* monitor() was done at the last load that replaced the policies: all of them,
\* unless a reload stopped in the middle of it.  The device a policy binds and
\* the reporter's timers keep their types.
InventoryFollows == PresenceTypeOK /\ AnyOfFollows /\ FallbackFollows

\* While the power is on, every sensor that does not see a fan that others see
\* has its conflict logged, whether the sensors changed before the delay was
\* over, after it or with it (checkSensorConflicts()).
ConflictsReported ==
    \A f \in powered : AnyPresent(f, seen) => SensorsOf(f) \subseteq seen \cup conflict

\* A policy that is told of the power looks for conflicts only with the power
\* on: a delay that was started does not outlive it (powerStateChanged()).
ConflictNeedsPower == (powered \cup delay) \cap listeners # {} => powerOn

\* Conflicts are judged on a powered system: all of them there, and only there.
ConflictsFollow == ConflictsReported /\ ConflictNeedsPower

\* An EEPROM is to be bound only for a fan that is present (bind(), unbind()).
BindOnlyPresent == \A f \in binding : inventory[f]

\* A fan that is missing with the power on is timed or was reported, and none is
\* timed that is present or without power, once every signal is handled and as
\* long as the reporter is told of the power (checkFan()).
MissingTimed ==
    Quiet /\ "reporter" \in listeners =>
      /\ missing \cup reported = {f \in ErrorFan : powerOn /\ ~inventory[f]}
      /\ missing \cap reported = {}

=============================================================================
