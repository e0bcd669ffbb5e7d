---------------------------- MODULE PresencePolicy ----------------------------
(***************************************************************************)
(* The redundancy policies of fan presence: AnyOf (anyof.cpp), for which   *)
(* one sensor that sees the fan is enough and sensors that disagree are    *)
(* reported while the power is on, and Fallback (fallback.cpp), which      *)
(* believes one sensor until a later one contradicts it.  Both bind the    *)
(* driver of the fan's EEPROM (eeprom_device.hpp).                         *)
(***************************************************************************)
EXTENDS PresenceSensors, FiniteSets, FiniteSetsExt

CONSTANTS
    AnyOf,      \* the fans with this policy; the others have Fallback
    Eeprom      \* the fans with an EEPROM

ASSUME PresencePolicyAssumption ==
    /\ AnyOf \subseteq Fan
    /\ Eeprom \subseteq Fan

Fallback == Fan \ AnyOf

VARIABLES
    powerOn,    \* _powerState of the PowerState that the policies share
    seen,       \* the sensors of AnyOf fans that last said present
    conflict,   \* the sensors of AnyOf fans whose conflict was logged
    delay,      \* the fans whose power on delay runs
    powered,    \* the fans that take the power to be on: _powerOn
    active,     \* Fallback fan -> the index of its active sensor
    binding     \* the fans whose bind timer runs, to bind the EEPROM to its driver

anyOfVars == <<seen, conflict, delay, powered>>
policyVars == <<anyOfVars, active, binding>>

PolicyTypeOK ==
    /\ seen \in SUBSET Sensor
    /\ conflict \in SUBSET Sensor
    /\ delay \in SUBSET AnyOf
    /\ powered \in SUBSET AnyOf
    /\ active \in [Fallback -> Nat]
    /\ \A f \in Fallback : active[f] \in DOMAIN Methods[f]
    /\ binding \in SUBSET Eeprom

-----------------------------------------------------------------------------
(* The EEPROM                                                              *)

\* bind() and unbind()
TimerNotStopped(f, present) == \* mutant: unbind() leaves the bind timer running
    binding' = IF present THEN binding \cup ({f} \cap Eeprom) ELSE binding
BindOrUnbind(f, present) ==
    binding' = IF present THEN binding \cup ({f} \cap Eeprom) ELSE binding \ {f}

\* bindTimerExpired(): the driver is bound then, if it can be.
BindTimerExpires(f) ==
    /\ f \in binding
    /\ binding' = binding \ {f}
    /\ UNCHANGED <<anyOfVars, active>>

-----------------------------------------------------------------------------
(* AnyOf                                                                   *)

AnyPresent(f, s) == SensorsOf(f) \cap s # {}

\* checkSensorConflicts(): the conflicts logged when the sensors s see the fan.
OneConflict(f, s, c, on) == \* mutant: a conflict that was logged covers the others
    IF on /\ AnyPresent(f, s) /\ SensorsOf(f) \cap c = {} THEN c \cup (SensorsOf(f) \ s) ELSE c
CheckConflicts(f, s, c, on) ==
    IF on /\ AnyPresent(f, s) THEN c \cup (SensorsOf(f) \ s) ELSE c

\* stateChanged(): a fan that was just plugged has no conflicts yet.
AnyOfStateChanged(f, s, new, pending) ==
    LET sees == IF new THEN seen \cup {s} ELSE seen \ {s}
        was  == AnyPresent(f, seen)
        now  == AnyPresent(f, sees)
        old  == IF now /\ ~was THEN conflict \ SensorsOf(f) ELSE conflict
    IN  /\ seen' = sees
        /\ Notify(f, now, pending)
        /\ IF now # was THEN BindOrUnbind(f, now) ELSE UNCHANGED binding
        /\ conflict' = CheckConflicts(f, sees, old, f \in powered)
        /\ UNCHANGED <<delay, powered, active>>

\* powerStateChanged() of the fans F
AnyOfPowerChanged(F, on) ==
    /\ conflict' = IF on THEN conflict \ UNION {SensorsOf(f) : f \in F} ELSE conflict
    /\ delay' = IF on THEN delay \cup F ELSE delay \ F
    /\ powered' = IF on THEN powered ELSE powered \ F
    /\ UNCHANGED <<seen, active, binding>>

\* delayedAfterPowerOn()
DelayExpires(f) ==
    /\ f \in delay
    /\ delay' = delay \ {f}
    /\ powered' = powered \cup {f}
    /\ conflict' = CheckConflicts(f, seen, conflict, TRUE)
    /\ UNCHANGED <<seen, active, binding>>

-----------------------------------------------------------------------------
(* Fallback                                                                *)

\* The sensors after the active one that see the fan.
Backups(f) == {i \in DOMAIN Methods[f] : i > active[f] /\ Reading(Methods[f][i])}

\* The sensors that listen once `next` took over from s.
NotStopped(s, next) == \* mutant: the sensor that was contradicted is not stopped
    started \cup {next}
Replaced(s, next) == (started \ {s}) \cup {next}

\* stateChanged(): what the active sensor s says, or a backup that takes over.
FallbackStateChanged(f, s, new, seenValue, pending) ==
    LET switch == ~new /\ Backups(f) # {}
        next   == Methods[f][Min(Backups(f))]
    IN  /\ IF switch
           THEN /\ active' = [active EXCEPT ![f] = Min(Backups(f))]
                /\ started' = Replaced(s, next)
                /\ value' = ValueOnStart({next}, seenValue)
                /\ current' = [CurrentOnStart({next}, current) EXCEPT ![s] = new]
           ELSE /\ value' = seenValue
                /\ current' = [current EXCEPT ![s] = new]
                /\ UNCHANGED <<active, started>>
        /\ Notify(f, new \/ switch, pending)
        /\ BindOrUnbind(f, new \/ switch)
        /\ UNCHANGED anyOfVars

\* A sensor of the fan f now says `new`: its policy is told if that changed.
SensorChanges(f, s, new, seenValue, pending) ==
    \/ /\ new = current[s]
       /\ value' = seenValue
       /\ inbox' = pending
       /\ UNCHANGED <<inventory, started, current, policyVars>>
    \/ /\ new # current[s]
       /\ f \in AnyOf
       /\ value' = seenValue
       /\ current' = [current EXCEPT ![s] = new]
       /\ AnyOfStateChanged(f, s, new, pending)
       /\ UNCHANGED started
    \/ /\ new # current[s]
       /\ f \in Fallback
       /\ FallbackStateChanged(f, s, new, seenValue, pending)

\* propertiesChanged() of a tach, that is told of rotors while it is started.
TachReceives(m, pending) ==
    LET s == TachOf[m.rotor]
        seenValue == [value EXCEPT ![m.rotor] = m.on]
    IN  /\ IF s \in started
           THEN SensorChanges(FanOf(s), s, \E r \in Rotor : TachOf[r] = s /\ seenValue[r],
                              seenValue, pending)
           ELSE inbox' = pending /\ UNCHANGED <<inventory, started, value, current, policyVars>>
        /\ UNCHANGED <<edges, fetched>>

\* ioCallback() of a GPIO
GpioReceives(g) ==
    /\ g \in started
    /\ edges[g] # <<>>
    /\ edges' = [edges EXCEPT ![g] = Tail(@)]
    /\ fetched' = [fetched EXCEPT ![g] = Head(edges[g])]
    /\ SensorChanges(FanOf(g), g, Head(edges[g]), value, inbox)

\* The active sensor that monitor() finds: the first that sees the fan, or the first.
FirstActive(f, reads) ==
    LET sees == {i \in DOMAIN Methods[f] : Methods[f][i] \in reads}
    IN  IF sees = {} THEN 1 ELSE Min(sees)

\* The sensors that monitor() of the fans F starts: all those of an AnyOf fan, the
\* active one of another.
Listening(F, first) ==
    (UNION {SensorsOf(f) : f \in F \cap AnyOf}) \cup {Methods[f][first[f]] : f \in F \cap Fallback}

\* The constructors of all policies, with the power as it is now, then monitor() of
\* the fans F.  Sensors are created anew: a GPIO is read from its device.
MonitorFans(F) ==
    LET reads == {s \in Sensor : Detects(s)}
        first == [f \in Fallback |-> IF f \in F THEN FirstActive(f, reads) ELSE 1]
    IN  /\ edges' = [g \in Gpio |-> <<>>]
        /\ fetched' = level
        /\ started' = Listening(F, first)
        /\ value' = [r \in Rotor |-> TachOf[r] \in started' /\ spinning[r]]
        /\ current' = [s \in Sensor |-> s \in started' /\ s \in reads]
        /\ seen' = {s \in reads : FanOf(s) \in AnyOf \cap F}
        /\ conflict' = {}
        /\ delay' = IF powerOn' THEN AnyOf ELSE {}
        /\ powered' = {}
        /\ active' = first
        /\ binding' = {}

\* What they report: a Fallback fan whatever its active sensor sees.
FoundPresent(f) == \E s \in SensorsOf(f) : Detects(s)

=============================================================================
