--------------------------- MODULE FanPresenceProofs ---------------------------
(***************************************************************************)
(* Theorems about FanPresence, for any fans, sensors, policies, EEPROMs    *)
(* and configured times: the inventory and the reporter of missing fans    *)
(* follow what the sensors detect, and an EEPROM is bound and a conflict   *)
(* judged only when it should be.                                          *)
(***************************************************************************)
EXTENDS FanPresence, SequenceProofs, FiniteSetTheorems

USE PresenceSensorsAssumption, PresencePolicyAssumption, FanPresenceAssumption

-----------------------------------------------------------------------------
(* The inductive invariant                                                 *)

TachMessage == [kind : {"tach"}, rotor : Rotor, on : BOOLEAN]
PresentMessage == [kind : {"present"}, fan : Fan, on : BOOLEAN]
PowerMessage == [kind : {"power"}, on : BOOLEAN]
Message == TachMessage \cup PresentMessage \cup PowerMessage

\* The signals about a rotor and about a fan, and those that tell how they are.
AboutRotor(r) == {m \in Message : m.kind = "tach" /\ m.rotor = r}
RotorNow(r) == {m \in AboutRotor(r) : m.on = spinning[r]}
AboutFan(f) == {m \in Message : m.kind = "present" /\ m.fan = f}
FanNow(f) == {m \in AboutFan(f) : m.on = inventory[f]}

\* What a sensor has learned of the hardware.
Sees(s) == IF s \in Tach THEN \E r \in Rotor : TachOf[r] = s /\ value[r]
                         ELSE fetched[s]

\* The rotors of a sensor that listens and the GPIOs are known as they are, or
\* the last of the signals and edges that wait tells so.
RotorKnown(r) ==
    /\ LastTells(inbox, AboutRotor(r), RotorNow(r))
    /\ Waits(inbox, AboutRotor(r)) \/ (TachOf[r] \in started => value[r] = spinning[r])
GpioKnown(g) ==
    /\ LastTells(edges[g], BOOLEAN, {level[g]})
    /\ Waits(edges[g], BOOLEAN) \/ fetched[g] = level[g]

HardwareKnown ==
    /\ \A r \in Rotor : RotorKnown(r)
    /\ \A g \in Gpio : GpioKnown(g)
    /\ \A s \in started : current[s] = Sees(s)

\* What each policy makes of its sensors is in the inventory, if it came to tell
\* it; of a policy that did not, as many sensors listen as were started, and what
\* it makes of them is not told before they change.
AnyOfInv(f) ==
    /\ \A s \in SensorsOf(f) : s \in seen <=> current[s]
    /\ f \in binding => AnyPresent(f, seen)
    /\ f \in monitored => /\ SensorsOf(f) \subseteq started
                          /\ inventory[f] <=> AnyPresent(f, seen)
FallbackInv(f) ==
    /\ started \cap SensorsOf(f) \subseteq {Methods[f][active[f]]}
    /\ f \in monitored => /\ Methods[f][active[f]] \in started
                          /\ inventory[f] = current[Methods[f][active[f]]]

PoliciesFollow ==
    /\ \A f \in AnyOf : AnyOfInv(f)
    /\ \A f \in Fallback : FallbackInv(f)

\* A reporter knows the fans as they are in the inventory, or the last of the
\* signals that wait tells so.
Informed(f) == reporter => states[f] = inventory[f]
FanKnown(f) ==
    /\ LastTells(inbox, AboutFan(f), FanNow(f))
    /\ Waits(inbox, AboutFan(f)) \/ Informed(f)

MissingWatched ==
    "reporter" \in listeners =>
      /\ reporter
      /\ missing \cup reported = {f \in ErrorFan : powerOn /\ ~states[f]}
      /\ missing \cap reported = {}

TypeInv == PresenceTypeOK /\ inbox \in Seq(Message)

PresenceInv ==
    /\ TypeInv
    /\ alive => HardwareKnown /\ PoliciesFollow
    /\ ConflictsFollow
    /\ BindOnlyPresent
    /\ alive => \A f \in ErrorFan : FanKnown(f)
    /\ alive => MissingWatched
    /\ ~alive => inbox = <<>> /\ listeners = {}

-----------------------------------------------------------------------------
(* Sensors, methods and sets                                               *)

\* A signal is of one kind.
LEMMA MessageKinds ==
    ASSUME NEW m \in Message
    PROVE  /\ m.kind = "tach" => m.rotor \in Rotor /\ m.on \in BOOLEAN
           /\ m.kind = "present" => m.fan \in Fan /\ m.on \in BOOLEAN
           /\ m.kind = "power" => m.on \in BOOLEAN
           /\ \A r \in Rotor : m \in AboutRotor(r) <=> m.kind = "tach" /\ m.rotor = r
           /\ \A f \in Fan : m \in AboutFan(f) <=> m.kind = "present" /\ m.fan = f
  BY DEF Message, TachMessage, PresentMessage, PowerMessage, AboutRotor, AboutFan

\* A sensor is of one fan.
LEMMA FanOfSensor ==
    ASSUME NEW s \in Sensor
    PROVE  /\ FanOf(s) \in Fan
           /\ \A f \in Fan : s \in SensorsOf(f) <=> f = FanOf(s)
  <1>1. \E f \in Fan : s \in SensorsOf(f)
    OBVIOUS
  <1>2. FanOf(s) \in Fan /\ s \in SensorsOf(FanOf(s))
    BY <1>1 DEF FanOf
  <1> QED
    BY <1>2

\* The methods of a fan are its sensors, and each is one of its own.
LEMMA MethodsOf ==
    ASSUME NEW f \in Fan
    PROVE  /\ SensorsOf(f) \subseteq Sensor
           /\ 1 \in DOMAIN Methods[f] /\ DOMAIN Methods[f] \subseteq Nat
           /\ \A i \in DOMAIN Methods[f] : /\ Methods[f][i] \in SensorsOf(f)
                                          /\ Methods[f][i] \in Sensor
                                          /\ FanOf(Methods[f][i]) = f
           /\ \A s \in SensorsOf(f) : \E i \in DOMAIN Methods[f] : s = Methods[f][i]
           /\ \A i, j \in DOMAIN Methods[f] : Methods[f][i] = Methods[f][j] => i = j
  <1>1. Methods[f] \in Seq(Sensor) /\ Methods[f] # <<>>
    OBVIOUS
  <1>2. \A i \in DOMAIN Methods[f] : Methods[f][i] \in Sensor
    BY <1>1, ElementOfSeq, LenProperties
  <1>3. 1 \in DOMAIN Methods[f] /\ DOMAIN Methods[f] \subseteq Nat
    <2>1. /\ DOMAIN Methods[f] = 1..Len(Methods[f]) /\ Len(Methods[f]) \in Nat
          /\ Len(Methods[f]) # 0
      BY <1>1, LenProperties, EmptySeq
    <2> QED
      BY <2>1
  <1>4. SensorsOf(f) \subseteq Sensor
    BY <1>2 DEF SensorsOf
  <1>5. \A i \in DOMAIN Methods[f] : Methods[f][i] \in SensorsOf(f) /\ FanOf(Methods[f][i]) = f
    BY <1>2, FanOfSensor DEF SensorsOf
  <1>6. \A s \in SensorsOf(f) : \E i \in DOMAIN Methods[f] : s = Methods[f][i]
    BY DEF SensorsOf
  <1> QED
    BY <1>2, <1>3, <1>4, <1>5, <1>6

\* Min() of a set of numbers is one of them.
LEMMA LeastExists ==
    ASSUME NEW T \in SUBSET Nat, T # {}
    PROVE  Min(T) \in T
  <1>1. PICK x \in T : \A y \in T : <<y, x>> \notin OpToRel(<, Nat)
    BY WFMin, NatLessThanWellFounded
  <1>2. \A y \in T : ~(y < x)
    BY <1>1 DEF OpToRel
  <1>3. \A y \in T : x =< y
    BY <1>2
  <1> QED
    BY <1>3 DEF Min

\* The elements of a finite set, one after the other, in some order.
LEMMA SetInSomeOrder ==
    ASSUME NEW S, IsFiniteSet(S)
    PROVE  /\ SetToSeq(S) \in Seq(S)
           /\ \A i \in DOMAIN SetToSeq(S) : SetToSeq(S)[i] \in S
           /\ \A x \in S : \E i \in DOMAIN SetToSeq(S) : SetToSeq(S)[i] = x
  <1> DEFINE n == Cardinality(S)
             q == SetToSeq(S)
  <1>1. n \in Nat /\ ExistsBijection(1..n, S)
    BY FS_CardinalityType
  <1>2. \E g \in [1..n -> S] : IsInjective(g)
    BY <1>1 DEF ExistsBijection, Bijection, Injection
  <1>3. q \in [1..n -> S] /\ IsInjective(q)
    BY <1>2 DEF SetToSeq
  <1>4. q \in Injection(1..n, S) /\ Cardinality(1..n) = n
    <2>1. Cardinality(1..n) = n
      BY <1>1, FS_Interval
    <2> QED
      BY <1>3, <2>1 DEF Injection
  <1>5. q \in Surjection(1..n, S)
    BY <1>4, FS_Injection
  <1>6. q \in Seq(S)
    BY <1>1, <1>3, SeqDef
  <1> QED
    BY <1>3, <1>5, <1>6 DEF Surjection

-----------------------------------------------------------------------------
(* The hardware changes                                                    *)

\* A signal is sent about what has changed: nothing else is affected by it.
LEMMA SentKnown ==
    ASSUME TypeInv, alive, NEW m \in Message, inbox' = Append(inbox, m),
           UNCHANGED <<started, value, reporter, states>>,
           \A r \in Rotor : IF m \in AboutRotor(r) THEN m.on = spinning'[r]
                                                  ELSE spinning'[r] = spinning[r],
           \A f \in Fan : IF m \in AboutFan(f) THEN m.on = inventory'[f]
                                              ELSE inventory'[f] = inventory[f]
    PROVE  /\ inbox' \in Seq(Message)
           /\ \A r \in Rotor : RotorKnown(r) => RotorKnown(r)'
           /\ \A f \in ErrorFan : FanKnown(f) => FanKnown(f)'
  <1>1. inbox \in Seq(Message)
    BY DEF TypeInv
  <1>2. inbox' \in Seq(Message)
    BY <1>1, AppendProperties
  <1>3. ASSUME NEW r \in Rotor, RotorKnown(r) PROVE RotorKnown(r)'
    <2>1. AboutRotor(r)' = AboutRotor(r) /\ RotorNow(r)' = {n \in AboutRotor(r) : n.on = spinning'[r]}
      BY DEF AboutRotor, RotorNow
    <2>2. m \in AboutRotor(r) => m \in RotorNow(r)'
      BY <2>1
    <2>3. m \notin AboutRotor(r) => RotorNow(r)' = RotorNow(r)
      BY <2>1 DEF RotorNow
    <2>4. /\ Waits(inbox', AboutRotor(r)) <=> Waits(inbox, AboutRotor(r)) \/ m \in AboutRotor(r)
          /\ LastTells(inbox', AboutRotor(r), RotorNow(r)')
      BY <1>1, <1>3, <2>2, <2>3, AppendTold DEF RotorKnown
    <2> QED
      BY <1>3, <2>1, <2>4 DEF RotorKnown
  <1>4. ASSUME NEW f \in ErrorFan, FanKnown(f) PROVE FanKnown(f)'
    <2> DEFINE M == AboutFan(f)
               T == FanNow(f)
               U == {n \in M : n.on = inventory'[f]}
    <2>1. M' = M /\ FanNow(f)' = U /\ f \in Fan
      BY DEF AboutFan, FanNow
    <2>2. (m \in M => m \in U) /\ (m \notin M => U = T)
      BY <2>1 DEF FanNow
    <2>3. LastTells(inbox, M, T)
      BY <1>4 DEF FanKnown
    <2> HIDE DEF M, T, U
    <2>4. /\ Waits(Append(inbox, m), M) <=> Waits(inbox, M) \/ m \in M
          /\ LastTells(Append(inbox, m), M, U)
      BY <1>1, <2>2, <2>3, AppendTold
    <2>5. Waits(inbox, M) \/ m \in M \/ Informed(f)'
      BY <1>4, <2>1 DEF FanKnown, Informed, M
    <2> QED
      BY <2>1, <2>4, <2>5 DEF FanKnown, M
  <1> QED
    BY <1>2, <1>3, <1>4

\* What is kept of the policies when nothing but the hardware changes.
LEMMA PoliciesKept ==
    ASSUME PresenceInv,
           UNCHANGED <<inventory, alive, started, current, policyVars, reporterVars, callbackVars>>
    PROVE  /\ alive => PoliciesFollow' /\ MissingWatched'
           /\ ConflictsFollow' /\ BindOnlyPresent'
           /\ PolicyTypeOK' /\ ReporterTypeOK'
           /\ powerOn' \in BOOLEAN /\ listeners' \in SUBSET (AnyOf \cup {"reporter"}) /\ monitored' \in SUBSET Fan
           /\ ~alive => listeners' = {}
  <1>1. UNCHANGED <<seen, conflict, delay, powered, active, binding,
                    reporter, states, missing, reported, powerOn, listeners, monitored>>
    BY DEF policyVars, anyOfVars, reporterVars, callbackVars
  <1>2. alive => PoliciesFollow' /\ MissingWatched'
    BY <1>1 DEF PresenceInv, PoliciesFollow, AnyOfInv, FallbackInv, AnyPresent, MissingWatched
  <1>3. ConflictsFollow' /\ BindOnlyPresent'
    BY <1>1 DEF PresenceInv, ConflictsFollow, ConflictsReported, ConflictNeedsPower, AnyPresent,
                BindOnlyPresent
  <1>4. PolicyTypeOK' /\ ReporterTypeOK'
    BY <1>1 DEF PresenceInv, TypeInv, PresenceTypeOK, PolicyTypeOK, ReporterTypeOK
  <1> QED
    BY <1>1, <1>2, <1>3, <1>4 DEF PresenceInv, TypeInv, PresenceTypeOK

LEMMA EnvironmentInv ==
    ASSUME PresenceInv, Environment
    PROVE  PresenceInv'
  <1>1. /\ UNCHANGED <<inventory, alive, fetched, started, value, current,
                       policyVars, reporterVars, callbackVars>>
        /\ (\E r \in Rotor : RotorChanges(r)) \/ (\E g \in Gpio : GpioChanges(g)) \/ PowerChanges
    BY DEF Environment, PresenceEnvironment
  <1>2. UNCHANGED <<states, reporter>>
    BY <1>1 DEF reporterVars
  <1>3. TypeInv /\ SensorsTypeOK /\ inbox \in Seq(Message)
    BY DEF PresenceInv, TypeInv, PresenceTypeOK
  <1> DEFINE Kept ==
        /\ SensorsTypeOK' /\ inbox' \in Seq(Message)
        /\ alive => HardwareKnown'
        /\ alive => \A f \in ErrorFan : FanKnown(f)'
        /\ ~alive => inbox' = <<>>
  <1>4. ASSUME NEW r \in Rotor, RotorChanges(r) PROVE Kept
    <2> DEFINE m == [kind |-> "tach", rotor |-> r, on |-> ~spinning[r]]
    <2>1. /\ spinning' = [spinning EXCEPT ![r] = ~@] /\ spinning'[r] = ~spinning[r]
          /\ UNCHANGED <<level, pgood, edges>>
          /\ inbox' = IF alive THEN Append(inbox, m) ELSE inbox
      BY <1>3, <1>4 DEF RotorChanges, Send, SensorsTypeOK
    <2>2. m \in Message /\ m.kind = "tach" /\ m.rotor = r /\ m.on = ~spinning[r]
      BY DEF Message, TachMessage
    <2> HIDE DEF m
    <2>3. SensorsTypeOK'
      BY <1>1, <1>3, <2>1 DEF SensorsTypeOK
    <2>4. CASE alive
      <3>1. \A q \in Rotor : IF m \in AboutRotor(q) THEN m.on = spinning'[q] ELSE spinning'[q] = spinning[q]
        BY <1>3, <2>1, <2>2, MessageKinds DEF SensorsTypeOK
      <3>2. \A f \in Fan : IF m \in AboutFan(f) THEN m.on = inventory'[f] ELSE inventory'[f] = inventory[f]
        BY <1>1, <2>2, MessageKinds
      <3>3. /\ inbox' \in Seq(Message)
            /\ \A q \in Rotor : RotorKnown(q) => RotorKnown(q)'
            /\ \A f \in ErrorFan : FanKnown(f) => FanKnown(f)'
        BY <1>1, <1>2, <1>3, <2>1, <2>2, <2>4, <3>1, <3>2, SentKnown
      <3>4. HardwareKnown'
        BY <1>1, <2>1, <2>4, <3>3 DEF PresenceInv, HardwareKnown, GpioKnown, Sees
      <3> QED
        BY <2>3, <2>4, <3>3, <3>4 DEF PresenceInv
    <2>5. CASE ~alive
      BY <1>3, <2>1, <2>3, <2>5 DEF PresenceInv
    <2> QED
      BY <2>4, <2>5
  <1>5. ASSUME NEW g \in Gpio, GpioChanges(g) PROVE Kept
    <2>1. /\ level' = [level EXCEPT ![g] = ~@]
          /\ UNCHANGED <<spinning, pgood, inbox>>
          /\ edges' = IF alive THEN [edges EXCEPT ![g] = Append(@, ~level[g])] ELSE edges
      BY <1>5 DEF GpioChanges
    <2>2. level[g] \in BOOLEAN /\ edges[g] \in Seq(BOOLEAN)
      BY <1>3 DEF SensorsTypeOK
    <2>3. Append(edges[g], ~level[g]) \in Seq(BOOLEAN)
      BY <2>2, AppendProperties
    <2>4. SensorsTypeOK'
      BY <1>1, <1>3, <2>1, <2>3 DEF SensorsTypeOK
    <2>5. ASSUME alive, NEW h \in Gpio PROVE GpioKnown(h)'
      <3>0. GpioKnown(h) /\ UNCHANGED fetched
        BY <1>1, <2>5 DEF PresenceInv, HardwareKnown
      <3>1. CASE h = g
        <4> DEFINE e == ~level[g]
        <4>1. e \in BOOLEAN /\ level'[g] = e
          BY <1>3, <2>1 DEF SensorsTypeOK
        <4> HIDE DEF e
        <4>2. edges'[g] = Append(edges[g], e)
          BY <1>3, <2>1, <2>5 DEF SensorsTypeOK, e
        <4> DEFINE B == BOOLEAN
                   T == {level[g]}
                   U == {level'[g]}
                   q == edges[g]
        <4>3. LastTells(q, B, T) /\ e \in U /\ e \in B /\ q \in Seq(B)
          BY <2>2, <3>0, <3>1, <4>1 DEF GpioKnown
        <4> HIDE DEF B, T, U, q
        <4>4. LastTells(Append(q, e), B, U) /\ Waits(Append(q, e), B)
          BY <4>3, AppendTold
        <4> QED
          BY <3>1, <4>2, <4>4 DEF GpioKnown, U, B, q
      <3>2. CASE h # g
        BY <1>3, <2>1, <2>5, <3>0, <3>2 DEF GpioKnown, SensorsTypeOK
      <3> QED
        BY <3>1, <3>2
    <2>6. alive => HardwareKnown'
      <3> SUFFICES ASSUME alive PROVE HardwareKnown'
        OBVIOUS
      <3>1. HardwareKnown
        BY DEF PresenceInv
      <3>2. ASSUME NEW r \in Rotor PROVE RotorKnown(r)'
        <4>1. AboutRotor(r)' = AboutRotor(r) /\ RotorNow(r)' = RotorNow(r)
          BY <2>1 DEF AboutRotor, RotorNow
        <4>2. RotorKnown(r)
          BY <3>1 DEF HardwareKnown
        <4> QED
          BY <1>1, <2>1, <4>1, <4>2 DEF RotorKnown
      <3>3. \A s \in started' : current'[s] = Sees(s)'
        BY <1>1, <3>1 DEF HardwareKnown, Sees
      <3> QED
        BY <2>5, <3>2, <3>3 DEF HardwareKnown
    <2>7. alive => \A f \in ErrorFan : FanKnown(f)'
      BY <1>1, <1>2, <2>1 DEF PresenceInv, FanKnown, Informed, AboutFan, FanNow
    <2> QED
      BY <1>3, <2>1, <2>4, <2>6, <2>7 DEF PresenceInv
  <1>6. ASSUME PowerChanges PROVE Kept
    <2> DEFINE m == [kind |-> "power", on |-> ~pgood]
    <2>1. /\ pgood' = ~pgood /\ UNCHANGED <<spinning, level, edges>>
          /\ inbox' = IF alive THEN Append(inbox, m) ELSE inbox
      BY <1>6 DEF PowerChanges, Send
    <2>2. m \in Message /\ m.kind = "power"
      BY DEF Message, PowerMessage
    <2> HIDE DEF m
    <2>3. SensorsTypeOK'
      BY <1>1, <1>3, <2>1 DEF SensorsTypeOK
    <2>4. CASE alive
      <3>1. /\ \A q \in Rotor : m \notin AboutRotor(q)
            /\ \A f \in Fan : m \notin AboutFan(f)
        BY <2>2, MessageKinds
      <3>2. /\ inbox' \in Seq(Message)
            /\ \A q \in Rotor : RotorKnown(q) => RotorKnown(q)'
            /\ \A f \in ErrorFan : FanKnown(f) => FanKnown(f)'
        BY <1>1, <1>2, <1>3, <2>1, <2>2, <2>4, <3>1, SentKnown
      <3>3. HardwareKnown'
        BY <1>1, <2>1, <2>4, <3>2 DEF PresenceInv, HardwareKnown, GpioKnown, Sees
      <3> QED
        BY <2>3, <2>4, <3>2, <3>3 DEF PresenceInv
    <2>5. CASE ~alive
      BY <1>3, <2>1, <2>3, <2>5 DEF PresenceInv
    <2> QED
      BY <2>4, <2>5
  <1>7. Kept
    <2> HIDE DEF Kept
    <2> QED
      BY <1>1, <1>4, <1>5, <1>6
  <1> QED
    BY <1>1, <1>2, <1>7, PoliciesKept DEF PresenceInv, TypeInv, PresenceTypeOK

-----------------------------------------------------------------------------
(* A sensor changes                                                        *)

\* setPresence() changes one fan, and announces it if it is a change.
LEMMA NotifyOne ==
    ASSUME inventory \in [Fan -> BOOLEAN], NEW f \in Fan, NEW present \in BOOLEAN, NEW pending,
           Notify(f, present, pending)
    PROVE  /\ inventory' \in [Fan -> BOOLEAN]
           /\ inventory'[f] = present
           /\ \A h \in Fan \ {f} : inventory'[h] = inventory[h]
           /\ inbox' = IF inventory'[f] = inventory[f] THEN pending
                       ELSE Append(pending, PresentSignal(f, inventory'[f]))
  BY DEF Notify

\* The announcement is the last that waits about the fan.
LEMMA InventoryTold ==
    ASSUME NEW pending \in Seq(Message), NEW f \in Fan,
           inventory \in [Fan -> BOOLEAN], inventory' \in [Fan -> BOOLEAN],
           \A h \in Fan \ {f} : inventory'[h] = inventory[h],
           inbox' = IF inventory'[f] = inventory[f] THEN pending
                    ELSE Append(pending, PresentSignal(f, inventory'[f])),
           UNCHANGED <<spinning, reporter, states>>, ErrorFan \subseteq Fan
    PROVE  /\ inbox' \in Seq(Message)
           /\ \A r \in Rotor :
                /\ Waits(inbox', AboutRotor(r)) <=> Waits(pending, AboutRotor(r))
                /\ LastTells(pending, AboutRotor(r), RotorNow(r)) =>
                     LastTells(inbox', AboutRotor(r), RotorNow(r)')
           /\ \A h \in ErrorFan :
                /\ LastTells(pending, AboutFan(h), FanNow(h))
                /\ Waits(pending, AboutFan(h)) \/ Informed(h)
                => FanKnown(h)'
  <1> DEFINE m == PresentSignal(f, inventory'[f])
  <1>1. m \in Message /\ m.kind = "present" /\ m.fan = f /\ m.on = inventory'[f]
    BY DEF PresentSignal, Message, PresentMessage
  <1>2. /\ \A r \in Rotor : m \notin AboutRotor(r) /\ RotorNow(r)' = RotorNow(r)
        /\ \A h \in Fan : m \in AboutFan(h) <=> h = f
    BY <1>1, MessageKinds DEF RotorNow, AboutRotor
  <1> HIDE DEF m
  <1>3. ASSUME NEW r \in Rotor
        PROVE  /\ Waits(Append(pending, m), AboutRotor(r)) <=> Waits(pending, AboutRotor(r))
               /\ LastTells(pending, AboutRotor(r), RotorNow(r)) =>
                    LastTells(Append(pending, m), AboutRotor(r), RotorNow(r))
    <2> DEFINE M == AboutRotor(r)
               T == RotorNow(r)
    <2>1. m \notin M
      BY <1>2
    <2> HIDE DEF M, T
    <2>2. /\ Waits(Append(pending, m), M) <=> Waits(pending, M)
          /\ LastTells(pending, M, T) => LastTells(Append(pending, m), M, T)
      BY <1>1, <2>1, AppendWaits, AppendTells
    <2> QED
      BY <2>2 DEF M, T
  <1>4. ASSUME NEW h \in ErrorFan,
               LastTells(pending, AboutFan(h), FanNow(h)),
               Waits(pending, AboutFan(h)) \/ Informed(h)
        PROVE  FanKnown(h)'
    <2> DEFINE M == AboutFan(h)
               T == FanNow(h)
               U == {n \in M : n.on = inventory'[h]}
    <2>1. M' = M /\ FanNow(h)' = U /\ h \in Fan
      BY DEF AboutFan, FanNow
    <2>2. CASE inventory'[f] = inventory[f]
      <3>1. inventory'[h] = inventory[h]
        BY <2>1, <2>2
      <3>2. U = T
        BY <3>1 DEF FanNow
      <3> QED
        BY <1>4, <2>1, <2>2, <3>1, <3>2 DEF FanKnown, Informed
    <2>3. CASE inventory'[f] # inventory[f]
      <3>1. (m \in M => m \in U) /\ (m \notin M => U = T)
        BY <1>1, <1>2, <2>1 DEF FanNow
      <3>2. m \in M \/ inventory'[h] = inventory[h]
        BY <1>2, <2>1
      <3>3. LastTells(pending, M, T) /\ (Waits(pending, M) \/ Informed(h))
        BY <1>4
      <3> HIDE DEF M, T, U
      <3>4. /\ Waits(Append(pending, m), M) <=> Waits(pending, M) \/ m \in M
            /\ LastTells(Append(pending, m), M, U)
        <4>1. LastTells(pending, M, T)
          BY <3>3
        <4>2. m \in M => m \in U
          BY <3>1
        <4>3. m \notin M => U = T
          BY <3>1
        <4>4. m \in Message
          BY <1>1
        <4> QED
          BY <4>1, <4>2, <4>3, <4>4, AppendTold, Zenon
      <3>5. inbox' = Append(pending, m)
        BY <2>3 DEF m
      <3> QED
        BY <2>1, <3>2, <3>3, <3>4, <3>5 DEF FanKnown, Informed, M
    <2> QED
      BY <2>2, <2>3
  <1>5. inbox' = pending \/ inbox' = Append(pending, m)
    BY DEF m
  <1>6. inbox' \in Seq(Message)
    BY <1>1, <1>5, AppendProperties
  <1>7. ASSUME NEW r \in Rotor
        PROVE  /\ Waits(inbox', AboutRotor(r)) <=> Waits(pending, AboutRotor(r))
               /\ LastTells(pending, AboutRotor(r), RotorNow(r)) =>
                    LastTells(inbox', AboutRotor(r), RotorNow(r)')
    BY <1>2, <1>3, <1>5
  <1> QED
    BY <1>4, <1>6, <1>7

\* bind() and unbind() keep the EEPROMs that are to be bound to fans that are present.
LEMMA BindKept ==
    ASSUME BindOnlyPresent, binding \in SUBSET Eeprom, NEW f \in Fan, NEW present \in BOOLEAN,
           BindOrUnbind(f, present), inventory'[f] = present,
           \A h \in Fan \ {f} : inventory'[h] = inventory[h]
    PROVE  BindOnlyPresent' /\ binding' \in SUBSET Eeprom
  BY DEF BindOnlyPresent, BindOrUnbind

\* What comes of a sensor s of the fan f that now says `new`: its policy and
\* the inventory follow it, and a sensor that takes over is read.
SensorChanged(f, s, new, seenValue, pending) ==
    /\ started' \in SUBSET Sensor
    /\ value' \in [Rotor -> BOOLEAN]
    /\ current' \in [Sensor -> BOOLEAN]
    /\ inventory' \in [Fan -> BOOLEAN]
    /\ PolicyTypeOK'
    /\ \A t \in started' : current'[t] = IF t = s THEN new
                                         ELSE IF t \in started THEN current[t] ELSE Reading(t)
    /\ \A r \in Rotor : value'[r] = IF TachOf[r] \in started' \ started THEN spinning[r]
                                    ELSE seenValue[r]
    /\ \A h \in Fan \ {f} : inventory'[h] = inventory[h]
    /\ inbox' = IF inventory'[f] = inventory[f] THEN pending
                ELSE Append(pending, PresentSignal(f, inventory'[f]))
    /\ PoliciesFollow'
    /\ ConflictsFollow'
    /\ BindOnlyPresent'

\* The fan of a sensor that listens, with a policy that follows it.
LEMMA ListeningSensor ==
    ASSUME PresenceInv, alive, NEW s \in started
    PROVE  /\ s \in Sensor /\ FanOf(s) \in Fan /\ s \in SensorsOf(FanOf(s))
           /\ \A h \in Fan : s \in SensorsOf(h) <=> h = FanOf(s)
           /\ SensorsTypeOK /\ PolicyTypeOK /\ PoliciesFollow
           /\ ConflictsFollow /\ BindOnlyPresent
           /\ FanOf(s) \in AnyOf \/ FanOf(s) \in Fallback
  <1>1. /\ SensorsTypeOK /\ PolicyTypeOK /\ PoliciesFollow
        /\ ConflictsFollow /\ BindOnlyPresent
    BY DEF PresenceInv, TypeInv, PresenceTypeOK
  <1>2. s \in Sensor
    BY <1>1 DEF SensorsTypeOK
  <1> QED
    BY <1>1, <1>2, FanOfSensor DEF Fallback

LEMMA AnyOfChanges ==
    ASSUME PresenceInv, alive, NEW s \in started, FanOf(s) \in AnyOf,
           NEW new \in BOOLEAN, NEW seenValue \in [Rotor -> BOOLEAN], NEW pending,
           value' = seenValue, current' = [current EXCEPT ![s] = new],
           AnyOfStateChanged(FanOf(s), s, new, pending),
           UNCHANGED <<started, callbackVars>>
    PROVE  SensorChanged(FanOf(s), s, new, seenValue, pending)
  <1> DEFINE f == FanOf(s)
             sees == IF new THEN seen \cup {s} ELSE seen \ {s}
             was == AnyPresent(f, seen)
             now == AnyPresent(f, sees)
             old == IF now /\ ~was THEN conflict \ SensorsOf(f) ELSE conflict
  <1>1. /\ s \in Sensor /\ f \in Fan /\ s \in SensorsOf(f) /\ f \in AnyOf
        /\ \A h \in Fan : s \in SensorsOf(h) <=> h = f
        /\ SensorsTypeOK /\ PolicyTypeOK /\ PoliciesFollow /\ ConflictsFollow /\ BindOnlyPresent
    BY ListeningSensor
  <1>2. /\ now \in BOOLEAN /\ was \in BOOLEAN
        /\ seen' = sees
        /\ Notify(f, now, pending)
        /\ IF now # was THEN BindOrUnbind(f, now) ELSE UNCHANGED binding
        /\ conflict' = CheckConflicts(f, sees, old, f \in powered)
        /\ UNCHANGED <<delay, powered, active, started, powerOn, listeners, monitored>>
    BY DEF AnyOfStateChanged, AnyPresent, callbackVars
  <1>3. /\ sees \in SUBSET Sensor
        /\ s \in sees <=> new
        /\ \A t \in Sensor \ {s} : t \in sees <=> t \in seen
        /\ \A h \in Fan : SensorsOf(h) \subseteq Sensor
    BY <1>1, MethodsOf DEF PolicyTypeOK
  <1>4. \A h \in Fan \ {f} : AnyPresent(h, sees) <=> AnyPresent(h, seen)
    BY <1>1, <1>3 DEF AnyPresent
  <1> HIDE DEF f, now, was
  <1>5. /\ inventory' \in [Fan -> BOOLEAN]
        /\ inventory'[f] = now
        /\ \A h \in Fan \ {f} : inventory'[h] = inventory[h]
        /\ inbox' = IF inventory'[f] = inventory[f] THEN pending
                    ELSE Append(pending, PresentSignal(f, inventory'[f]))
    BY <1>1, <1>2, NotifyOne DEF SensorsTypeOK
  <1>6. /\ conflict' \in SUBSET Sensor
        /\ f \in powered /\ now => SensorsOf(f) \subseteq sees \cup conflict'
        /\ \A h \in Fan \ {f} : SensorsOf(h) \cap conflict \subseteq conflict'
    BY <1>1, <1>2, <1>3 DEF PolicyTypeOK, CheckConflicts, now
  <1>7. ConflictsReported'
    <2> SUFFICES ASSUME NEW h \in powered, AnyPresent(h, sees)
                 PROVE  SensorsOf(h) \subseteq sees \cup conflict'
      BY <1>2 DEF ConflictsReported, AnyPresent
    <2>1. h \in Fan
      BY <1>1 DEF PolicyTypeOK
    <2>2. CASE h = f
      BY <1>6, <2>2 DEF now
    <2>3. CASE h # f
      <3>1. SensorsOf(h) \subseteq seen \cup conflict
        BY <1>1, <1>4, <2>1, <2>3 DEF ConflictsFollow, ConflictsReported
      <3>2. s \notin SensorsOf(h)
        BY <1>1, <2>1, <2>3
      <3> QED
        BY <1>3, <1>6, <2>1, <2>3, <3>1, <3>2
    <2> QED
      BY <2>2, <2>3
  <1>8. ConflictNeedsPower'
    BY <1>1, <1>2 DEF ConflictsFollow, ConflictNeedsPower
  <1>9. f \in binding => was
    BY <1>1 DEF PoliciesFollow, AnyOfInv, was
  <1>10. /\ BindOnlyPresent' /\ binding' \in SUBSET Eeprom
         /\ f \in binding' => now
         /\ \A h \in Fan \ {f} : h \in binding' <=> h \in binding
    <2>1. CASE now # was
      BY <1>1, <1>2, <1>5, <2>1, BindKept DEF PolicyTypeOK, BindOrUnbind
    <2>2. CASE now = was
      <3>1. \A h \in binding : inventory'[h]
        BY <1>1, <1>2, <1>5, <1>9, <2>2 DEF BindOnlyPresent, PolicyTypeOK
      <3> QED
        BY <1>1, <1>2, <1>9, <2>2, <3>1 DEF BindOnlyPresent, PolicyTypeOK
    <2> QED
      BY <2>1, <2>2
  <1>11. /\ PolicyTypeOK'
         /\ current' \in [Sensor -> BOOLEAN] /\ current'[s] = new
         /\ \A t \in Sensor \ {s} : current'[t] = current[t]
    BY <1>1, <1>2, <1>3, <1>6, <1>10 DEF PolicyTypeOK, SensorsTypeOK
  <1>12. ASSUME NEW h \in AnyOf PROVE AnyOfInv(h)'
    <2>1. AnyOfInv(h) /\ h \in Fan
      BY <1>1 DEF PoliciesFollow
    <2>2. \A t \in SensorsOf(h) : t \in sees <=> current'[t]
      BY <1>3, <1>11, <2>1 DEF AnyOfInv
    <2>3. h \in monitored => (inventory'[h] <=> AnyPresent(h, sees))
      BY <1>4, <1>5, <2>1 DEF AnyOfInv, now
    <2>4. h \in binding' => AnyPresent(h, sees)
      BY <1>4, <1>10, <2>1 DEF AnyOfInv, now
    <2> QED
      BY <1>2, <2>1, <2>2, <2>3, <2>4 DEF AnyOfInv, AnyPresent
  <1>13. ASSUME NEW h \in Fallback PROVE FallbackInv(h)'
    <2>1. FallbackInv(h) /\ h \in Fan /\ h # f /\ active[h] \in DOMAIN Methods[h]
      BY <1>1 DEF PoliciesFollow, Fallback, PolicyTypeOK
    <2>2. Methods[h][active[h]] \in Sensor /\ Methods[h][active[h]] # s
      BY <1>1, <2>1, MethodsOf
    <2> QED
      BY <1>2, <1>5, <1>11, <2>1, <2>2 DEF FallbackInv
  <1>14. /\ started' \in SUBSET Sensor /\ value' \in [Rotor -> BOOLEAN]
         /\ \A t \in started' : current'[t] = IF t = s THEN new
                                         ELSE IF t \in started THEN current[t] ELSE Reading(t)
         /\ \A r \in Rotor : value'[r] = IF TachOf[r] \in started' \ started THEN spinning[r]
                                    ELSE seenValue[r]
    BY <1>1, <1>2, <1>11 DEF SensorsTypeOK
  <1> QED
    BY <1>5, <1>7, <1>8, <1>10, <1>11, <1>12, <1>13, <1>14
    DEF SensorChanged, PoliciesFollow, ConflictsFollow, f

\* The backup that takes over is another sensor of the fan, that sees it.
LEMMA Backup ==
    ASSUME PolicyTypeOK, NEW f \in Fallback, Backups(f) # {}
    PROVE  LET i == Min(Backups(f))
           IN  /\ i \in DOMAIN Methods[f] /\ i # active[f]
               /\ Methods[f][i] # Methods[f][active[f]]
               /\ Methods[f][i] \in Sensor /\ FanOf(Methods[f][i]) = f
               /\ Reading(Methods[f][i])
  <1>1. f \in Fan /\ active[f] \in DOMAIN Methods[f] /\ active[f] \in Nat
    BY DEF Fallback, PolicyTypeOK
  <1>2. Backups(f) \in SUBSET Nat
    BY <1>1, MethodsOf DEF Backups
  <1>3. Min(Backups(f)) \in Backups(f)
    BY <1>2, LeastExists
  <1> DEFINE i == Min(Backups(f))
  <1>4. i \in DOMAIN Methods[f] /\ i > active[f] /\ Reading(Methods[f][i]) /\ i \in Nat
    BY <1>2, <1>3 DEF Backups
  <1>5. i # active[f]
    BY <1>1, <1>4
  <1> QED
    BY <1>1, <1>4, <1>5, MethodsOf

LEMMA FallbackChanges ==
    ASSUME PresenceInv, alive, NEW s \in started, FanOf(s) \in Fallback,
           NEW new \in BOOLEAN, NEW seenValue \in [Rotor -> BOOLEAN], NEW pending,
           FallbackStateChanged(FanOf(s), s, new, seenValue, pending),
           UNCHANGED callbackVars
    PROVE  SensorChanged(FanOf(s), s, new, seenValue, pending)
  <1> DEFINE f == FanOf(s)
             switch == ~new /\ Backups(f) # {}
             i == Min(Backups(f))
             next == Methods[f][i]
             present == new \/ switch
  <1>1. /\ s \in Sensor /\ f \in Fan /\ s \in SensorsOf(f) /\ f \in Fallback
        /\ \A h \in Fan : s \in SensorsOf(h) <=> h = f
        /\ SensorsTypeOK /\ PolicyTypeOK /\ PoliciesFollow /\ ConflictsFollow /\ BindOnlyPresent
    BY ListeningSensor
  <1>2. /\ active[f] \in DOMAIN Methods[f] /\ s = Methods[f][active[f]]
        /\ started \cap SensorsOf(f) = {s}
    <2>1. started \cap SensorsOf(f) \subseteq {Methods[f][active[f]]}
      BY <1>1 DEF PoliciesFollow, FallbackInv
    <2>2. s \in started \cap SensorsOf(f)
      BY <1>1
    <2> HIDE DEF f
    <2> QED
      BY <1>1, <2>1, <2>2 DEF PolicyTypeOK
  <1>3. /\ present \in BOOLEAN
        /\ Notify(f, present, pending)
        /\ BindOrUnbind(f, present)
        /\ UNCHANGED <<seen, conflict, delay, powered, powerOn, listeners, monitored>>
    BY DEF FallbackStateChanged, callbackVars, anyOfVars
  <1>4. switch => /\ active' = [active EXCEPT ![f] = i]
                  /\ started' = (started \ {s}) \cup {next}
                  /\ value' = ValueOnStart({next}, seenValue)
                  /\ current' = [CurrentOnStart({next}, current) EXCEPT ![s] = new]
    BY DEF FallbackStateChanged, Replaced
  <1>5. ~switch => /\ value' = seenValue
                   /\ current' = [current EXCEPT ![s] = new]
                   /\ UNCHANGED <<active, started>>
    BY DEF FallbackStateChanged
  <1>6. switch => /\ i \in DOMAIN Methods[f] /\ next # s /\ next \in Sensor
                  /\ next \in SensorsOf(f) /\ next \notin started
                  /\ Reading(next)
                  /\ \A h \in Fan \ {f} : next \notin SensorsOf(h)
    BY <1>1, <1>2, Backup, MethodsOf, FanOfSensor
  <1> HIDE DEF f, i, next
  <1>7. /\ inventory' \in [Fan -> BOOLEAN]
        /\ inventory'[f] = present
        /\ \A h \in Fan \ {f} : inventory'[h] = inventory[h]
        /\ inbox' = IF inventory'[f] = inventory[f] THEN pending
                    ELSE Append(pending, PresentSignal(f, inventory'[f]))
    BY <1>1, <1>3, NotifyOne DEF SensorsTypeOK
  <1>8. BindOnlyPresent' /\ binding' \in SUBSET Eeprom
    BY <1>1, <1>3, <1>7, BindKept DEF PolicyTypeOK
  <1>9. ConflictsFollow'
    BY <1>1, <1>3 DEF ConflictsFollow, ConflictsReported, ConflictNeedsPower, AnyPresent
  <1>10. /\ \A t \in Sensor \ {s} : t \in started' <=> t \in started \/ (switch /\ t = next)
         /\ s \in started' <=> ~switch
         /\ started' \in SUBSET Sensor
    BY <1>1, <1>4, <1>5, <1>6 DEF SensorsTypeOK
  <1>11. /\ current' \in [Sensor -> BOOLEAN]
         /\ current'[s] = new
         /\ switch => current'[next] = TRUE
         /\ \A t \in Sensor : t # s /\ ~(switch /\ t = next) => current'[t] = current[t]
    <2>1. CASE switch
      <3>1. CurrentOnStart({next}, current) \in [Sensor -> BOOLEAN]
        BY <1>1, <1>6, <2>1 DEF CurrentOnStart, SensorsTypeOK
      <3>2. /\ CurrentOnStart({next}, current)[next] = TRUE
            /\ \A t \in Sensor \ {next} : CurrentOnStart({next}, current)[t] = current[t]
        BY <1>6, <2>1 DEF CurrentOnStart
      <3>3. current' = [CurrentOnStart({next}, current) EXCEPT ![s] = new] /\ next # s
        BY <1>4, <1>6, <2>1
      <3> HIDE DEF switch
      <3>4. current' \in [Sensor -> BOOLEAN] /\ current'[s] = new
        BY <1>1, <3>1, <3>3
      <3>5. \A t \in Sensor : t # s => current'[t] = CurrentOnStart({next}, current)[t]
        BY <3>1, <3>3
      <3> QED
        BY <1>6, <2>1, <3>2, <3>3, <3>4, <3>5
    <2>2. CASE ~switch
      BY <1>1, <1>5, <2>2 DEF SensorsTypeOK
    <2> QED
      BY <2>1, <2>2
  <1>12. /\ value' \in [Rotor -> BOOLEAN]
         /\ \A r \in Rotor : value'[r] = IF TachOf[r] \in started' \ started THEN spinning[r]
                                    ELSE seenValue[r]
    <2>1. CASE switch
      <3>1. value' = ValueOnStart({next}, seenValue) /\ started' \ started = {next}
        BY <1>1, <1>4, <1>6, <2>1, <1>10, <1>2
      <3> QED
        BY <1>1, <3>1 DEF ValueOnStart, SensorsTypeOK
    <2>2. CASE ~switch
      BY <1>5, <2>2
    <2> QED
      BY <2>1, <2>2
  <1>13. \A t \in started' : current'[t] = IF t = s THEN new
                                         ELSE IF t \in started THEN current[t] ELSE Reading(t)
    <2>1. switch => Reading(next) = TRUE
      BY <1>1, <1>6 DEF Reading, Detects, Sensor, SensorsTypeOK
    <2>2. s \in Sensor /\ started \subseteq Sensor
      BY <1>1 DEF SensorsTypeOK
    <2> HIDE DEF switch
    <2> QED
      BY <1>6, <1>10, <1>11, <2>1, <2>2
  <1>14. /\ active' \in [Fallback -> Nat] /\ active'[f] \in DOMAIN Methods[f]
         /\ \A h \in Fallback \ {f} : active'[h] = active[h]
         /\ Methods[f][active'[f]] = IF switch THEN next ELSE s
    BY <1>1, <1>2, <1>4, <1>5, <1>6, MethodsOf DEF PolicyTypeOK, next
  <1>15. PolicyTypeOK'
    BY <1>1, <1>3, <1>8, <1>14 DEF PolicyTypeOK
  <1>16. ASSUME NEW h \in AnyOf PROVE AnyOfInv(h)'
    <2>1. AnyOfInv(h) /\ h \in Fan /\ h # f
      BY <1>1 DEF PoliciesFollow, Fallback
    <2>2. SensorsOf(h) \subseteq Sensor /\ s \notin SensorsOf(h) /\ (switch => next \notin SensorsOf(h))
      BY <1>1, <1>6, <2>1, MethodsOf
    <2> HIDE DEF switch
    <2>3. \A t \in SensorsOf(h) : current'[t] = current[t] /\ (t \in started' <=> t \in started)
      BY <1>10, <1>11, <2>2
    <2>4. inventory'[h] = inventory[h] /\ seen' = seen /\ monitored' = monitored
      BY <1>3, <1>7, <2>1
    <2>5. h \in binding' => h \in binding
      BY <1>3, <2>1 DEF BindOrUnbind
    <2> QED
      BY <2>1, <2>3, <2>4, <2>5 DEF AnyOfInv, AnyPresent
  <1>17. ASSUME NEW h \in Fallback PROVE FallbackInv(h)'
    <2>1. CASE h = f
      <3>1. started' \cap SensorsOf(f) = {IF switch THEN next ELSE s}
        BY <1>1, <1>2, <1>4, <1>5, <1>6
      <3>2. inventory'[f] = current'[IF switch THEN next ELSE s]
        BY <1>7, <1>11
      <3> DEFINE t == Methods[f][active'[f]]
      <3>3. t = IF switch THEN next ELSE s
        BY <1>14
      <3>4. started' \cap SensorsOf(f) = {t} /\ inventory'[f] = current'[t]
        BY <3>1, <3>2, <3>3
      <3>5. t \in started'
        BY <3>4
      <3> QED
        BY <2>1, <3>4, <3>5 DEF FallbackInv
    <2>2. CASE h # f
      <3>1. FallbackInv(h) /\ h \in Fan /\ active[h] \in DOMAIN Methods[h]
        BY <1>1 DEF PoliciesFollow, Fallback, PolicyTypeOK
      <3>2. /\ SensorsOf(h) \subseteq Sensor /\ Methods[h][active[h]] \in SensorsOf(h)
            /\ s \notin SensorsOf(h) /\ (switch => next \notin SensorsOf(h))
        BY <1>1, <1>6, <2>2, <3>1, MethodsOf
      <3>3. started' \cap SensorsOf(h) = started \cap SensorsOf(h)
        <4>1. \A t \in SensorsOf(h) : t \in started' <=> t \in started
          <5> TAKE t \in SensorsOf(h)
          <5>1. t \in Sensor \ {s} /\ ~(switch /\ t = next)
            BY <3>2
          <5> QED
            BY <1>10, <5>1
        <4> QED
          BY <4>1
      <3> QED
        BY <1>3, <1>7, <1>11, <1>14, <2>2, <3>1, <3>2, <3>3 DEF FallbackInv
    <2> QED
      BY <2>1, <2>2
  <1> HIDE DEF switch, present
  <1> QED
    BY <1>7, <1>8, <1>9, <1>10, <1>11, <1>12, <1>13, <1>15, <1>16, <1>17
    DEF SensorChanged, PoliciesFollow, f

\* All that can come of a sensor that listens.
LEMMA Changes ==
    ASSUME PresenceInv, alive, NEW s \in started, NEW new \in BOOLEAN,
           NEW seenValue \in [Rotor -> BOOLEAN], NEW pending,
           SensorChanges(FanOf(s), s, new, seenValue, pending),
           UNCHANGED callbackVars
    PROVE  SensorChanged(FanOf(s), s, new, seenValue, pending)
  <1> DEFINE f == FanOf(s)
  <1>1. /\ s \in Sensor /\ f \in Fan
        /\ SensorsTypeOK /\ PolicyTypeOK /\ PoliciesFollow /\ ConflictsFollow /\ BindOnlyPresent
    BY ListeningSensor
  <1>2. CASE /\ new = current[s]
             /\ value' = seenValue
             /\ inbox' = pending
             /\ UNCHANGED <<inventory, started, current, policyVars>>
    <2>1. UNCHANGED <<seen, conflict, delay, powered, active, binding, powerOn, listeners, monitored>>
      BY <1>2 DEF policyVars, anyOfVars, callbackVars
    <2>2. PolicyTypeOK' /\ PoliciesFollow' /\ ConflictsFollow' /\ BindOnlyPresent'
      BY <1>1, <1>2, <2>1
      DEF PolicyTypeOK, PoliciesFollow, AnyOfInv, FallbackInv, AnyPresent, ConflictsFollow,
          ConflictsReported, ConflictNeedsPower, BindOnlyPresent
    <2> QED
      BY <1>1, <1>2, <2>2 DEF SensorChanged, SensorsTypeOK
  <1>3. CASE /\ f \in AnyOf
             /\ value' = seenValue
             /\ current' = [current EXCEPT ![s] = new]
             /\ AnyOfStateChanged(f, s, new, pending)
             /\ UNCHANGED started
    BY <1>3, AnyOfChanges
  <1>4. CASE f \in Fallback /\ FallbackStateChanged(f, s, new, seenValue, pending)
    BY <1>4, FallbackChanges
  <1> QED
    BY <1>2, <1>3, <1>4 DEF SensorChanges

\* What is left to be told once the first signal has been taken from the queue.
LEMMA TailKnown ==
    ASSUME PresenceInv, alive, inbox # <<>>
    PROVE  LET m == Head(inbox)
               q == Tail(inbox)
           IN  /\ m \in Message /\ q \in Seq(Message)
               /\ \A r \in Rotor :
                    /\ LastTells(q, AboutRotor(r), RotorNow(r))
                    /\ \/ Waits(q, AboutRotor(r))
                       \/ m.kind = "tach" /\ m.rotor = r /\ m.on = spinning[r]
                       \/ /\ ~(m.kind = "tach" /\ m.rotor = r)
                          /\ TachOf[r] \in started => value[r] = spinning[r]
               /\ \A f \in ErrorFan :
                    /\ LastTells(q, AboutFan(f), FanNow(f))
                    /\ \/ Waits(q, AboutFan(f))
                       \/ m.kind = "present" /\ m.fan = f /\ m.on = inventory[f]
                       \/ ~(m.kind = "present" /\ m.fan = f) /\ Informed(f)
  <1> DEFINE m == Head(inbox)
             q == Tail(inbox)
  <1>1. inbox \in Seq(Message)
    BY DEF PresenceInv, TypeInv
  <1>2. m \in Message /\ q \in Seq(Message)
    BY <1>1, HeadTailProperties
  <1>3. ASSUME NEW r \in Rotor
        PROVE  /\ LastTells(q, AboutRotor(r), RotorNow(r))
               /\ \/ Waits(q, AboutRotor(r))
                  \/ m.kind = "tach" /\ m.rotor = r /\ m.on = spinning[r]
                  \/ /\ ~(m.kind = "tach" /\ m.rotor = r)
                     /\ TachOf[r] \in started => value[r] = spinning[r]
    <2> DEFINE M == AboutRotor(r)
               T == RotorNow(r)
    <2>1. /\ LastTells(inbox, M, T)
          /\ Waits(inbox, M) \/ (TachOf[r] \in started => value[r] = spinning[r])
      BY DEF PresenceInv, HardwareKnown, RotorKnown
    <2>2. /\ m \in M <=> m.kind = "tach" /\ m.rotor = r
          /\ m \in T => m.on = spinning[r]
      BY <1>2, MessageKinds DEF RotorNow
    <2> HIDE DEF M, T, m
    <2>3. /\ LastTells(q, M, T)
          /\ m \in M /\ ~Waits(q, M) => m \in T
          /\ Waits(inbox, M) <=> m \in M \/ Waits(q, M)
      BY <1>1, <2>1, TailTells, TailWaits DEF m
    <2>4. \/ Waits(q, M)
          \/ m.kind = "tach" /\ m.rotor = r /\ m.on = spinning[r]
          \/ /\ ~(m.kind = "tach" /\ m.rotor = r)
             /\ TachOf[r] \in started => value[r] = spinning[r]
      BY <2>1, <2>2, <2>3
    <2> QED
      BY <2>3, <2>4 DEF M, T
  <1>4. ASSUME NEW f \in ErrorFan
        PROVE  /\ LastTells(q, AboutFan(f), FanNow(f))
               /\ \/ Waits(q, AboutFan(f))
                  \/ m.kind = "present" /\ m.fan = f /\ m.on = inventory[f]
                  \/ ~(m.kind = "present" /\ m.fan = f) /\ Informed(f)
    <2> DEFINE M == AboutFan(f)
               T == FanNow(f)
    <2>1. LastTells(inbox, M, T) /\ (Waits(inbox, M) \/ Informed(f))
      BY <1>4 DEF PresenceInv, FanKnown
    <2>2. /\ m \in M <=> m.kind = "present" /\ m.fan = f
          /\ m \in T => m.on = inventory[f]
      BY <1>2, MessageKinds DEF FanNow
    <2> HIDE DEF M, T, m
    <2>3. /\ LastTells(q, M, T)
          /\ m \in M /\ ~Waits(q, M) => m \in T
          /\ Waits(inbox, M) <=> m \in M \/ Waits(q, M)
      BY <1>1, <2>1, TailTells, TailWaits DEF m
    <2>4. \/ Waits(q, M)
          \/ m.kind = "present" /\ m.fan = f /\ m.on = inventory[f]
          \/ ~(m.kind = "present" /\ m.fan = f) /\ Informed(f)
      BY <2>1, <2>2, <2>3
    <2> QED
      BY <2>3, <2>4 DEF M, T
  <1> QED
    BY <1>2, <1>3, <1>4

\* What is known of the rotors with the values v, and of the fans, or is told by q.
QueueTells(q, v) ==
    /\ \A r \in Rotor :
         /\ LastTells(q, AboutRotor(r), RotorNow(r))
         /\ Waits(q, AboutRotor(r)) \/ (TachOf[r] \in started => v[r] = spinning[r])
    /\ \A f \in ErrorFan :
         /\ LastTells(q, AboutFan(f), FanNow(f))
         /\ Waits(q, AboutFan(f)) \/ Informed(f)

\* A sensor that changed leaves all as it should be, if what it says is what it
\* has learned, and what waits beside its announcement tells the rest.
LEMMA ChangeKnown ==
    ASSUME PresenceInv, alive, NEW s \in started, NEW new \in BOOLEAN,
           NEW seenValue \in [Rotor -> BOOLEAN], NEW pending \in Seq(Message),
           SensorChanged(FanOf(s), s, new, seenValue, pending),
           UNCHANGED <<spinning, level, pgood, alive, reporterVars, callbackVars>>,
           edges' \in [Gpio -> Seq(BOOLEAN)], fetched' \in [Gpio -> BOOLEAN],
           \A g \in Gpio : GpioKnown(g)',
           \A g \in Gpio \ {s} : fetched'[g] = fetched[g],
           new <=> IF s \in Tach THEN \E r \in Rotor : TachOf[r] = s /\ seenValue[r]
                                 ELSE fetched'[s],
           \A r \in Rotor : TachOf[r] # s => seenValue[r] = value[r],
           QueueTells(pending, seenValue)
    PROVE  PresenceInv'
  <1> DEFINE f == FanOf(s)
  <1>1. /\ s \in Sensor /\ f \in Fan /\ SensorsTypeOK
    BY ListeningSensor
  <1>2. UNCHANGED <<reporter, states, missing, reported, powerOn, listeners, monitored>>
    BY DEF reporterVars, callbackVars
  <1> HIDE DEF f
  <1>3. SensorChanged(f, s, new, seenValue, pending)
    BY DEF f
  <1>4. /\ started' \in SUBSET Sensor /\ value' \in [Rotor -> BOOLEAN]
        /\ current' \in [Sensor -> BOOLEAN] /\ inventory' \in [Fan -> BOOLEAN] /\ PolicyTypeOK'
        /\ PoliciesFollow' /\ ConflictsFollow' /\ BindOnlyPresent'
        /\ \A h \in Fan \ {f} : inventory'[h] = inventory[h]
        /\ inbox' = IF inventory'[f] = inventory[f] THEN pending
                    ELSE Append(pending, PresentSignal(f, inventory'[f]))
    BY <1>3 DEF SensorChanged
  <1>5. /\ \A t \in started' : current'[t] = IF t = s THEN new
                                         ELSE IF t \in started THEN current[t] ELSE Reading(t)
        /\ \A r \in Rotor : value'[r] = IF TachOf[r] \in started' \ started THEN spinning[r]
                                    ELSE seenValue[r]
    BY <1>3 DEF SensorChanged
  <1>6. /\ inbox' \in Seq(Message)
        /\ \A r \in Rotor :
             /\ Waits(inbox', AboutRotor(r)) <=> Waits(pending, AboutRotor(r))
             /\ LastTells(pending, AboutRotor(r), RotorNow(r)) =>
                  LastTells(inbox', AboutRotor(r), RotorNow(r)')
        /\ \A h \in ErrorFan :
             /\ LastTells(pending, AboutFan(h), FanNow(h))
             /\ Waits(pending, AboutFan(h)) \/ Informed(h)
             => FanKnown(h)'
    BY <1>1, <1>2, <1>4, InventoryTold DEF SensorsTypeOK
  <1>7. \A h \in ErrorFan : FanKnown(h)'
    BY <1>6 DEF QueueTells
  <1>8. ASSUME NEW r \in Rotor PROVE RotorKnown(r)'
    <2>1. AboutRotor(r)' = AboutRotor(r)
      BY DEF AboutRotor
    <2> QED
      BY <1>5, <1>6, <2>1 DEF RotorKnown, QueueTells
  <1>9. ASSUME NEW t \in started' PROVE current'[t] = Sees(t)'
    <2>1. t \in Sensor
      BY <1>4
    <2>2. CASE t = s
      <3>1. \A r \in Rotor : TachOf[r] = s => value'[r] = seenValue[r]
        BY <1>5
      <3>2. Sees(s)' <=> new
        BY <3>1 DEF Sees
      <3>3. Sees(s)' \in BOOLEAN
        BY <1>1 DEF Sees, Sensor
      <3> QED
        BY <1>5, <2>2, <3>2, <3>3
    <2>3. CASE t # s /\ t \in started
      <3>1. \A r \in Rotor : TachOf[r] = t => value'[r] = value[r]
        BY <1>5, <2>3
      <3>2. Sees(t)' = Sees(t)
        BY <2>1, <2>3, <3>1 DEF Sees, Sensor
      <3>3. current[t] = Sees(t)
        BY <2>3 DEF PresenceInv, HardwareKnown
      <3> QED
        BY <1>5, <2>3, <3>2, <3>3
    <2>4. CASE t # s /\ t \notin started
      <3>1. \A r \in Rotor : TachOf[r] = t => value'[r] = spinning[r]
        BY <1>5, <2>4
      <3>2. Sees(t)' = Reading(t)
        BY <2>1, <2>4, <3>1 DEF Sees, Reading, Detects, Sensor
      <3> QED
        BY <1>5, <2>4, <3>2
    <2> QED
      BY <2>2, <2>3, <2>4
  <1>10. HardwareKnown'
    BY <1>8, <1>9 DEF HardwareKnown
  <1>11. TypeInv'
    BY <1>1, <1>2, <1>4, <1>6
    DEF TypeInv, PresenceInv, PresenceTypeOK, SensorsTypeOK, ReporterTypeOK
  <1>12. MissingWatched'
    BY <1>2 DEF PresenceInv, MissingWatched
  <1> QED
    BY <1>2, <1>4, <1>7, <1>10, <1>11, <1>12 DEF PresenceInv

LEMMA EdgeInv ==
    ASSUME PresenceInv, NEW g \in Gpio, Edge(g)
    PROVE  PresenceInv'
  <1>1. /\ alive /\ g \in started /\ edges[g] # <<>>
        /\ edges' = [edges EXCEPT ![g] = Tail(@)]
        /\ fetched' = [fetched EXCEPT ![g] = Head(edges[g])]
        /\ SensorChanges(FanOf(g), g, Head(edges[g]), value, inbox)
        /\ UNCHANGED <<spinning, level, pgood, alive, reporterVars, callbackVars>>
    BY DEF Edge, GpioReceives, hardwareVars
  <1>2. SensorsTypeOK /\ inbox \in Seq(Message) /\ HardwareKnown
    BY <1>1 DEF PresenceInv, TypeInv, PresenceTypeOK
  <1>3. /\ Head(edges[g]) \in BOOLEAN /\ Tail(edges[g]) \in Seq(BOOLEAN)
        /\ edges[g] \in Seq(BOOLEAN)
    BY <1>1, <1>2, HeadTailProperties DEF SensorsTypeOK
  <1>4. /\ edges' \in [Gpio -> Seq(BOOLEAN)] /\ fetched' \in [Gpio -> BOOLEAN]
        /\ edges'[g] = Tail(edges[g]) /\ fetched'[g] = Head(edges[g])
        /\ \A h \in Gpio \ {g} : edges'[h] = edges[h] /\ fetched'[h] = fetched[h]
    BY <1>1, <1>2, <1>3 DEF SensorsTypeOK
  <1>5. ASSUME NEW h \in Gpio PROVE GpioKnown(h)'
    <2>1. GpioKnown(h)
      BY <1>2 DEF HardwareKnown
    <2>2. CASE h = g
      <3> DEFINE B == BOOLEAN
                 T == {level[g]}
                 q == edges[g]
      <3>1. LastTells(q, B, T) /\ q \in Seq(B) /\ q # <<>> /\ Head(q) \in B
        BY <1>1, <1>3, <2>1, <2>2 DEF GpioKnown
      <3> HIDE DEF B, T, q
      <3>2. LastTells(Tail(q), B, T) /\ (Waits(Tail(q), B) \/ Head(q) \in T)
        BY <3>1, TailTells
      <3> QED
        BY <1>1, <1>4, <2>2, <3>2 DEF GpioKnown, B, T, q
    <2>3. CASE h # g
      BY <1>1, <1>4, <2>1, <2>3 DEF GpioKnown
    <2> QED
      BY <2>2, <2>3
  <1>6. g \notin Tach /\ \A r \in Rotor : TachOf[r] # g
    OBVIOUS
  <1> DEFINE new == Head(edges[g])
  <1>7. /\ new \in BOOLEAN /\ value \in [Rotor -> BOOLEAN]
        /\ new <=> fetched'[g]
        /\ SensorChanges(FanOf(g), g, new, value, inbox)
    BY <1>1, <1>2, <1>3, <1>4 DEF SensorsTypeOK
  <1> HIDE DEF new
  <1>u. UNCHANGED callbackVars /\ UNCHANGED reporterVars
    BY <1>1
  <1>8. SensorChanged(FanOf(g), g, new, value, inbox)
    BY <1>1, <1>7, <1>u, Changes
  <1>9. QueueTells(inbox, value)
    BY <1>1, <1>2 DEF PresenceInv, HardwareKnown, RotorKnown, FanKnown, QueueTells
  <1>10. /\ UNCHANGED <<spinning, level, pgood, alive, reporterVars, callbackVars>>
         /\ \A r \in Rotor : TachOf[r] # g => value[r] = value[r]
         /\ \A h \in Gpio \ {g} : fetched'[h] = fetched[h]
         /\ new <=> IF g \in Tach THEN \E r \in Rotor : TachOf[r] = g /\ value[r]
                                  ELSE fetched'[g]
    BY <1>1, <1>4, <1>6, <1>7
  <1> QED
    BY <1>1, <1>2, <1>4, <1>5, <1>7, <1>8, <1>9, <1>10, ChangeKnown

\* What is kept when a signal is taken that changes neither sensors nor inventory.
LEMMA SignalTaken ==
    ASSUME PresenceInv, alive, inbox # <<>>, inbox' = Tail(inbox),
           UNCHANGED <<hardwareVars, inventory, alive, sensorVars>>,
           Head(inbox).kind # "tach" \/ TachOf[Head(inbox).rotor] \notin started
    PROVE  /\ inbox' \in Seq(Message) /\ SensorsTypeOK' /\ HardwareKnown'
  <1> DEFINE m == Head(inbox)
             q == Tail(inbox)
  <1>1. UNCHANGED <<spinning, level, pgood, edges, fetched, started, value, current>>
    BY DEF hardwareVars, sensorVars
  <1>2. SensorsTypeOK /\ HardwareKnown /\ PoliciesFollow
    BY DEF PresenceInv, TypeInv, PresenceTypeOK
  <1>3. /\ m \in Message /\ q \in Seq(Message)
        /\ \A r \in Rotor :
             /\ LastTells(q, AboutRotor(r), RotorNow(r))
             /\ \/ Waits(q, AboutRotor(r))
                \/ m.kind = "tach" /\ m.rotor = r /\ m.on = spinning[r]
                \/ /\ ~(m.kind = "tach" /\ m.rotor = r)
                   /\ TachOf[r] \in started => value[r] = spinning[r]
    BY TailKnown
  <1>4. m.kind # "tach" \/ TachOf[m.rotor] \notin started
    OBVIOUS
  <1> HIDE DEF m, q
  <1>5. ASSUME NEW r \in Rotor PROVE RotorKnown(r)'
    <2>1. AboutRotor(r)' = AboutRotor(r) /\ RotorNow(r)' = RotorNow(r)
      BY <1>1 DEF AboutRotor, RotorNow
    <2>2. Waits(q, AboutRotor(r)) \/ (TachOf[r] \in started => value[r] = spinning[r])
      BY <1>3, <1>4
    <2> QED
      BY <1>1, <1>3, <2>1, <2>2 DEF RotorKnown, q
  <1>6. HardwareKnown'
    BY <1>1, <1>2, <1>5 DEF HardwareKnown, GpioKnown, Sees
  <1>7. SensorsTypeOK'
    BY <1>1, <1>2 DEF SensorsTypeOK
  <1> QED
    BY <1>3, <1>6, <1>7 DEF q

LEMMA TachSignalInv ==
    ASSUME PresenceInv, alive, inbox # <<>>, TachSignal(Head(inbox)),
           UNCHANGED <<hardwareVars, alive>>
    PROVE  PresenceInv'
  <1> DEFINE m == Head(inbox)
             q == Tail(inbox)
             s == TachOf[m.rotor]
             seenValue == [value EXCEPT ![m.rotor] = m.on]
             new == \E r \in Rotor : TachOf[r] = s /\ seenValue[r]
  <1>1. /\ m.kind = "tach"
        /\ IF s \in started
           THEN SensorChanges(FanOf(s), s, new, seenValue, q)
           ELSE inbox' = q /\ UNCHANGED <<inventory, started, value, current, policyVars>>
        /\ UNCHANGED <<edges, fetched, spinning, level, pgood, alive, reporterVars, callbackVars>>
    BY DEF TachSignal, TachReceives, hardwareVars
  <1>2. /\ SensorsTypeOK /\ HardwareKnown /\ ~(~alive)
        /\ \A f \in ErrorFan : FanKnown(f)
    BY DEF PresenceInv, TypeInv, PresenceTypeOK
  <1>3. /\ m \in Message /\ q \in Seq(Message)
        /\ \A r \in Rotor :
             /\ LastTells(q, AboutRotor(r), RotorNow(r))
             /\ \/ Waits(q, AboutRotor(r))
                \/ m.kind = "tach" /\ m.rotor = r /\ m.on = spinning[r]
                \/ /\ ~(m.kind = "tach" /\ m.rotor = r)
                   /\ TachOf[r] \in started => value[r] = spinning[r]
        /\ \A f \in ErrorFan :
             /\ LastTells(q, AboutFan(f), FanNow(f))
             /\ \/ Waits(q, AboutFan(f))
                \/ m.kind = "present" /\ m.fan = f /\ m.on = inventory[f]
                \/ ~(m.kind = "present" /\ m.fan = f) /\ Informed(f)
    BY TailKnown
  <1>4. m.rotor \in Rotor /\ m.on \in BOOLEAN /\ s \in Tach
    BY <1>1, <1>3, MessageKinds
  <1>5. \A f \in ErrorFan :
             /\ LastTells(q, AboutFan(f), FanNow(f))
             /\ Waits(q, AboutFan(f)) \/ Informed(f)
    BY <1>1, <1>3
  <1>6. CASE s \in started
    <2>1. /\ seenValue \in [Rotor -> BOOLEAN] /\ seenValue[m.rotor] = m.on
          /\ \A r \in Rotor \ {m.rotor} : seenValue[r] = value[r]
      BY <1>2, <1>4 DEF SensorsTypeOK
    <2>2. /\ new \in BOOLEAN
          /\ new <=> IF s \in Tach THEN \E r \in Rotor : TachOf[r] = s /\ seenValue[r]
                                   ELSE fetched'[s]
      BY <1>4
    <2>3. \A r \in Rotor : TachOf[r] # s => seenValue[r] = value[r]
      BY <2>1
    <2>4. QueueTells(q, seenValue)
      <3> HIDE DEF q, m, seenValue
      <3>1. ASSUME NEW r \in Rotor
            PROVE  /\ LastTells(q, AboutRotor(r), RotorNow(r))
                   /\ Waits(q, AboutRotor(r)) \/ (TachOf[r] \in started => seenValue[r] = spinning[r])
        <4>1. CASE r = m.rotor
          BY <1>1, <1>3, <2>1, <4>1
        <4>2. CASE r # m.rotor
          BY <1>3, <2>1, <4>2
        <4> QED
          BY <4>1, <4>2
      <3> QED
        BY <1>5, <3>1 DEF QueueTells
    <2>5. \A g \in Gpio : GpioKnown(g)'
      BY <1>1, <1>2 DEF HardwareKnown, GpioKnown
    <2>6. edges' \in [Gpio -> Seq(BOOLEAN)] /\ fetched' \in [Gpio -> BOOLEAN]
      BY <1>1, <1>2 DEF SensorsTypeOK
    <2>10. \A g \in Gpio \ {s} : fetched'[g] = fetched[g]
      BY <1>1
    <2>7. SensorChanges(FanOf(s), s, new, seenValue, q)
      BY <1>1, <1>6
    <2>8. /\ q \in Seq(Message)
          /\ UNCHANGED callbackVars
          /\ UNCHANGED <<spinning, level, pgood, alive, reporterVars, callbackVars>>
      BY <1>1, <1>3
    <2> HIDE DEF m, q, s, seenValue, new
    <2>9. SensorChanged(FanOf(s), s, new, seenValue, q)
      BY <1>6, <2>1, <2>2, <2>7, <2>8, Changes
    <2>11. seenValue \in [Rotor -> BOOLEAN] /\ q \in Seq(Message)
      BY <2>1, <2>8
    <2>12. UNCHANGED <<spinning, level, pgood, alive, reporterVars, callbackVars>>
      BY <2>8
    <2> QED
      BY <1>6, <2>2, <2>3, <2>4, <2>5, <2>6, <2>9, <2>10, <2>11, <2>12, ChangeKnown
  <1>7. CASE s \notin started
    <2>1. /\ inbox' = q
          /\ UNCHANGED <<hardwareVars, inventory, alive, sensorVars>>
          /\ UNCHANGED <<inventory, alive, started, current, policyVars, reporterVars, callbackVars>>
      BY <1>1, <1>7 DEF sensorVars, hardwareVars
    <2>2. inbox' \in Seq(Message) /\ SensorsTypeOK' /\ HardwareKnown'
      BY <1>7, <2>1, SignalTaken
    <2>3. \A f \in ErrorFan : FanKnown(f)'
      <3>1. \A f \in ErrorFan : AboutFan(f)' = AboutFan(f) /\ FanNow(f)' = FanNow(f)
        BY <2>1 DEF AboutFan, FanNow
      <3> QED
        BY <1>5, <2>1, <3>1 DEF FanKnown, Informed, reporterVars
    <2> QED
      BY <2>1, <2>2, <2>3, PoliciesKept DEF PresenceInv, TypeInv, PresenceTypeOK
  <1> QED
    BY <1>6, <1>7

\* A fan that is told to be as it is known changes nothing; one that is told to
\* be otherwise was not watched, or is no more.
LEMMA PresentSignalInv ==
    ASSUME PresenceInv, alive, inbox # <<>>, PresentSignalReceived(Head(inbox)),
           UNCHANGED <<hardwareVars, alive>>
    PROVE  PresenceInv'
  <1> DEFINE m == Head(inbox)
             q == Tail(inbox)
  <1>1. /\ m.kind = "present" /\ inbox' = q
        /\ ReporterPresent(m, powerOn)
        /\ UNCHANGED <<inventory, sensorVars, policyVars, callbackVars, hardwareVars, alive>>
    BY DEF PresentSignalReceived
  <1>2. UNCHANGED <<inventory, started, current, seen, conflict, delay, powered, active, binding,
                    powerOn, listeners, monitored, alive>>
    BY <1>1 DEF sensorVars, policyVars, anyOfVars, callbackVars
  <1>3. inbox' \in Seq(Message) /\ SensorsTypeOK' /\ HardwareKnown'
    <2>1. UNCHANGED <<hardwareVars, inventory, alive, sensorVars>> /\ m.kind # "tach"
      BY <1>1
    <2> QED
      BY <1>1, <2>1, SignalTaken
  <1>4. /\ m \in Message
        /\ \A f \in ErrorFan :
             /\ LastTells(q, AboutFan(f), FanNow(f))
             /\ \/ Waits(q, AboutFan(f))
                \/ m.kind = "present" /\ m.fan = f /\ m.on = inventory[f]
                \/ ~(m.kind = "present" /\ m.fan = f) /\ Informed(f)
    BY TailKnown
  <1>5. /\ m.fan \in Fan /\ m.on \in BOOLEAN
        /\ PolicyTypeOK /\ ReporterTypeOK /\ powerOn \in BOOLEAN
        /\ listeners \in SUBSET (AnyOf \cup {"reporter"}) /\ monitored \in SUBSET Fan
        /\ PoliciesFollow /\ ConflictsFollow /\ BindOnlyPresent /\ MissingWatched
    BY <1>1, <1>4, MessageKinds DEF PresenceInv, TypeInv, PresenceTypeOK
  <1>6. PolicyTypeOK' /\ PoliciesFollow' /\ ConflictsFollow' /\ BindOnlyPresent'
    BY <1>2, <1>5
    DEF PolicyTypeOK, PoliciesFollow, AnyOfInv, FallbackInv, AnyPresent, ConflictsFollow,
        ConflictsReported, ConflictNeedsPower, BindOnlyPresent
  <1> HIDE DEF m, q
  <1>7. ReporterTypeOK' /\ MissingWatched'
    <2>1. CASE /\ reporter
               /\ m.fan \in ErrorFan
               /\ states[m.fan] # m.on
               /\ states' = [states EXCEPT ![m.fan] = m.on]
               /\ CheckFans({m.fan}, states', powerOn)
               /\ UNCHANGED reporter
      <3>1. /\ states' \in [ErrorFan -> BOOLEAN] /\ states'[m.fan] = ~states[m.fan]
            /\ \A f \in ErrorFan \ {m.fan} : states'[f] = states[f]
        BY <1>5, <2>1 DEF ReporterTypeOK
      <3>2. /\ missing' = (missing \ {m.fan}) \cup {f \in {m.fan} : ~states'[f] /\ powerOn}
            /\ reported' = {f \in reported : f \in {m.fan} => ~states'[f] /\ powerOn}
        BY <2>1 DEF CheckFans
      <3>3. ReporterTypeOK'
        BY <1>5, <2>1, <3>1, <3>2 DEF ReporterTypeOK
      <3>4. ASSUME "reporter" \in listeners, NEW f \in ErrorFan
            PROVE  /\ f \in missing' \cup reported' <=> powerOn /\ ~states'[f]
                   /\ ~(f \in missing' /\ f \in reported')
        <4>1. /\ f \in missing \cup reported <=> powerOn /\ ~states[f]
              /\ ~(f \in missing /\ f \in reported)
          BY <1>5, <3>4 DEF MissingWatched
        <4>2. CASE f = m.fan
          BY <3>1, <3>2, <4>1, <4>2
        <4>3. CASE f # m.fan
          BY <3>1, <3>2, <4>1, <4>3
        <4> QED
          BY <4>2, <4>3
      <3> QED
        BY <1>2, <1>5, <2>1, <3>3, <3>4 DEF MissingWatched, ReporterTypeOK
    <2>2. CASE UNCHANGED reporterVars
      BY <1>2, <1>5, <2>2 DEF MissingWatched, ReporterTypeOK, reporterVars
    <2> QED
      BY <1>1, <2>1, <2>2 DEF ReporterPresent
  <1>8. ASSUME NEW f \in ErrorFan PROVE FanKnown(f)'
    <2>1. AboutFan(f)' = AboutFan(f) /\ FanNow(f)' = FanNow(f)
      BY <1>2 DEF AboutFan, FanNow
    <2>2. /\ LastTells(q, AboutFan(f), FanNow(f))
          /\ \/ Waits(q, AboutFan(f))
             \/ m.fan = f /\ m.on = inventory[f]
             \/ m.fan # f /\ Informed(f)
      BY <1>1, <1>4
    <2>3. /\ reporter' = reporter
          /\ reporter => states'[f] = IF f = m.fan THEN m.on ELSE states[f]
      BY <1>1, <1>5 DEF ReporterPresent, ReporterTypeOK, reporterVars
    <2> QED
      BY <1>1, <1>2, <2>1, <2>2, <2>3 DEF FanKnown, Informed
  <1> QED
    BY <1>2, <1>3, <1>5, <1>6, <1>7, <1>8 DEF PresenceInv, TypeInv, PresenceTypeOK

\* The power that goes off ends what ran with it, and on starts it anew.
LEMMA PowerSignalInv ==
    ASSUME PresenceInv, alive, inbox # <<>>, PowerSignal(Head(inbox)),
           UNCHANGED <<hardwareVars, alive>>
    PROVE  PresenceInv'
  <1> DEFINE m == Head(inbox)
             q == Tail(inbox)
             on == m.on
             F == listeners \cap AnyOf
  <1>1. /\ m.kind = "power" /\ inbox' = q /\ powerOn' = on
        /\ IF on = powerOn
           THEN UNCHANGED <<policyVars, reporterVars>>
           ELSE /\ AnyOfPowerChanged(F, on)
                /\ IF "reporter" \in listeners THEN ReporterPowerChanged(on)
                                               ELSE UNCHANGED reporterVars
        /\ UNCHANGED <<inventory, sensorVars, listeners, monitored, hardwareVars, alive>>
    BY DEF PowerSignal
  <1>2. UNCHANGED <<inventory, started, current, listeners, monitored, alive>>
    BY <1>1 DEF sensorVars
  <1>3. inbox' \in Seq(Message) /\ SensorsTypeOK' /\ HardwareKnown'
    <2>1. UNCHANGED <<hardwareVars, inventory, alive, sensorVars>> /\ m.kind # "tach"
      BY <1>1
    <2> QED
      BY <1>1, <2>1, SignalTaken
  <1>4. /\ m \in Message
        /\ \A f \in ErrorFan :
             /\ LastTells(q, AboutFan(f), FanNow(f))
             /\ \/ Waits(q, AboutFan(f))
                \/ m.kind = "present" /\ m.fan = f /\ m.on = inventory[f]
                \/ ~(m.kind = "present" /\ m.fan = f) /\ Informed(f)
    BY TailKnown
  <1>5. /\ on \in BOOLEAN
        /\ PolicyTypeOK /\ ReporterTypeOK /\ powerOn \in BOOLEAN
        /\ listeners \in SUBSET (AnyOf \cup {"reporter"}) /\ monitored \in SUBSET Fan
        /\ PoliciesFollow /\ ConflictsFollow /\ BindOnlyPresent /\ MissingWatched
    BY <1>1, <1>4, MessageKinds DEF PresenceInv, TypeInv, PresenceTypeOK
  <1> HIDE DEF m, q, on, F
  <1>6. UNCHANGED <<reporter, states, seen, active, binding>>
    BY <1>1 DEF policyVars, anyOfVars, reporterVars, AnyOfPowerChanged, ReporterPowerChanged
  <1>7. ASSUME on # powerOn
        PROVE  /\ conflict' = IF on THEN conflict \ UNION {SensorsOf(f) : f \in F} ELSE conflict
               /\ delay' = IF on THEN delay \cup F ELSE delay \ F
               /\ powered' = IF on THEN powered ELSE powered \ F
    BY <1>1, <1>7 DEF AnyOfPowerChanged
  <1>8. on = powerOn => UNCHANGED <<conflict, delay, powered, missing, reported>>
    BY <1>1 DEF policyVars, anyOfVars, reporterVars
  <1>9. PolicyTypeOK'
    BY <1>5, <1>6, <1>7, <1>8 DEF PolicyTypeOK, F
  <1>10. PoliciesFollow' /\ BindOnlyPresent'
    BY <1>2, <1>5, <1>6 DEF PoliciesFollow, AnyOfInv, FallbackInv, AnyPresent, BindOnlyPresent
  <1>11. ConflictsReported'
    <2>1. CASE on = powerOn
      BY <1>5, <1>6, <1>8, <2>1 DEF ConflictsFollow, ConflictsReported, AnyPresent
    <2>2. CASE on # powerOn /\ on
      <3>1. powered' = powered /\ powered \cap F = {}
        BY <1>5, <1>7, <2>2 DEF ConflictsFollow, ConflictNeedsPower, F
      <3>2. ASSUME NEW h \in powered PROVE SensorsOf(h) \cap conflict \subseteq conflict'
        <4>1. \A f \in F : SensorsOf(h) \cap SensorsOf(f) = {}
          BY <1>5, <3>1 DEF F, PolicyTypeOK
        <4> QED
          BY <1>7, <2>2, <4>1
      <3> QED
        BY <1>5, <1>6, <3>1, <3>2 DEF ConflictsFollow, ConflictsReported, AnyPresent
    <2>3. CASE on # powerOn /\ ~on
      BY <1>5, <1>6, <1>7, <2>3 DEF ConflictsFollow, ConflictsReported, AnyPresent
    <2> QED
      BY <2>1, <2>2, <2>3
  <1>12. ConflictNeedsPower'
    <2>1. CASE on = powerOn
      BY <1>1, <1>2, <1>5, <1>8, <2>1 DEF ConflictsFollow, ConflictNeedsPower
    <2>2. CASE on # powerOn /\ ~on
      BY <1>2, <1>5, <1>7, <2>2 DEF ConflictNeedsPower, PolicyTypeOK, F
    <2>3. CASE on
      BY <1>1, <2>3 DEF ConflictNeedsPower
    <2> QED
      BY <2>1, <2>2, <2>3
  <1>13. ReporterTypeOK' /\ MissingWatched'
    <2>1. CASE on = powerOn
      BY <1>1, <1>2, <1>5, <1>6, <1>8, <2>1 DEF ReporterTypeOK, MissingWatched
    <2>2. CASE on # powerOn /\ "reporter" \notin listeners
      <3>1. UNCHANGED <<missing, reported>>
        BY <1>1, <2>2 DEF reporterVars
      <3> QED
        BY <1>2, <1>5, <1>6, <2>2, <3>1 DEF ReporterTypeOK, MissingWatched
    <2>3. CASE on # powerOn /\ "reporter" \in listeners
      <3>1. /\ missing' = (missing \ ErrorFan) \cup {f \in ErrorFan : ~states[f] /\ on}
            /\ reported' = {f \in reported : f \in ErrorFan => ~states[f] /\ on}
        BY <1>1, <2>3 DEF ReporterPowerChanged, CheckFans
      <3>2. /\ reporter
            /\ missing \cup reported = {f \in ErrorFan : powerOn /\ ~states[f]}
            /\ missing \subseteq ErrorFan /\ reported \subseteq ErrorFan
        BY <1>5, <2>3 DEF MissingWatched, ReporterTypeOK
      <3>3. on => reported = {} /\ missing = {}
        BY <1>5, <2>3, <3>2
      <3>4. /\ missing' \cup reported' = {f \in ErrorFan : on /\ ~states[f]}
            /\ missing' \cap reported' = {}
            /\ missing' \subseteq ErrorFan /\ reported' \subseteq ErrorFan
        BY <3>1, <3>2, <3>3
      <3> QED
        BY <1>1, <1>2, <1>5, <1>6, <3>2, <3>4 DEF ReporterTypeOK, MissingWatched
    <2> QED
      BY <2>1, <2>2, <2>3
  <1>14. ASSUME NEW f \in ErrorFan PROVE FanKnown(f)'
    <2>1. AboutFan(f)' = AboutFan(f) /\ FanNow(f)' = FanNow(f)
      BY <1>2 DEF AboutFan, FanNow
    <2>2. /\ LastTells(q, AboutFan(f), FanNow(f))
          /\ Waits(q, AboutFan(f)) \/ Informed(f)
      BY <1>1, <1>4
    <2> QED
      BY <1>1, <1>2, <1>6, <2>1, <2>2 DEF FanKnown, Informed
  <1> QED
    BY <1>1, <1>2, <1>3, <1>5, <1>9, <1>10, <1>11, <1>12, <1>13, <1>14
    DEF PresenceInv, TypeInv, PresenceTypeOK, ConflictsFollow

LEMMA ReceiveInv ==
    ASSUME PresenceInv, Receive
    PROVE  PresenceInv'
  <1>1. alive /\ inbox # <<>> /\ UNCHANGED <<hardwareVars, alive>>
    BY DEF Receive
  <1>2. CASE TachSignal(Head(inbox))
    BY <1>1, <1>2, TachSignalInv
  <1>3. CASE PresentSignalReceived(Head(inbox))
    BY <1>1, <1>3, PresentSignalInv
  <1>4. CASE PowerSignal(Head(inbox))
    BY <1>1, <1>4, PowerSignalInv
  <1> QED
    BY <1>2, <1>3, <1>4 DEF Receive

-----------------------------------------------------------------------------
(* Timers                                                                  *)

\* A conflict that is judged when the delay is over is judged with the power on.
LEMMA TimerInv ==
    ASSUME PresenceInv, Timer
    PROVE  PresenceInv'
  <1>1. /\ alive
        /\ UNCHANGED <<hardwareVars, inventory, alive, inbox, sensorVars, callbackVars>>
    BY DEF Timer
  <1>2. UNCHANGED <<spinning, level, pgood, inventory, alive, inbox, edges, fetched, started,
                    value, current, powerOn, listeners, monitored>>
    BY <1>1 DEF hardwareVars, sensorVars, callbackVars
  <1>3. /\ SensorsTypeOK /\ PolicyTypeOK /\ ReporterTypeOK /\ powerOn \in BOOLEAN
        /\ listeners \in SUBSET (AnyOf \cup {"reporter"}) /\ monitored \in SUBSET Fan /\ inbox \in Seq(Message)
        /\ HardwareKnown /\ PoliciesFollow /\ ConflictsFollow /\ BindOnlyPresent /\ MissingWatched
        /\ \A f \in ErrorFan : FanKnown(f)
    BY <1>1 DEF PresenceInv, TypeInv, PresenceTypeOK
  <1>4. /\ SensorsTypeOK' /\ powerOn' \in BOOLEAN
        /\ listeners' \in SUBSET (AnyOf \cup {"reporter"}) /\ monitored' \in SUBSET Fan /\ inbox' \in Seq(Message)
    BY <1>2, <1>3 DEF SensorsTypeOK
  <1>5. HardwareKnown'
    <2>1. ASSUME NEW r \in Rotor PROVE RotorKnown(r)'
      <3>1. AboutRotor(r)' = AboutRotor(r) /\ RotorNow(r)' = RotorNow(r) /\ RotorKnown(r)
        BY <1>2, <1>3 DEF AboutRotor, RotorNow, HardwareKnown
      <3> QED
        BY <1>2, <3>1 DEF RotorKnown
    <2> QED
      BY <1>2, <1>3, <2>1 DEF HardwareKnown, GpioKnown, Sees
  <1>6. ASSUME UNCHANGED <<reporter, states>>
        PROVE  \A f \in ErrorFan : FanKnown(f)'
    <2> SUFFICES ASSUME NEW f \in ErrorFan PROVE FanKnown(f)'
      OBVIOUS
    <2>1. AboutFan(f)' = AboutFan(f) /\ FanNow(f)' = FanNow(f) /\ FanKnown(f)
      BY <1>2, <1>3 DEF AboutFan, FanNow
    <2>2. Informed(f)' = Informed(f)
      BY <1>2, <1>6 DEF Informed
    <2> QED
      BY <1>2, <2>1, <2>2 DEF FanKnown
  <1>7. ASSUME UNCHANGED <<seen, active>>, binding' \subseteq binding PROVE PoliciesFollow'
    BY <1>2, <1>3, <1>7 DEF PoliciesFollow, AnyOfInv, FallbackInv, AnyPresent
  <1>8. ASSUME UNCHANGED reporterVars
        PROVE  /\ UNCHANGED <<reporter, states>>
               /\ ReporterTypeOK' /\ MissingWatched'
    BY <1>2, <1>3, <1>8 DEF ReporterTypeOK, MissingWatched, reporterVars
  <1>9. ASSUME NEW f \in AnyOf, DelayExpires(f), UNCHANGED reporterVars PROVE PresenceInv'
    <2>1. /\ f \in delay /\ f \in Fan
          /\ delay' = delay \ {f}
          /\ powered' = powered \cup {f}
          /\ conflict' = CheckConflicts(f, seen, conflict, TRUE)
          /\ UNCHANGED <<seen, active, binding>>
      BY <1>9 DEF DelayExpires
    <2>2. /\ conflict \subseteq conflict' /\ conflict' \in SUBSET Sensor
          /\ AnyPresent(f, seen) => SensorsOf(f) \subseteq seen \cup conflict'
      BY <1>3, <2>1, MethodsOf DEF PolicyTypeOK, CheckConflicts
    <2>3. PolicyTypeOK'
      BY <1>3, <1>9, <2>1, <2>2 DEF PolicyTypeOK
    <2>4. ConflictsReported'
      BY <1>3, <2>1, <2>2 DEF ConflictsFollow, ConflictsReported, AnyPresent
    <2>5. ConflictNeedsPower'
      BY <1>2, <1>3, <2>1 DEF ConflictsFollow, ConflictNeedsPower
    <2>6. BindOnlyPresent'
      BY <1>2, <1>3, <2>1 DEF BindOnlyPresent
    <2> QED
      BY <1>2, <1>1, <1>4, <1>5, <1>6, <1>7, <1>8, <1>9, <2>1, <2>3, <2>4, <2>5, <2>6
      DEF PresenceInv, TypeInv, PresenceTypeOK, ConflictsFollow
  <1>10. ASSUME NEW f \in Eeprom, BindTimerExpires(f), UNCHANGED reporterVars PROVE PresenceInv'
    <2>1. /\ binding' = binding \ {f}
          /\ UNCHANGED <<seen, conflict, delay, powered, active>>
      BY <1>10 DEF BindTimerExpires, anyOfVars
    <2>2. PolicyTypeOK' /\ ConflictsFollow' /\ BindOnlyPresent'
      BY <1>2, <1>3, <2>1
      DEF PolicyTypeOK, ConflictsFollow, ConflictsReported, ConflictNeedsPower, AnyPresent,
          BindOnlyPresent
    <2> QED
      BY <1>2, <1>1, <1>4, <1>5, <1>6, <1>7, <1>8, <1>10, <2>1, <2>2
      DEF PresenceInv, TypeInv, PresenceTypeOK
  <1>11. ASSUME NEW f \in ErrorFan, MissingTimerExpires(f), UNCHANGED policyVars PROVE PresenceInv'
    <2>1. /\ f \in missing /\ missing' = missing \ {f} /\ reported' = reported \cup {f}
          /\ UNCHANGED <<reporter, states>>
      BY <1>11 DEF MissingTimerExpires
    <2>2. UNCHANGED <<seen, conflict, delay, powered, active, binding>>
      BY <1>11 DEF policyVars, anyOfVars
    <2>3. PolicyTypeOK' /\ ConflictsFollow' /\ BindOnlyPresent'
      BY <1>2, <1>3, <2>2
      DEF PolicyTypeOK, ConflictsFollow, ConflictsReported, ConflictNeedsPower, AnyPresent,
          BindOnlyPresent
    <2>4. ReporterTypeOK' /\ MissingWatched'
      BY <1>2, <1>3, <1>11, <2>1 DEF ReporterTypeOK, MissingWatched
    <2> QED
      BY <1>2, <1>1, <1>4, <1>5, <1>6, <1>7, <2>1, <2>2, <2>3, <2>4
      DEF PresenceInv, TypeInv, PresenceTypeOK
  <1> QED
    BY <1>9, <1>10, <1>11 DEF Timer

-----------------------------------------------------------------------------
(* Start, reload and exit                                                  *)

\* The active sensor that is found sees the fan if one does.
LEMMA FoundActive ==
    ASSUME NEW f \in Fan, NEW reads
    PROVE  /\ FirstActive(f, reads) \in DOMAIN Methods[f]
           /\ Methods[f][FirstActive(f, reads)] \in reads <=> SensorsOf(f) \cap reads # {}
  <1> DEFINE sees == {i \in DOMAIN Methods[f] : Methods[f][i] \in reads}
  <1>1. sees = {} <=> SensorsOf(f) \cap reads = {}
    BY DEF SensorsOf
  <1>2. 1 \in DOMAIN Methods[f] /\ sees \in SUBSET Nat /\ sees \subseteq DOMAIN Methods[f]
    BY MethodsOf
  <1>3. CASE sees = {}
    <2>1. FirstActive(f, reads) = 1
      BY <1>3 DEF FirstActive
    <2> QED
      BY <1>1, <1>2, <1>3, <2>1
  <1>4. CASE sees # {}
    <2>1. FirstActive(f, reads) = Min(sees)
      BY <1>4 DEF FirstActive
    <2>2. Min(sees) \in sees
      BY <1>2, <1>4, LeastExists
    <2> QED
      BY <1>1, <1>2, <1>4, <2>1, <2>2
  <1> QED
    BY <1>3, <1>4

\* What the policies tell of the fans that changed comes after all that waits.
LEMMA FoundTold ==
    ASSUME NEW pending \in Seq(Message), NEW found \in [Fan -> BOOLEAN],
           inventory \in [Fan -> BOOLEAN], inventory' = found,
           inbox' = pending \o SetToSeq({PresentSignal(f, found[f]) :
                                           f \in {g \in Fan : found[g] # inventory[g]}}),
           UNCHANGED spinning,
           \A r \in Rotor : LastTells(pending, AboutRotor(r), RotorNow(r)),
           \A f \in ErrorFan : LastTells(pending, AboutFan(f), FanNow(f)),
           reporter' => \A f \in ErrorFan : states'[f] = inventory[f]
    PROVE  /\ inbox' \in Seq(Message)
           /\ \A r \in Rotor : LastTells(inbox', AboutRotor(r), RotorNow(r)')
           /\ \A f \in ErrorFan : FanKnown(f)'
  <1> DEFINE C == {g \in Fan : found[g] # inventory[g]}
             S == {PresentSignal(f, found[f]) : f \in C}
             w == SetToSeq(S)
  <1>1. /\ S \subseteq Message
        /\ \A f \in C : PresentSignal(f, found[f]) \in S
        /\ \A x \in S : x.kind = "present" /\ x.fan \in C /\ x.on = found[x.fan]
    BY DEF PresentSignal, Message, PresentMessage
  <1>2. \A x, y \in S : x.fan = y.fan => x = y
    BY DEF PresentSignal
  <1>3. IsFiniteSet(S)
    <2> DEFINE fanOf == [x \in S |-> x.fan]
    <2>1. fanOf \in Injection(S, Fan)
      BY <1>1, <1>2 DEF Injection, IsInjective
    <2> QED
      BY <2>1, FS_Injection
  <1>4. /\ w \in Seq(S)
        /\ \A i \in DOMAIN w : w[i] \in S
        /\ \A x \in S : \E i \in DOMAIN w : w[i] = x
    BY <1>3, SetInSomeOrder
  <1>5. w \in Seq(Message) /\ inbox' = pending \o w
    BY <1>1, <1>4, SeqDef
  <1> HIDE DEF S, w
  <1>6. ASSUME NEW r \in Rotor PROVE LastTells(inbox', AboutRotor(r), RotorNow(r)')
    <2> DEFINE M == AboutRotor(r)
               T == RotorNow(r)
    <2>1. RotorNow(r)' = T /\ LastTells(pending, M, T)
      BY DEF RotorNow, AboutRotor
    <2>2. \A i \in DOMAIN w : w[i] \notin M
      BY <1>1, <1>4 DEF AboutRotor
    <2> HIDE DEF M, T
    <2>3. LastTells(pending \o w, M, T)
      BY <1>5, <2>1, <2>2, ConcatTells
    <2> QED
      BY <1>5, <2>1, <2>3 DEF M
  <1>7. ASSUME NEW f \in ErrorFan PROVE FanKnown(f)'
    <2> DEFINE M == AboutFan(f)
               T == FanNow(f)
               U == {n \in M : n.on = found[f]}
    <2>1. M' = M /\ FanNow(f)' = U /\ f \in Fan /\ LastTells(pending, M, T)
      BY DEF AboutFan, FanNow
    <2>2. \A i \in DOMAIN w : w[i] \in M => w[i] \in U
      BY <1>1, <1>4 DEF AboutFan
    <2>3. CASE found[f] = inventory[f]
      <3>1. U = T
        BY <2>3 DEF FanNow
      <3> HIDE DEF M, T, U
      <3>2. LastTells(pending \o w, M, U)
        BY <1>5, <2>1, <2>2, <3>1, ConcatTells
      <3> QED
        BY <1>5, <2>1, <2>3, <3>2 DEF FanKnown, Informed, M
    <2>4. CASE found[f] # inventory[f]
      <3>1. PresentSignal(f, found[f]) \in M /\ PresentSignal(f, found[f]) \in S
        BY <1>1, <2>1, <2>4, MessageKinds DEF PresentSignal
      <3>2. Waits(w, M)
        BY <1>4, <3>1 DEF Waits
      <3> HIDE DEF M, T, U
      <3>3. LastTells(pending \o w, M, U) /\ Waits(pending \o w, M)
        BY <1>5, <2>2, <3>2, ConcatTells
      <3> QED
        BY <1>5, <2>1, <3>3 DEF FanKnown, Informed, M
    <2> QED
      BY <2>3, <2>4
  <1>8. inbox' \in Seq(Message)
    <2>1. LastTells(pending, {}, {}) /\ \A i \in DOMAIN w : w[i] \in {} => w[i] \in {}
      BY DEF LastTells
    <2>2. pending \o w \in Seq(Message)
      BY <1>5, <2>1, ConcatTells
    <2> QED
      BY <1>5, <2>2
  <1> QED
    BY <1>6, <1>7, <1>8

\* The sensors that are started.
LEMMA ListeningAt ==
    ASSUME NEW F, NEW first, NEW t
    PROVE  t \in Listening(F, first) <=>
             \/ \E f \in F \cap AnyOf : t \in SensorsOf(f)
             \/ \E f \in F \cap Fallback : t = Methods[f][first[f]]
  <1> DEFINE A == UNION {SensorsOf(f) : f \in F \cap AnyOf}
             B == {Methods[f][first[f]] : f \in F \cap Fallback}
  <1>1. t \in A <=> \E f \in F \cap AnyOf : t \in SensorsOf(f)
    OBVIOUS
  <1>2. t \in B <=> \E f \in F \cap Fallback : t = Methods[f][first[f]]
    OBVIOUS
  <1>3. Listening(F, first) = A \cup B
    BY DEF Listening
  <1> HIDE DEF A, B
  <1> QED
    BY <1>1, <1>2, <1>3

\* A configuration that is loaded starts with what the hardware says, as far as
\* it comes with its fans.
LEMMA LoadInv ==
    ASSUME PresenceInv, NEW pending \in Seq(Message), NEW begun \in SUBSET Fan,
           NEW done \in SUBSET begun, Load(begun, done, pending), alive' = TRUE,
           UNCHANGED hardwareVars, powerOn' \in BOOLEAN,
           listeners' \in SUBSET (AnyOf \cup {"reporter"}),
           \/ ReporterStarts(inventory, powerOn')
           \/ ReporterGone /\ "reporter" \notin listeners',
           "reporter" \in listeners' => ErrorFan # {},
           \A r \in Rotor : LastTells(pending, AboutRotor(r), RotorNow(r)),
           \A f \in ErrorFan : LastTells(pending, AboutFan(f), FanNow(f))
    PROVE  PresenceInv'
  <1> DEFINE reads == {s \in Sensor : Detects(s)}
             first == [f \in Fallback |-> IF f \in begun THEN FirstActive(f, reads) ELSE 1]
             found == [f \in Fan |-> IF f \in done THEN FoundPresent(f) ELSE inventory[f]]
  <1>1. /\ SensorsTypeOK /\ UNCHANGED <<spinning, level, pgood>>
        /\ inventory \in [Fan -> BOOLEAN]
    BY DEF PresenceInv, TypeInv, PresenceTypeOK, SensorsTypeOK, hardwareVars
  <1>2. /\ edges' = [g \in Gpio |-> <<>>]
        /\ fetched' = level
        /\ started' = Listening(begun, first)
        /\ value' = [r \in Rotor |-> TachOf[r] \in started' /\ spinning[r]]
        /\ current' = [s \in Sensor |-> s \in started' /\ s \in reads]
        /\ seen' = {s \in reads : FanOf(s) \in AnyOf \cap begun}
        /\ conflict' = {}
        /\ delay' = IF powerOn' THEN AnyOf ELSE {}
        /\ powered' = {}
        /\ active' = first
        /\ binding' = {}
        /\ monitored' = done
    BY DEF Load, MonitorFans
  <1>3. \/ /\ reporter' = (ErrorFan # {})
           /\ states' = [f \in ErrorFan |-> inventory[f]]
           /\ missing' = {f \in ErrorFan : powerOn' /\ ~inventory[f]}
           /\ reported' = {}
        \/ /\ "reporter" \notin listeners'
           /\ reporter' = FALSE
           /\ states' = [f \in ErrorFan |-> FALSE]
           /\ missing' = {}
           /\ reported' = {}
    BY DEF ReporterStarts, ReporterGone
  <1>4. /\ inventory' = found
        /\ inbox' = pending \o SetToSeq({PresentSignal(f, found[f]) :
                                           f \in {g \in Fan : found[g] # inventory[g]}})
    BY DEF Load
  <1>5. /\ found \in [Fan -> BOOLEAN]
        /\ \A f \in done : found[f] <=> SensorsOf(f) \cap reads # {}
    BY <1>1, MethodsOf DEF FoundPresent
  <1>6. \A f \in Fallback : /\ f \in Fan /\ first[f] \in DOMAIN Methods[f] /\ first[f] \in Nat
                            /\ Methods[f][first[f]] \in SensorsOf(f)
                            /\ Methods[f][first[f]] \in Sensor
                            /\ f \in begun => (Methods[f][first[f]] \in reads
                                                <=> SensorsOf(f) \cap reads # {})
    BY FoundActive, MethodsOf DEF Fallback
  <1> HIDE DEF found, first
  <1>7. reporter' => \A f \in ErrorFan : states'[f] = inventory[f]
    BY <1>3
  <1>8. /\ inbox' \in Seq(Message)
        /\ \A r \in Rotor : LastTells(inbox', AboutRotor(r), RotorNow(r)')
        /\ \A f \in ErrorFan : FanKnown(f)'
    BY <1>1, <1>4, <1>5, <1>7, FoundTold
  <1>9. /\ started' \in SUBSET Sensor
        /\ \A f \in AnyOf : SensorsOf(f) \cap started' = IF f \in begun THEN SensorsOf(f) ELSE {}
        /\ \A f \in Fallback : started' \cap SensorsOf(f) = IF f \in begun
                                                           THEN {Methods[f][first[f]]} ELSE {}
    <2>1. ASSUME NEW t
          PROVE  t \in started' <=> \/ \E f \in begun \cap AnyOf : t \in SensorsOf(f)
                                   \/ \E f \in begun \cap Fallback : t = Methods[f][first[f]]
      <3>1. t \in Listening(begun, first) <=>
              \/ \E f \in begun \cap AnyOf : t \in SensorsOf(f)
              \/ \E f \in begun \cap Fallback : t = Methods[f][first[f]]
        BY ListeningAt
      <3>2. started' = Listening(begun, first)
        BY <1>2
      <3> QED
        BY <3>1, <3>2
    <2>2. \A f \in AnyOf : f \in Fan /\ SensorsOf(f) \subseteq Sensor
      BY MethodsOf
    <2>3. ASSUME NEW f \in Fan, NEW t \in started' \cap SensorsOf(f)
          PROVE  f \in begun /\ (f \in Fallback => t = Methods[f][first[f]])
      <3>1. \A h \in Fan : t \in SensorsOf(h) => h = f
        OBVIOUS
      <3>2. CASE \E h \in begun \cap AnyOf : t \in SensorsOf(h)
        BY <2>2, <3>1, <3>2 DEF Fallback
      <3>3. CASE \E h \in begun \cap Fallback : t = Methods[h][first[h]]
        BY <1>6, <3>1, <3>3
      <3> QED
        BY <2>1, <3>2, <3>3
    <2>4. started' \in SUBSET Sensor
      <3>1. \A f \in Fallback : Methods[f][first[f]] \in Sensor
        BY <1>6
      <3>2. ASSUME NEW t \in started' PROVE t \in Sensor
        <4>1. CASE \E f \in begun \cap AnyOf : t \in SensorsOf(f)
          BY <2>2, <4>1
        <4>2. CASE \E f \in begun \cap Fallback : t = Methods[f][first[f]]
          BY <3>1, <4>2
        <4> QED
          BY <2>1, <4>1, <4>2
      <3> QED
        BY <3>2
    <2>5. ASSUME NEW f \in AnyOf
          PROVE  SensorsOf(f) \cap started' = IF f \in begun THEN SensorsOf(f) ELSE {}
      <3>1. f \in begun => \A t \in SensorsOf(f) : t \in started'
        BY <2>1
      <3>2. f \notin begun => \A t \in SensorsOf(f) : t \notin started'
        BY <2>2, <2>3
      <3> QED
        BY <3>1, <3>2
    <2>6. ASSUME NEW f \in Fallback
          PROVE  started' \cap SensorsOf(f) = IF f \in begun THEN {Methods[f][first[f]]} ELSE {}
      <3>1. f \in begun => Methods[f][first[f]] \in started' \cap SensorsOf(f)
        BY <1>6, <2>1
      <3>2. \A t \in started' \cap SensorsOf(f) : f \in begun /\ t = Methods[f][first[f]]
        BY <1>6, <2>3
      <3> QED
        BY <3>1, <3>2
    <2> QED
      BY <2>4, <2>5, <2>6
  <1>10. /\ value' \in [Rotor -> BOOLEAN] /\ current' \in [Sensor -> BOOLEAN]
         /\ fetched' \in [Gpio -> BOOLEAN] /\ inventory' \in [Fan -> BOOLEAN]
         /\ \A s \in started' : current'[s] <=> s \in reads
         /\ \A s \in Sensor \ started' : ~current'[s]
         /\ \A r \in Rotor : TachOf[r] \in started' => value'[r] = spinning[r]
    BY <1>1, <1>2, <1>4, <1>5, <1>9 DEF SensorsTypeOK
  <1>11. edges' \in [Gpio -> Seq(BOOLEAN)]
    <2>1. <<>> \in Seq(BOOLEAN)
      BY EmptySeq
    <2> QED
      BY <1>2, <2>1
  <1>12. SensorsTypeOK'
    BY <1>1, <1>9, <1>10, <1>11 DEF SensorsTypeOK
  <1>13. HardwareKnown'
    <2>1. ASSUME NEW r \in Rotor PROVE RotorKnown(r)'
      <3>1. AboutRotor(r)' = AboutRotor(r)
        BY DEF AboutRotor
      <3> QED
        BY <1>1, <1>8, <1>10, <3>1 DEF RotorKnown
    <2>2. ASSUME NEW g \in Gpio PROVE GpioKnown(g)'
      <3>1. edges'[g] = <<>> /\ fetched'[g] = level'[g]
        BY <1>1, <1>2
      <3>2. LastTells(<<>>, BOOLEAN, {level'[g]})
        BY EmptyTells
      <3> QED
        BY <3>1, <3>2 DEF GpioKnown
    <2>3. ASSUME NEW s \in started' PROVE current'[s] = Sees(s)'
      <3>1. s \in Sensor /\ current'[s] \in BOOLEAN
        BY <1>9, <1>10
      <3>2. Sees(s)' \in BOOLEAN
        BY <1>10, <3>1 DEF Sees, Sensor
      <3>3. current'[s] <=> Detects(s)
        BY <1>10, <3>1
      <3>4. CASE s \in Tach
        <4>1. \A r \in Rotor : TachOf[r] = s => value'[r] = spinning[r]
          BY <1>10
        <4> QED
          BY <3>1, <3>2, <3>3, <3>4, <4>1 DEF Sees, Detects
      <3>5. CASE s \notin Tach
        <4>1. Sees(s)' = fetched'[s] /\ (Detects(s) <=> level[s])
          BY <3>5 DEF Sees, Detects
        <4> QED
          BY <1>2, <3>1, <3>2, <3>3, <4>1
      <3> QED
        BY <3>4, <3>5
    <2> QED
      BY <2>1, <2>2, <2>3 DEF HardwareKnown
  <1>14. ASSUME NEW f \in AnyOf PROVE AnyOfInv(f)'
    <2>1. f \in Fan /\ SensorsOf(f) \subseteq Sensor
      BY MethodsOf
    <2>2. \A s \in SensorsOf(f) : FanOf(s) = f
      BY <2>1, FanOfSensor
    <2>3. ASSUME NEW s \in SensorsOf(f) PROVE s \in seen' <=> current'[s]
      <3>1. s \in Sensor /\ FanOf(s) = f /\ (s \in started' <=> f \in begun)
        BY <1>9, <2>1, <2>2
      <3>2. s \in seen' <=> s \in reads /\ f \in begun
        BY <1>2, <3>1
      <3> QED
        BY <1>10, <3>1, <3>2
    <2>4. ASSUME f \in done PROVE inventory'[f] <=> AnyPresent(f, seen')
      <3>1. \A s \in SensorsOf(f) : s \in seen' <=> s \in reads
        BY <1>2, <2>1, <2>2, <2>4
      <3> QED
        BY <1>4, <1>5, <2>4, <3>1 DEF AnyPresent
    <2>5. f \in done => SensorsOf(f) \subseteq started'
      BY <1>9
    <2> QED
      BY <1>2, <2>3, <2>4, <2>5 DEF AnyOfInv, AnyPresent
  <1>15. ASSUME NEW f \in Fallback PROVE FallbackInv(f)'
    <2> DEFINE s == Methods[f][first[f]]
    <2>1. f \in Fan /\ s \in Sensor /\ s \in SensorsOf(f) /\ Methods[f][active'[f]] = s
      BY <1>2, <1>6
    <2>2. started' \cap SensorsOf(f) = IF f \in begun THEN {s} ELSE {}
      BY <1>9
    <2>3. ASSUME f \in done PROVE s \in started' /\ inventory'[f] = current'[s]
      <3>1. f \in begun /\ s \in started'
        BY <2>2, <2>3
      <3>2. inventory'[f] <=> current'[s]
        BY <1>4, <1>5, <1>6, <1>10, <2>3, <3>1
      <3>3. inventory'[f] \in BOOLEAN /\ current'[s] \in BOOLEAN
        BY <1>10, <2>1
      <3> HIDE DEF s
      <3> QED
        BY <3>1, <3>2, <3>3
    <2> HIDE DEF s
    <2> QED
      BY <1>2, <2>1, <2>2, <2>3 DEF FallbackInv
  <1>16. PolicyTypeOK'
    <2>1. /\ first \in [Fallback -> Nat]
          /\ \A f \in Fallback : first[f] \in DOMAIN Methods[f]
      BY <1>6 DEF first
    <2> QED
      BY <1>2, <2>1 DEF PolicyTypeOK
  <1>17. ConflictsFollow' /\ BindOnlyPresent' /\ monitored' \in SUBSET Fan
    BY <1>2 DEF ConflictsFollow, ConflictsReported, ConflictNeedsPower, BindOnlyPresent
  <1>18. ReporterTypeOK' /\ MissingWatched'
    <2>1. states' \in [ErrorFan -> BOOLEAN]
      BY <1>1, <1>3
    <2> QED
      BY <1>3, <1>7, <2>1 DEF ReporterTypeOK, MissingWatched
  <1> QED
    BY <1>8, <1>12, <1>13, <1>14, <1>15, <1>16, <1>17, <1>18
    DEF PresenceInv, TypeInv, PresenceTypeOK, PoliciesFollow

LEMMA StartInv ==
    ASSUME PresenceInv, Start
    PROVE  PresenceInv'
  <1>1. /\ alive' = TRUE /\ powerOn' = pgood /\ Load(Fan, Fan, <<>>) /\ UNCHANGED hardwareVars
        /\ listeners' = AnyOf \cup IF ErrorFan = {} THEN {} ELSE {"reporter"}
        /\ ReporterStarts(inventory, powerOn')
    BY DEF Start
  <1>2. <<>> \in Seq(Message)
    BY EmptySeq
  <1>3. powerOn' \in BOOLEAN
    BY <1>1 DEF PresenceInv, TypeInv, PresenceTypeOK, SensorsTypeOK
  <1>4. /\ listeners' \in SUBSET (AnyOf \cup {"reporter"})
        /\ "reporter" \in listeners' => ErrorFan # {}
    BY <1>1
  <1>5. /\ \A r \in Rotor : LastTells(<<>>, AboutRotor(r), RotorNow(r))
        /\ \A f \in ErrorFan : LastTells(<<>>, AboutFan(f), FanNow(f))
    BY EmptyTells
  <1> QED
    BY <1>1, <1>2, <1>3, <1>4, <1>5, LoadInv

\* A reload that replaces the policies, however far it comes.
LEMMA ReloadAsInv ==
    ASSUME PresenceInv, NEW begun \in SUBSET Fan, NEW done \in SUBSET begun,
           ReloadAs(begun, done), ReporterStarts(inventory, powerOn) \/ ReporterGone
    PROVE  PresenceInv'
  <1>1. alive /\ UNCHANGED powerOn /\ Load(begun, done, inbox) /\ listeners' = {}
    BY DEF ReloadAs
  <1>2. UNCHANGED hardwareVars /\ UNCHANGED alive
    BY DEF ReloadAs
  <1>3. inbox \in Seq(Message) /\ powerOn' \in BOOLEAN /\ alive' = TRUE
    BY <1>1, <1>2 DEF PresenceInv, TypeInv, PresenceTypeOK, SensorsTypeOK
  <1>4. /\ \A r \in Rotor : LastTells(inbox, AboutRotor(r), RotorNow(r))
        /\ \A f \in ErrorFan : LastTells(inbox, AboutFan(f), FanNow(f))
    BY <1>1 DEF PresenceInv, HardwareKnown, RotorKnown, FanKnown
  <1>5. /\ listeners' \in SUBSET (AnyOf \cup {"reporter"})
        /\ "reporter" \notin listeners'
    BY <1>1
  <1>6. ReporterStarts(inventory, powerOn') \/ ReporterGone
    BY <1>1 DEF ReporterStarts
  <1> QED
    BY <1>1, <1>2, <1>3, <1>4, <1>5, <1>6, LoadInv

LEMMA ReloadInv ==
    ASSUME PresenceInv, Reload \/ ReporterFails \/ MonitorFails
    PROVE  PresenceInv'
  <1>1. CASE Reload
    BY <1>1, ReloadAsInv DEF Reload
  <1>2. CASE ReporterFails
    BY <1>2, ReloadAsInv DEF ReporterFails
  <1>3. CASE MonitorFails
    <2>1. ReporterStarts(inventory, powerOn)
      BY <1>3 DEF MonitorFails
    <2>2. PICK f \in Fan : ReloadAs(Before[f], Before[f]) \/ ReloadAs(Before[f] \cup {f}, Before[f])
      BY <1>3 DEF MonitorFails
    <2>3. Before[f] \in SUBSET Fan /\ Before[f] \cup {f} \in SUBSET Fan
      BY BeforeAssumption
    <2> QED
      BY <2>1, <2>2, <2>3, ReloadAsInv
  <1> QED
    BY <1>1, <1>2, <1>3

\* The policies go on without the reporter.
LEMMA ReloadFailsInv ==
    ASSUME PresenceInv, ReloadFails
    PROVE  PresenceInv'
  <1>1. /\ alive /\ reporter' = FALSE /\ states' = [f \in ErrorFan |-> FALSE]
        /\ missing' = {} /\ reported' = {}
        /\ listeners' = listeners \ {"reporter"}
        /\ UNCHANGED <<hardwareVars, inventory, alive, inbox, sensorVars, policyVars, powerOn,
                       monitored>>
    BY DEF ReloadFails, ReporterGone
  <1>2. UNCHANGED <<spinning, level, pgood, inventory, alive, inbox, edges, fetched, started,
                    value, current, seen, conflict, delay, powered, active, binding, powerOn,
                    monitored>>
    BY <1>1 DEF hardwareVars, sensorVars, policyVars, anyOfVars
  <1>3. /\ SensorsTypeOK /\ PolicyTypeOK /\ powerOn \in BOOLEAN
        /\ listeners \in SUBSET (AnyOf \cup {"reporter"}) /\ monitored \in SUBSET Fan /\ inbox \in Seq(Message)
        /\ HardwareKnown /\ PoliciesFollow /\ ConflictsFollow /\ BindOnlyPresent
        /\ \A f \in ErrorFan : FanKnown(f)
    BY <1>1 DEF PresenceInv, TypeInv, PresenceTypeOK
  <1>4. SensorsTypeOK' /\ PolicyTypeOK' /\ ReporterTypeOK' /\ inbox' \in Seq(Message)
    BY <1>1, <1>2, <1>3 DEF SensorsTypeOK, PolicyTypeOK, ReporterTypeOK
  <1>5. HardwareKnown'
    <2>1. ASSUME NEW r \in Rotor PROVE RotorKnown(r)'
      <3>1. AboutRotor(r)' = AboutRotor(r) /\ RotorNow(r)' = RotorNow(r) /\ RotorKnown(r)
        BY <1>2, <1>3 DEF AboutRotor, RotorNow, HardwareKnown
      <3> QED
        BY <1>2, <3>1 DEF RotorKnown
    <2> QED
      BY <1>2, <1>3, <2>1 DEF HardwareKnown, GpioKnown, Sees
  <1>6. PoliciesFollow' /\ ConflictsFollow' /\ BindOnlyPresent'
    <2>1. PoliciesFollow'
      BY <1>2, <1>3 DEF PoliciesFollow, AnyOfInv, FallbackInv, AnyPresent
    <2>2. ConflictsFollow' /\ BindOnlyPresent'
      BY <1>1, <1>2, <1>3
      DEF AnyPresent, ConflictsFollow, ConflictsReported, ConflictNeedsPower, BindOnlyPresent
    <2> QED
      BY <2>1, <2>2
  <1>7. \A f \in ErrorFan : FanKnown(f)'
    <2>1. \A f \in ErrorFan : AboutFan(f)' = AboutFan(f) /\ FanNow(f)' = FanNow(f)
      BY <1>2 DEF AboutFan, FanNow
    <2> QED
      BY <1>1, <1>2, <1>3, <2>1 DEF FanKnown, Informed
  <1>8. "reporter" \notin listeners' /\ listeners' \in SUBSET (AnyOf \cup {"reporter"}) /\ monitored' \in SUBSET Fan
    BY <1>1, <1>3
  <1> QED
    BY <1>1, <1>2, <1>3, <1>4, <1>5, <1>6, <1>7, <1>8
    DEF PresenceInv, TypeInv, PresenceTypeOK, MissingWatched

\* Nothing is left of the daemon, as before its start.
LEMMA NothingLeft ==
    ASSUME inbox = <<>>, edges = [g \in Gpio |-> <<>>], fetched = [g \in Gpio |-> FALSE],
           started = {}, value = [r \in Rotor |-> FALSE], current = [s \in Sensor |-> FALSE],
           seen = {}, conflict = {}, delay = {}, powered = {}, active = [f \in Fallback |-> 1],
           binding = {}, InitReporter, powerOn = FALSE, listeners = {}, monitored = {}, alive = FALSE,
           spinning \in [Rotor -> BOOLEAN], level \in [Gpio -> BOOLEAN], pgood \in BOOLEAN,
           inventory \in [Fan -> BOOLEAN]
    PROVE  PresenceInv
  <1>1. <<>> \in Seq(BOOLEAN)
    BY EmptySeq
  <1>2. <<>> \in Seq(Message)
    BY EmptySeq
  <1>3. SensorsTypeOK
    BY <1>1 DEF SensorsTypeOK
  <1>4. PolicyTypeOK
    BY MethodsOf DEF PolicyTypeOK, Fallback
  <1>5. ReporterTypeOK
    BY DEF ReporterTypeOK, InitReporter
  <1>6. ConflictsFollow /\ BindOnlyPresent
    BY DEF ConflictsFollow, ConflictsReported, ConflictNeedsPower, BindOnlyPresent
  <1> QED
    BY <1>2, <1>3, <1>4, <1>5, <1>6 DEF PresenceInv, TypeInv, PresenceTypeOK

LEMMA ExitInv ==
    ASSUME PresenceInv, Exit
    PROVE  PresenceInv'
  <1>1. /\ inbox' = <<>> /\ edges' = [g \in Gpio |-> <<>>] /\ fetched' = [g \in Gpio |-> FALSE]
        /\ started' = {} /\ value' = [r \in Rotor |-> FALSE] /\ current' = [s \in Sensor |-> FALSE]
        /\ seen' = {} /\ conflict' = {} /\ delay' = {} /\ powered' = {}
        /\ active' = [f \in Fallback |-> 1] /\ binding' = {} /\ ReporterGone
        /\ powerOn' = FALSE /\ listeners' = {} /\ monitored' = {} /\ alive' = FALSE
        /\ UNCHANGED <<spinning, level, pgood, inventory>>
    BY DEF Exit, hardwareVars
  <1>2. InitReporter'
    BY <1>1 DEF ReporterGone, InitReporter
  <1>3. /\ spinning \in [Rotor -> BOOLEAN] /\ level \in [Gpio -> BOOLEAN] /\ pgood \in BOOLEAN
        /\ inventory \in [Fan -> BOOLEAN]
    BY DEF PresenceInv, TypeInv, PresenceTypeOK, SensorsTypeOK
  <1>4. <<>> \in Seq(BOOLEAN)
    BY EmptySeq
  <1>5. <<>> \in Seq(Message)
    BY EmptySeq
  <1>6. SensorsTypeOK'
    BY <1>1, <1>3, <1>4 DEF SensorsTypeOK
  <1>7. PolicyTypeOK'
    BY <1>1, MethodsOf DEF PolicyTypeOK, Fallback
  <1>8. ReporterTypeOK'
    BY <1>2 DEF ReporterTypeOK, InitReporter
  <1>9. ConflictsFollow' /\ BindOnlyPresent'
    BY <1>1 DEF ConflictsFollow, ConflictsReported, ConflictNeedsPower, BindOnlyPresent
  <1> QED
    BY <1>1, <1>5, <1>6, <1>7, <1>8, <1>9 DEF PresenceInv, TypeInv, PresenceTypeOK

-----------------------------------------------------------------------------
(* The theorems                                                            *)

LEMMA InitInv == Init => PresenceInv
  BY NothingLeft DEF Init, InitSensors

LEMMA NextInv == PresenceInv /\ [Next]_vars => PresenceInv'
  <1> SUFFICES ASSUME PresenceInv, [Next]_vars PROVE PresenceInv'
    OBVIOUS
  <1>1. CASE Environment
    BY <1>1, EnvironmentInv
  <1>2. ASSUME NEW g \in Gpio, Edge(g) PROVE PresenceInv'
    BY <1>2, EdgeInv
  <1>3. CASE Receive
    BY <1>3, ReceiveInv
  <1>4. CASE Timer
    BY <1>4, TimerInv
  <1>5. CASE Start
    BY <1>5, StartInv
  <1>6. CASE Reload \/ ReporterFails \/ MonitorFails
    BY <1>6, ReloadInv
  <1>7. CASE ReloadFails
    BY <1>7, ReloadFailsInv
  <1>8. CASE Exit
    BY <1>8, ExitInv
  <1>9. CASE UNCHANGED vars
    <2>1. /\ UNCHANGED <<spinning, level, pgood, inventory, alive, inbox, edges, fetched, started>>
          /\ UNCHANGED <<value, current, seen, conflict, delay, powered, active, binding>>
          /\ UNCHANGED <<reporter, states, missing, reported, powerOn, listeners, monitored>>
      BY <1>9 DEF vars, hardwareVars, sensorVars, policyVars, anyOfVars, reporterVars, callbackVars
    <2>2. UNCHANGED <<inventory, alive, started, current, policyVars, reporterVars, callbackVars>>
      BY <2>1 DEF policyVars, anyOfVars, reporterVars, callbackVars
    <2>3. SensorsTypeOK' /\ inbox' \in Seq(Message)
      BY <2>1 DEF PresenceInv, TypeInv, PresenceTypeOK, SensorsTypeOK
    <2>4. ASSUME alive, NEW r \in Rotor PROVE RotorKnown(r)'
      <3>1. AboutRotor(r)' = AboutRotor(r) /\ RotorNow(r)' = RotorNow(r) /\ RotorKnown(r)
        BY <2>1, <2>4 DEF AboutRotor, RotorNow, PresenceInv, HardwareKnown
      <3> QED
        BY <2>1, <3>1 DEF RotorKnown
    <2>5. alive => HardwareKnown'
      BY <2>1, <2>4 DEF PresenceInv, HardwareKnown, GpioKnown, Sees
    <2>6. alive => \A f \in ErrorFan : FanKnown(f)'
      BY <2>1 DEF PresenceInv, FanKnown, AboutFan, FanNow, Informed
    <2> QED
      BY <2>1, <2>2, <2>3, <2>5, <2>6, PoliciesKept DEF PresenceInv, TypeInv, PresenceTypeOK
  <1> QED
    BY <1>1, <1>2, <1>3, <1>4, <1>5, <1>6, <1>7, <1>8, <1>9 DEF Next

\* Once everything is handled, what a sensor that listens says is what the
\* hardware says.
LEMMA QuietSensors ==
    ASSUME PresenceInv, Quiet, NEW s \in started
    PROVE  current[s] = Detects(s)
  <1>1. /\ alive /\ inbox = <<>> /\ HardwareKnown /\ SensorsTypeOK /\ s \in Sensor
        /\ \A g \in started \cap Gpio : edges[g] = <<>>
    BY DEF Quiet, PresenceInv, TypeInv, PresenceTypeOK, SensorsTypeOK
  <1>2. current[s] = Sees(s)
    BY <1>1 DEF HardwareKnown
  <1>3. CASE s \in Tach
    <2>1. \A r \in Rotor : TachOf[r] = s => value[r] = spinning[r]
      BY <1>1, EmptyTells DEF HardwareKnown, RotorKnown
    <2> QED
      BY <1>2, <1>3, <2>1 DEF Sees, Detects
  <1>4. CASE s \notin Tach
    <2>1. s \in Gpio /\ edges[s] = <<>>
      BY <1>1, <1>4 DEF Sensor
    <2>2. fetched[s] = level[s]
      BY <1>1, <2>1, EmptyTells DEF HardwareKnown, GpioKnown
    <2> QED
      BY <1>2, <1>4, <2>2 DEF Sees, Detects
  <1> QED
    BY <1>3, <1>4

LEMMA InvInventory == PresenceInv => InventoryFollows
  <1> SUFFICES ASSUME PresenceInv PROVE InventoryFollows
    OBVIOUS
  <1>1. PresenceTypeOK
    BY DEF PresenceInv, TypeInv
  <1>2. AnyOfFollows
    <2> SUFFICES ASSUME Quiet, NEW f \in AnyOf \cap monitored
                 PROVE  inventory[f] = \E s \in SensorsOf(f) : Detects(s)
      BY DEF AnyOfFollows
    <2>1. AnyOfInv(f) /\ inventory[f] \in BOOLEAN
      BY <1>1 DEF Quiet, PresenceInv, PoliciesFollow, PresenceTypeOK, SensorsTypeOK
    <2>2. \A s \in SensorsOf(f) : s \in seen <=> Detects(s)
      BY <2>1, QuietSensors DEF AnyOfInv
    <2>3. inventory[f] <=> \E s \in SensorsOf(f) : Detects(s)
      BY <2>1, <2>2 DEF AnyOfInv, AnyPresent
    <2> QED
      BY <2>1, <2>3
  <1>3. FallbackFollows
    <2> SUFFICES ASSUME alive, NEW f \in Fallback \cap monitored
                 PROVE  LET s == Methods[f][active[f]]
                        IN  /\ started \cap SensorsOf(f) = {s}
                            /\ inventory[f] = current[s]
                            /\ Quiet => inventory[f] = Detects(s)
      BY DEF FallbackFollows
    <2>1. FallbackInv(f)
      BY DEF PresenceInv, PoliciesFollow
    <2> DEFINE s == Methods[f][active[f]]
    <2>2. Quiet => current[s] = Detects(s)
      BY <2>1, QuietSensors DEF FallbackInv
    <2>3. s \in SensorsOf(f)
      BY <1>1, MethodsOf DEF PresenceTypeOK, PolicyTypeOK, Fallback
    <2>4. started \cap SensorsOf(f) \subseteq {s} /\ s \in started /\ inventory[f] = current[s]
      BY <2>1 DEF FallbackInv
    <2> HIDE DEF s
    <2>5. started \cap SensorsOf(f) = {s}
      BY <2>3, <2>4
    <2> QED
      BY <2>2, <2>4, <2>5 DEF s
  <1> QED
    BY <1>1, <1>2, <1>3 DEF InventoryFollows

LEMMA InvMissing == PresenceInv => MissingTimed
  <1> SUFFICES ASSUME PresenceInv, Quiet, "reporter" \in listeners
               PROVE  /\ missing \cup reported = {f \in ErrorFan : powerOn /\ ~inventory[f]}
                      /\ missing \cap reported = {}
    BY DEF MissingTimed
  <1>1. alive /\ inbox = <<>>
    BY DEF Quiet
  <1>2. /\ reporter
        /\ missing \cup reported = {f \in ErrorFan : powerOn /\ ~states[f]}
        /\ missing \cap reported = {}
    BY <1>1 DEF PresenceInv, MissingWatched
  <1>3. \A f \in ErrorFan : states[f] = inventory[f]
    BY <1>1, <1>2, EmptyTells DEF PresenceInv, FanKnown, Informed
  <1> QED
    BY <1>2, <1>3

LEMMA PresenceInvariant == Spec => []PresenceInv
  BY InitInv, NextInv, PTL DEF Spec

\* The inventory follows the sensors under both policies for every fan that is
\* monitored, whatever the order of signals, edges, timers, restarts and reloads,
\* those that fail before and after the policies are replaced among them
\* (AnyOf::stateChanged(), Fallback::stateChanged(), monitor(), sighupHandler()).
THEOREM InventoryTheorem == Spec => []InventoryFollows
  BY PresenceInvariant, InvInventory, PTL

\* Every conflict of the sensors of a fan is logged on a powered system, and
\* none is judged without power (checkSensorConflicts(), powerStateChanged()).
THEOREM ConflictsTheorem == Spec => []ConflictsFollow
  <1>1. PresenceInv => ConflictsFollow
    BY DEF PresenceInv
  <1> QED
    BY <1>1, PresenceInvariant, PTL

\* No EEPROM is bound for a fan that was removed since (bind(), unbind()).
THEOREM BindTheorem == Spec => []BindOnlyPresent
  <1>1. PresenceInv => BindOnlyPresent
    BY DEF PresenceInv
  <1> QED
    BY <1>1, PresenceInvariant, PTL

\* The fans that are timed or reported are those that are missing with the power
\* on, although the reporter learns of fans by signals (checkFan()).
THEOREM MissingTheorem == Spec => []MissingTimed
  BY PresenceInvariant, InvMissing, PTL

=============================================================================
