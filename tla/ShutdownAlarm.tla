----------------------------- MODULE ShutdownAlarm -----------------------------
(***************************************************************************)
(* The ShutdownAlarmMonitor of sensor-monitor                              *)
(* (shutdown_alarm_monitor.cpp) with its saved timestamps                  *)
(* (alarm_timestamps.hpp).                                                 *)
(*                                                                         *)
(* The daemon may die between two callbacks, and within one: what it saved *)
(* and requested so far remains, and a file that it was writing is lost,   *)
(* as load() removes one it cannot read.  While the daemon runs the file   *)
(* and its copy in memory are the same, `saved` stands for both.           *)
(***************************************************************************)
EXTENDS SensorBus, Integers

CONSTANTS
    ShutdownAlarm,  \* the alarms of the interfaces HardShutdown, SoftShutdown
    Delay,          \* the delay of each, in ticks
    MinAge          \* bound: how far saved times may be in the future

ASSUME ShutdownAlarmAssumption ==
    /\ ShutdownAlarm \subseteq Alarm
    /\ Delay \in [ShutdownAlarm -> Nat \ {0}]
    /\ MinAge \in Nat

VARIABLES
    known,      \* the keys of the map alarms
    timers,     \* alarm -> the time left, for timers that run
    expired,    \* alarms whose timer has expired, but exists
    saved,      \* alarm -> MinAge + the age of its timestamp by the clock
    since,      \* history: alarm -> the time since then, as the clock shows it
                \* that was set forward and not back
    passed,     \* history: alarm -> the time that passed since it was saved
    setBack,    \* history: alarms since whose timestamp the clock was set back
    requested   \* the alarms for which systemd was asked to power off

history      == <<since, passed, setBack>>
shutdownVars == <<known, timers, expired, saved, history, requested>>

\* A time for each of some alarms.
IsTimed(f) == DOMAIN f \in SUBSET ShutdownAlarm /\ f \in [DOMAIN f -> Nat]

ShutdownTypeOK ==
    /\ known \in SUBSET ShutdownAlarm
    /\ IsTimed(timers)
    /\ expired \in SUBSET ShutdownAlarm
    /\ IsTimed(saved)
    /\ IsTimed(since)
    /\ IsTimed(passed)
    /\ setBack \in SUBSET ShutdownAlarm
    /\ requested \in SUBSET ShutdownAlarm

-----------------------------------------------------------------------------
(* Timestamps                                                              *)

\* The timestamps of these alarms remain, those that are missing are added.
Timestamps(D) ==
    /\ saved' = [a \in D |-> IF a \in DOMAIN saved THEN saved[a] ELSE MinAge]
    /\ since' = [a \in D |-> IF a \in DOMAIN since THEN since[a] ELSE 0]
    /\ passed' = [a \in D |-> IF a \in DOMAIN passed THEN passed[a] ELSE 0]
    /\ setBack' = setBack \cap D

\* The delay of a new timer.  A timestamp that is not before the current time
\* counts for nothing.
SavedIgnored(a) == \* mutant: a restart begins the delay anew
    Delay[a]
SavedUnchecked(a) == \* mutant: the time left is not computed from the delay
    IF a \in DOMAIN saved THEN 0 ELSE Delay[a]
TimeLeft(a) ==
    IF a \in DOMAIN saved /\ saved[a] > MinAge
    THEN IF saved[a] - MinAge < Delay[a] THEN Delay[a] - (saved[a] - MinAge)
                                         ELSE 0
    ELSE Delay[a]

-----------------------------------------------------------------------------
(* Alarms                                                                  *)

HasTimer == DOMAIN timers \cup expired

\* checkAlarm() of each of the alarms read, of which those in `on` are set.
Started(read, on) == (read \cap on) \ HasTimer
Stopped(read, on) == (read \ on) \cap HasTimer

CheckAlarms(read, on) ==
    LET start == Started(read, on)
        stop  == Stopped(read, on)
    IN  /\ timers' = [a \in (DOMAIN timers \cup start) \ stop |->
                        IF a \in start THEN TimeLeft(a) ELSE timers[a]]
        /\ expired' = expired \ stop
        /\ Timestamps((DOMAIN saved \cup start) \ stop)

\* stopTimer() reads the value of the sensor, and throws if it is gone.
CanStop(read, on) == Stopped(read, on) \subseteq OnBus

\* powerStateChanged()
PowerOnAlarms ==
    /\ CheckAlarms(known \cap OnBus, asserted)
    /\ UNCHANGED <<known, requested>>

OffKeepsTimers == \* mutant: timers go on without power
    /\ Timestamps({})
    /\ UNCHANGED <<known, timers, expired, requested>>
PowerOffAlarms ==
    /\ timers' = [a \in {} |-> 0]
    /\ expired' = {}
    /\ Timestamps({})
    /\ UNCHANGED <<known, requested>>

\* propertiesChanged()
AlarmChanged(m) ==
    /\ known' = known \cup {m.alarm}
    /\ CanStop({m.alarm}, {a \in {m.alarm} : m.on})
    /\ CheckAlarms({m.alarm}, {a \in {m.alarm} : m.on})
    /\ UNCHANGED requested

IsShutdownSignal(m) ==
    m.kind = "changed" /\ m.alarm \in ShutdownAlarm /\ powerOn

\* What the monitor does with a signal; it knows none about interfaces that
\* are added or removed.
ShutdownHandles(m) ==
    \/ PowerChanges(m) /\ m.on /\ PowerOnAlarms
    \/ PowerChanges(m) /\ ~m.on /\ PowerOffAlarms
    \/ IsShutdownSignal(m) /\ AlarmChanged(m)
    \/ /\ ~PowerChanges(m)
       /\ ~IsShutdownSignal(m)
       /\ UNCHANGED shutdownVars

\* timerExpired(): after the value of the sensor was read.
ExpiresUnasked(a) == \* mutant: the timer is gone, the power stays on
    /\ a \in DOMAIN timers
    /\ timers[a] = 0
    /\ timers' = [b \in DOMAIN timers \ {a} |-> timers[b]]
    /\ expired' = expired \cup {a}
    /\ Timestamps(DOMAIN saved \ {a})
    /\ UNCHANGED <<known, requested>>
TimerExpires(a) ==
    /\ a \in DOMAIN timers
    /\ timers[a] = 0
    /\ a \in OnBus
    /\ requested' = requested \cup {a}
    /\ timers' = [b \in DOMAIN timers \ {a} |-> timers[b]]
    /\ expired' = expired \cup {a}
    /\ Timestamps(DOMAIN saved \ {a})
    /\ UNCHANGED known

-----------------------------------------------------------------------------
(* The life of the daemon.                                                 *)

\* The constructor: findAlarms(), and checkAlarms() and prune() if the power
\* is on, else clear().
NotPruned == \* mutant: timestamps of alarms that cleared meanwhile are kept
    LET start == {a \in ShutdownAlarm : a \in OnBus /\ a \in asserted /\ PowerRead}
    IN  /\ known' = ShutdownAlarm \cap OnBus
        /\ timers' = [a \in start |-> TimeLeft(a)]
        /\ expired' = {}
        /\ Timestamps(DOMAIN saved \cup start)
        /\ UNCHANGED requested
MonitorStarts ==
    LET start == {a \in ShutdownAlarm : a \in OnBus /\ a \in asserted /\ PowerRead}
    IN  /\ known' = ShutdownAlarm \cap OnBus
        /\ timers' = [a \in start |-> TimeLeft(a)]
        /\ expired' = {}
        /\ Timestamps(start)
        /\ UNCHANGED requested

MemoryLost ==
    /\ known' = {}
    /\ timers' = [a \in {} |-> 0]
    /\ expired' = {}

\* The daemon dies in a callback or the constructor: some of the timestamps
\* were added or erased, or the file is cut off.
DiesChecking ==
    /\ MemoryLost
    /\ \E D \in SUBSET ShutdownAlarm : Timestamps(D)
    /\ UNCHANGED requested

\* It dies in timerExpired(), the power off requested or not.
DiesExpiring(a) ==
    /\ a \in DOMAIN timers
    /\ timers[a] = 0
    /\ MemoryLost
    /\ \E D \in {DOMAIN saved, {}} : Timestamps(D)
    /\ \/ UNCHANGED requested
       \/ a \in OnBus /\ requested' = requested \cup {a}

DiesIdle ==
    /\ MemoryLost
    /\ UNCHANGED <<saved, history, requested>>

-----------------------------------------------------------------------------
(* Time                                                                    *)

\* A time grows by one, but nothing tells times beyond the given ones apart.
Longer(f, m) == [a \in DOMAIN f |-> IF f[a] < m + Delay[a] THEN f[a] + 1 ELSE f[a]]

\* Timers and timestamps age.
Tick ==
    /\ timers' = [a \in DOMAIN timers |-> IF timers[a] = 0 THEN 0 ELSE timers[a] - 1]
    /\ saved' = Longer(saved, MinAge)
    /\ since' = Longer(since, 0)
    /\ passed' = Longer(passed, 0)
    /\ UNCHANGED <<known, expired, setBack, requested>>

\* The system clock is set back: timestamps look younger, timers do not care.
ClockSetBack ==
    /\ \A a \in DOMAIN saved : saved[a] > 0
    /\ saved' = [a \in DOMAIN saved |-> saved[a] - 1]
    /\ setBack' = DOMAIN saved
    /\ UNCHANGED <<known, timers, expired, since, passed, requested>>

\* It is set forward: timestamps look older.
ClockSetForward ==
    /\ saved' = Longer(saved, MinAge)
    /\ since' = Longer(since, 0)
    /\ UNCHANGED <<known, timers, expired, passed, setBack, requested>>

-----------------------------------------------------------------------------
(* The monitor and its environment.                                        *)

InitShutdown ==
    /\ known = {}
    /\ timers = [a \in {} |-> 0]
    /\ expired = {}
    /\ saved = [a \in {} |-> 0]
    /\ since = [a \in {} |-> 0]
    /\ passed = [a \in {} |-> 0]
    /\ setBack = {}
    /\ requested = {}

\* The requests to power off are over when the power is.
ShutdownEnvironment ==
    /\ Environment
    /\ requested' = IF pgood /\ ~pgood' THEN {} ELSE requested
    /\ UNCHANGED <<known, timers, expired, saved, history>>

-----------------------------------------------------------------------------
(* Properties.                                                             *)

\* A delay that runs can be continued after a restart, and none is continued
\* that does not run: the running timers are the saved timestamps, whatever
\* order alarms, power changes and restarts came in (add(), erase(), prune()
\* and clear() against the timers).
StampedWhileRunning == alive => DOMAIN saved = DOMAIN timers

\* Without power no shutdown is under way (powerStateChanged() and
\* propertiesChanged()).
NoTimerWithoutPower == ~powerOn => HasTimer = {}

\* A shutdown never comes before its delay is over, through restarts, torn
\* files and clocks that are set back (startTimer()).  A clock that is set
\* forward counts as time that passes: a delay that is continued after it is
\* shortened by as much.
DelayPromise == INSTANCE ShutdownDelay WITH since <- since, requested <- requested
DelayKept == DelayPromise!DelaySpec

\* A restart does not begin the delay anew either: unless the clock was set
\* back, the time that passed counts, with the daemon down as well, and
\* whatever the clock was set forward.
DelayNotProlonged ==
    \A a \in DOMAIN timers \ setBack : timers[a] + passed[a] <= Delay[a]

\* A change of the alarm is on its way to the monitor.
Announced(a) ==
    \E i \in DOMAIN inbox : inbox[i].kind = "changed" /\ inbox[i].alarm = a

\* A delay that runs leads to the request to power off, unless the alarm resets,
\* the power goes off or the daemon dies: later changes of other alarms do not
\* restart it, and it is not lost.
ShutdownFollows ==
    \A a \in ShutdownAlarm :
      a \in DOMAIN timers /\ ~Announced(a)
        ~> (a \in requested \/ a \notin asserted \/ ~powerOn \/ ~alive)

=============================================================================
