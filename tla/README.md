# Verification of phosphor-fan-presence

TLA+ models of the daemons in this repository, model-checked with TLC on small
configurations, with theorems proved by TLAPS for every configuration.

phosphor-fan-presence is a set of single-threaded C++ daemons around an sd-event
loop, configured by JSON files: D-Bus signals, expired timers, SIGHUP and power
changes run callbacks, one after the other. The hard part is not a race of
threads but the *order of callbacks*: timers that outlive the state they were
started for, signals that arrive in a phase nobody thought of, restarts and
reloads in the middle of a sequence, writes that fail half way.

## 1. Inventory

| Component (source) | State | Operations | Talks to |
|---|---|---|---|
| Fan fault detection (`monitor/fan.cpp`, `tach_sensor.cpp`) | per sensor: functional, owner, input, target, method timer, count timer, counter, error timer; per fan: present, functional, monitor and missing timers | tach, target, owner and presence signals, timers, power on and off | trust groups, System |
| Trust groups (`monitor/trust_manager.hpp`, `trust_group.hpp`, `nonzero_speed_trust.hpp`) | trusted flag | judge a sensor before it is processed | tach sensors |
| Monitor System (`monitor/system.cpp`) | fan health map, last error, service matches | load, SIGHUP, owner signals, errors, power changes | fans, rules |
| Power off rules (`monitor/power_off_rule.hpp`, `power_off_action.hpp`, `power_off_cause.hpp`) | active, delay timer, meltdown timer, thermal alert | check, cancel, timers | fan health, power interface |
| Multi-chassis monitor (`monitor/zone.cpp`, `chassis.cpp`, `multichassis_system.cpp`) | the same per chassis | the same | the same |
| Control zone (`control/json/zone.cpp`) | target, floor, increase and decrease deltas, base, active, holds, blocked changes | set target, increase, decrease, floor, holds | control fans, actions |
| Control fan (`control/json/fan.cpp`) | target, locks | set target, lock, unlock | D-Bus Target properties |
| Control actions (`control/json/actions/`) | counts, hysteresis, own timers, own locked flag | `run()` on a zone | manager cache, zone |
| Control manager, events, triggers (`control/json/manager.cpp`, `event.cpp`, `triggers/`) | object cache, service owners, timers, signals, profiles, parameters | load, signal, timer, power change | everything in control |
| Legacy control (`control/zone.cpp`, `manager.cpp`, `fan.cpp`) | as the JSON zone | as the JSON zone | the YAML-generated tables |
| Presence (`presence/anyof.cpp`, `fallback.cpp`, `error_reporter.cpp`) | presence per detector, conflict flags, missing timers | detector changes, power changes, timers | inventory, logging |
| Sensor monitor (`sensor-monitor/`) | alarm timers, persisted timestamps, cached thresholds | property changes, timers, power, restart | logging, power off |
| Power state (`power_state.hpp`) | last power state | D-Bus signals | all daemons |
| Cooling type, fanctl, generators, FFDC | none that outlives a call | one-shot programs, output | |

What makes each of them correct:

* **Fault detection**: the fan state and the health the rules see always match
  the sensors; faults that last are found and recoveries that last clear them;
  a fault error is never logged for a sensor that recovered; a sensor that
  merely left D-Bus does not shut the system down.
* **Rules**: one power off per cause; nothing under way without power; a cause
  that ends stops its delay, one that begins starts it.
* **Zone and fans**: holds win over the automatic control and are undone when
  released; the fans of a zone agree with it through locks, restarts and
  reloads; the automatic control stays within floor and ceiling.
* **Presence**: a conflict is judged only on a settled system; a missing fan is
  reported once, and only if it is missing.
* **Sensor monitor**: a shutdown delay is neither lost nor restarted by a
  restart of the daemon; every alarm is logged once.
* **Control manager**: the cache and the owners agree with D-Bus; a reload
  leaves no timer or subscription of the old configuration.

The hazards of the code that a property covers, each at its line, are in
`PROJECT.json`; those that no property covers are in section 6.

## 2. Plan

1. `FanMonitor`, `PowerOffRule`, `MonitorSystem` - done. The part that powers a
   system off or blames a fan comes first.
2. `ControlFan`, `ControlZone` - done.
3. `ShutdownAlarm` and `ThresholdAlarm` over `SensorBus`, composed by
   `SensorMonitor`; the abstract specification `ShutdownDelay` and the proof
   that the monitor implements it - done.
4. `PresenceSensors`, `PresencePolicy`, `MissingFans`, composed by
   `FanPresence` - done.
5. `ObjectCache`, `ControlActions`, composed by `ControlEvents` - done.
6. `LegacyActions`, `LegacyZone`, the build from YAML - done.
7. `MultiChassis`, which uses `PowerOffRule` per zone - done.
8. `MonitorSystemProofs`: the fault detection and the rules together - done.
9. `SequenceProofs`, and with its lemmas on queues `FanPresenceProofs`,
   `MultiChassisProofs` and the logger in `SensorMonitorProofs`; the latch, the
   trust groups and the armed delays of the monitor; the reloads of the zone - done.
10. `ControlEventsProofs`: the event cache, the services that are down, the floors of
   counts, and the floors that follow parameters and maps - done.
11. `LegacyZoneProofs`: the mode, the types, the events and full speed that
   preconditions and alternate events switch, and the floor and the ceiling - done.

Left: the full fault detection in `MultiChassis` (`FanMonitor` per zone) with the rules as
a refinement of `MonitorSystem`; the zone's thermal mode in the JSON build; `override_fan_target`,
`get_managed_objects` and profiles.

## 3. Modules and the code

**`FanMonitor`** is the fault detection with the dispatching half of `System`.
Each action is a callback: `TachSignal`, `TargetSignal`, `OwnerSignal`,
`TimerExpired` (the timer of the method timebased), `CountTimerExpired`,
`ErrorTimerExpired`, `MissingTimerExpired`, `StartMonitor`,
`PresenceIfaceAdded`, `PresenceChanged`, `PowerOn`, `PowerOff`, `Reload`. A
callback that loops over sensors with state changes in each iteration fills
`todo`, and nothing but the next iteration can happen until it is empty; the
order of the sensors in such a loop is left open, as it is the order of the
configuration. `process()`, `updateState()`, `setFunctional()`, `checkTrust()`
and `setCounter()` are the operators `Process`, `UpdateState`,
`ErrorTimerAfter`, `Judge`, `Incremented` and `Decremented`. A tach reading is
kept as two booleans, in range of the target and turning. The rule check at the
end of a callback is the output `check`. External: `ServiceChange`, a sensor
service that comes or goes; its NameOwnerChanged signal is delivered later.

**`PowerOffRule`** has the causes, rules and the hard, soft and epow actions;
**`MonitorSystem`** composes it with `FanMonitor`: every fault detection step
hands its `check` and the health to the rules in the same step, as the code
calls them synchronously.

**`MultiChassis`** is the monitor for several chassis: the property Available
(`Chassis::init()`, `availableChanged()`, `availIfaceAdded()`), zones that are
created and destroyed with it, their fans, their rules (the operators of
`PowerOffRule`) and a power state per chassis. What the fault detection makes of
a tach is a choice there. `MultiChassisSystem` is not started by `main.cpp`; the
unit tests use it.

**`ControlFan`** describes fans by their `_target` and locks and says what a
write leaves on D-Bus if it succeeds or fails. **`ControlZone`** has the Zone
object as the record `zone`, with pure operations (`SetTarget`, `Increase`,
`SetFloor`, `SetFloorHold`, `SetTargetHold`, `Decrease`) named after the member
functions, and one action per callback that reaches the zone. `Returns(z)` is
the end of a callback: all the writes are done, or the first that fails makes
the daemon exit (`main()` returns 1 and the service is restarted). `Load` is
both the start and the reload. What an action computes from its groups is an
input. `reloadFailed` is a history variable: a failed reload of the loaded zone.
The closed form of `Loaded` stands for the loop in `Manager::load()`: it
was compared with a transcription of that loop over all readings 0 to 3 of four
fans.

**`ObjectCache`** is the manager's cache of services and properties,
**`ControlActions`** six actions that hold a target or a floor or set a
parameter, as operators on a record `d` of the daemon's state, and
**`ControlEvents`** the events: `load()` enables their triggers one by one
(`Enable` steps, between which D-Bus goes on changing; `todo` has the positions of those
that are left in the configuration), afterwards signals, timers and power changes run the actions. A signal is queued only if it
was subscribed to before it was sent. `set_parameter` runs the actions of other
events inside the callback, as the code does.

**`LegacyActions`** and **`LegacyZone`** are fan control built from YAML:
`z` is the record of the Zone object, an event has the names of the generated
functions as its actions, `initEvent()`, `removeEvent()` and the preconditions are
operators on `z`. The start enables event after event, and D-Bus changes in
between are seen or not as the code has it. The thermal mode and its file are
there with their restore at start. The services of members are found as the code finds them:
`tree` has the members whose service is cached (`_servTree`). `LookUp` asks the mapper for all
objects with an interface of which a member is not cached, and a member that is not on
D-Bus then stays without a service, which counts as a missing owner. `matched` has the members
whose service is watched: the match strings are made with the static tables of the program,
for the objects that are on D-Bus at that moment. `defaulted` is a history variable: the floor
was last set by `default_floor_on_missing_owner`.

**`SensorBus`** holds what the two monitors of sensor-monitor share: the power
state, the queue of signals and the sensors. **`ShutdownAlarm`** has the timers
and the saved timestamps, with a system clock that may be set back or forward, time that
passes with the daemon down, and deaths between the steps of a callback.
**`ThresholdAlarm`** is the logger with its cache. **`SensorMonitor`** composes
them. **`ShutdownDelay`** is what the shutdown monitor promises: a delay, as long
as it is not ended, is over after its time and not before. `DelayPromise`
(`INSTANCE ShutdownDelay WITH ...` in `ShutdownAlarm`) maps it to the variables of the
monitor, and `DelayKept` says that the monitor implements it. History variables keep three
things about a delay that began: `passed` is the time that passed, `since` is that together
with what the clock was set forward, and `setBack` says that the clock was set back. The
promise is about `since`: a clock that is set forward while the daemon is down shortens the
delay that is continued after it (`startTimer()` believes the clock), and nothing else does.
That a delay is not prolonged is about `passed`.

**`PresenceSensors`** are tachometers and GPIOs with what they last reported,
**`PresencePolicy`** the policies `AnyOf` and `Fallback` with the EEPROM driver,
**`MissingFans`** the error reporter, **`FanPresence`** the daemon with reload and
exit. A reload succeeds (`Reload`), fails before the policies are replaced (`ReloadFails`), in
the constructor of the reporter (`ReporterFails`) or in `monitor()` of a fan (`MonitorFails`),
those `Before` it in the configuration being done;
`sighupHandler()` catches all of these, and the daemon goes on. The history variable
`monitored` has the fans whose `monitor()` was done, the only ones of which the inventory can
be expected to follow the sensors. After a reload the callbacks of destroyed objects remain registered with
the power state: `listeners` are those whose object lives, and the call of
another one may end the daemon or do nothing (undefined behaviour).

The modules `...Proofs` hold the theorems, the modules `MC...` the instances for
TLC. Operators marked "mutant" are plausible errors of the code; each is the
reason to believe that a property would notice.

## 4. Runs

| Run | Instance | Shows |
|---|---|---|
| `count` | one fan, two rotors of the method count with threshold 2 sharing a target, latched, errors after two faults and for missing fans | `TypeOK`, `HealthMatches`, `ErrorOnlyForFault`, `LatchedWhilePowered`, `MissingFanTimed` |
| `live` | two fans, one of each method, on one service, one latched | `FaultFound` (count), `FaultCleared` (timebased) |
| `rules` | one fan with two timebased rotors, a hard, an epow and a soft pgood rule | `QuietWithoutPower`, `OnePowerOffPerRule`, `MissingFansActedOn`, `FanFollowsSensors` |
| `stable` | two fans in a trust group, two rules, services stay up | `ArmedWhileSatisfied`, `TrustDecides` |
| `chassis` | two chassis with a zone, a fan and a rule each, one of which comes and goes | `MonitoringFollows`, `RulesFollowFans` |
| `zone` | two fans with three sensors, two target holds, two floor holds, two locks, writes may fail | the zone's properties |
| `events` | three configurations of two or three events with all triggers and all six actions, two services | `CacheInv`, `MissingServicesHeld`, `CountHeld`, `FloorsFollow` |
| `legacy` | three zone definitions with ten events between them, members on three interfaces and services | `FullWhenUnmatched`, `EventsFollowState`, `LimitsFollow`, `ModePersists` |
| `sensors` | a shutdown alarm with a delay and a threshold alarm on two interfaces | the monitors' properties, `DelayKept` (refinement), `ShutdownFollows` (liveness) |
| `presence` | a fan with `AnyOf` on two tachometers and an EEPROM, one with `Fallback` on a GPIO and a tachometer; the first has an error time | `InventoryFollows`, `ConflictsFollow`, `BindOnlyPresent`, `MissingTimed` |
| `floor`, `startup` | the instances of `zone` and of `chassis` | a comment of the code that the code does not keep |

Properties whose name stands for several (`LoggerInv`, `InventoryFollows`,
`ConflictsFollow`, `CacheInv`, `LimitsFollow`, `MonitoringFollows`,
`RulesFollowFans`) are the conjunction of the named properties above them in their
module, with the types of the module.

**Bounds.** All are CONSTANTS.

* Fault detection: two sensors are the fewest for which a fan can be partly failed
  and for which a shared target, a trust group and a loop over sensors matter; two
  fans are needed only where state is shared between fans. Threshold 2 is the
  smallest with a value that is neither 0 nor the limit. `MaxPending` bounds
  the NameOwnerChanged signals that wait. With 2, in `live` and `rules`, a service can stop
  and start again before either is handled. With 1, in `count`, a signal is late, a
  service is gone when the signal says it came, and callbacks run in between. With 0, in
  `stable`, the services never change.
* Rules: one member of each action type, cause and state.
* Zone: targets 1 to 5 with the ceiling at 4, so there are holds and floors above
  and below it; increases of 1 and 3 can be pending on each other; the first fan
  has two sensors, of which the one read at startup is written first, and one of the
  locks leaves that fan alone: then a reload that fails can leave it, and not the
  locked one, at another target; 0 is not among the targets, see below.
* Events: `MaxDisturbances` = 3 changes of services, power or configuration; two
  values per property. A configuration has the events that act on each other: a
  parameter that is set by one and triggers another, a count and a hold on the same
  sensors, an event that is gone after a reload. Two are needed for a change during
  a load and one after it; the third is the reload.
* Legacy: `MaxChanges` = 3 around a start, the values 0 to 3 around the states 2 and
  3 of the events: a service ends, comes back, and a value of its changes, or a member that
  is missing at the start appears. One temperature is not on D-Bus at first although its
  service is up.
* Sensor monitor: a delay of two ticks, `MinAge` = 1 (the clock is set back by one),
  two waiting signals. Two ticks are the fewest for which a delay can be partly
  over at a restart.
* Presence: two waiting signals, one waiting edge per GPIO; two sensors per fan, so
  that one may contradict the other.
* Chassis: `MaxChanges` = 4: a chassis leaves, comes back, its power changes, and one
  change is left for a fan or a reload.

**Fairness**, only in `live` and `sensors`. `live`: a callback runs to its end
(weak fairness of `LoopStep`), and the event loop serves its sources in turn, so a
running method timer expires and a queued signal is delivered (strong fairness,
because the loop of another callback disables them for a while). `sensors`: the event
loop delivers waiting signals, time goes on and an expired timer is served (weak
fairness of `Receive`, `Tick` and `Expire`). Nothing is assumed of the environment: no
signal has to come, and the daemon need not be restarted. Each liveness property says
that *if* a condition holds, or goes on holding, the state settles.

Deadlock is not checked where the changes of the environment are bounded (`events`,
`legacy`, `chassis`, `startup`): with the last change used up, and nothing running, the
system waits.

### Where code and documentation differ

Two runs end in a counterexample, one finding each in `PROJECT.json`:

* `floor`: a floor raised while an increase is pending does not raise the target
  (`control/json/zone.cpp:318`).
* `startup`: the rules of a new zone count every fan as missing, as its health is
  recorded before its presence is read (`monitor/zone.cpp:451`).

Met while modelling. These have no run of their own; the models have the behaviour
unless the list says otherwise.

Monitor: a timebased rotor that left its range again before its functional timer
expired becomes functional, and is not looked at again if its tach stays. A rotor of
the method count that is nonfunctional while its count timer does not run is not
cleared, as the in-range path never starts the timer (`fan.cpp:317`, against the
comment at 247). Rotors that left D-Bus start a power off at the next rule check
(`system.cpp:334`, against `fan.cpp:424`). SIGHUP loses a running meltdown timer. A
power cycle makes a latched fan functional. `presenceIfaceAdded()` does not stop the
missing fan timer of a fan that is present. A service lost during the monitor start
delay has its sensors judged before monitoring begins. A count sensor is not processed
when its trust group regains trust. A fan of the method count with
`set_func_on_present` is not found faulty again if the service of its sensors was not
matched.

Several chassis: a PGoodState for chassis N reads `power<N>` but matches the signals of
`power0`. `subscribeSensorsToServices()` in `init()` runs before the fans have sensors.
The thermal alert is shared by the chassis, and a hard power off always acts on
`chassis0`. `inventoryOnlineCb()` resets its match on any signal of the kind. "No conf
file found at power on" ends the daemon. A reload that fails has already dropped the
chassis when the log says that nothing changed.

Zone: a failed write and the restart leave the two sensors of a fan at different targets
(`json/fan.cpp:128`). A fan that reads target 0 when the zone is loaded does not follow
the zone; a reload while a fan is locked spreads the lock's target to the zone; if that
reload fails half way, other fans are left at the lock's target on D-Bus, while the zone
that is kept has the old one (the log says "no changes made", `json/manager.cpp:96`); with a
request target base below the target, an increase lowers the target; a floor hold that
changed while floor changes were blocked is not applied when they are allowed again.

Events: a second property of an interface is not subscribed to when it is added, against
`docs/control/events.md` ("interfaces_added"; `signal.cpp:131`). The subscriber `member`
moves its signal package in a loop (`signal.cpp:231`). A timer that was not enabled
releases no hold (`timer_based_actions.cpp:122`, against `events.md:522`). The delayed
`count_state_floor` holds the floor of the first zone only. Oneshot timers of one event
name erase each other (`manager.cpp:756`). `_parameterTriggers` refers to destroyed
actions after a reload (`manager.cpp:828`). A reload that fails in the middle says "no
changes made" (`manager.cpp:96`). The list of PCIe cards is read once. `_locked` of
`override_fan_target` is shared by the zones, and the static
`_speedFromGroupsMap` of `target_from_group_max` by all its instances.

Legacy: `setSpeed()` of a group is lost while another group holds the zone. A oneshot
timer that expired is taken away by the next call instead of started
(`actions.cpp:14`). The timers of `call_actions_based_on_timer` are stored under
`__func__` and not removed with the event. A precondition that is evaluated again
subscribes its events again. Entries of `_decAllowed`, `_active` and `_floorChange` of
removed events stay. Speeds set by init actions before `setActiveAllow(true)` are
lost. `_ceilingKeyValue` starts at 0, so a value of 0 is not seen as a first one. A service
is not watched if none of the group's members was on D-Bus when the program started
(`matches.hpp:72`), so the actions on missing owners never hear of it, against
`actions.hpp:57` ("if any service owners are missing"). A member that was not on D-Bus when an
owner was asked for leaves the floor at the default after it appears, until the next owner
signal of the group.

Presence: see `listeners` above; after a reload the policies are not told of the power. A
reload that fails in the constructor of the reporter or in `monitor()` logs "no config changes
made" (`json_parser.cpp:98`), but the fans and policies were replaced (`json_parser.cpp:202`),
and those that were not started yet never are.

## 5. Proofs

The assumptions are the ASSUMEs of the modules; TLC evaluates them in every run.

**`MonitorSystemProofs`** proves first, of `FanMonitor` with its `Spec`, for all fans,
sensors, services, thresholds, methods and trust groups:

* `TypeCorrect`: `TypeOK`, with one lemma per group of handlers. The bound of
  the counters (at most the threshold) is part of it.
* `HealthCurrent`, `FanStateFollows`, `ErrorsWithdrawn`: from the invariant
  `StateInv`, their conjunction. They have to be proved together: the rules'
  health and the fan's state are updated in one step from the same sensors, and
  to show that a step which makes one sensor functional leaves the fan right
  needs that the fan was right before, by counting the nonfunctional sensors
  (`MoreFunctionalFewerFailed`). Cardinalities need `FiniteSensors`.
* `MissingFansAreTimed`: `MissingFanTimed`, an action property. It rests on
  `PhaseInvariant`: a powered fan is either monitored or waits for its start delay, an
  unpowered one is neither, and has no missing fan timer.
* `LatchIsKept`: `LatchedWhilePowered`, an action property. One lemma per group of
  handlers shows that a latched fan stays nonfunctional through it, whichever sensor
  recovers and whether the fan is present or not; it needs only the types. The only step
  that puts it back on a powered system is `PresenceChanged(f, TRUE)`.
* `TrustIsDecisive`: `TrustDecides`, if `MaxPending` is 0, that is if no
  service comes or goes while the daemon runs. Without that it is false: a service that
  is lost has its sensors judged without the trust group. The invariant `Steady` adds
  that no loop over the sensors of a service is under way, that all sensors have an owner,
  and that sensors of the method count do not use the method timer. `TrustedJudged` (a timebased
  sensor that is judged by its own target and is in its range has the timer its state asks
  for, also after the trust was lost and regained) is inductive with that.

Its second half proves of `SystemSpec`, the fault detection with any rules:
`RuleTypeCorrect`, `QuietWhilePowerIsOff`, `OnePowerOff`, `MissingFansAreActedOn` and
`DelaysAreArmed`.
The argument goes through what a step asks of the rules: `AskedInOrder` says that a step
that asks nothing changes neither the power nor, with the power on, a presence, that checks
and power offs are asked for on a powered system and cancels without power. Every step of
the fault detection does so (`NextAsks`). Then each operation on the rules keeps the
invariant `RulesInv`; for missing fans this needs `HealthMatches` before and after the
step, from the first half: a rule is checked on the health, and what must not change
unnoticed is the presence. `DelaysAreArmed` (`ArmedWhileSatisfied`, with `MaxPending` 0
as above) goes by what a step that asks nothing may do: the health only gets worse and
the missing fans stay (`HealthWorsens`, `SilentWorsens`), and what a cause counts only
grows when it does (`WorseSatisfied`, on finite sets of rotors and fans).

**`ControlZoneProofs`** proves of `ZoneSpec`, for all fans, actions, targets and
holds, with failing writes and restarts, `ZoneTypeCorrect`, `HoldsAreKept`,
`LocksAreKept`, `IncreasesSettle` and `AutoIsBounded`. Its inductive invariant is the
conjunction of the types, of `HoldsWin`, `IncreaseSettles` and `LockedAtHighest`; the
operations of the zone have one lemma each, and every callback is an operation followed
by `Returns`. A maximum of targets exists because targets are bounded (`MaxTarget`, the
largest `uint64_t`). From the same invariant follows `AutoWithinBounds`, with a lemma for
what an increase and a decrease do to the target. The types of the zone are proved, not
run.

Its second half proves `FansFollow` (`FansFollowZone`) from one more
condition, `PositiveTargets`: no configured target, floor or read target is 0.
It is needed: `load()` takes a fan that reads 0 for one without a target, so a
fan that a failed write left at another target than 0 would not be followed by
one that reads 0. The invariant adds that every target in the zone and on
D-Bus is positive. The part that takes an argument is `LoadedFollows`: a fan
that reads another target than the fan that joins last is followed by one where
the target of the zone changes, and is set there (`RewrittenFan`).
`ReloadsKeepTarget` (`ReloadKeepsTarget`) needs in addition that there is a fan, without
which no target is read, and `ReadsOwnSensor`. Its invariant `SyncInv` says that with no
reload failed the sensor that is read for a fan is at the target the zone knows for it. Without the
condition on failed reloads the property is false (section 4), which the attempt to prove
it brought to light.

**`SensorMonitorProofs`** proves of `SensorSpec`, for all alarms, delays and interfaces:
`TimersAreStamped`, `DelayContinues`, `QuietWhenOff`, `ClearsFollowSets`,
`LoggerFollows` and the
refinement `DelayIsKept`, that the monitor implements `ShutdownDelay`. The invariant
`DelayInv` relates timer, saved timestamp and the time since the delay began: what is left
of a running timer and what has passed by the clock are at least the delay, and the saved time
is not before the beginning, also with the daemon down. From it every step maps to a step of
`ShutdownDelay` or to a stutter (`StepRefines`): the only step that could break the promise
is an expiry, and by then the timer is at 0. `DelayContinues` is the other direction: unless
the clock was set back, a timestamp is at least as old as the time that passed (`PassedInv`).

`LoggerFollows` (`LoggerInv`) is about the other monitor: what the logger knows of an
alarm lags behind D-Bus, but the last of the signals that wait about it tells how it is.

**`SequenceProofs`** has the lemmas that several components share: those on queues for
that argument, `Waits` and `LastTells` after a signal is appended and after the first is
taken, and those on finite sets and folds. What a handler does is often a fold of
operations over a group, over actions or over events. Operators cannot be parameters of a
lemma here, so a fold is taken for a function on the subsets of its elements:
`FoldExists` shows that there is one, `SubsetInduction` and `LeftInduction` what holds of
its values.

**`FanPresenceProofs`** proves of the presence daemon, for all fans, methods and policies,
with edges and signals that wait, reloads that fail at any point and restarts, `InventoryTheorem`,
`ConflictsTheorem`, `BindTheorem` and `MissingTheorem`. The assumptions are that a fan has
at least one method, that no sensor is used twice, and that no fan is before itself. They follow from one invariant,
`PresenceInv`: what is waiting about a sensor or fan tells how it is (`HardwareKnown`,
`FanKnown`), the policies agree with their sensors and the inventory with the policies,
conflicts and missing timers with both. `FanKnown` also holds while there is no reporter:
a reload that fails leaves none, and the next one that succeeds is told by what waits.

**`MultiChassisProofs`** proves `ZonesFollow` (`MonitoringFollows`) and `RulesOfZones`
(`RulesFollowFans`) for all chassis, zones, fans and rules, with finitely many fans
(`FiniteFans`; the rules count them). `ChassisInv` relates a zone, its fans, their health
and the rules, one lemma per callback; `AvailInv` adds that a running daemon has the zones
of a chassis as the property Available has it, or that a signal that waits says otherwise.

**`ControlEventsProofs`** proves of the events of the JSON build, for any services,
interfaces, events, actions and triggers:

* `CacheIsKept` (`CacheInv`). The invariant `CacheState` has the types, that the signals
  that wait are signals of the model, and `Followed`: for an object of which no change was
  missed the cache shows what is on D-Bus, or the last signal about it that waits does.
* `MissingServicesAreHeld` (`MissingServicesHeld`), if `OwnerEventsHold`: every event that
  watches owners has an action that depends on them and the trigger that asks for owners,
  and that comes after the one that watches. The configurations of `events` meet this
  (`McEventsHold`). The second invariant, `HoldState`, says that only services of known
  members are watched, that an event has not asked while it still has to watch, that the last
  signal that waits about an owner is true, and (`DownHeld`) that an event which watches and
  has asked holds its target for a service that is down, or the signal that makes it do so
  waits. The difficult case is a service that comes and goes while signals wait: a hold is
  given up when the first signal is handled, although the service is down again, and
  `LastExists` has the signal that restores it. After a load that was given up the daemon
  may believe in an owner it missed the end of; there the invariant speaks of services that
  are not in `lost`.
* `CountsAreHeld` (`CountHeld`), if `CountEventsHear`: an event that counts has the triggers
  that read its group and tell it of changed and added values, and does not read it when the
  power changes (`McEventsHold` again). The third invariant, `CountState`, says that the
  floors of a count are its own, that a load leaves only triggers of the last event or of
  later ones, and (`ReadyCounted`) that an event which has read its group, and behind whose
  back nothing was read, has the floor or the delay of the values cached (`Counted`).
  What runs for other events, and what parameters trigger, keeps that (`KeepsCount`), and
  values that are forgotten cannot raise a count (`ForgottenCounted`). An earlier form of the
  property said that the floor goes as soon as the members' interfaces are back. The proof
  attempt refuted it: a signal about an owner that was sent before a reload is handled after
  it and forgets values without running the event, and a member whose value is NaN from then
  on does not tell. The bounds of `events` do not reach this; the property now asks for values.
* `FloorsAreFollowed` (`FloorsFollow`), if `FloorEventsHear`: an event that maps a floor or
  sets a parameter (a follower) has the triggers that read its group and tell it of changed
  and added values, its group has all objects and its parameter triggers all parameters it
  computes from, and no two of a configuration set the same parameter. No other event hears
  of the removal of a follower's interface when the follower does not, watches the owner of
  a follower's service, or runs at the same power change (`McEventsHold` again). The
  reasons: the last event that sets a parameter wins; a signal for another event takes
  values out of the cache without running the follower, and is not counted as missed; at a
  power change each event reads its group before its action, so a later one may read what
  an earlier one has computed from. The fourth invariant, `FollowState`, says that a
  trigger of the configuration is to enable or enabled (`AllListed`), that owners, timers
  and cards wait for events of the configuration only (`InConfig`, so nothing of an earlier
  load), that an enabled parameter trigger is told of all its parameters (`Hooks`), and
  (`ReadyAgree`) that a follower which has read its group, and behind whose back nothing was
  read, `Agrees` with the values cached: its floor or its parameter is what the action
  would compute now, or its cards still settle, or one of them was not found. In the middle
  of a handler that needs the triggers too (`Obeys`), because a parameter that changes
  leaves a floor behind until its trigger has run it. `Moves(f, g, E)` says what events `E`
  do to the others: one that obeys in `f` obeys in `g` unless its objects were read. Runs of
  single events (`RunKeeps`, `SettleExpiredKeeps`), the caches (`CachesMove`) and their
  folds (`RunAllMoves`, `ReadAndRunMoves`) move in this way, and `MovesTrans` chains them:
  an object becomes only what is on D-Bus, so one that is the same in the end was the same
  in between.

What a handler does to the caches is a fold of operations over a group or over the events
of the configuration. The operations have one lemma each, in terms of four sets: `Sound`, the states of the right type; `Learns(f)`, what
asking D-Bus may make of `f`: each object is cached as it was or as it is on D-Bus, services
are added, and what is held for a service that is down, or for a count, stays held
(`KeepsHolds`, `KeepsCounts`);
`Reads(f)`, where no owner is forgotten; `Acts(f)`, where the properties are not touched.
The sets are closed (`LearnsTrans`, `ReadsTrans`, `ActsTrans`), so that a whole handler is in
the set of its steps.

The assumptions are those of the code's types: values, events and parameters are finite,
`std::map` has one event of a name, floors are unsigned, and each action has the attributes
of its kind. One is a bound of the model: an event that a parameter triggers does not set a
parameter, as otherwise `setParameter()` would call itself.

**`LegacyZoneProofs`** proves of the build from YAML:

* `ModeIsKept` (`ModePersists`), for any zone definitions: the mode on D-Bus is always the
  one that a start would restore (`ModeInv`), so a start does not change it. No action of
  an event reaches the mode.
* `ZoneIsTyped` (`LegacyTypeOK`, a conjunct of `LimitsFollow`), for any zone definitions:
  no callback takes a speed below 0 or holds a group that no event has.
* `EventsAreSwitched` (`EventsFollowState`) and `FullSpeedIsHeld` (`FullWhenUnmatched`), if
  `SwitchesAlone`: an event with the precondition `property_states_match` or with
  `use_alternate_events_on_state` (a switch) does one thing, from the start on, and its
  group and the events it switches are its own. The other events may do what they want, as
  often as they want. The definitions of the run meet this (`McSwitchesAlone`). The
  reasons: the group is the key of what `setActiveAllow()` remembers, so another event with
  the same group may let go of the fans; another event that reads a member of the group
  updates the cache without running the switch; a switch without the trigger `init` waits
  for its first signal.

The invariant `ZoneInv` has the types and `SwitchInv`: every enabled switch is `Switched`,
that is, its events are enabled as the values cached have it, and without a match its
group holds the target at full speed. To show that what is done for one event leaves the
switches of others alone, `Steps(y, G, C)` are the zones that differ from `y` neither in
the values cached and the holds of the groups of `G`, nor in which events outside `C` are
enabled. Each of the zone's operations and actions is such a step, the set is closed
(`StepsTrans`), and so are the handlers, which are folds of them; events enable and
disable events only one level deep, as the generated code does. What a switch itself does
(`RunSwitches`) brings it to the values cached, whatever it was before. The hold needs
the target in the invariant: `setSpeed()` of others is refused only because the group is
not active, and a decrease or increase only because the zone is not.

* `LimitsAreKept` (`LimitsFollow`), if `LimitsAlone`: of the events of a zone definition
  only one has an action that sets the floor from a median, the default floor on a missing
  owner, or the ceiling, in its one part and with the trigger `init`; no timer sets these
  limits; the event hears of owners for the default floor, of values and interfaces for
  the others, and no event that enables or reads late shares its members. The definitions
  of the run meet this (`McLimitsAlone`). The reasons: the zone has one floor and one
  ceiling, so the last action that sets one wins, whatever the values of the others; and
  an event that reads a member of the group without the action leaves the limit behind.

Its invariant `LimitInv` says of each limit: an enabled event either still has a signal to
handle (`Waiting`) or the limit is right for the values cached. In between the ceiling has
to be `Sane`, that is, the speed of a key next to the average it was computed from last
(`ceilingKey`), because `swapCeilingKeyValue()` looks only at the keys that were crossed
since then (`CeilingNext`: from any such ceiling it finds one that is next to the new
average). While the zone starts, other events may still read the group, so the cache must
show what is on D-Bus (`Shows`) and reading it again must change nothing. What is done for
other events leaves the set of such zones in no step: the lemmas of "Sets of zones that the
callbacks do not leave" carry that through every fold of the handlers, for any set that is
closed under the single actions and reads.

Only model-checked:

* Liveness (`FaultFound`, `FaultCleared`, `ShutdownFollows`): the proof system has no
  support for it here.

## 6. Not modelled

* JSON parsing and the generators (their result is the CONSTANTS), profiles, the dump on
  SIGUSR1, the wording of errors and FFDC (`fan_error.cpp`), logging, `fanctl`, the cooling
  type program: output, or programs that run once and keep no state.
* Times in the monitor and in fan control: a running timer may expire at any moment.
* The values of targets in the monitor: their effect is `inRange`.
* Several trust groups per sensor.
* The wait of `DELAY_HOST_CONTROL` and the second look at the sensors when none is on D-Bus at
  power on (`monitor/system.cpp:380`): the option is 0 by default (`meson.options`), and
  the models have that build.
* A load of the monitor that fails half way. `load()` clears the fans before `setFans()`
  and `setFaultConfig()`, which may throw (`monitor/system.cpp:99`): `sighupHandler()` then
  logs that no changes were made.
* Overflow of 64 bit targets.
* In the zone, the init triggers of the events run right after `Load` as callbacks of
  their own.
* The persisted thermal mode of the JSON zone (`control/json/dbus_zone.cpp`): it repeats
  the one of the legacy zone, which `LegacyZone` models. A file that was not written to
  its end is removed there, which is not modelled.
* Writes that fail in the legacy zone, and matches of one event on several zones. A look-up
  of an interface that no object has (the mapper answers with an error, or with nothing):
  some object always has it in the model. The zone's own mode is read without a look-up.
* Calls on the GPIO device that fail while the presence daemon reloads (`Gpio::start()`,
  `Gpio::present()`): they end as `MonitorFails` does, or end the daemon. A start that fails
  half way is `Start`, then `Exit`.
* `HostPowerState` (builds with ENABLE_HOST_STATE or MONITOR_USE_HOST_STATE): with two
  hosts the power is on at the start if any host is, but a change takes the state of the
  one host that changed (`power_state.hpp:316`).
* The actions `get_managed_objects`, `override_fan_target` as an event's action, and the
  trigger class `member`.
* The conditions of fans (`monitor/conditions.cpp`).

Hazards that no property covers. Of these a document or the log says what has to hold, and
the code does not keep it (section 4): a second property of an interface, which is not
subscribed to when the interface is added and which `CacheInv` leaves out
(`control/json/triggers/signal.cpp:131`); a hold that a timer which was not enabled does not
release (`control/json/actions/timer_based_actions.cpp:122`); what the log says of a reload
that fails (`control/json/manager.cpp:96`). Of the others no comment or document says what
has to hold; the models have the behaviour of all but the first: the load that fails
(`monitor/system.cpp:99`); a PCIe card that appears later
(`control/json/actions/pcie_card_floors.cpp:244`); the oneshot timer that stays in its list
(`control/actions.cpp:22`); a blocked floor hold
(`control/json/actions/default_floor.cpp:53`); the power state that outlives a reload
(`presence/get_power_state.cpp:8`); the services of a new zone (`monitor/zone.cpp:460`);
the thermal alert of several chassis (`monitor/zone.cpp:342`); a destroyed action that a
parameter still triggers (`control/json/manager.cpp:206`).
