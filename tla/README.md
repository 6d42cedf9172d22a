# Verification of rdk-iarmmgrs

This directory holds TLA+ models of the IARM manager daemons of an RDK set-top
box, the TLC configurations that check them, and TLAPS proofs about them. All
paths are relative to the repository (`src/`).

## 1. The system

Each manager is a process on the IARM bus. A process exports calls (synchronous
RPC, run on a bus thread of the callee), broadcasts events (handled on a bus
thread of every listener) and runs a GLib main loop for its timers. The hard
part of the code is therefore nearly always the same: bus threads, the main
loop and threads the manager starts itself share file-scope variables, with a
mutex around some of the accesses.

| Component | Where | State it keeps | Operations | Hard part |
|---|---|---|---|---|
| Power manager | `pwrmgr2/pwrMgr.c` (`power/` is the older copy) | `powerState`, `transitionState`, `targetState`, the settings file, the HAL's power mode, wake-up sources | set power state (RPC, keys, timers), deep-sleep timeout, network standby, maintenance reboot | a key press is carried out later by an asynchronous thread; RPCs and timers change the same state in between |
| Deep sleep | `pwrmgr2/deepSleep.c` | `deep_sleep_status`, the delay source, the services that are stopped | enter (thread or delayed), wake up, set timer | entering is a thread nobody waits for; waking looks at a status that the thread has not written yet |
| Standalone deep sleep manager | `deepsleepmgr/deepSleepMgr.c` | the same, in a process of its own, driven by mode-change events | same | a call may overtake an event |
| Sleep timer | `pwrmgr2/sleepTimer.c` | one GLib source and its end time | set, cancel, get, fire | a callback that waits for the lock |
| Thermal protection | `pwrmgr2/therm_mgr.c`, `therm_mon.c` | temperature, level, three grace-period clocks, CPU clock mode | poll, set grace interval | hysteresis machines on one polling thread, settings changed under it |
| Factory reset keys | `pwrmgr2/reset.c` | five key-sequence machines | key down/up, timeouts | machines that share timers and keys that are also power keys |
| Warehouse and factory resets | `pwrmgr2/ware*.c`, `*Reset.c` | thread id of a warehouse operation | reset requests | check and set of the id in two steps |
| Infrared manager | `ir/irMgr.c`, `uinput.c` | the current key, repeat and release threads, uinput device | key down/up/repeat from IR, RF, front panel | condition variables without predicates |
| System manager | `sysmgr/sysMgr.c` | a table of system states, HDCP profile, key-code logging | set/get state, events | fields that several sources write |
| Display manager | `dsmgr/dsMgr.c` | HDMI hot-plug timer, HDCP authenticated, tune ready, resolution, audio mode | hot plug, HDCP, resolution, EAS events | one thread waits for resolution work without a predicate |
| Standby video ports | `dsmgr/dsMgrPwrEventListener.c` | port table, last power state | power event, set/get standby video | a shadowed variable |
| Product traits | `dsmgr/dsMgrProductTraitsHandler.cpp`, `power/productTraits.cpp` | profile, two flags | start-up, power change, reboot configuration | a retry thread and a timer that act on what was true at the start |
| Device update manager | `deviceUpdateMgr/deviceUpdateMgrMain.cpp` | map of updates, announce counter, configuration | announce, accept, status events | configuration read after events can come |
| Voice remote manager | `vrexmgr/` | one voice session with a transfer thread and a socket | stream start/end, motion, speech results | condition variable without predicate, early returns of the thread |
| Manufacturer library server | `mfr/mfrMgr.c` | the status of an image write, the module to report to | get data, write image (with progress callback) | polled status written by the library's thread |
| Disk manager, power-state notifier, CEC helper | `disk/`, `pwrstate/`, `iarmmgrutil/` | none | heartbeat, message building | none |
| Headers only | `hal/`, `receiver/`, `rdmmgr/`, `maintenance/` | none | none | none |

How they interact: the infrared manager broadcasts key events that the power
manager's `_irEventHandler` turns into power transitions; the power manager
broadcasts `MODECHANGED`, on which the display manager switches video ports and
the other managers freeze or wake; the power manager calls the deep sleep code
directly (in the older arrangement by RPC and event); the system manager's state
events (ECM, NTP, HDMI) go to all; sleep timer and power manager send CEC
messages.

### What makes each component correct

* Power: the last request wins and all copies of the power state (memory,
  file, HAL, target of the asynchronous thread) agree once the box is at rest;
  a restart comes back in the state the file names, whichever build wrote it.
* Deep sleep: services stopped are started again when the box leaves deep
  sleep; a box that is on does not go to sleep; it always can be woken.
* Sleep timer: a timer fires once, and never when it was cancelled before.
* Thermal: no reboot or deep sleep before the grace period has passed since the
  temperature reached the threshold.
* Resets: data are deleted only by a full sequence after a real hold; there is
  one warehouse operation at a time, and it ends.
* Standby video: a port is on in standby exactly if it was configured so, and
  follows the power state whatever the start does late.
* Resolution: a TV that was authenticated ends up with what is chosen for it.
* Keys: at most one key is down for the listeners.
* Voice: a session's stream start returns.
* Manufacturer library: success is told to the client whose image was written.

## 2. Modules

| Module | Models |
|---|---|
| `SleepTimer` | `pwrmgr2/sleepTimer.c` |
| `DeepSleep` | state and actions of `pwrmgr2/deepSleep.c`, no client |
| `DeepSleepMgr` | `DeepSleep` with the client it was written for and, if `ForeignWakeups`, other processes that call its RPC |
| `PwrMgr`, `PowerSpec` | `_SetPowerState` on five threads, keys, RPCs, timers and restarts of `pwrmgr2/pwrMgr.c`, composed with `DeepSleep`; what it promises while calls come one at a time |
| `PwrSettings` | the settings file of `pwrMgr.c` over every kind of old file, deep sleep timeout, network standby, time of the wake-up |
| `MaintReboot` | the heartbeat and the maintenance reboots of `pwrMgr.c` |
| `DeviceResets` | the resets on the bus, with the warehouse thread and the reset scripts |
| `ResetKeys` | `pwrmgr2/reset.c` |
| `ThermMgr`, `GraceSpec` | `pwrmgr2/therm_mgr.c`, `therm_mon.c`; what a grace period promises |
| `PowerPair` | `power/pwrMgr.c` and `deepsleepmgr/deepSleepMgr.c` as two processes |
| `StandbyVideo` | `dsmgr/dsMgrPwrEventListener.c` with the audio modes of `dsmgr/dsMgr.c` |
| `DsHotplug` | hot plug, HDCP and resolutions of `dsmgr/dsMgr.c` |
| `ProductTraits` | `dsmgr/dsMgrProductTraitsHandler.cpp` and its users |
| `IrKeys` | callbacks, repeats and the LAST key of `ir/irMgr.c`, the dispatcher of `ir/uinput.c` |
| `AutoBind` | binding in line of sight of `ir/irMgr.c` |
| `SysMgr` | `sysmgr/sysMgr.c` |
| `DeviceScan`, `DeviceUpdate` | how images are found, and the sessions, of `deviceUpdateMgrMain.cpp` |
| `VrexSession` | `vrexmgr/vrexMgr.cpp` and `vrexSession.cpp`, for one remote |
| `MfrMgr` | `mfr/mfrMgr.c` with the vendor library's thread |
| `MCPowerParts`, `MCServices`, `MCManagers` | unions of components for the checks, see below |
| `MCPowerPair`, `MCStandbyVideo` | constants a `.cfg` cannot write |
| `DeepSleepProofs`, `DeepSleepMgrProofs`, `PwrMgrProofs`, `PwrMgrCalmProofs`, `PowerPartsProofs`, `ThermMgrProofs`, `ServicesProofs`, `ManagersProofs` | theorems |

**Step size.** An action is what a thread does between two calls that block
(HAL, RPC, file, shell command, mutex, sleep). The C code between two such calls
may still be preempted; where another thread can see the difference (the key's
unlocked write of `transitionState`, the two writes of a call to the states the keys
go by, the test of the deep sleep status, the look at `isEAS` before the audio modes
are set, the clock of `AutoBind`) the step is cut there as well.

**SleepTimer.** An arming is named by its number, which stands for the GLib
source (GLib never reuses an id) and for the end time. `SetSleepTimer` and
`CancelSleepTimer` are the two branches of `_SetSleepTimer`; `Dispatch` is the
main loop choosing a source, `FireLocked` the callback's critical section,
`FireSend` the CEC message and the `return FALSE` that destroys the source.

**DeepSleep.** A change to deep sleep starts a thread (`Spawn`); the thread gives
up if `dsStatus` says the operation is in progress (`DsGiveUp`), or passes that test
(`DsTest`), claims the operation some lines later without looking again, and
attaches the delay timer (`DsDelay`) or stops the services (`DsClaim`,
`DsStop`) and calls the HAL (`DsResume`, `DsFail`) up to `MaxTries` times, and
last announces the wake-up (`DsReport`). `DelayFire`, `DelayStop` and
`DelayEnter` are the callback of the delay timer. `WakeRestart` and `WakeDone`
are both copies of the wake-up. Whether a delay is configured is read by every
thread anew; `DelayChoices` is the set of what it may find.

**PwrMgr.** `pc[t]` names the step thread t takes next. Threads are "ir" (the bus
thread with key events), "rpc" (the bus thread with calls), "async"
(`_AsyncPowerTransition`), "loop" (the main loop) and "tmo" (the thread of a timer
wake-up). The steps of `_SetPowerState` run in the order of the code: test
(`EnterSame`, `EnterRefused`, `EnterChange`), wake-up, pre-change, store
(`CallStore`), write of the file (`CallWrite`), which may fail without anybody
noticing (`WriteSettings`), the two states the keys go by, one after the other
(`CallTransition`, `CallTarget`), hardware (`CallHal`), wake-up timer (`CallEvent`, or `CallOom`
when the event cannot be allocated), event and deep sleep (`CallBroadcast`). A
power key toggles `transitionState` and hands its wish over under
`powerStateMutex` (`IrLock`), which creates or signals the asynchronous thread.
`Boot` starts everything anew from the file. Keys are actions once they have
passed the filter on their times.

`PowerSpec` knows one power state that is saved, then shown, and a box that may
sleep. `PwrMgr` implements it with the file as what is saved, the HAL's mode as what
is shown, the state of the call under way (`Changing`) as the change, and a thread
in the HAL's deep sleep call (`Sleeping`) as sleep. Memory, the two states of the
keys, threads and timers are hidden. A write of the file that fails is the abstract
step `SaveFails`: the change is shown all the same, and a restart goes back to the
state saved before it. When calls overlap, a wake-up overtakes the
thread it should wake, or an ECM key is about to reboot the box, the mapping says so
(`Calm`), and `PowerSpec` promises nothing until the next restart, which must come
back in the saved state all the same.

**PwrSettings.** A file is a record with the fields of the build that wrote it;
`fields` counts the settings a build has. `StLoad` reads it by the branch of
`_InitSettings` that its version and length select (`Same`, `Longer`, `Shorter`,
`Old`, or the defaults), `StSync` brings the platform to it and `StWrite` writes it
back. Reading, the conversion of an old file, writing and truncation may each fail; the
file that exists but cannot be opened is not modelled apart from the one that cannot be
read. The same build or another comes with every start, at any step. `stAsked` is the
state the box was last put into, by a call or by a start, and `stKept` the one last
written; `StStart` sets the first to the second, and `StLoad` says in which cases a
start puts the box into another one. Hours of `getWakeupTime` are half hours, so that
both edges of the window are seen. A zone is the hours the code adds for it and the
hours it really is behind UTC in winter and in summer, so that the two can differ; the
system manager may name the zone, none (6 hours are added, `pwrMgr.c:2273`) or one that
is not in the map (none are), and the process may run in UTC or in the zone.

**MaintReboot.** Times are in heartbeats of 300 s. `MtRfc`, `MtGrace`, `MtPower` and
`MtForce` are the reads of one heartbeat in their order; `MtSetTime` and `MtSetPower`
the two stores of `_SetPowerState` between which it may fall.

**DeviceResets.** `WhTest`, `WhCreate`, `WhStore` and `WhDetach` are the bus thread,
`WhLock`, `WhScript`, `WhTell`, `WhUnlock` and `WhClear` the warehouse thread. The id
is stored before the new thread runs (`WhCreate`) or at any moment after (`WhStore`),
since `pthread_create` gives no such order, and cleared by the thread's last step. If
it is stored after that step, the id of a dead thread stays (`whLate`).

**ResetKeys.** `KeyDown` and `KeyUp` are the two halves of `checkResetSequence`;
`TimeCheck` is the test of the time between keys. `rkTyped` is a history of the
keys really typed, kept independently of the machines, against which their
verdict is judged.

**ThermMgr.** `ThRead`, `ThTest`, `ThZone`, `ThDeclock` and `ThPause` are the poll;
`ThSetGrace` and `ThSetGraceRest` the two stores of a call that may fall between
them. Time is counted twice: `up` is what has really passed, `up + skew` what
gettimeofday says. `GraceSpec` knows only the first. It says what the comments of
`therm_mgr.c:71-95` say of the thresholds and intervals except line 74, by which the
reboot's timer starts two minutes late: the code has no such delay (section 4).

**PowerPair.** The power manager's threads "events", "calls" and "timers" run
`_SetPowerState` without a lock (`Enter`, `Ask`, `Wake`, `Change`, `Post`); the deep
sleep manager's event thread stays in its handler for the whole of a deep sleep
(`HandleDeep` to `SendKey`), with events waiting in `ppEvents`. Each call from one
process to the other may fail (`CallFails`): a request whose question about the status
fails is dropped (`power/pwrMgr.c:1101`), a wake-up or a timeout that fails goes
unnoticed.

**StandbyVideo.** `setting` is the used part of the table, `curState` the variable
of the file, which is not the `curState` the event handler declares. `Begin` starts
`_SetAVPortsPowerState` on a thread; `SwitchVideo` is one round of its loop over the
video ports, `VideoThrows` a round that throws, `SwitchAudio` what follows. The audio
modes are set by four threads: the one that switches the box on, the call that begins
or ends an emergency message (`SysModeChange`), the bus thread when the tuner is ready
(`TuneReady`) and the resolution thread at a hot plug (`HotPlug`). Each first looks at
`isEAS` (`_setEASAudioMode`, `_setAudioMode`) and then sets the ports (`ForceStereo`,
`RestoreAudioMode`), two steps with no lock.

**DsHotplug.** Four setters ("bus", "resn", "main" and "start") look at the cable
(`SetterLooks`), read the list of the TV (`SetterReads`) and set the resolution chosen
by it (`SetterSets`), which may be another TV's time by then. `HdmiResolution` is the
choice, with its cases `In`, `LastOf`, `BestFor` and `No4K`. A signal sent while the
resolution thread works is lost, as in the code.

**ProductTraits.** "main" starts the listener and then runs the timer that waits
for the reboot reason, "event" handles power changes, "call" the reboot
configuration, "retry" sets the boot loader's pattern until it is taken.

**IrKeys.** A callback is one step, since it holds `tMutexLock` to its end; the
repeat thread is cut where it waits. The LAST and EXIT that the manager makes up are
two broadcasts, `Make` the press and `ReleaseMade` the release; between them other
threads run (`irMade` is the key that is down for that reason), and no key that is
still down is released before. What the bus and the uinput device have been
told is kept as the set of keys that are down for them.

**SysMgr, DeviceScan, DeviceUpdate, VrexSession, MfrMgr, AutoBind.** One action for
each handler or step of a thread, named after it; the comments of the modules say
what is one step and what is external.

**Unions.** `MCPowerParts`, `MCServices` and `MCManagers` extend several components
that share no variable. A behaviour is one of one of them (`part` says which),
while the others rest in an initial state, so that each is checked from all its
own starts and never interleaved with what it has nothing to do with.

## 3. Runs

Every run finishes in less than five minutes with two workers, most in less than one.

| Run | Shows | States |
|---|---|---|
| `pwr_keys` | Three power keys, standby and deep sleep, the user's and the timer's wake-up: no lost signal, no stray timer. | 4 800 000 |
| `pwr_callers` | Keys of every kind, voice sessions, RPCs, loss of the ECM, failures, reboots: the file follows the memory however calls overlap, all copies agree at rest, and `PowerSpec` is implemented. | 1 150 000 |
| `pwr_timeout` | Under fairness the timeout gets the box out of deep sleep, and keys are carried out. | 94 000 |
| `deep_sleep` | Two threads, failures, all wake-up reasons, no delay: the status tells the truth and clears, services come back. | 30 000 |
| `deep_sleep_delay` | The same with and without a delay and with foreign wake-ups: no delay timer stays behind. | 1 360 000 |
| `deep_sleep_delay_stuck` | *Violated:* the status stays InProgress after a delayed deep sleep. | |
| `power_pair` | Two processes, three requests, with and without a delay, a call between them that fails: the box is put to sleep only in the deep sleep state, and a user who wakes it gets it out. | 606 000 |
| `power_parts` | Thermal protection implements `GraceSpec`; resets need the full sequence and a real hold; a maintenance reboot was earned; over three starts with any builds and any two failures the box is in the state it was last put into, and a start goes back to the one last written; a box whose zone is known wakes within an hour of the window 2 to 3, and inside it in the season the code knows. | 2 000 000 |
| `services` | Sleep timer, resets, voice, manufacturer library and binding: what was started ends, once, and for whom it was asked. | 214 000 |
| `managers` | Standby ports and audio modes; hot plug, with two TVs one after the other, each authenticated, and three threads that set resolutions; product traits, keys, system board, scan and update sessions. | 4 300 000 |
| `standby_video_applied` | *Violated:* a setting made in standby is not applied. | |
| `ir_autobind` | *Violated:* a binding in line of sight stays on. | |

**Bounds and why they are enough.** `DsThreads` 2: one at work and one that finds
it at work (1 in the liveness run, to keep its graph small). `SourceIds` 2 or 3: a
source firing, one remembered, one fresh. `MaxTries` 1 or 2: a first and a last
attempt. `MaxWakes` 1: wake-ups not yet handled; a second one could come only when
the first has been handled. `MaxRequests` 3 (on, off and one in between) or 2
callers where it is overlap and not length that counts (the box is on or in
standby at first). `MaxTimers` 1 or 2 callbacks between two restarts. `MaxArm` 3: one timer firing, one replaced, one
new. Thermal protection: one temperature for each interval the thresholds cut
out, a grace period of 2 polls and `MaxTime` 3 to see it pass, one call, one
restart. Keys of reset: `KeyTimeout` 1 and `FirstTimeout` 2 of `MaxAge` 3 ticks,
one lost event; the sequences have their real length. Settings: builds with one,
two and three settings and a file of one with four; three starts, so that a build
may be left and come back. `MaxUp` 7 heartbeats: one more than the forced reboot.
Resets: `MaxResets` 2, one running and one refused or following. Voice:
`MaxThreads` 2. Library: two clients, three calls. Ghost keys: 5, enough for a
stale clock and one more key. Ports: `MaxSlots` 1 for three names, so that the
table is full; two calls, among which are the beginning and the end of an emergency
message and a hot plug. Hot plug: a TV of low power that gives no list, one that lists
more than the platform has and an old one, there at the start or plugged in; two plugs
and two HDCP results, so that a second TV can be authenticated while a thread still
holds the list of the first. The box does not ignore the list (else it promises nothing of
it), and the user's resolution is one that no TV lists. Wake-up time: one zone in both seasons, the system manager
naming it or not, the process in UTC (before 2 o'clock) or in the zone (the evening
before). The older pair: two builds, in which every switch of a build is on once.
Scan: every length of month and every delay, three folders. Update: two devices,
one session, one restart of the manager. The theorems hold for all values.

`CHECK_DEADLOCK FALSE` stands where the system may stop: a box that nobody uses,
once the bounds are spent, has nothing to do, and a box in a state it cannot leave
(`deep_sleep_delay_stuck`) neither. So that `BusReturns` is not true of a voice
session that simply stops, it is checked as liveness.

**Fairness.** `SleepTimer`: time passes and the main loop runs. `DeepSleepMgr`:
threads and the main loop are scheduled, the HAL returns, calls that were let
through finish; a HAL that succeeds is not assumed, nor a user who asks for
anything. `PwrMgr`: the same, and timers come due, a reboot happens and the bus
delivers the wake-up key; no key and no RPC has to come. `PowerPair`: both
processes' threads run and the HAL returns; no request has to come.
`DeviceResets`: the threads run and scripts end. `VrexSession`: the bus thread and
the transfer threads run, unless the process has crashed. All of it is weak
fairness of single threads, which is what the scheduler of Linux gives. Where
several components are checked together, the fairness of one is that of its
actions in the union, `ServicesFairness`, and asks nothing while another runs.

## 4. What the checks found

Violated statements, each a run:

* `deepSleep.c:447` never writes the status after a delayed deep sleep
  (`deep_sleep_delay_stuck`), so `_SetPowerState` refuses every request that
  would leave deep sleep, and the timeout that should reboot the box waits for
  ever.
* `dsMgrPwrEventListener.c:412` applies a setting made in standby "right away" only if
  the box was in standby when the manager started (`standby_video_applied`).
* `irMgr.c:528`: a key that extends a binding may set the clock after its thread
  has cleared it; no thread is started any more and binding stays on
  (`ir_autobind`).

Comments the code does not keep, for which the properties that hold state less:

* `deepSleep.c:212`: "Always send KED_DEEPSLEEP_WAKEUP when user action wakes the device
  from deep sleep". `deepSleep.c:447` is told by the HAL that a user woke the box from a
  delayed deep sleep and does not send the key.
* `therm_mgr.c:74`: the timer of the reboot "is started 2 minutes late to give deepsleep
  logic a chance to work"; `rebootIfNeeded` starts it when it enters the zone (`:283`).
  `GraceSpec` leaves that sentence out.
* `pwrMgr.c:2388`: the wake-up is "between 2AM - 3AM". The code adds the hours of one
  season, and in the other the box wakes an hour away, as `WakesAtTwo` says. Where the
  system manager does not name the zone, or names an unknown one, or the process runs in
  the zone of the box, the time is wrong by whole hours; `WakesAtTwo` leaves these out.
* `dsMgr.c:525`: "Verify Persisted resolution with Platform and EDID resolution". The
  EDID is read at `:577` and the resolution set at `:756`, and the TV may have been
  unplugged and another one authenticated and set between the two: it then gets the
  resolution chosen for the first. `AuthenticatedIsSet` leaves that out (`dhLate`).

Weaker guarantees, visible in the conditions of properties that hold:

* `OneAtATime`. Two calls of `_SetPowerState` at a time may leave memory, file,
  hardware and the two states of the keys with different callers' states; the
  file alone follows the memory (`FileMatches`). In that window the ECM key
  (`pwrMgr.c:794`, "always" bring up the box in ON) may restart in another state.
  A wake-up that overtakes the thread of a deep sleep (`early`) leaves a box on
  without its services (`deepSleep.c:351`). The boot-up timer and the callback of
  the timeout count as overlapping when they find a call under way, since they
  overwrite `powerState` first (`pwrMgr.c:2176`); if their own call is then
  refused, memory and file differ until the next change. That is why `FileMatches`
  is stated for builds that reboot on the timeout.
* `unsaved`. A write of the settings file that fails (`pwrMgr.c:1112`, `:797`) is not
  noticed: from then to the next write that succeeds `FileMatches` says nothing and
  `AgreeAtRest` leaves the file out, and a restart comes back in the state saved
  before, as `PowerSpec` says.
* `crossed`. `_SetPowerState` writes `transitionState` and then `targetState` without
  the lock. A key that puts both its states in place between the two (`IrLock`) leaves
  `transitionState` with the key's state and `targetState` with the call's: the key is
  lost, and the next one toggles from the wrong state. `AgreeAtRest` leaves
  `transitionState` out then.
* When malloc fails in `CallOom`, the wake-up timer of the state just left stays
  attached, so `NoStrayWakeup` is checked without such failures (`MayFail`, which
  stands for malloc, `pthread_create` and the write of the file together).
* `InProgressIsTrue` needs `DelayChoices = {FALSE}`: after a delay the status is stale.
* `NoOrphan` leaves out a timer set while the callback of the old one waits for
  the lock (`sleepTimer.c:61`): the callback forgets the new timer, which is then
  neither reported nor removable.
* `OneOperation` leaves out an id that is stored after its thread has ended
  (`pwrMgr.c:1369`): every later reset is then refused until the manager restarts.
* `PortsAsAsked` leaves out a switching of ports into which another thread or an
  exception broke: with no lock, start-up, an event and a call can leave some
  ports on and some off until the next change.
* `PowerIsAsked` leaves out the same, and with it the one order in which a change is
  missed: start-up has asked for the state (`dsMgrPwrEventListener.c:116`), an event
  with a newer one is handled, and start-up applies its older answer (`:137`).
* `StereoOnlyInEas` leaves out an emergency message that begins or ends between a
  thread's look at `isEAS` (`dsMgr.c:833`, `:877`) and its setting of the ports: the
  older mode then wins. Every earlier moment is covered, and a look that is missing is
  found.
* `PowerPair` is stated for calls that do not overlap and no wake-up that
  overtakes the event; `UserWakesBox` for a user who is alone with the box and whose
  wake-up makes no call that fails: when the question about the status fails the
  wake-up key is consumed and the box stays in deep sleep (`power/pwrMgr.c:1101`). With
  a delay the status stays InProgress here as well.
* `RebootGraceKept` needs a clock that is not set forward (NTP after start shortens
  the grace period) and no call that sets the interval to 0, which stops the clock
  of the zone instead of resetting it (`therm_mgr.c:270`).
* `HoldWasReal` leaves out a release that comes after the reset it caused, and needs
  that at most one event is lost: after a lost release and a lost press the times of
  two short presses add up to a long one.
* `PowerKept`: a restart before the write of a change goes back to the state before
  it, and a start goes to another state than the one last written in the cases its
  comment lists: no file or one that cannot be read, a file of another length that
  cannot be rewritten, the old manager's file, a build that boots to standby, a
  platform that refuses. A file that is longer than the build's loses its deep sleep
  timeout, and a shorter one leaves the other settings at their defaults and does not
  force standby.
* `StandbyRebootEarned` leaves out a box that is switched off between the two unlocked
  reads of one heartbeat (`pwrMgr.c:594`), which reboots at once; every other change
  between them is covered. The reboot itself comes 10 s later whatever the user did.
* `PortsFollowPower` and `PatternStands` leave out the windows named in their
  comments; in the first "The new power state takes precedence"
  (`dsMgrProductTraitsHandler.cpp:435`) is not kept.
* `OneKeyDown` needs one remote in use at a time, and does not count a LAST or EXIT
  between its two broadcasts (`irMgr.c:713-736`, `:1189-1212`): no release is made up
  before them, so a key whose release was lost, or that is still held, is down with
  them.
* `SomebodySwitchesOff` leaves out the case of `ir_autobind`.
* `BusReturns` leaves out what `vxOdd` collects: a socket that fails
  (`vrexSession.cpp:719`), a thread that listens before the bus thread waits (the
  five milliseconds of `:762` were not enough), a recording that starts while the
  last one's thread still runs; the bus thread then waits for ever. It also leaves out
  a server that answers 213 to every conversation: `goto redoSendState`
  (`vrexSession.cpp:641`) has no limit, and such a server keeps the bus thread.
* `StatesAsPublished` leaves out the time stamp that the HRV status overwrites for
  lack of a break (`sysMgr.c:365`).
* `EveryFolderHasItsDay` needs a delay that the counter meets (one shorter than
  what the counter starts with never announces anything) and few folders: at most 14
  where February has 28 days.
* `UiDecides` is stated for the first life of the manager: after a restart numbers
  of sessions are used again.

Seen while modelling, without a run of their own: the timer of the LAST key does
not look again under the lock and may send EXIT after LAST (`irMgr.c:1189`), and
the release made up for a lost one tells the device of the new key's press
instead (`irMgr.c:889`); the warehouse script is reported as completed while it
still runs in the background (`wareHouseReset.c:74`), and synchronous resets
answer failure on success; the resolution thread may miss the connect on which it
would take off the delayed resolution of a disconnect (`dsMgr.c:779`); images
packed as tar.gz are never announced (`deviceUpdateMgrMain.cpp:518`), and an
unknown session number dereferences the end of the map (`:859`); a write whose
library reports nothing is polled for ever (`mfrMgr.c:379`); a voice session that
begins while a key is switching the box on is taken for one more power key, which
switches it off (`pwrMgr.c:2135`), and does not set the `isFP` that the handler
tests (`:795`).

## 5. Proofs

All theorems hold for every value of the constants that satisfies the module's
named assumptions. These type the constants, ask for finite sets of threads where the
code starts finitely many, and order the thresholds and times that the code orders.

* `DeepSleepProofs` proves that every action of `DeepSleep` preserves `DsInv`: the
  types, that a thread that may call the HAL has an attempt left (without which
  the count of attempts would leave its type), that every thread about to
  announce a wake-up has one to announce (else the subtraction would leave Nat),
  and, when no delay is configured, that the delay timer plays no part and that an
  InProgress status has a thread at work.
* `DeepSleepMgrProofs` closes it with the client: `TypeCorrect`, `InProgressHolds`
  (for `DelayChoices = {FALSE}`), and with two invariants
  more `ServicesRestarted` and `DelayRemoved`. Both are about the time in which no
  wake-up overtakes the start of a deep sleep: `ServicesInv` says, for each status and
  each step of a deep sleep thread, whether the services run or are stopped, and
  `DelayRestInv` that the only delay source on the main loop is the one the program
  can remove, and that none is left once the box is awake. `ServicesRestarted`
  assumes `~ForeignWakeups`: another process that wakes the box overlaps the
  client's own wake-up.
* `PwrMgrProofs` uses the same lemmas for the power manager: `IInv` is `DsInv`, the
  types, `NewOK` (a thread in a call knows what it wants), `MutexOK` and `FileOK`.
  `FileOK` is the strengthening that makes `FileMatches` inductive: a difference
  between memory and file always has an owner, a thread about to write or the main
  loop on its way from the forced STANDBY to DEEP_SLEEP, in which case memory does
  not hold DEEP_SLEEP and the call cannot be refused or end as "same state".
  Theorems: `TypeCorrect`, `MutexHeldInCall`, `FileFollows`.
* `PwrMgrCalmProofs` proves what holds when requests come one after the other.
  `CalmInv` says, under `OneAtATime`, which copy of the state may differ from which
  and who will set it right: the one call under way, at a step before the write, the
  platform call or the targets, the asynchronous thread while it is not waiting, or a
  callback on its way from a forced state; that the box sleeps only in the deep sleep
  state with no call running; and which wake-up timer may be attached. It follows that no wish is
  lost (`SignalsArrive`), that all copies agree at rest but for `unsaved` and `crossed`
  (`CopiesAgree`) and, if malloc
  does not fail, that no timer is left (`WakeupRemoved`). The hypothesis `~MayFail` of
  the last is the one its run has: when malloc fails the code returns before it
  removes the timer. Last, `PowerRefines`: `PwrMgr` implements `PowerSpec`. Every step
  of a call is a step of the change it is making or a stutter, and there `CalmInv`
  says what the abstract guards ask: no change begins while the box sleeps, the file
  holds the new state before the platform is told, and both hold it when the call
  ends. A call that ends as "same state" or is refused has not begun a change. A thread gets to the HAL only while all is settled in the
  deep sleep state, and no call gets past the test of the status while it is there.
  With a delay the callback on the main loop plays the thread's part. That one call
  at a time means one change needs `CallIsTheChange`.
* `PowerPartsProofs`: `RebootEarned` (the off time a heartbeat has read is no longer
  than the real one, unless the box was switched off between its two reads),
  `PowerStateKept` (after each of the branches of `_InitSettings` the memory holds the
  state last asked for and the file the one last written), `MaintenanceAtTwo` (integer
  arithmetic of `getWakeupTime`), and `PairSleepsInDeepSleep` (an event of deep sleep that is still
  waiting, or is being handled, is the power manager's last word). Reset keys:
  `ResetBySequence` and `HoldsAreReal`. `Good` says of each machine that the keys it
  has counted are the last keys of the history, in time, and that the age of the last
  one is no more than the program's own; `Round` is the same in the middle of one
  key's way through the five machines, where some have seen it and others not.
  `PressIsHeld` says where the time of a press comes from: it has done its work, or
  the keys held now have been held since, or an event was lost and one of them has.
* `ThermMgrProofs` shows that `rebootIfNeeded` and `deepSleepIfNeeded` implement
  `GraceSpec` (`RebootRefines`, `SleepRefines`), for all thresholds with the safe
  one lowest, all readings, intervals and restarts, under `Undisturbed`: no call
  sets the interval to 0 and the clock is not set forward. The mapping takes the
  real time for the abstract clock. The code measures with a clock of its own, and
  takes the time of the reading only when it gets to the machine; `ThInv`
  (`ZonesInOrder`) therefore says that the machine's clock started no earlier than
  the heat, once what setting the clock added is taken off, or that the machine
  has still to see that the heat is over; and that a machine which tests an
  interval has one.

* `ServicesProofs`. Sleep timer: `TypeCorrect`, `NoOrphanHolds`, `StandbyOnlyWhenDue`,
  `StandbyOnce`; the inductive invariant adds what ties the history to the sources:
  live and removed sources have been armed, the source being dispatched is live
  while its callback runs, and a removed one is neither live nor has it sent
  anything. Resets: `OneReset`, from which thread may still write the id and that a
  thread which is alive is the one the id names. Binding: `BindingIsWatched`, from
  when a thread read the clock against when the last key set it. Manufacturer
  library: the action property `SuccessIsOfTheWrite`, from whose write the library's
  thread is at.
* `ManagersProofs`. Ports: `PortsObey`, `PowerArrives`, `TableKeeps`, `StereoInEas`; for
  a thread in the middle of the loop the invariant says which ports are done, and of
  the queue that its last event is the power manager's state. Hot plug:
  `TVGetsItsResolution`, a TV that is authenticated has its resolution or the bus
  thread is about to set it. Product traits: `TraitsFollowPower`, `SetPatternStands`.
  Infrared: `OneKeyAtATime`; a key that is held and has been handled is the last one
  handled, so that its repeats and its release are those of the only key that may be
  down, and a held front panel power key was last sent as a press. System board:
  `BoardIsTrue`. Scan: `FoldersHaveTheirDays`, by division with remainder (a folder
  that was not looked at for j days was not selected on any of them, and every
  remainder comes up within as many days as there are folders, in a month that may
  end in between). Update sessions: `UserDecides`.

The hypotheses are no stronger than the runs': `OneAtATime` and the conditions listed
in section 4 stand inside the properties, and `StandbyVideoAssumption` and
`SettingsAssumption` only say in addition of what type the list of ports and the
first files are. `ResetAssumption` says that the time between two keys is positive and
no longer than the one for the first (2 s and 10 s, `reset.c:171-174`), and
`HoldsAreReal` assumes `MaxLost <= 1`, as in the run.

Only model-checked: everything under fairness (`ArmingEnds`, `InProgressEnds`,
`TimeoutLeavesDeepSleep`, `KeyIsCarriedOut`, `UserWakesBox`, `OperationsEnd`,
`BusReturns`), which the prover cannot reach, and the statements of the three runs
that expect a violation.

## 6. Plan

1. Proofs of what the older power manager keeps across restarts.
2. Several remotes in `VrexSession`.

## 7. Not modelled, and why

`PROJECT.json` lists every part with its reason. In short: parsing, logging, LED
patterns and the vendor libraries keep no state the modelled behaviour depends on;
`vrexmgr/iarmStatus.c` is compiled out, and `mfr/common` holds one stub per library
call. Of `pwrmgr2/pwrMgr.c` the filter on key times and the calls that only pass a
value on are left out; of `power/pwrMgr.c` what `PwrMgr`, `PwrSettings` and
`StandbyVideo` model in the newer code; of the voice manager the parameters sent to
the server.

Running a check: `tlc -workers 2 -config PwrKeys.cfg PwrMgr.tla`; checking a proof:
`tlapm PwrMgrProofs.tla`. The operators named `Mut_...` are deliberate errors, one
for each property, that the property must catch when they replace the definition
they stand before.
