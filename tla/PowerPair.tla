------------------------------- MODULE PowerPair -------------------------------
(***************************************************************************)
(* The older arrangement: the power manager of power/pwrMgr.c and the deep *)
(* sleep manager of deepsleepmgr/deepSleepMgr.c, two processes on one bus. *)
(* The power manager asks for the status of a deep sleep and orders the    *)
(* wake-up with calls; it announces a deep sleep, and the deep sleep       *)
(* manager a wake-up by the user, with events, which wait in a queue until *)
(* the other's event thread is free.  That thread stays in its handler for *)
(* the whole of a deep sleep.  A call may fail; then it was not received.  *)
(*                                                                         *)
(* _SetPowerState runs without a lock on three threads of the power        *)
(* manager: "events" (keys, voice), "calls" and "timers" (the main loop,   *)
(* or the thread of a wake-up by the HAL's timer).                         *)
(***************************************************************************)
EXTENDS Naturals, Sequences

CONSTANTS
    CallStates,     \* what SetPowerState calls ask for
    Delays,         \* values of deep_sleep_delay_timeout: subset of BOOLEAN
    Builds,         \* the builds, [byEvent: USE_WAKEUP_TIMER_EVT, reboots: not
                    \* _DISABLE_SCHD_REBOOT_AT_DEEPSLEEP, wakesTo: what
                    \* KED_DEEPSLEEP_WAKEUP leads to, STANDBY on Platco and else ON]
    EcmLoss,        \* the connection of the cable modem may get lost
    MaxRequests,    \* bound: keys, calls and voice events
    MaxTimers,      \* bound: timers that run out
    MaxFails        \* bound: calls of the power manager to the deep sleep manager that fail

ASSUME PairAssumption ==
    /\ CallStates \subseteq {"ON", "STANDBY", "LIGHT", "DEEP"}
    /\ Delays \subseteq BOOLEAN
    /\ Builds \subseteq [byEvent: BOOLEAN, reboots: BOOLEAN, wakesTo: {"ON", "STANDBY"}]
    /\ EcmLoss \in BOOLEAN
    /\ {MaxRequests, MaxTimers, MaxFails} \subseteq Nat

Thread == {"events", "calls", "timers"}

VARIABLES
    ppBuild,    \* the build of both, which stays
    ppPower,    \* m_settings.powerState, in memory and in the file
    ppSleep,    \* m_sleepMode: what the power key leads to
    ppLost,     \* ecm_connectivity_lost
    ppPc,       \* the next step of each thread
    ppNew,      \* newState of each thread's call
    ppBoot,     \* dsleep_bootup_event_src is attached
    ppWake,     \* wakeup_event_src is attached
    ppRebooting,\* a reboot was ordered
    ppEvents,   \* events on their way to the deep sleep manager that it acts on
    ppKeys,     \* KED_DEEPSLEEP_WAKEUP on its way to the power manager
    ppStatus,   \* IsDeviceInDeepSleep
    ppHandler,  \* the deep sleep manager's event thread
    ppTries,    \* retryCount
    ppDelay,    \* deep_sleep_delay_timeout is not 0
    ppDelayed,  \* dsleep_delay_event_src: "none", "set", "spent" (the function has run)
                \* or "lost" (another source waits without an id)
    ppLoop,     \* the deep sleep manager's main loop
    ppServices, \* the services that a deep sleep stops are "up" or "down"
    ppBounds,   \* requests, timers and failed calls so far
    ppEarly,    \* history: a wake-up overtook the event of the deep sleep it is to end
    ppOverlap   \* history: two changes of the state overlapped, or one a voice event

ppThreads == <<ppPc, ppNew>>
ppState == <<ppBuild, ppPower, ppSleep, ppLost, ppBoot, ppWake, ppRebooting>>
ppBus == <<ppEvents, ppKeys>>
ppDeep == <<ppStatus, ppHandler, ppTries, ppDelay, ppDelayed, ppLoop, ppServices>>
ppHistory == <<ppBounds, ppEarly, ppOverlap>>
ppVars == <<ppState, ppThreads, ppBus, ppDeep, ppHistory>>

\* Both processes have started; the power manager has read state s.
Booted(s) ==
    /\ ppPower' = s
    /\ ppLost' = FALSE
    /\ ppBoot' = (s = "DEEP") /\ ppWake' = FALSE /\ ppRebooting' = FALSE
    /\ ppPc' = [t \in Thread |-> "idle"] /\ ppNew' = [t \in Thread |-> "ON"]
    /\ ppEvents' = <<>> /\ ppKeys' = 0
    /\ ppStatus' = "NotStarted" /\ ppHandler' = "idle" /\ ppTries' = 0
    /\ ppDelay' \in Delays /\ ppDelayed' = "none" /\ ppLoop' = "idle"
    /\ ppServices' = "up"

PpInit ==
    /\ ppBuild \in Builds
    /\ ppPower \in {"ON", "STANDBY"}
    /\ ppSleep \in {"STANDBY", "DEEP"}
    /\ ppLost = FALSE
    /\ ppBoot = FALSE /\ ppWake = FALSE /\ ppRebooting = FALSE
    /\ ppPc = [t \in Thread |-> "idle"] /\ ppNew = [t \in Thread |-> "ON"]
    /\ ppEvents = <<>> /\ ppKeys = 0
    /\ ppStatus = "NotStarted" /\ ppHandler = "idle" /\ ppTries = 0
    /\ ppDelay \in Delays /\ ppDelayed = "none" /\ ppLoop = "idle"
    /\ ppServices = "up"
    /\ ppBounds = [requests |-> 0, timers |-> 0, fails |-> 0]
    /\ ppEarly = FALSE /\ ppOverlap = FALSE

------------------------------------------------------------------------------
(* _SetPowerState *)

Goto(t, from, to) == ppPc[t] = from /\ ppPc' = [ppPc EXCEPT ![t] = to]
Changing(t) == ppPc[t] \notin {"idle", "voice", "enter"}

\* The state is compared with the one that is asked for.
Enter(t) ==
    /\ Goto(t, "enter", IF ppPower = ppNew[t] THEN "idle"
                        ELSE IF ppPower = "DEEP" THEN "ask" ELSE "change")
    /\ ppBoot' = (ppBoot /\ ppPower = ppNew[t])
    /\ ppOverlap' = (ppOverlap \/ (ppPower # ppNew[t] /\ \E u \in Thread \ {t} : Changing(u)))
    /\ UNCHANGED <<ppBuild, ppPower, ppSleep, ppLost, ppWake, ppRebooting, ppNew, ppBus,
                   ppDeep, ppBounds, ppEarly>>

\* Mutant (SleepsOnlyInDeepSleep): the request is not refused.
Mut_Ask_Never(t) ==
    /\ Goto(t, "ask", "wake")
    /\ ppEarly' = (ppEarly \/ ppEvents # <<>>)
    /\ UNCHANGED <<ppState, ppNew, ppBus, ppDeep, ppBounds, ppOverlap>>

\* A call of the power manager to the deep sleep manager fails.
CallFails ==
    /\ ppBounds.fails < MaxFails
    /\ ppBounds' = [ppBounds EXCEPT !.fails = @ + 1]

\* GetDeepSleepStatus: the request is dropped while a deep sleep is in progress, and when
\* the call fails.
Ask(t) ==
    /\ \/ /\ Goto(t, "ask", IF ppStatus = "InProgress" THEN "idle" ELSE "wake")
          /\ ppEarly' = (ppEarly \/ (ppStatus # "InProgress" /\ ppEvents # <<>>))
          /\ UNCHANGED ppBounds
       \/ Goto(t, "ask", "idle") /\ CallFails /\ UNCHANGED ppEarly
    /\ UNCHANGED <<ppState, ppNew, ppBus, ppDeep, ppOverlap>>

\* _DeepSleepWakeup, on a thread of the deep sleep manager: the delayed deep sleep is
\* called off.  If the call fails nothing is, and nobody notices.
Wake(t) ==
    /\ \/ /\ Goto(t, "wake", "restart")
          /\ ppDelayed' = IF ppDelayed = "lost" THEN "lost" ELSE "none"
          /\ UNCHANGED ppBounds
       \/ Goto(t, "wake", "change") /\ CallFails /\ UNCHANGED ppDelayed
    /\ UNCHANGED <<ppState, ppNew, ppBus, ppStatus, ppHandler, ppTries, ppDelay, ppLoop,
                   ppServices, ppEarly, ppOverlap>>

\* Then the services start again.
Restart(t) ==
    /\ Goto(t, "restart", "change")
    /\ ppServices' = IF ppStatus # "NotStarted" THEN "up" ELSE ppServices
    /\ ppStatus' = "NotStarted"
    /\ UNCHANGED <<ppState, ppNew, ppBus, ppHandler, ppTries, ppDelay, ppDelayed, ppLoop,
                   ppHistory>>

\* Everyone on the bus was told, the ports were switched: the state is stored and written.
Change(t) ==
    /\ Goto(t, "change", "post")
    /\ ppPower' = ppNew[t]
    /\ ppOverlap' = (ppOverlap \/ ppPc["events"] = "voice")
    /\ UNCHANGED <<ppBuild, ppSleep, ppLost, ppBoot, ppWake, ppRebooting, ppNew, ppBus,
                   ppDeep, ppBounds, ppEarly>>

\* The timer of the wake-up; the event.
Post(t) ==
    /\ Goto(t, "post", "idle")
    /\ ppWake' = (ppNew[t] = "DEEP" /\ (ppWake \/ ~ppBuild.byEvent))
    /\ ppEvents' = IF ppNew[t] = "DEEP" THEN Append(ppEvents, "DEEP") ELSE ppEvents
    /\ UNCHANGED <<ppBuild, ppPower, ppSleep, ppLost, ppBoot, ppRebooting, ppNew, ppKeys,
                   ppDeep, ppHistory>>

------------------------------------------------------------------------------
(* The events and calls that lead to it *)

Request ==
    /\ ppBounds.requests < MaxRequests
    /\ ppBounds' = [ppBounds EXCEPT !.requests = @ + 1]

\* Thread t is to run _SetPowerState.
Calls(t, state) ==
    /\ Goto(t, "idle", "enter")
    /\ ppNew' = [ppNew EXCEPT ![t] = state]

Call ==
    /\ Request
    /\ \E s \in CallStates : Calls("calls", s)
    /\ UNCHANGED <<ppState, ppBus, ppDeep, ppEarly, ppOverlap>>

\* The state that the power key leads to.
Toggled == IF ppPower = "ON" THEN ppSleep ELSE "ON"

\* A power key, a discrete one, or one that only switches on (any wake-up key).  A front
\* panel key finds the modem without connection: ON is stored, and the box reboots.
Key ==
    /\ Request
    /\ \/ /\ \/ Calls("events", Toggled)
             \/ Calls("events", IF ppPower = "ON" THEN "STANDBY" ELSE "ON")
             \/ Calls("events", "ON")
          /\ UNCHANGED <<ppBuild, ppPower, ppRebooting>>
       \/ /\ ppLost /\ ppPc["events"] = "idle"
          /\ ppPower' = "ON" /\ ppRebooting' = TRUE
          /\ UNCHANGED ppThreads
    /\ UNCHANGED <<ppBuild, ppSleep, ppLost, ppBoot, ppWake, ppBus, ppDeep, ppEarly,
                   ppOverlap>>

\* The ghost of a power key, whether it switched on or off: a message of the RF4CE or the
\* control manager.
Ghost ==
    /\ Request
    /\ Calls("events", "ON")
    /\ UNCHANGED <<ppState, ppBus, ppDeep, ppEarly, ppOverlap>>

\* A voice session begins, or a key for the TV is pressed: only if the box is not on,
VoiceLooks ==
    /\ Request
    /\ ppPower # "ON"
    /\ Goto("events", "idle", "voice")
    /\ UNCHANGED <<ppState, ppNew, ppBus, ppDeep, ppEarly, ppOverlap>>

\* but what follows is a power key, which looks again and toggles.  The event of a voice
\* session leaves isFP undefined: it may be taken for a key of the front panel.
VoiceKey ==
    /\ \/ /\ Goto("events", "voice", "enter")
          /\ ppNew' = [ppNew EXCEPT !["events"] = Toggled]
          /\ UNCHANGED <<ppPower, ppRebooting>>
       \/ /\ ppLost /\ Goto("events", "voice", "idle")
          /\ ppPower' = "ON" /\ ppRebooting' = TRUE
          /\ UNCHANGED ppNew
    /\ UNCHANGED <<ppBuild, ppSleep, ppLost, ppBoot, ppWake, ppBus, ppDeep, ppHistory>>

\* KED_DEEPSLEEP_WAKEUP, of which there is the release only once.
WakeKey ==
    /\ ppKeys > 0 /\ ppKeys' = ppKeys - 1
    /\ ppPc["events"] = "idle"
    /\ IF ppPower = "ON" THEN UNCHANGED ppThreads
                         ELSE Calls("events", IF ppPower = "DEEP" THEN ppBuild.wakesTo ELSE "ON")
    /\ UNCHANGED <<ppState, ppEvents, ppDeep, ppHistory>>

_sleepModeChangeHandler ==
    /\ Request /\ ppPc["events"] = "idle"
    /\ ppSleep' \in {"STANDBY", "DEEP"} \ {ppSleep}
    /\ UNCHANGED <<ppBuild, ppPower, ppLost, ppBoot, ppWake, ppRebooting, ppThreads, ppBus,
                   ppDeep, ppEarly, ppOverlap>>

_systemStateChangeHandler ==
    /\ Request /\ EcmLoss /\ ppPc["events"] = "idle"
    /\ ppLost' = ~ppLost
    /\ UNCHANGED <<ppBuild, ppPower, ppSleep, ppBoot, ppWake, ppRebooting, ppThreads, ppBus,
                   ppDeep, ppEarly, ppOverlap>>

------------------------------------------------------------------------------
(* Timers of the power manager *)

\* handleDeepsleepTimeoutWakeup: an event that makes the deep sleep manager reboot the box,
\* or DEEP is stored and LIGHT asked for.
Timeout ==
    IF ppBuild.reboots
    THEN /\ ppEvents' = Append(ppEvents, "TIMEOUT")
         /\ UNCHANGED <<ppPower, ppThreads>>
    ELSE /\ ppPower' = "DEEP"
         /\ Calls("timers", "LIGHT")
         /\ UNCHANGED ppEvents

\* deep_sleep_wakeup_fn, when the time is over.  If the call for the status fails it stays
\* what it was set to before, which is DeepSleepStatus_NotStarted.
deep_sleep_wakeup_fn ==
    /\ ppBounds.timers < MaxTimers
    /\ ppWake /\ ppPc["timers"] = "idle"
    /\ \E failed \in {0, 1} :
          /\ IF failed = 1 THEN ppBounds.fails < MaxFails ELSE ppStatus # "InProgress"
          /\ ppBounds' = [ppBounds EXCEPT !.timers = @ + 1, !.fails = @ + failed]
    /\ ppWake' = FALSE
    /\ Timeout
    /\ ppOverlap' = (ppOverlap \/ \E t \in Thread : Changing(t))
    /\ UNCHANGED <<ppBuild, ppSleep, ppLost, ppBoot, ppRebooting, ppKeys, ppDeep, ppEarly>>

\* The deep sleep manager's call _handleDeepsleepTimeoutWakeup: the same on a thread.
TimeoutCall ==
    /\ ppPc["timers"] = "idle"
    /\ Timeout
    /\ ppOverlap' = (ppOverlap \/ \E t \in Thread : Changing(t))

invoke_deep_sleep_on_bootup_timeout ==
    /\ ppBounds.timers < MaxTimers
    /\ ppBounds' = [ppBounds EXCEPT !.timers = @ + 1]
    /\ ppBoot /\ ppPc["timers"] = "idle"
    /\ ppPower' = "STANDBY"
    /\ Calls("timers", "DEEP")
    /\ ppOverlap' = (ppOverlap \/ \E t \in Thread : Changing(t))
    /\ UNCHANGED <<ppBuild, ppSleep, ppLost, ppBoot, ppWake, ppRebooting, ppBus, ppDeep,
                   ppEarly>>

------------------------------------------------------------------------------
(* The deep sleep manager *)

\* The event of a deep sleep; with a delay a timer is set that has forgotten any other.
HandleDeep ==
    /\ ppHandler = "idle" /\ ppEvents # <<>> /\ Head(ppEvents) = "DEEP"
    /\ ppEvents' = Tail(ppEvents)
    /\ ppStatus' = "InProgress"
    /\ ppTries' = 0
    /\ IF ppDelay
       THEN /\ ppDelayed' = IF ppDelayed \in {"none", "spent"} THEN "set" ELSE "lost"
            /\ UNCHANGED ppHandler
       ELSE ppHandler' = "stopping" /\ UNCHANGED ppDelayed
    /\ UNCHANGED <<ppState, ppThreads, ppKeys, ppDelay, ppLoop, ppServices, ppHistory>>

HandleTimeout ==
    /\ ppHandler = "idle" /\ ppEvents # <<>> /\ Head(ppEvents) = "TIMEOUT"
    /\ ppEvents' = Tail(ppEvents)
    /\ ppRebooting' = TRUE
    /\ UNCHANGED <<ppBuild, ppPower, ppSleep, ppLost, ppBoot, ppWake, ppThreads, ppKeys,
                   ppDeep, ppHistory>>

StopServices ==
    /\ ppHandler = "stopping"
    /\ ppHandler' = "asleep"
    /\ ppServices' = "down"
    /\ UNCHANGED <<ppState, ppThreads, ppBus, ppStatus, ppTries, ppDelay, ppDelayed, ppLoop,
                   ppHistory>>

\* PLAT_DS_SetDeepSleep fails; at the fifth time that is that.
SleepFails ==
    /\ ppHandler = "asleep"
    /\ ppTries' = ppTries + 1
    /\ IF ppTries + 1 < 5 THEN UNCHANGED <<ppHandler, ppStatus>>
                          ELSE ppHandler' = "idle" /\ ppStatus' = "Failed"
    /\ UNCHANGED <<ppState, ppThreads, ppBus, ppDelay, ppDelayed, ppLoop, ppServices,
                   ppHistory>>

\* Mutant (UserWakesBox): the status is set at the end.
Mut_Awakes_LateStatus ==
    /\ ppHandler = "asleep"
    /\ ppHandler' = "key"
    /\ ppKeys' = ppKeys + 1
    /\ UNCHANGED <<ppState, ppThreads, ppEvents, ppStatus, ppTries, ppDelay, ppDelayed,
                   ppLoop, ppServices, ppHistory>>

\* The box has slept and wakes: by the user, or by the timer.
Awakes ==
    /\ ppHandler = "asleep"
    /\ ppStatus' = "Completed"
    /\ ppHandler' \in {"key", "timer"}
    /\ UNCHANGED <<ppState, ppThreads, ppBus, ppTries, ppDelay, ppDelayed, ppLoop,
                   ppServices, ppHistory>>

SendKey ==
    /\ ppHandler = "key"
    /\ ppHandler' = "idle"
    /\ ppKeys' = ppKeys + 1
    /\ UNCHANGED <<ppState, ppThreads, ppEvents, ppStatus, ppTries, ppDelay, ppDelayed,
                   ppLoop, ppServices, ppHistory>>

WokenByTimer ==
    /\ ppHandler = "timer"
    /\ ppHandler' = "idle"
    /\ \/ UNCHANGED <<ppPower, ppThreads, ppEvents, ppOverlap>>
       \/ ppBuild.byEvent /\ TimeoutCall
    /\ UNCHANGED <<ppBuild, ppSleep, ppLost, ppBoot, ppWake, ppRebooting, ppKeys, ppStatus,
                   ppTries, ppDelay, ppDelayed, ppLoop, ppServices, ppBounds, ppEarly>>

\* deep_sleep_delay_timer_fn.  The id is kept; the status stays what it was.
DelayEnds ==
    /\ ppLoop = "idle" /\ ppDelayed \in {"set", "lost"}
    /\ ppDelayed' = IF ppDelayed = "lost" THEN "set" ELSE "spent"
    /\ ppLoop' = "stopping"
    /\ UNCHANGED <<ppState, ppThreads, ppBus, ppStatus, ppHandler, ppTries, ppDelay,
                   ppServices, ppHistory>>

DelayStops ==
    /\ ppLoop = "stopping"
    /\ ppLoop' = "asleep"
    /\ ppServices' = "down"
    /\ UNCHANGED <<ppState, ppThreads, ppBus, ppStatus, ppHandler, ppTries, ppDelay,
                   ppDelayed, ppHistory>>

DelayedAwakes ==
    /\ ppLoop = "asleep"
    /\ ppLoop' = "idle"
    /\ \/ UNCHANGED <<ppPower, ppThreads, ppEvents, ppOverlap>>
       \/ ppBuild.byEvent /\ TimeoutCall
    /\ UNCHANGED <<ppBuild, ppSleep, ppLost, ppBoot, ppWake, ppRebooting, ppKeys, ppStatus,
                   ppHandler, ppTries, ppDelay, ppDelayed, ppServices, ppBounds, ppEarly>>

\* _SetDeepSleepTimer.
_SetDeepSleepTimer ==
    /\ Request
    /\ ppDelay' \in Delays \ {ppDelay}
    /\ UNCHANGED <<ppState, ppThreads, ppBus, ppStatus, ppHandler, ppTries, ppDelayed,
                   ppLoop, ppServices, ppEarly, ppOverlap>>

\* The box goes down and comes up again.
Reboot ==
    /\ ppRebooting
    /\ Booted(ppPower)
    /\ UNCHANGED <<ppBuild, ppSleep, ppHistory>>

------------------------------------------------------------------------------
PowerStep(t) == Enter(t) \/ Ask(t) \/ Wake(t) \/ Restart(t) \/ Change(t) \/ Post(t)

SleepStep ==
    HandleDeep \/ HandleTimeout \/ StopServices \/ Awakes \/ SendKey \/ WokenByTimer

PpNext ==
    \/ Reboot
    \/ /\ ~ppRebooting
       /\ \/ \E t \in Thread : PowerStep(t)
          \/ Call \/ Key \/ Ghost \/ VoiceLooks \/ VoiceKey \/ WakeKey
          \/ _sleepModeChangeHandler \/ _systemStateChangeHandler
          \/ deep_sleep_wakeup_fn \/ invoke_deep_sleep_on_bootup_timeout
          \/ SleepStep \/ SleepFails
          \/ DelayEnds \/ DelayStops \/ DelayedAwakes \/ _SetDeepSleepTimer

PpSafe == PpInit /\ [][PpNext]_ppVars

\* Threads run, events are delivered, the HAL's calls return.  A HAL that always fails is
\* not excluded, nor is a user who never does anything.
PpSpec ==
    /\ PpSafe
    /\ \A t \in Thread : WF_ppVars(PowerStep(t))
    /\ WF_ppVars(VoiceKey) /\ WF_ppVars(WakeKey)
    /\ WF_ppVars(~ppRebooting /\ SleepStep) /\ WF_ppVars(Reboot)

------------------------------------------------------------------------------
(* Properties *)

Fair == ~ppEarly /\ ~ppOverlap

\* The box is put to sleep, by the event's thread or by the timer of a delay, only while
\* the power manager's state is DEEP.  Left out: a wake-up that overtook the event of its
\* deep sleep (ppEarly), and calls that overlapped (ppOverlap).
SleepsOnlyInDeepSleep ==
    (ppHandler = "asleep" \/ ppLoop = "asleep") /\ Fair /\ ~ppRebooting => ppPower = "DEEP"

\* deepSleepMgr.c:304 "Always send KED_DEEPSLEEP_WAKEUP when user action wakes the device
\* from deep sleep": the key, sent by one process, makes the other leave deep sleep.
\* Nothing else may be going on: no deep sleep again, no change of the state.  And no call
\* between the two may fail from then on: a failing GetDeepSleepStatus drops the key, which
\* is not sent again, and the box stays in deep sleep until the user presses another.
WokenByUser ==
    /\ ppKeys > 0
    /\ ppHandler = "idle" /\ ppEvents = <<>> /\ ppDelayed = "none" /\ ppLoop = "idle"
    /\ \A t \in Thread : ~Changing(t)

UserWakesBox ==
    \A n \in 0..MaxFails :
        WokenByUser /\ ppBounds.fails = n
            ~> ppPower # "DEEP" \/ ppRebooting \/ ppBounds.fails > n
==============================================================================
