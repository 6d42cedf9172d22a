------------------------------- MODULE PwrMgr -------------------------------
(***************************************************************************)
(* The power state machine of pwrmgr2/pwrMgr.c with the deep sleep code it *)
(* drives.  _SetPowerState runs on five threads: the bus thread of an RPC, *)
(* the bus thread of key events ("ir", discrete keys), the thread          *)
(* _AsyncPowerTransition that carries out power keys, the main loop (its   *)
(* timers) and the thread of a timer wake-up ("tmo").  Only the            *)
(* asynchronous thread holds powerStateMutex meanwhile; the others run     *)
(* unlocked.  A call is cut into the steps between the blocking calls in   *)
(* it; pc names the step a thread is to take next.                         *)
(***************************************************************************)
EXTENDS DeepSleep

CONSTANTS
    OffStates,      \* what a power key switches to (dsHOST sleep mode)
    RpcStates,      \* what SetPowerState RPCs ask for
    DiscreteKeys,   \* discrete keys that are pressed: subset of {"ON", "STANDBY"}
    Remotes,        \* remotes send voice events, TV keys and ghosts of power keys
    EcmLoss,        \* a front panel power key may find the ECM lost
    SchdReboot,     \* _DISABLE_SCHD_REBOOT_AT_DEEPSLEEP is not defined
    MayFail,        \* malloc, pthread_create and the write of the file may fail
    BootStates,     \* the state the file may hold when the box first starts
    MaxRequests,    \* bound: keys and RPCs
    MaxTimers       \* bound: callbacks of timers between two restarts

States == {"ON", "STANDBY", "LIGHT_SLEEP", "DEEP_SLEEP"}

ASSUME PwrMgrAssumption ==
    /\ OffStates \subseteq States \ {"ON"}
    /\ RpcStates \subseteq States
    /\ DiscreteKeys \subseteq {"ON", "STANDBY"}
    /\ {Remotes, EcmLoss, SchdReboot, MayFail} \subseteq BOOLEAN
    /\ BootStates \subseteq States
    /\ MaxRequests \in Nat
    /\ MaxTimers \in Nat

VARIABLES
    powerState,         \* m_settings.powerState
    file,               \* the power state in the settings file
    hal,                \* what PLAT_API_SetPowerState was last given
    transitionState,    \* what the keys have asked for
    targetState,        \* what the asynchronous thread is to reach
    mutex,              \* owner of powerStateMutex: "async" or "none"
    pc,                 \* the next step of each thread
    new,                \* newState of each thread's call, or "none"
    bootupSource,       \* dsleep_bootup_event_src is attached
    wakeupSource,       \* wakeup_event_src
    wakeupLive,         \* sources of deep_sleep_wakeup_fn on the main loop
    loopFiring,         \* the source the main loop runs, or NoSource
    rebooting,          \* a reboot has been asked for
    requests,           \* history: keys and RPCs so far
    firings,            \* history: callbacks of timers since the start
    overlapped,         \* history: two calls of _SetPowerState overlapped
    early,              \* history: a wake-up overtook the start of a deep sleep
    unsaved,            \* history: the last write of the file failed
    crossed             \* history: a key came between the two writes of a call

viewVars == <<powerState, file, hal, transitionState, targetState>>
threadVars == <<mutex, pc, new>>
timerVars == <<bootupSource, wakeupSource, wakeupLive, loopFiring>>
runVars == <<rebooting, requests, firings, overlapped, early, unsaved, crossed>>

vars == <<dsVars, viewVars, threadVars, timerVars, runVars>>

Threads == {"ir", "rpc", "async", "loop", "tmo"}

\* The steps of _SetPowerState after it has decided to change the state.
CallSteps == {"wakeRestart", "wakeDone", "prechange", "write",
              "transition", "target", "hal", "event", "broadcast"}

InCall(t) == pc[t] \in CallSteps

\* The steps of a call whose caller has forced the state it starts from.
ForcedSteps == {"enter", "wakeRestart", "wakeDone", "prechange"}

\* _InitSettings has read the file, which says s.
Booted(s) ==
    /\ powerState = s /\ file = s /\ hal = s
    /\ transitionState = s /\ targetState = s
    /\ mutex = "none"
    /\ pc = [t \in Threads |-> IF t = "async" THEN "none" ELSE "idle"]
    /\ new = [t \in Threads |-> "none"]
    /\ bootupSource = (s = "DEEP_SLEEP")
    /\ wakeupSource = NoSource /\ wakeupLive = {} /\ loopFiring = NoSource
    /\ rebooting = FALSE /\ firings = 0
    /\ overlapped = FALSE /\ early = FALSE /\ unsaved = FALSE /\ crossed = FALSE

Init ==
    /\ DsInit
    /\ \E s \in BootStates : Booted(s)
    /\ requests = 0

-----------------------------------------------------------------------------
(* _SetPowerState *)

\* Where a thread goes when its call returns.
Returned(t) == [pc EXCEPT ![t] = IF t = "async" THEN "top" ELSE "idle"]

\* The asynchronous thread unlocks after the call; a timer's callback ends.
Leave(t) ==
    /\ pc' = Returned(t)
    /\ new' = [new EXCEPT ![t] = "none"]
    /\ mutex' = IF t = "async" THEN "none" ELSE mutex
    /\ IF t = "loop"
         THEN wakeupLive' = wakeupLive \ {loopFiring} /\ loopFiring' = NoSource
         ELSE UNCHANGED <<wakeupLive, loopFiring>>

\* The state is the requested one already.
EnterSame(t) ==
    /\ pc[t] = "enter"
    /\ powerState = new[t]
    /\ Leave(t)
    /\ UNCHANGED <<dsVars, viewVars, bootupSource, wakeupSource,
                   runVars>>

\* Deep sleep is in progress: the request is dropped.
EnterRefused(t) ==
    /\ pc[t] = "enter"
    /\ powerState # new[t]
    /\ powerState = "DEEP_SLEEP" /\ dsStatus = "InProgress"
    /\ bootupSource' = FALSE
    /\ Leave(t)
    /\ UNCHANGED <<dsVars, viewVars, wakeupSource, runVars>>

\* Mutant (PowerAsPromised): a deep sleep in progress does not stop the call.
Mut_EnterChange_Unchecked(t) ==
    /\ pc[t] = "enter"
    /\ powerState # new[t]
    /\ bootupSource' = FALSE
    /\ pc' = [pc EXCEPT ![t] =
                IF powerState = "DEEP_SLEEP" THEN "wakeRestart" ELSE "prechange"]
    /\ overlapped' = (overlapped \/ \E u \in Threads \ {t} : InCall(u))
    /\ early' = (early \/ (powerState = "DEEP_SLEEP" /\ \E d \in DsThreads : Waiting(d)))
    /\ UNCHANGED <<dsVars, viewVars, mutex, new, wakeupSource, wakeupLive,
                   loopFiring, rebooting, requests, firings, unsaved, crossed>>

\* The call goes ahead; from deep sleep, by waking up first.
EnterChange(t) ==
    /\ pc[t] = "enter"
    /\ powerState # new[t]
    /\ ~(powerState = "DEEP_SLEEP" /\ dsStatus = "InProgress")
    /\ bootupSource' = FALSE
    /\ pc' = [pc EXCEPT ![t] =
                IF powerState = "DEEP_SLEEP" THEN "wakeRestart" ELSE "prechange"]
    /\ overlapped' = (overlapped \/ \E u \in Threads \ {t} : InCall(u))
    /\ early' = (early \/ (powerState = "DEEP_SLEEP" /\ \E d \in DsThreads : Waiting(d)))
    /\ UNCHANGED <<dsVars, viewVars, mutex, new, wakeupSource, wakeupLive,
                   loopFiring, rebooting, requests, firings, unsaved, crossed>>

\* A thread goes on to its next step; the rest of pwrVars is left alone.
Goto(t, from, to) ==
    /\ pc[t] = from
    /\ pc' = [pc EXCEPT ![t] = to]

\* PwrMgrDeepSleepWakeup.
CallWakeRestart(t) ==
    /\ Goto(t, "wakeRestart", "wakeDone")
    /\ WakeRestart
    /\ UNCHANGED <<viewVars, mutex, new, timerVars, runVars>>

CallWakeDone(t) ==
    /\ Goto(t, "wakeDone", "prechange")
    /\ WakeDone
    /\ UNCHANGED <<viewVars, mutex, new, timerVars, runVars>>

\* IARM_BusDaemon_PowerPrechange has returned: the state is stored.
CallStore(t) ==
    /\ Goto(t, "prechange", "write")
    /\ powerState' = new[t]
    /\ UNCHANGED <<dsVars, file, hal, transitionState, targetState, mutex,
                   new, timerVars, runVars>>

\* _WriteSettings writes what m_settings holds by then.  If the file cannot be
\* opened or written, that is logged and the caller goes on.
WriteSettings ==
    \/ file' = powerState /\ unsaved' = FALSE
    \/ MayFail /\ unsaved' = TRUE /\ UNCHANGED file

\* Mutant (FileMatches): the file is written only when the box is on.
Mut_CallWrite_OnlyOn(t) ==
    /\ Goto(t, "write", "transition")
    /\ IF new[t] = "ON" THEN WriteSettings ELSE UNCHANGED <<file, unsaved>>
    /\ UNCHANGED <<dsVars, powerState, hal, transitionState, targetState,
                   mutex, new, timerVars, rebooting, requests, firings, overlapped,
                   early, crossed>>

CallWrite(t) ==
    /\ Goto(t, "write", "transition")
    /\ WriteSettings
    /\ UNCHANGED <<dsVars, powerState, hal, transitionState, targetState,
                   mutex, new, timerVars, rebooting, requests, firings, overlapped,
                   early, crossed>>

\* The states of the keys are brought up to date one after the other, without
\* the lock a key takes for the second: a key may come in between.
CallTransition(t) ==
    /\ Goto(t, "transition", "target")
    /\ transitionState' = new[t]
    /\ UNCHANGED <<dsVars, powerState, file, hal, targetState, mutex, new, timerVars,
                   runVars>>

\* Mutant (AgreeAtRest): the target of the keys is not brought up to date.
Mut_CallTarget_Skipped(t) ==
    /\ Goto(t, "target", "hal")
    /\ UNCHANGED <<dsVars, viewVars, mutex, new, timerVars, runVars>>

CallTarget(t) ==
    /\ Goto(t, "target", "hal")
    /\ targetState' = new[t]
    /\ UNCHANGED <<dsVars, powerState, file, hal, transitionState, mutex, new, timerVars,
                   runVars>>

\* The clean-up script has ended: PLAT_API_SetPowerState.
CallHal(t) ==
    /\ Goto(t, "hal", "event")
    /\ hal' = new[t]
    /\ UNCHANGED <<dsVars, powerState, file, transitionState, targetState,
                   mutex, new, timerVars, runVars>>

\* malloc failed: IARM_RESULT_OOM.
CallOom(t) ==
    /\ MayFail
    /\ pc[t] = "event"
    /\ Leave(t)
    /\ UNCHANGED <<dsVars, viewVars, bootupSource, wakeupSource,
                   runVars>>

\* Mutant (NoStrayWakeup): the id is dropped, the source stays attached.
Mut_CallEvent_KeepsSource(t) ==
    /\ Goto(t, "event", "broadcast")
    /\ IF new[t] = "DEEP_SLEEP"
         THEN IF UseWakeupTimerEvt
                THEN UNCHANGED <<wakeupSource, wakeupLive>>
                ELSE /\ HasFresh(wakeupLive \cup {wakeupSource, loopFiring})
                     /\ wakeupSource' =
                            FreshSource(wakeupLive \cup {wakeupSource, loopFiring})
                     /\ wakeupLive' = wakeupLive \cup {wakeupSource'}
         ELSE wakeupSource' = NoSource /\ wakeupLive' = wakeupLive
    /\ UNCHANGED <<dsVars, viewVars, mutex, new, bootupSource, loopFiring,
                   runVars>>

\* Deep sleep attaches the timer of deep_sleep_wakeup_fn, unless the wake-up
\* is an event of the HAL; any other state removes it.
CallEvent(t) ==
    /\ Goto(t, "event", "broadcast")
    /\ IF new[t] = "DEEP_SLEEP"
         THEN IF UseWakeupTimerEvt
                THEN UNCHANGED <<wakeupSource, wakeupLive>>
                ELSE /\ HasFresh(wakeupLive \cup {wakeupSource, loopFiring})
                     /\ wakeupSource' =
                            FreshSource(wakeupLive \cup {wakeupSource, loopFiring})
                     /\ wakeupLive' = wakeupLive \cup {wakeupSource'}
         ELSE /\ wakeupLive' = wakeupLive \ {wakeupSource}
              /\ wakeupSource' = NoSource
    /\ UNCHANGED <<dsVars, viewVars, mutex, new, bootupSource, loopFiring,
                   runVars>>

\* The MODECHANGED event; a change to deep sleep starts the thread, if it can.
CallBroadcast(t) ==
    /\ pc[t] = "broadcast"
    /\ IF new[t] = "DEEP_SLEEP"
         THEN \/ Spawn
              \/ MayFail /\ UNCHANGED dsThread
         ELSE UNCHANGED dsThread
    /\ Leave(t)
    /\ UNCHANGED <<dsStatus, delaySource, delayLive, delayLoop, delayFiring,
                   services, isLxcRestart, tries, wakeKeys, owedKeys,
                   timeouts, viewVars, bootupSource, wakeupSource,
                   runVars>>

SetPowerStateStep(t) ==
    \/ EnterSame(t)
    \/ EnterRefused(t)
    \/ EnterChange(t)
    \/ CallWakeRestart(t)
    \/ CallWakeDone(t)
    \/ CallStore(t)
    \/ CallWrite(t)
    \/ CallTransition(t)
    \/ CallTarget(t)
    \/ CallHal(t)
    \/ CallOom(t)
    \/ CallEvent(t)
    \/ CallBroadcast(t)

-----------------------------------------------------------------------------
(* Power keys: _irEventHandler, _SetPowerStateAsync, _AsyncPowerTransition *)

MayRequest == requests < MaxRequests

\* Mutant (KeyIsCarriedOut): the target is set without the lock and the
\* thread is not woken.
Mut_IrLock_NoSignal ==
    /\ pc["ir"] = "lock" /\ mutex = "none"
    /\ targetState' = new["ir"]
    /\ new' = [new EXCEPT !["ir"] = "none"]
    /\ pc' = [pc EXCEPT !["ir"] = "idle"]
    /\ UNCHANGED <<dsVars, powerState, file, hal, transitionState, mutex,
                   timerVars, runVars>>

\* A key asks for state s: transitionState is written without the lock, and
\* the asynchronous thread is created if there is none.
KeyAsksFor(s) ==
    /\ transitionState' = s
    /\ new' = [new EXCEPT !["ir"] = s]
    /\ pc' = [pc EXCEPT !["ir"] = "lock",
                        !["async"] = IF @ = "none" THEN "top" ELSE @]

\* The power key is released: toggle what the keys have asked for so far.
PowerKey(off) ==
    /\ pc["ir"] = "idle" /\ MayRequest
    /\ LET s == IF transitionState = "ON" THEN off ELSE "ON"
       IN  KeyAsksFor(s)
    /\ requests' = requests + 1
    /\ UNCHANGED <<dsVars, powerState, file, hal, targetState, mutex, timerVars,
                   rebooting, firings, overlapped, early, unsaved, crossed>>

\* KED_DEEPSLEEP_WAKEUP is released: switch on, unless on already.
WakeupKey ==
    /\ pc["ir"] = "idle" /\ wakeKeys > 0
    /\ wakeKeys' = wakeKeys - 1
    /\ IF transitionState # "ON"
         THEN KeyAsksFor("ON")
         ELSE UNCHANGED <<transitionState, new, pc>>
    /\ UNCHANGED <<dsStatus, delaySource, delayLive, delayLoop, delayFiring, services,
                   isLxcRestart, dsThread, tries, owedKeys, timeouts,
                   powerState, file, hal, targetState, mutex, timerVars, runVars>>

\* A discrete key calls _SetPowerState itself, if it would change the state.
DiscreteKey(s) ==
    /\ pc["ir"] = "idle" /\ MayRequest
    /\ s = (IF powerState = "ON" THEN "STANDBY" ELSE "ON")
    /\ pc' = [pc EXCEPT !["ir"] = "enter"]
    /\ new' = [new EXCEPT !["ir"] = s]
    /\ requests' = requests + 1
    /\ UNCHANGED <<dsVars, viewVars, mutex, timerVars, rebooting, firings,
                   overlapped, early, unsaved, crossed>>

\* The second half of _SetPowerStateAsync, under the lock.
IrLock ==
    /\ pc["ir"] = "lock" /\ mutex = "none"
    /\ targetState' = new["ir"]
    /\ new' = [new EXCEPT !["ir"] = "none"]
    /\ pc' = [pc EXCEPT !["ir"] = "idle",
                        !["async"] = IF targetState # new["ir"] /\ @ = "wait"
                                       THEN "top" ELSE @]
    /\ crossed' = (crossed \/ \E t \in Threads :
                                pc[t] = "target" /\ new[t] # transitionState)
    /\ UNCHANGED <<dsVars, powerState, file, hal, transitionState, mutex,
                   timerVars, rebooting, requests, firings, overlapped, early,
                   unsaved>>

\* The asynchronous thread takes the lock and has something to do.
AsyncCall ==
    /\ pc["async"] = "top" /\ mutex = "none"
    /\ powerState # targetState
    /\ mutex' = "async"
    /\ new' = [new EXCEPT !["async"] = targetState]
    /\ pc' = [pc EXCEPT !["async"] = "enter"]
    /\ UNCHANGED <<dsVars, viewVars, timerVars, runVars>>

\* It has nothing to do: pthread_cond_wait.
AsyncWait ==
    /\ pc["async"] = "top" /\ mutex = "none"
    /\ powerState = targetState
    /\ pc' = [pc EXCEPT !["async"] = "wait"]
    /\ UNCHANGED <<dsVars, viewVars, mutex, new, timerVars, runVars>>

\* The SetPowerState RPC.
RpcSetPowerState(s) ==
    /\ pc["rpc"] = "idle" /\ MayRequest
    /\ pc' = [pc EXCEPT !["rpc"] = "enter"]
    /\ new' = [new EXCEPT !["rpc"] = s]
    /\ requests' = requests + 1
    /\ UNCHANGED <<dsVars, viewVars, mutex, timerVars, rebooting, firings,
                   overlapped, early, unsaved, crossed>>

\* The ghost of a power key, whether it switched on or off, asks for ON.
GhostKey ==
    /\ Remotes /\ pc["ir"] = "idle" /\ MayRequest
    /\ pc' = [pc EXCEPT !["ir"] = "enter"]
    /\ new' = [new EXCEPT !["ir"] = "ON"]
    /\ requests' = requests + 1
    /\ UNCHANGED <<dsVars, viewVars, mutex, timerVars, rebooting, firings,
                   overlapped, early, unsaved, crossed>>

\* A voice session begins, or a key for the TV is pressed, and the box is not on,
VoiceLooks ==
    /\ Remotes /\ pc["ir"] = "idle" /\ MayRequest
    /\ powerState # "ON"
    /\ pc' = [pc EXCEPT !["ir"] = "voice"]
    /\ requests' = requests + 1
    /\ UNCHANGED <<dsVars, viewVars, mutex, new, timerVars, rebooting, firings,
                   overlapped, early, unsaved, crossed>>

\* which is taken for the release of a power key: that toggles, and may undo a key that
\* is just switching the box on.
VoiceKey(off) ==
    /\ pc["ir"] = "voice"
    /\ LET s == IF transitionState = "ON" THEN off ELSE "ON"
       IN  KeyAsksFor(s)
    /\ UNCHANGED <<dsVars, powerState, file, hal, targetState, mutex, timerVars, runVars>>

-----------------------------------------------------------------------------
(* Front panel power key while the ECM is lost: store ON, write, reboot *)

\* The event of a voice session leaves isFP undefined: it may count as such a key.
EcmStore ==
    /\ EcmLoss
    /\ \/ pc["ir"] = "idle" /\ MayRequest /\ requests' = requests + 1
       \/ pc["ir"] = "voice" /\ UNCHANGED requests
    /\ powerState' = "ON"
    /\ pc' = [pc EXCEPT !["ir"] = "ecmWrite"]
    /\ UNCHANGED <<dsVars, file, hal, transitionState, targetState, mutex, new,
                   timerVars, rebooting, firings, overlapped, early, unsaved, crossed>>

EcmWrite ==
    /\ Goto("ir", "ecmWrite", "reboot")
    /\ WriteSettings
    /\ rebooting' = TRUE
    /\ UNCHANGED <<dsVars, powerState, hal, transitionState, targetState, mutex,
                   new, timerVars, requests, firings, overlapped, early, crossed>>

-----------------------------------------------------------------------------
(* Timers: the main loop, and the thread of a wake-up by the HAL's timer *)

LoopIdle == pc["loop"] = "idle" /\ delayLoop = "idle"

MayFire == firings < MaxTimers /\ firings' = firings + 1

\* handleDeepsleepTimeoutWakeup reboots, or stores DEEP_SLEEP and asks for
\* LIGHT_SLEEP.
HandleTimeout(t) ==
    IF SchdReboot
      THEN /\ pc' = [pc EXCEPT ![t] = "reboot"]
           /\ rebooting' = TRUE
           /\ UNCHANGED <<powerState, new, overlapped>>
      ELSE /\ powerState' = "DEEP_SLEEP"
           /\ new' = [new EXCEPT ![t] = "LIGHT_SLEEP"]
           /\ pc' = [pc EXCEPT ![t] = "enter"]
           /\ overlapped' = (overlapped \/ \E u \in Threads : InCall(u))
           /\ UNCHANGED rebooting

\* deep_sleep_wakeup_fn finds the timeout elapsed and no deep sleep in progress.
WakeupTimer(s) ==
    /\ LoopIdle /\ MayFire
    /\ s \in wakeupLive
    /\ dsStatus # "InProgress"
    /\ loopFiring' = s
    /\ HandleTimeout("loop")
    /\ UNCHANGED <<dsVars, file, hal, transitionState, targetState, mutex,
                   bootupSource, wakeupSource, wakeupLive, requests,
                   early, unsaved, crossed>>

\* invoke_deep_sleep_on_bootup_timeout: store STANDBY, ask for DEEP_SLEEP.
BootupTimer ==
    /\ LoopIdle /\ MayFire
    /\ bootupSource
    /\ powerState' = "STANDBY"
    /\ new' = [new EXCEPT !["loop"] = "DEEP_SLEEP"]
    /\ pc' = [pc EXCEPT !["loop"] = "enter"]
    /\ overlapped' = (overlapped \/ \E u \in Threads : InCall(u))
    /\ UNCHANGED <<dsVars, file, hal, transitionState, targetState, mutex,
                   timerVars, rebooting, requests, early, unsaved, crossed>>

\* _handleDeepsleepTimeoutWakeup starts a thread.
TimeoutThread ==
    /\ pc["tmo"] = "idle" /\ timeouts > 0 /\ MayFire
    /\ timeouts' = timeouts - 1
    /\ HandleTimeout("tmo")
    /\ UNCHANGED <<dsStatus, delaySource, delayLive, delayLoop, delayFiring, services,
                   isLxcRestart, dsThread, tries, wakeKeys, owedKeys,
                   file, hal, transitionState, targetState, mutex, timerVars,
                   requests, early, unsaved, crossed>>

\* The delay timer of the deep sleep code runs on the main loop too.
LoopDelay ==
    /\ pc["loop"] = "idle"
    /\ DelayStep
    /\ UNCHANGED <<viewVars, threadVars, timerVars, runVars>>

\* The box restarts: _InitSettings reads the file, and all else is new.
Boot ==
    /\ rebooting
    /\ dsStatus' = "NotStarted" /\ delaySource' = NoSource /\ delayLive' = {}
    /\ delayLoop' = "idle" /\ delayFiring' = NoSource /\ services' = "up"
    /\ isLxcRestart' = FALSE
    /\ dsThread' = [d \in DsThreads |-> "free"]
    /\ tries' = [d \in DsThreads |-> 0]
    /\ wakeKeys' = 0 /\ owedKeys' = 0 /\ timeouts' = 0
    /\ powerState' = file /\ hal' = file
    /\ transitionState' = file /\ targetState' = file
    /\ mutex' = "none"
    /\ pc' = [t \in Threads |-> IF t = "async" THEN "none" ELSE "idle"]
    /\ new' = [t \in Threads |-> "none"]
    /\ bootupSource' = (file = "DEEP_SLEEP")
    /\ wakeupSource' = NoSource /\ wakeupLive' = {} /\ loopFiring' = NoSource
    /\ rebooting' = FALSE /\ firings' = 0
    /\ overlapped' = FALSE /\ early' = FALSE /\ unsaved' = FALSE /\ crossed' = FALSE
    /\ UNCHANGED <<file, requests>>

-----------------------------------------------------------------------------
CallStep(t) == SetPowerStateStep(t)
DsStep(d) == DsThreadStep(d) /\ UNCHANGED <<viewVars, threadVars, timerVars, runVars>>

Next ==
    \/ \E t \in Threads : CallStep(t)
    \/ \E off \in OffStates : PowerKey(off)
    \/ \E s \in DiscreteKeys : DiscreteKey(s)
    \/ \E s \in RpcStates : RpcSetPowerState(s)
    \/ GhostKey
    \/ VoiceLooks
    \/ \E off \in OffStates : VoiceKey(off)
    \/ WakeupKey
    \/ IrLock
    \/ AsyncCall
    \/ AsyncWait
    \/ EcmStore
    \/ EcmWrite
    \/ \E s \in SourceIds : WakeupTimer(s)
    \/ BootupTimer
    \/ TimeoutThread
    \/ LoopDelay
    \/ \E d \in DsThreads : DsStep(d)
    \/ Boot

\* Threads and the main loop run, timers come due, a reboot happens, the bus
\* delivers the wake-up key.  Nobody has to press a key or send an RPC.
Fairness ==
    /\ \A t \in Threads : WF_vars(CallStep(t))
    /\ \A d \in DsThreads : WF_vars(DsStep(d))
    /\ WF_vars(AsyncCall) /\ WF_vars(AsyncWait)
    /\ WF_vars(\E off \in OffStates : VoiceKey(off))
    /\ WF_vars(IrLock) /\ WF_vars(WakeupKey) /\ WF_vars(EcmWrite)
    /\ \A s \in SourceIds : WF_vars(WakeupTimer(s))
    /\ WF_vars(BootupTimer) /\ WF_vars(TimeoutThread) /\ WF_vars(LoopDelay)
    /\ WF_vars(Boot)

Spec == Init /\ [][Next]_vars
FairSpec == Spec /\ Fairness

-----------------------------------------------------------------------------
(* Properties *)

\* The type invariant.
TypeOK ==
    /\ DsTypeOK
    /\ powerState \in States /\ file \in States /\ hal \in States
    /\ transitionState \in States /\ targetState \in States
    /\ mutex \in {"none", "async"}
    /\ pc \in [Threads -> CallSteps \cup {"none", "idle", "top", "wait", "lock",
                                           "voice", "enter", "ecmWrite", "reboot"}]
    /\ new \in [Threads -> States \cup {"none"}]
    /\ bootupSource \in BOOLEAN
    /\ wakeupSource \in {NoSource} \cup SourceIds
    /\ wakeupLive \subseteq SourceIds
    /\ loopFiring \in {NoSource} \cup SourceIds
    /\ rebooting \in BOOLEAN
    /\ requests \in 0 .. MaxRequests
    /\ firings \in 0 .. MaxTimers
    /\ overlapped \in BOOLEAN /\ early \in BOOLEAN
    /\ unsaved \in BOOLEAN /\ crossed \in BOOLEAN

\* No thread has a change of state to finish.
AtRest ==
    /\ \A t \in Threads \ {"async"} : pc[t] = "idle"
    /\ pc["async"] \in {"none", "wait"}

\* Calls came one at a time, and none woke a box whose deep sleep thread had
\* not begun.  What goes wrong otherwise is under "what the checks found" in
\* the README.
OneAtATime == ~overlapped /\ ~early

\* The thread that holds powerStateMutex is the asynchronous one in a call, and
\* it never waits for a signal with work to do that no one will announce.
NoLostSignal ==
    /\ mutex = "async" <=> (pc["async"] = "enter" \/ InCall("async"))
    /\ (OneAtATime /\ pc["async"] = "wait"
          /\ \A t \in Threads : pc[t] \in {"idle", "wait"}) =>
       targetState = powerState

\* Once the box is at rest all copies of the power state agree: memory, file,
\* hardware, and the two states the keys go by.  Two exceptions: the last
\* write of the file failed; and transitionState after a key that put both its
\* states in place between the two writes of a call on another thread.
AgreeAtRest ==
    (AtRest /\ OneAtATime) =>
        /\ powerState = file \/ unsaved
        /\ powerState = hal
        /\ powerState = transitionState \/ crossed
        /\ powerState = targetState

\* A restart comes back in the last state stored, unless the last write failed:
\* memory and file differ only while a thread is between its store and its
\* write, or the boot-up timer has forced STANDBY and not stored DEEP_SLEEP yet;
\* however calls overlap.  (Builds that do not reboot on a timeout force a state
\* on another thread as well; see the README.)
FileMatches ==
    (/\ SchdReboot /\ ~unsaved
     /\ \A t \in Threads : pc[t] \notin {"write", "ecmWrite"}
     /\ pc["loop"] \notin ForcedSteps) => file = powerState

\* The timer that leaves deep sleep for maintenance is not left running on a
\* box that has left deep sleep already: it would reboot it or darken it.
NoStrayWakeup ==
    (AtRest /\ OneAtATime /\ powerState # "DEEP_SLEEP") => wakeupLive = {}

\* Calls come one at a time and no ECM key is about to reboot the box.
Calm == OneAtATime /\ pc["ir"] \notin {"ecmWrite", "reboot"}

\* A thread is in the HAL that puts the box to sleep.
Sleeping == delayLoop = "entering" \/ \E d \in DsThreads : dsThread[d] = "trying"

\* What the call that is under way changes the state to.
Changing ==
    IF \E t \in Threads : InCall(t)
      THEN new[CHOOSE t \in Threads : InCall(t)]
      ELSE "none"

\* The call that is under way, or the last one, could not save its state.
SaveFailed ==
    unsaved /\ \A t \in Threads :
                  pc[t] \notin {"wakeRestart", "wakeDone", "prechange", "write"}

Power == INSTANCE PowerSpec WITH
    Deep <- "DEEP_SLEEP", calm <- Calm, saved <- file, shown <- hal,
    next <- Changing, sleeping <- Sleeping, unsaved <- SaveFailed

\* The power manager keeps the promises of PowerSpec: the file, the platform
\* and the deep sleep code follow one power state, each in its turn, whatever
\* the threads do in between and whenever the box restarts.
PowerAsPromised == Power!Spec

\* What a power key asked for is carried out, however fast the keys come and
\* even if deep sleep is just being entered, or another request replaces it.
KeyIsCarriedOut ==
    \A s \in States :
        (targetState = s) ~> (powerState = s \/ targetState # s)

\* pwrMgr.c:1177 says "Reboot the box after elapse of user configured /
\* Calculated Timeout": a box in deep sleep with the timer running is rebooted,
\* or leaves that state, unless calls overlap.
TimeoutLeavesDeepSleep ==
    (powerState = "DEEP_SLEEP" /\ wakeupLive # {}) ~>
        (rebooting \/ powerState # "DEEP_SLEEP" \/ overlapped)
=============================================================================
