------------------------------ MODULE DeepSleep ------------------------------
(***************************************************************************)
(* The deep sleep code linked into the power manager,                      *)
(* pwrmgr2/deepSleep.c.  This module has the state and the actions;        *)
(* DeepSleepMgr and PwrMgr close it with a client.                         *)
(*                                                                         *)
(* A mode change to deep sleep starts a thread.                            *)
(* The thread marks the operation as in progress and then either attaches  *)
(* a delay timer to the main loop, or stops the receiver services and      *)
(* calls the HAL, which returns when the box has slept and resumed.        *)
(* Nothing here is under a lock: the steps are what lies between two       *)
(* blocking calls.  The box runs nothing while the HAL sleeps, so a HAL    *)
(* call is one step.                                                       *)
(***************************************************************************)
EXTENDS Naturals, FiniteSets

CONSTANTS
    DsThreads,          \* threads (events) that may enter deep sleep at a time
    SourceIds,          \* GLib ids of the delay timer
    DelayChoices,       \* values a thread may find: is deep_sleep_delay_timeout set?
    ServiceKind,        \* what is stopped before sleep: "lxc", "receiver", "none"
    UseWakeupTimerEvt,  \* USE_WAKEUP_TIMER_EVT is defined in the build
    MaxTries,           \* attempts at PLAT_DS_SetDeepSleep (5 in the code)
    MaxWakes            \* bound: wake-ups by user or timer not yet handled

ASSUME DeepSleepAssumption ==
    /\ IsFiniteSet(DsThreads)
    /\ SourceIds \subseteq Nat \ {0}
    /\ DelayChoices \subseteq BOOLEAN
    /\ ServiceKind \in {"lxc", "receiver", "none"}
    /\ UseWakeupTimerEvt \in BOOLEAN
    /\ MaxTries \in Nat \ {0}
    /\ MaxWakes \in Nat

NoSource == 0

VARIABLES
    dsStatus,       \* IsDeviceInDeepSleep
    delaySource,    \* dsleep_delay_event_src
    delayLive,      \* delay sources attached to the main loop
    delayLoop,      \* deep_sleep_delay_timer_fn: "idle", "stopping", "entering"
    delayFiring,    \* the source it runs for, or NoSource
    services,       \* the stopped services: "up" or "down"
    isLxcRestart,
    dsThread,       \* the threads of HandleDeepSleepStateChange
    tries,          \* retryCount of each of them
    wakeKeys,       \* KED_DEEPSLEEP_WAKEUP keys on the bus, not yet handled
    owedKeys,       \* history: wake-ups by the user not yet announced (for MaxWakes)
    timeouts        \* wake-ups by the timer to be handled by a thread

dsVars == <<dsStatus, delaySource, delayLive, delayLoop, delayFiring, services,
            isLxcRestart, dsThread, tries, wakeKeys, owedKeys, timeouts>>

Statuses == {"NotStarted", "InProgress", "Completed", "Failed"}

\* Why the HAL resumed.  A timer is told from other reasons only in builds
\* that ask for the reason.
WakeReasons == {"user", "other"} \cup (IF UseWakeupTimerEvt THEN {"timer"} ELSE {})

DsInit ==
    /\ dsStatus = "NotStarted"
    /\ delaySource = NoSource
    /\ delayLive = {}
    /\ delayLoop = "idle"
    /\ delayFiring = NoSource
    /\ services = "up"
    /\ isLxcRestart = FALSE
    /\ dsThread = [d \in DsThreads |-> "free"]
    /\ tries = [d \in DsThreads |-> 0]
    /\ wakeKeys = 0
    /\ owedKeys = 0
    /\ timeouts = 0

\* The bound: the user (the timer) does not wake the box again while MaxWakes
\* earlier wake-ups are still to be handled.
MayWake(reason) ==
    /\ reason = "user" => wakeKeys + owedKeys < MaxWakes
    /\ reason = "timer" => timeouts < MaxWakes

\* The id GLib gives to a new source, and the thread that is created next.
FreshSource(used) == CHOOSE s \in SourceIds \ used : TRUE
HasFresh(used) == SourceIds \ used # {}
FreeThread == CHOOSE d \in DsThreads : dsThread[d] = "free"

\* A thread that has not claimed the operation yet: it has not looked at the
\* status, or has looked and is about to write it.
Waiting(d) == dsThread[d] \in {"spawned", "claiming"}

\* A thread between the moment it claims the operation and its end.
Active(d) == dsThread[d] # "free" /\ ~Waiting(d)

-----------------------------------------------------------------------------
(* Entering: SetPwrMgrDeepSleepMode on a thread of its own *)

\* HandleDeepSleepStateChange: the effect on the threads alone.
Spawn ==
    /\ \E d \in DsThreads : dsThread[d] = "free"
    /\ dsThread' = [dsThread EXCEPT ![FreeThread] = "spawned"]

\* The operation is under way already: the mode change is dropped.
DsGiveUp(d) ==
    /\ dsThread[d] = "spawned" /\ dsStatus = "InProgress"
    /\ dsThread' = [dsThread EXCEPT ![d] = "free"]
    /\ UNCHANGED <<dsStatus, delaySource, delayLive, delayLoop, delayFiring, services,
                   isLxcRestart, tries, wakeKeys, owedKeys, timeouts>>

\* It is not.  The status is written a few lines later, with no second look.
DsTest(d) ==
    /\ dsThread[d] = "spawned" /\ dsStatus # "InProgress"
    /\ dsThread' = [dsThread EXCEPT ![d] = "claiming"]
    /\ UNCHANGED <<dsStatus, delaySource, delayLive, delayLoop, delayFiring, services,
                   isLxcRestart, tries, wakeKeys, owedKeys, timeouts>>

\* The delay is set: the rest is left to the timer and the thread ends.
DsDelay(d) ==
    /\ dsThread[d] = "claiming"
    /\ TRUE \in DelayChoices
    /\ dsStatus' = "InProgress"
    /\ HasFresh(delayLive \cup {delaySource, delayFiring})
    /\ delaySource' = FreshSource(delayLive \cup {delaySource, delayFiring})
    /\ delayLive' = delayLive \cup {delaySource'}
    /\ dsThread' = [dsThread EXCEPT ![d] = "free"]
    /\ UNCHANGED <<delayLoop, delayFiring, services, isLxcRestart, tries,
                   wakeKeys, owedKeys, timeouts>>

\* No delay: on to stopping the services.
DsClaim(d) ==
    /\ dsThread[d] = "claiming"
    /\ FALSE \in DelayChoices
    /\ dsStatus' = "InProgress"
    /\ dsThread' = [dsThread EXCEPT ![d] = "stopping"]
    /\ tries' = [tries EXCEPT ![d] = 0]
    /\ UNCHANGED <<delaySource, delayLive, delayLoop, delayFiring, services,
                   isLxcRestart, wakeKeys, owedKeys, timeouts>>

\* lxc.service, or xre-receiver and wpeframework, or nothing is stopped.
StopServices ==
    /\ services' = IF ServiceKind = "none" THEN services ELSE "down"
    /\ isLxcRestart' = (isLxcRestart \/ ServiceKind = "lxc")

DsStop(d) ==
    /\ dsThread[d] = "stopping"
    /\ StopServices
    /\ dsThread' = [dsThread EXCEPT ![d] = "trying"]
    /\ UNCHANGED <<dsStatus, delaySource, delayLive, delayLoop, delayFiring,
                   tries, wakeKeys, owedKeys, timeouts>>

\* PLAT_DS_SetDeepSleep slept and resumed.
DsResume(d, reason) ==
    /\ dsThread[d] = "trying" /\ MayWake(reason)
    /\ dsStatus' = "Completed"
    /\ dsThread' = [dsThread EXCEPT ![d] = reason]
    /\ owedKeys' = owedKeys + (IF reason = "user" THEN 1 ELSE 0)
    /\ UNCHANGED <<delaySource, delayLive, delayLoop, delayFiring, services,
                   isLxcRestart, tries, wakeKeys, timeouts>>

\* Mutant (InProgressIsTrue, InProgressEnds): the last failure is not recorded.
Mut_DsFail_Unmarked(d) ==
    /\ dsThread[d] = "trying"
    /\ tries' = [tries EXCEPT ![d] = @ + 1]
    /\ dsThread' = [dsThread EXCEPT ![d] = IF tries'[d] >= MaxTries THEN "other"
                                        ELSE "trying"]
    /\ UNCHANGED <<dsStatus, delaySource, delayLive, delayLoop, delayFiring, services,
                   isLxcRestart, wakeKeys, owedKeys, timeouts>>

\* PLAT_DS_SetDeepSleep failed: again, or give up after MaxTries.
DsFail(d) ==
    /\ dsThread[d] = "trying"
    /\ tries' = [tries EXCEPT ![d] = @ + 1]
    /\ dsThread' = [dsThread EXCEPT ![d] = IF tries'[d] >= MaxTries THEN "other"
                                        ELSE "trying"]
    /\ dsStatus' = IF tries'[d] >= MaxTries THEN "Failed" ELSE dsStatus
    /\ UNCHANGED <<delaySource, delayLive, delayLoop, delayFiring, services,
                   isLxcRestart, wakeKeys, owedKeys, timeouts>>

\* The thread announces a wake-up by the user with a key, and hands one by
\* the timer to the power manager, in builds that do; then it ends.
DsReport(d) ==
    /\ dsThread[d] \in WakeReasons
    /\ dsThread' = [dsThread EXCEPT ![d] = "free"]
    /\ IF dsThread[d] = "user"
         THEN wakeKeys' = wakeKeys + 1 /\ owedKeys' = owedKeys - 1
         ELSE UNCHANGED <<wakeKeys, owedKeys>>
    /\ timeouts' = timeouts +
          (IF dsThread[d] = "timer" /\ UseWakeupTimerEvt THEN 1 ELSE 0)
    /\ UNCHANGED <<dsStatus, delaySource, delayLive, delayLoop, delayFiring, services,
                   isLxcRestart, tries>>

-----------------------------------------------------------------------------
(* The delay timer: deep_sleep_delay_timer_fn on the main loop *)

DelayFire(s) ==
    /\ delayLoop = "idle"
    /\ s \in delayLive
    /\ delayLoop' = "stopping"
    /\ delayFiring' = s
    /\ UNCHANGED <<dsStatus, delaySource, delayLive, services, isLxcRestart,
                   dsThread, tries, wakeKeys, owedKeys, timeouts>>

DelayStop ==
    /\ delayLoop = "stopping"
    /\ StopServices
    /\ delayLoop' = "entering"
    /\ UNCHANGED <<dsStatus, delaySource, delayLive, delayFiring, dsThread, tries,
                   wakeKeys, owedKeys, timeouts>>

\* The HAL sleeps, or fails ("other").  The status is not written, and a
\* wake-up by the user is not announced.
DelayEnter(reason) ==
    /\ delayLoop = "entering" /\ MayWake(reason)
    /\ owedKeys' = owedKeys + (IF reason = "user" THEN 1 ELSE 0)
    /\ timeouts' = timeouts +
          (IF reason = "timer" /\ UseWakeupTimerEvt THEN 1 ELSE 0)
    /\ delayLoop' = "idle"
    /\ delayLive' = delayLive \ {delayFiring}
    /\ delayFiring' = NoSource
    /\ UNCHANGED <<dsStatus, delaySource, services, isLxcRestart, dsThread,
                   tries, wakeKeys>>

-----------------------------------------------------------------------------
(* Waking: PwrMgrDeepSleepWakeup and the RPC _DeepSleepWakeup, in two steps  *)
(* because restarting the services takes seconds                           *)

\* Mutant (AwakeHasServices): the flag of lxc is tested the wrong way round.
Mut_RestartServices_Lxc ==
    /\ services' = IF isLxcRestart = (ServiceKind = "lxc") THEN services ELSE "up"
    /\ isLxcRestart' = FALSE

\* lxc is restarted if it was stopped here, else the receiver services are.
RestartServices ==
    /\ services' = IF isLxcRestart = (ServiceKind = "lxc") THEN "up" ELSE services
    /\ isLxcRestart' = FALSE

\* Mutant (NoStrayDelay): the delay timer is left attached.
Mut_WakeRestart_KeepsDelay ==
    /\ delaySource' = NoSource
    /\ IF dsStatus # "NotStarted"
         THEN RestartServices
         ELSE UNCHANGED <<services, isLxcRestart>>
    /\ UNCHANGED <<dsStatus, delayLive, delayLoop, delayFiring, dsThread, tries,
                   wakeKeys, owedKeys, timeouts>>

\* The HAL is woken, the delay timer removed, the services restarted.
WakeRestart ==
    /\ delayLive' = delayLive \ {delaySource}
    /\ delaySource' = NoSource
    /\ IF dsStatus # "NotStarted"
         THEN RestartServices
         ELSE UNCHANGED <<services, isLxcRestart>>
    /\ UNCHANGED <<dsStatus, delayLoop, delayFiring, dsThread, tries,
                   wakeKeys, owedKeys, timeouts>>

WakeDone ==
    /\ dsStatus' = "NotStarted"
    /\ UNCHANGED <<delaySource, delayLive, delayLoop, delayFiring, services,
                   isLxcRestart, dsThread, tries, wakeKeys, owedKeys, timeouts>>

-----------------------------------------------------------------------------
\* What the threads and the timer of this module do on their own.
DsThreadStep(d) ==
    \/ DsGiveUp(d)
    \/ DsTest(d)
    \/ DsDelay(d)
    \/ DsClaim(d)
    \/ DsStop(d)
    \/ \E reason \in WakeReasons : DsResume(d, reason)
    \/ DsFail(d)
    \/ DsReport(d)

DelayStep ==
    \/ \E s \in SourceIds : DelayFire(s)
    \/ DelayStop
    \/ \E reason \in WakeReasons : DelayEnter(reason)

\* Nothing of a deep sleep is under way.
DsQuiet ==
    /\ \A d \in DsThreads : dsThread[d] = "free"
    /\ delayLoop = "idle"
    /\ delayLive = {}

DsTypeOK ==
    /\ dsStatus \in Statuses
    /\ delaySource \in {NoSource} \cup SourceIds
    /\ delayLive \subseteq SourceIds
    /\ delayLoop \in {"idle", "stopping", "entering"}
    /\ delayFiring \in {NoSource} \cup SourceIds
    /\ services \in {"up", "down"}
    /\ isLxcRestart \in BOOLEAN
    /\ dsThread \in [DsThreads ->
                        {"free", "spawned", "claiming", "stopping", "trying"}
                            \cup WakeReasons]
    /\ tries \in [DsThreads -> 0 .. MaxTries]
    /\ wakeKeys \in Nat
    /\ owedKeys \in Nat
    /\ timeouts \in Nat
=============================================================================
