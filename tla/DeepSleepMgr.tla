---------------------------- MODULE DeepSleepMgr ----------------------------
(***************************************************************************)
(* The deep sleep code with the client it was written for: a power manager *)
(* that changes the mode one call at a time and, to leave deep sleep, asks *)
(* for the status and then for the wake-up (pwrmgr2/pwrMgr.c:1073-1092).   *)
(* With ForeignWakeups any other process on the bus may call the RPC       *)
(* DeepSleepWakeup too, which tests no status.                             *)
(***************************************************************************)
EXTENDS DeepSleep

CONSTANT ForeignWakeups     \* other processes call DeepSleepWakeup

ASSUME DeepSleepMgrAssumption == ForeignWakeups \in BOOLEAN

VARIABLES
    mode,       \* the power manager's state: "awake" or "deep"
    client,     \* its call: "idle", "waking" (status seen), "restarted"
    foreign,    \* the foreign call: "idle" or "restarted"
    early       \* history: a wake-up overtook the start of a deep sleep

vars == <<dsVars, mode, client, foreign, early>>

Init ==
    /\ DsInit
    /\ mode = "awake"
    /\ client = "idle"
    /\ foreign = "idle"
    /\ early = FALSE

-----------------------------------------------------------------------------
(* The power manager *)

\* A change to deep sleep, which ends with HandleDeepSleepStateChange.
ToDeepSleep ==
    /\ client = "idle" /\ mode = "awake"
    /\ mode' = "deep"
    /\ Spawn
    /\ UNCHANGED <<dsStatus, delaySource, delayLive, delayLoop, delayFiring,
                   services, isLxcRestart, tries, wakeKeys, owedKeys, timeouts,
                   client, foreign, early>>

\* A change to another state: refused while a deep sleep is in progress.
CheckStatus ==
    /\ client = "idle" /\ mode = "deep"
    /\ dsStatus # "InProgress"
    /\ client' = "waking"
    /\ early' = (early \/ \E d \in DsThreads : Waiting(d))
    /\ UNCHANGED <<dsVars, mode, foreign>>

ClientRestart ==
    /\ client = "waking"
    /\ WakeRestart
    /\ client' = "restarted"
    /\ UNCHANGED <<mode, foreign, early>>

ClientDone ==
    /\ client = "restarted"
    /\ WakeDone
    /\ client' = "idle"
    /\ mode' = "awake"
    /\ UNCHANGED <<foreign, early>>

\* The wake-up key reaches the power manager, which then changes the state.
WakeKeyHandled ==
    /\ wakeKeys > 0
    /\ wakeKeys' = wakeKeys - 1
    /\ UNCHANGED <<dsStatus, delaySource, delayLive, delayLoop, delayFiring,
                   services, isLxcRestart, dsThread, tries, owedKeys, timeouts,
                   mode, client, foreign, early>>

\* The power manager's thread for a wake-up by the timer, when it has ended.
TimeoutHandled ==
    /\ timeouts > 0
    /\ timeouts' = timeouts - 1
    /\ UNCHANGED <<dsStatus, delaySource, delayLive, delayLoop, delayFiring,
                   services, isLxcRestart, dsThread, tries, wakeKeys, owedKeys,
                   mode, client, foreign, early>>

-----------------------------------------------------------------------------
(* The RPC _DeepSleepWakeup from elsewhere on the bus *)

ForeignRestart ==
    /\ ForeignWakeups /\ foreign = "idle"
    /\ WakeRestart
    /\ foreign' = "restarted"
    /\ UNCHANGED <<mode, client, early>>

ForeignDone ==
    /\ foreign = "restarted"
    /\ WakeDone
    /\ foreign' = "idle"
    /\ UNCHANGED <<mode, client, early>>

-----------------------------------------------------------------------------
EnvUnchanged == UNCHANGED <<mode, client, foreign, early>>

ThreadStep(d) == DsThreadStep(d) /\ EnvUnchanged
TimerStep == DelayStep /\ EnvUnchanged

Next ==
    \/ ToDeepSleep
    \/ CheckStatus
    \/ ClientRestart
    \/ ClientDone
    \/ WakeKeyHandled
    \/ TimeoutHandled
    \/ ForeignRestart
    \/ ForeignDone
    \/ \E d \in DsThreads : ThreadStep(d)
    \/ TimerStep

\* Threads run, the main loop runs, the HAL returns, the bus delivers keys; a
\* call that has been let through finishes.  A HAL that succeeds forever is
\* not assumed.  No user need ask for anything.
Fairness ==
    /\ \A d \in DsThreads : WF_vars(ThreadStep(d))
    /\ WF_vars(TimerStep)
    /\ WF_vars(ClientRestart) /\ WF_vars(ClientDone)
    /\ WF_vars(ForeignDone)
    /\ WF_vars(WakeKeyHandled) /\ WF_vars(TimeoutHandled)

Spec == Init /\ [][Next]_vars
FairSpec == Spec /\ Fairness

-----------------------------------------------------------------------------
(* Properties *)

\* The type invariant.
TypeOK ==
    /\ DsTypeOK
    /\ mode \in {"awake", "deep"}
    /\ client \in {"idle", "waking", "restarted"}
    /\ foreign \in {"idle", "restarted"}
    /\ early \in BOOLEAN

\* deepSleepMgr.h:66 says of the status InProgress "Deepsleep operation in
\* progress": some thread, the delay timer or its callback is working on it.
\* Requests are refused on the strength of this status.
InProgressIsTrue ==
    dsStatus = "InProgress" =>
        \/ \E d \in DsThreads : Active(d)
        \/ delayLive # {}
        \/ delayLoop # "idle"

\* The box at rest in a state other than deep sleep.
Awake == mode = "awake" /\ client = "idle" /\ foreign = "idle" /\ DsQuiet

\* When the power manager has left deep sleep and nothing is under way, the
\* services that were stopped run again and the status is back to the start;
\* unless a wake-up was let through before the thread of the deep sleep it
\* was to end had begun.
AwakeHasServices ==
    (Awake /\ ~early) => services = "up" /\ dsStatus = "NotStarted"

\* No delay timer outlives the deep sleep it was set for: while the box is
\* awake none is attached that could put it to sleep later.
NoStrayDelay ==
    (mode = "awake" /\ client = "idle" /\ ~early
        /\ \A d \in DsThreads : dsThread[d] = "free") => delayLive = {}

\* An attempt ends and lets requests through again: whatever the HAL answers,
\* the status does not stay InProgress.
InProgressEnds == dsStatus = "InProgress" ~> dsStatus # "InProgress"
=============================================================================
