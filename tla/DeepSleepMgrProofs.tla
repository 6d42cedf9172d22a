------------------------- MODULE DeepSleepMgrProofs -------------------------
(* Proofs about DeepSleepMgr, from the lemmas of DeepSleepProofs. *)
EXTENDS DeepSleepMgr, DeepSleepProofs

\* The types of the client's variables.
ClientTypeOK ==
    /\ mode \in {"awake", "deep"}
    /\ client \in {"idle", "waking", "restarted"}
    /\ foreign \in {"idle", "restarted"}
    /\ early \in BOOLEAN

\* The inductive invariant.
IInv == DsInv /\ ClientTypeOK

\* The initial state satisfies it.
LEMMA InitIInv == Init => IInv
  BY DsInitInv DEF Init, IInv, ClientTypeOK

\* Every step preserves it.
LEMMA NextIInv == IInv /\ [Next]_vars => IInv'
<1> SUFFICES ASSUME IInv, [Next]_vars PROVE IInv'
  OBVIOUS
<1> USE DEF IInv
<1>1. CASE ToDeepSleep
  BY <1>1, SpawnInv DEF ToDeepSleep, ClientTypeOK
<1>2. CASE CheckStatus
  BY <1>2, DsUnchanged DEF CheckStatus, ClientTypeOK
<1>3. CASE ClientRestart
  BY <1>3, WakeRestartInv DEF ClientRestart, ClientTypeOK
<1>4. CASE ClientDone
  BY <1>4, WakeDoneInv DEF ClientDone, ClientTypeOK
<1>5. CASE WakeKeyHandled
  <2>1. wakeKeys' \in Nat /\ timeouts' \in Nat
    BY <1>5 DEF WakeKeyHandled, DsInv, DsTypeOK
  <2> QED BY <1>5, <2>1, DsTaken DEF WakeKeyHandled, ClientTypeOK
<1>6. CASE TimeoutHandled
  <2>1. wakeKeys' \in Nat /\ timeouts' \in Nat
    BY <1>6 DEF TimeoutHandled, DsInv, DsTypeOK
  <2> QED BY <1>6, <2>1, DsTaken DEF TimeoutHandled, ClientTypeOK
<1>7. CASE ForeignRestart
  BY <1>7, WakeRestartInv DEF ForeignRestart, ClientTypeOK
<1>8. CASE ForeignDone
  BY <1>8, WakeDoneInv DEF ForeignDone, ClientTypeOK
<1>9. ASSUME NEW d \in DsThreads, ThreadStep(d) PROVE IInv'
  BY <1>9, ThreadStepInv DEF ThreadStep, EnvUnchanged, ClientTypeOK
<1>10. CASE TimerStep
  BY <1>10, DelayStepInv DEF TimerStep, EnvUnchanged, ClientTypeOK
<1>11. CASE UNCHANGED vars
  BY <1>11, DsUnchanged DEF vars, ClientTypeOK
<1> QED BY <1>1, <1>2, <1>3, <1>4, <1>5, <1>6, <1>7, <1>8, <1>9, <1>10, <1>11
        DEF Next

\* The inductive invariant holds in every reachable state.
THEOREM InductiveInvariant == Spec => []IInv
  BY InitIInv, NextIInv, PTL DEF Spec

\* The variables keep their types: no counter of wake-ups runs below zero, no
\* thread tries more often than it may.
THEOREM TypeCorrect == Spec => []TypeOK
<1>1. IInv => TypeOK
  BY DEF IInv, DsInv, ClientTypeOK, TypeOK
<1> QED BY <1>1, InductiveInvariant, PTL

\* Without a delay the status InProgress always means that a thread is at
\* work, whoever else on the bus wakes the box.
THEOREM InProgressHolds ==
    ASSUME DelayChoices = {FALSE} PROVE Spec => []InProgressIsTrue
<1>1. IInv => InProgressIsTrue
  BY DEF IInv, DsInv, Immediate, AtWork, InProgressIsTrue, Active, Waiting
<1> QED BY <1>1, InductiveInvariant, PTL

-----------------------------------------------------------------------------
(* While no wake-up overtakes the start of a deep sleep *)

Running == services = "up" /\ ~isLxcRestart

Stopped ==
    /\ services = IF ServiceKind = "none" THEN "up" ELSE "down"
    /\ isLxcRestart = (ServiceKind = "lxc")

\* A thread that has not begun belongs to the deep sleep the client is in, and
\* the only delay timer is the one the program can remove.
DelayOK ==
    /\ delayLive \subseteq {delaySource}
    /\ \A d, e \in DsThreads : Waiting(d) /\ Waiting(e) => d = e
    /\ \A d \in DsThreads :
          Waiting(d) => mode = "deep" /\ client = "idle" /\ delayLive = {}
    /\ client # "idle" => mode = "deep"
    /\ client = "restarted" \/ mode = "awake" => delayLive = {}

\* The services are down from the moment they are stopped to the restart by
\* the client, and the status tells it which it is.
ServicesOK ==
    /\ OneSleep
    /\ foreign = "idle"
    /\ client # "idle" => mode = "deep" /\ Settled /\ dsStatus # "InProgress"
    /\ client = "restarted" => Running
    /\ mode = "awake" => Settled /\ dsStatus = "NotStarted"
    /\ dsStatus = "NotStarted" => Running
    /\ dsStatus \in {"Completed", "Failed"} /\ client # "restarted" => Settled /\ Stopped
    /\ \A d \in DsThreads : Waiting(d) => dsStatus = "NotStarted"
    /\ \A d \in DsThreads : dsThread[d] = "stopping" => Running
    /\ \A d \in DsThreads : dsThread[d] = "trying" => Stopped
    /\ delayLive # {} => IF delayLoop = "entering" THEN Stopped ELSE Running

DelayRestInv == ~early => DelayOK
ServicesInv == ~early /\ ~ForeignWakeups => ServicesOK

\* The steps of the client and of other processes.
LEMMA ClientStepRest ==
    ASSUME IInv, DelayRestInv, ServicesInv,
           \/ ToDeepSleep \/ CheckStatus \/ ClientRestart \/ ClientDone
           \/ WakeKeyHandled \/ TimeoutHandled
           \/ ForeignRestart \/ ForeignDone
           \/ UNCHANGED vars
    PROVE  DelayRestInv' /\ ServicesInv'
<1> USE DEF IInv, DsInv, DsTypeOK, ClientTypeOK
<1>1. ASSUME ~early' PROVE DelayOK'
  <2>1. ~early /\ DelayOK
        BY <1>1 DEF DelayRestInv, ToDeepSleep, CheckStatus, ClientRestart, ClientDone,
       WakeKeyHandled,
       TimeoutHandled, ForeignRestart, ForeignDone, vars
  <2> USE <1>1, <2>1 DEF DelayOK, Waiting
  <2>2. CASE ToDeepSleep
    BY <2>2 DEF ToDeepSleep, Spawn, FreeThread
  <2>3. CASE CheckStatus
    BY <2>3 DEF CheckStatus, dsVars
  <2>4. CASE ClientRestart \/ ForeignRestart
    BY <2>4 DEF ClientRestart, ForeignRestart, WakeRestart
  <2>5. CASE ClientDone \/ ForeignDone
    BY <2>5 DEF ClientDone, ForeignDone, WakeDone
  <2>6. CASE WakeKeyHandled \/ TimeoutHandled \/ UNCHANGED vars
    BY <2>6 DEF WakeKeyHandled, TimeoutHandled, vars, dsVars
  <2> QED BY <2>2, <2>3, <2>4, <2>5, <2>6
<1>2. ASSUME ~early', ~ForeignWakeups PROVE ServicesOK'
  <2>1. ~early /\ ServicesOK
        BY <1>2 DEF ServicesInv, ToDeepSleep, CheckStatus, ClientRestart, ClientDone,
       WakeKeyHandled,
       TimeoutHandled, ForeignRestart, ForeignDone, vars
  <2> USE <1>2, <2>1 DEF ServicesOK, Running, Stopped, Waiting
  <2>2. CASE ToDeepSleep
    <3>1. OneSleep'
      BY <2>2, SpawnOneSleep DEF ToDeepSleep
    <3> QED BY <2>2, <3>1 DEF ToDeepSleep, Spawn, FreeThread, Settled, Entering
  <2>3. CASE CheckStatus
    <3>1. OneSleep'
      BY <2>3 DEF CheckStatus, dsVars, OneSleep, Entering
    <3>2. Settled /\ Settled'
      BY <2>3 DEF CheckStatus, dsVars, OneSleep, Settled, Entering
    <3> QED BY <2>3, <3>1, <3>2 DEF CheckStatus, dsVars
  <2>4. CASE ClientRestart
    <3>1. OneSleep' /\ Settled'
      BY <2>4, WakeOneSleep DEF ClientRestart
        <3> QED BY <2>4, <3>1 DEF ClientRestart, WakeRestart, RestartServices,
       Settled, Entering, Statuses
  <2>5. CASE ClientDone
    <3>1. OneSleep' /\ Settled'
      BY <2>5, WakeOneSleep DEF ClientDone
    <3> QED BY <2>5, <3>1 DEF ClientDone, WakeDone, Settled, Entering
  <2>6. CASE ForeignRestart \/ ForeignDone
    BY <2>6 DEF ForeignRestart, ForeignDone
  <2>7. CASE WakeKeyHandled \/ TimeoutHandled \/ UNCHANGED vars
        BY <2>7 DEF WakeKeyHandled, TimeoutHandled, vars, dsVars, OneSleep, Settled,
       Entering
  <2> QED BY <2>2, <2>3, <2>4, <2>5, <2>6, <2>7
<1> QED BY <1>1, <1>2 DEF DelayRestInv, ServicesInv

\* The steps of the threads.
LEMMA ThreadStepRest ==
    ASSUME NEW d \in DsThreads, IInv, DelayRestInv, ServicesInv, ThreadStep(d)
    PROVE  DelayRestInv' /\ ServicesInv'
<1> USE DEF IInv, DsInv, DsTypeOK, ThreadStep, EnvUnchanged
<1>1. ASSUME ~early PROVE DelayOK'
  <2> USE <1>1 DEF DelayRestInv, DelayOK, Waiting
  <2>1. CASE DsDelay(d)
    BY <2>1 DEF DsDelay
  <2>2. CASE DsGiveUp(d) \/ DsTest(d) \/ DsClaim(d) \/ DsStop(d)
    BY <2>2 DEF DsGiveUp, DsTest, DsClaim, DsStop
  <2>3. CASE (\E reason \in WakeReasons : DsResume(d, reason)) \/ DsFail(d)
    BY <2>3 DEF DsResume, DsFail, WakeReasons
  <2>4. CASE DsReport(d)
    BY <2>4 DEF DsReport, WakeReasons
  <2> QED BY <2>1, <2>2, <2>3, <2>4 DEF DsThreadStep
<1>2. ASSUME ~early, ~ForeignWakeups PROVE ServicesOK'
  <2>1. ServicesOK
    BY <1>2 DEF ServicesInv
  <2> USE <1>2, <2>1 DEF ServicesOK, Running, Stopped, Waiting
  <2>2. OneSleep' /\ (Settled => Settled' /\ dsStatus' = dsStatus)
    BY ThreadOneSleep
  <2>3. CASE DsGiveUp(d) \/ DsTest(d)
    BY <2>2, <2>3 DEF DsGiveUp, DsTest, Settled, OneSleep, Entering
  <2>4. CASE DsDelay(d)
    BY <2>2, <2>4 DEF DsDelay, Settled, OneSleep, Entering
  <2>5. CASE DsClaim(d)
    BY <2>2, <2>5 DEF DsClaim, Settled, OneSleep, Entering
  <2>6. CASE DsStop(d)
    BY <2>2, <2>6 DEF DsStop, StopServices, Settled, OneSleep, Entering
  <2>7. ASSUME NEW reason \in WakeReasons, DsResume(d, reason) PROVE ServicesOK'
    BY <2>2, <2>7 DEF DsResume, WakeReasons, Settled, OneSleep, Entering
  <2>8. CASE DsFail(d)
    BY <2>2, <2>8 DEF DsFail, Settled, OneSleep, Entering
  <2>9. CASE DsReport(d)
    BY <2>2, <2>9 DEF DsReport, WakeReasons
  <2> QED BY <2>3, <2>4, <2>5, <2>6, <2>7, <2>8, <2>9 DEF DsThreadStep
<1> QED BY <1>1, <1>2 DEF DelayRestInv, ServicesInv

\* The steps of the delay timer.
LEMMA TimerStepRest ==
    ASSUME IInv, DelayRestInv, ServicesInv, TimerStep
    PROVE  DelayRestInv' /\ ServicesInv'
<1> USE DEF IInv, DsInv, DsTypeOK, TimerStep, EnvUnchanged
<1>1. ASSUME ~early PROVE DelayOK'
  BY <1>1 DEF DelayRestInv, DelayOK, Waiting, DelayStep, DelayFire, DelayStop, DelayEnter
<1>2. ASSUME ~early, ~ForeignWakeups PROVE ServicesOK'
  <2>1. ServicesOK
    BY <1>2 DEF ServicesInv
  <2> USE <1>2, <2>1 DEF ServicesOK, Running, Stopped, Waiting
  <2>2. OneSleep' /\ ~Settled
    BY DelayOneSleep
  <2>3. ASSUME NEW s \in SourceIds, DelayFire(s) PROVE ServicesOK'
    BY <2>2, <2>3 DEF DelayFire
  <2>4. CASE DelayStop
    BY <2>2, <2>4 DEF DelayStop, StopServices, Settled, OneSleep, Entering
  <2>5. ASSUME NEW reason \in WakeReasons, DelayEnter(reason) PROVE ServicesOK'
    BY <2>2, <2>5 DEF DelayEnter, OneSleep
  <2> QED BY <2>2, <2>3, <2>4, <2>5 DEF DelayStep
<1> QED BY <1>1, <1>2 DEF DelayRestInv, ServicesInv

\* Both hold in every reachable state.
THEOREM RestInvariant == Spec => [](IInv /\ DelayRestInv /\ ServicesInv)
<1>1. Init => DelayRestInv /\ ServicesInv
    BY DEF Init, DsInit, DelayRestInv, DelayOK, ServicesInv, ServicesOK, Running,
     OneSleep, Settled, Entering, Waiting
<1>2. IInv /\ DelayRestInv /\ ServicesInv /\ [Next]_vars => DelayRestInv' /\ ServicesInv'
  BY ClientStepRest, ThreadStepRest, TimerStepRest DEF Next
<1> QED BY <1>1, <1>2, InitIInv, NextIInv, PTL DEF Spec

\* Once the client has left deep sleep, the services it had stopped run again
\* and the status is back to the start, with or without a delay and whatever
\* is stopped, if nobody else wakes the box.
THEOREM ServicesRestarted == ASSUME ~ForeignWakeups PROVE Spec => []AwakeHasServices
<1>1. ServicesInv => AwakeHasServices
  BY DEF ServicesInv, ServicesOK, Running, AwakeHasServices, Awake
<1> QED BY <1>1, RestInvariant, PTL

\* No delay timer outlives the deep sleep it was set for, whoever else on the
\* bus wakes the box.
THEOREM DelayRemoved == Spec => []NoStrayDelay
<1>1. DelayRestInv => NoStrayDelay
  BY DEF DelayRestInv, DelayOK, NoStrayDelay
<1> QED BY <1>1, RestInvariant, PTL
=============================================================================
