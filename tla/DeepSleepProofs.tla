--------------------------- MODULE DeepSleepProofs ---------------------------
(***************************************************************************)
(* What every client of the deep sleep code can rely on: the operators of  *)
(* DeepSleep preserve DsInv, for any number of threads, delay timers and   *)
(* wake-ups.  DeepSleepMgrProofs and PwrMgrProofs build on these lemmas.   *)
(***************************************************************************)
EXTENDS DeepSleep, FiniteSetTheorems, TLAPS

\* The threads that are about to announce a wake-up by the user.
Announcers == {d \in DsThreads : dsThread[d] = "user"}

\* A thread that may call the HAL has an attempt left.
TriesOK ==
    \A d \in DsThreads : dsThread[d] \in {"stopping", "trying"} => tries[d] < MaxTries

\* Every thread about to announce a wake-up has one to announce.
OwedOK == Cardinality(Announcers) <= owedKeys

\* Without a delay the timer plays no part.
NoDelayTimer == delayLive = {} /\ delayLoop = "idle" /\ delayFiring = NoSource

\* A thread at work has claimed the operation and not ended it.
AtWork == \E d \in DsThreads : dsThread[d] \in {"stopping", "trying"}

\* What holds besides if no delay is configured.
Immediate ==
    DelayChoices = {FALSE} =>
        /\ NoDelayTimer
        /\ owedKeys = Cardinality(Announcers)
        /\ dsStatus = "InProgress" => AtWork

DsInv == DsTypeOK /\ TriesOK /\ OwedOK /\ Immediate

\* Announcers is finite, so its cardinality is a number.
LEMMA AnnouncersFinite == IsFiniteSet(Announcers) /\ Cardinality(Announcers) \in Nat
<1>1. IsFiniteSet(Announcers)
  BY FS_Subset, DeepSleepAssumption DEF DeepSleepAssumption, Announcers
<1> QED BY <1>1, FS_CardinalityType

\* The initial state satisfies the invariant.
LEMMA DsInitInv == DsInit => DsInv
<1> SUFFICES ASSUME DsInit PROVE DsInv
  OBVIOUS
<1> USE DeepSleepAssumption DEF DeepSleepAssumption, DsInit, NoSource
<1>1. DsTypeOK
  <2>1. dsThread \in [DsThreads -> {"free", "spawned", "claiming", "stopping", "trying"}
                                    \cup WakeReasons]
    OBVIOUS
  <2>2. tries \in [DsThreads -> 0 .. MaxTries]
    OBVIOUS
  <2>3. delaySource \in {NoSource} \cup SourceIds /\ delayLive \subseteq SourceIds
    OBVIOUS
  <2>4. delayFiring \in {NoSource} \cup SourceIds
    OBVIOUS
  <2>5. dsStatus \in Statuses /\ delayLoop \in {"idle", "stopping", "entering"}
    BY DEF Statuses
  <2>6. services \in {"up", "down"} /\ isLxcRestart \in BOOLEAN
    OBVIOUS
  <2>7. wakeKeys \in Nat /\ owedKeys \in Nat /\ timeouts \in Nat
    OBVIOUS
  <2> QED BY <2>1, <2>2, <2>3, <2>4, <2>5, <2>6, <2>7 DEF DsTypeOK
<1>2. TriesOK
  BY DEF TriesOK
<1>3. Announcers = {}
  BY DEF Announcers
<1>4. Cardinality(Announcers) = 0
  BY <1>3, FS_EmptySet
<1>5. OwedOK /\ Immediate
  BY <1>4 DEF OwedOK, Immediate, NoDelayTimer
<1> QED BY <1>1, <1>2, <1>5 DEF DsInv

\* Starting a thread.
LEMMA SpawnInv ==
    ASSUME DsInv, Spawn /\ UNCHANGED <<dsStatus, delaySource, delayLive, delayLoop,
           delayFiring, services, isLxcRestart, tries, wakeKeys, owedKeys, timeouts>> PROVE DsInv'
<1> USE DeepSleepAssumption DEF DeepSleepAssumption, DsInv, Spawn, FreeThread
<1>1. DsTypeOK'
  BY DEF DsTypeOK, Statuses, WakeReasons, NoSource
<1>2. TriesOK'
  BY DEF DsTypeOK, TriesOK, WakeReasons
<1>3. Announcers' = Announcers
  BY DEF DsTypeOK, Announcers, WakeReasons
<1>4. OwedOK'
  BY <1>3, AnnouncersFinite DEF OwedOK, DsTypeOK
<1>5. Immediate'
  BY <1>3 DEF Immediate, NoDelayTimer, AtWork, DsTypeOK
<1> QED BY <1>1, <1>2, <1>4, <1>5

\* A thread that finds the operation under way.
LEMMA GiveUpInv ==
    ASSUME NEW d \in DsThreads, DsInv, DsGiveUp(d) PROVE DsInv'
<1> USE DeepSleepAssumption DEF DeepSleepAssumption, DsInv, DsGiveUp
<1>1. DsTypeOK'
  BY DEF DsTypeOK, Statuses, WakeReasons, NoSource
<1>2. TriesOK'
  BY DEF DsTypeOK, TriesOK, WakeReasons
<1>3. Announcers' = Announcers
  BY DEF DsTypeOK, Announcers, WakeReasons
<1>4. OwedOK'
  BY <1>3, AnnouncersFinite DEF OwedOK, DsTypeOK
<1>5. Immediate'
  BY <1>3 DEF Immediate, NoDelayTimer, AtWork, DsTypeOK
<1> QED BY <1>1, <1>2, <1>4, <1>5

\* A thread that finds the operation free.
LEMMA TestInv ==
    ASSUME NEW d \in DsThreads, DsInv, DsTest(d) PROVE DsInv'
<1> USE DeepSleepAssumption DEF DeepSleepAssumption, DsInv, DsTest
<1>1. DsTypeOK'
  BY DEF DsTypeOK, Statuses, WakeReasons, NoSource
<1>2. TriesOK'
  BY DEF DsTypeOK, TriesOK, WakeReasons
<1>3. Announcers' = Announcers
  BY DEF DsTypeOK, Announcers, WakeReasons
<1>4. OwedOK'
  BY <1>3, AnnouncersFinite DEF OwedOK, DsTypeOK
<1>5. Immediate'
  BY <1>3 DEF Immediate, NoDelayTimer, AtWork, DsTypeOK
<1> QED BY <1>1, <1>2, <1>4, <1>5

\* A thread that leaves the rest to the delay timer.
LEMMA DelayInv ==
    ASSUME NEW d \in DsThreads, DsInv, DsDelay(d) PROVE DsInv'
<1> USE DeepSleepAssumption DEF DeepSleepAssumption, DsInv, DsDelay, HasFresh, FreshSource
<1>1. DsTypeOK'
  BY DEF DsTypeOK, Statuses, WakeReasons, NoSource
<1>2. TriesOK'
  BY DEF DsTypeOK, TriesOK, WakeReasons
<1>3. Announcers' = Announcers
  BY DEF DsTypeOK, Announcers, WakeReasons
<1>4. OwedOK'
  BY <1>3, AnnouncersFinite DEF OwedOK, DsTypeOK
<1>5. Immediate'
  BY <1>3 DEF Immediate, NoDelayTimer, AtWork, DsTypeOK
<1> QED BY <1>1, <1>2, <1>4, <1>5

\* A thread that claims the operation.
LEMMA ClaimInv ==
    ASSUME NEW d \in DsThreads, DsInv, DsClaim(d) PROVE DsInv'
<1> USE DeepSleepAssumption DEF DeepSleepAssumption, DsInv, DsClaim
<1>1. DsTypeOK'
  BY DEF DsTypeOK, Statuses, WakeReasons, NoSource
<1>2. TriesOK'
  BY DEF DsTypeOK, TriesOK, WakeReasons
<1>3. Announcers' = Announcers
  BY DEF DsTypeOK, Announcers, WakeReasons
<1>4. OwedOK'
  BY <1>3, AnnouncersFinite DEF OwedOK, DsTypeOK
<1>5. Immediate'
  BY <1>3 DEF Immediate, NoDelayTimer, AtWork, DsTypeOK
<1> QED BY <1>1, <1>2, <1>4, <1>5

\* Stopping the services.
LEMMA StopInv ==
    ASSUME NEW d \in DsThreads, DsInv, DsStop(d) PROVE DsInv'
<1> USE DeepSleepAssumption DEF DeepSleepAssumption, DsInv, DsStop, StopServices
<1>1. DsTypeOK'
  BY DEF DsTypeOK, Statuses, WakeReasons, NoSource
<1>2. TriesOK'
  BY DEF DsTypeOK, TriesOK, WakeReasons
<1>3. Announcers' = Announcers
  BY DEF DsTypeOK, Announcers, WakeReasons
<1>4. OwedOK'
  BY <1>3, AnnouncersFinite DEF OwedOK, DsTypeOK
<1>5. Immediate'
  BY <1>3 DEF Immediate, NoDelayTimer, AtWork, DsTypeOK
<1> QED BY <1>1, <1>2, <1>4, <1>5

\* An attempt that failed.
LEMMA FailInv ==
    ASSUME NEW d \in DsThreads, DsInv, DsFail(d) PROVE DsInv'
<1> USE DeepSleepAssumption DEF DeepSleepAssumption, DsInv, DsFail
<1>1. DsTypeOK'
  <2>1. tries[d] \in 0 .. MaxTries /\ tries[d] < MaxTries
    BY DEF DsTypeOK, TriesOK
  <2>2. tries' \in [DsThreads -> 0 .. MaxTries]
    BY <2>1 DEF DsTypeOK
  <2>3. dsThread' \in [DsThreads -> {"free", "spawned", "claiming", "stopping", "trying"}
                                     \cup WakeReasons]
    BY <2>2 DEF DsTypeOK, WakeReasons
  <2> QED BY <2>2, <2>3 DEF DsTypeOK, Statuses
<1>2. TriesOK'
  BY DEF DsTypeOK, TriesOK, WakeReasons
<1>3. Announcers' = Announcers
  BY DEF DsTypeOK, Announcers, WakeReasons
<1>4. OwedOK'
  BY <1>3, AnnouncersFinite DEF OwedOK, DsTypeOK
<1>5. Immediate'
  BY <1>3 DEF Immediate, NoDelayTimer, AtWork, DsTypeOK
<1> QED BY <1>1, <1>2, <1>4, <1>5

\* The HAL resumed.
LEMMA ResumeInv ==
    ASSUME NEW d \in DsThreads, NEW reason \in WakeReasons, DsInv, DsResume(d, reason)
    PROVE  DsInv'
<1> USE DeepSleepAssumption DEF DeepSleepAssumption, DsInv, DsResume
<1>1. DsTypeOK'
  BY DEF DsTypeOK, Statuses, WakeReasons, MayWake
<1>2. TriesOK'
  BY DEF DsTypeOK, TriesOK, WakeReasons
<1>3. CASE reason = "user"
  <2>1. Announcers' = Announcers \cup {d} /\ d \notin Announcers
    BY <1>3 DEF DsTypeOK, Announcers
  <2>2. Cardinality(Announcers') = Cardinality(Announcers) + 1
    BY <2>1, AnnouncersFinite, FS_AddElement
  <2>3. owedKeys' = owedKeys + 1
    BY <1>3
  <2>4. OwedOK'
    BY <2>2, <2>3, AnnouncersFinite DEF OwedOK, DsTypeOK
  <2>5. Immediate'
    BY <2>2, <2>3 DEF Immediate, NoDelayTimer
  <2> QED BY <1>1, <1>2, <2>4, <2>5
<1>4. CASE reason # "user"
  <2>1. Announcers' = Announcers /\ owedKeys' = owedKeys
    BY <1>4 DEF DsTypeOK, Announcers
  <2>2. OwedOK'
    BY <2>1 DEF OwedOK
  <2>3. Immediate'
    BY <2>1 DEF Immediate, NoDelayTimer
  <2> QED BY <1>1, <1>2, <2>2, <2>3
<1> QED BY <1>3, <1>4

\* The thread reports why it woke and ends.
LEMMA ReportInv ==
    ASSUME NEW d \in DsThreads, DsInv, DsReport(d) PROVE DsInv'
<1> USE DeepSleepAssumption DEF DeepSleepAssumption, DsInv, DsReport
<1>1. TriesOK'
  BY DEF DsTypeOK, TriesOK, WakeReasons
<1>2. AtWork => AtWork'
  BY DEF AtWork, DsTypeOK, WakeReasons
<1>3. CASE dsThread[d] = "user"
  <2>1. Announcers' = Announcers \ {d} /\ d \in Announcers
    BY <1>3 DEF DsTypeOK, Announcers
  <2>2. Cardinality(Announcers') = Cardinality(Announcers) - 1
    BY <2>1, AnnouncersFinite, FS_RemoveElement
  <2>3. Cardinality(Announcers') \in Nat
    BY <2>1, AnnouncersFinite, FS_RemoveElement, FS_CardinalityType
  <2>4. owedKeys' = owedKeys - 1 /\ wakeKeys' = wakeKeys + 1 /\ timeouts' = timeouts
    BY <1>3 DEF DsTypeOK
  <2>5. owedKeys' \in Nat
    BY <2>2, <2>3, <2>4, AnnouncersFinite DEF OwedOK, DsTypeOK
  <2>6. DsTypeOK'
    BY <2>4, <2>5 DEF DsTypeOK, WakeReasons
  <2>7. OwedOK'
    BY <2>2, <2>4, AnnouncersFinite DEF OwedOK, DsTypeOK
  <2>8. Immediate'
    BY <1>2, <2>2, <2>4 DEF Immediate, NoDelayTimer
  <2> QED BY <1>1, <2>6, <2>7, <2>8
<1>4. CASE dsThread[d] # "user"
  <2>1. Announcers' = Announcers /\ owedKeys' = owedKeys /\ wakeKeys' = wakeKeys
    BY <1>4 DEF DsTypeOK, Announcers
  <2>2. DsTypeOK'
    BY <2>1 DEF DsTypeOK, WakeReasons
  <2>3. OwedOK' /\ Immediate'
    BY <1>2, <2>1 DEF OwedOK, Immediate, NoDelayTimer
  <2> QED BY <1>1, <2>2, <2>3
<1> QED BY <1>3, <1>4

\* Every step of a deep sleep thread.
LEMMA ThreadStepInv ==
    ASSUME NEW d \in DsThreads, DsInv, DsThreadStep(d) PROVE DsInv'
  BY GiveUpInv, TestInv, DelayInv, ClaimInv, StopInv, ResumeInv, FailInv, ReportInv
  DEF DsThreadStep

\* The delay elapses.
LEMMA DelayFireInv ==
    ASSUME NEW s \in SourceIds, DsInv, DelayFire(s) PROVE DsInv'
<1> USE DeepSleepAssumption DEF DeepSleepAssumption, DsInv, DelayFire
<1>1. DsTypeOK'
  BY DEF DsTypeOK, Statuses, WakeReasons, NoSource
<1>2. TriesOK'
  BY DEF DsTypeOK, TriesOK, WakeReasons
<1>3. Announcers' = Announcers
  BY DEF DsTypeOK, Announcers, WakeReasons
<1>4. OwedOK'
  BY <1>3, AnnouncersFinite DEF OwedOK, DsTypeOK
<1>5. Immediate'
  BY <1>3 DEF Immediate, NoDelayTimer, AtWork, DsTypeOK
<1> QED BY <1>1, <1>2, <1>4, <1>5

\* The timer's callback stops the services.
LEMMA DelayStopInv ==
    ASSUME DsInv, DelayStop PROVE DsInv'
<1> USE DeepSleepAssumption DEF DeepSleepAssumption, DsInv, DelayStop, StopServices
<1>1. DsTypeOK'
  BY DEF DsTypeOK, Statuses, WakeReasons, NoSource
<1>2. TriesOK'
  BY DEF DsTypeOK, TriesOK, WakeReasons
<1>3. Announcers' = Announcers
  BY DEF DsTypeOK, Announcers, WakeReasons
<1>4. OwedOK'
  BY <1>3, AnnouncersFinite DEF OwedOK, DsTypeOK
<1>5. Immediate'
  BY <1>3 DEF Immediate, NoDelayTimer, AtWork, DsTypeOK
<1> QED BY <1>1, <1>2, <1>4, <1>5

\* The timer's callback sleeps.
LEMMA DelayEnterInv ==
    ASSUME NEW reason \in WakeReasons, DsInv, DelayEnter(reason) PROVE DsInv'
<1> USE DeepSleepAssumption DEF DeepSleepAssumption, DsInv, DelayEnter, MayWake
<1>1. DsTypeOK'
  BY DEF DsTypeOK, Statuses, WakeReasons, NoSource
<1>2. TriesOK'
  BY DEF DsTypeOK, TriesOK, WakeReasons
<1>3. Announcers' = Announcers
  BY DEF DsTypeOK, Announcers, WakeReasons
<1>4. OwedOK'
  BY <1>3, AnnouncersFinite DEF OwedOK, DsTypeOK
<1>5. Immediate'
  BY <1>3 DEF Immediate, NoDelayTimer, AtWork, DsTypeOK
<1> QED BY <1>1, <1>2, <1>4, <1>5

\* Every step of the delay timer.
LEMMA DelayStepInv ==
    ASSUME DsInv, DelayStep PROVE DsInv'
  BY DelayFireInv, DelayStopInv, DelayEnterInv DEF DelayStep

\* The first half of a wake-up.
LEMMA WakeRestartInv ==
    ASSUME DsInv, WakeRestart PROVE DsInv'
<1> USE DeepSleepAssumption DEF DeepSleepAssumption, DsInv, WakeRestart, RestartServices
<1>1. DsTypeOK'
  BY DEF DsTypeOK, Statuses, WakeReasons, NoSource
<1>2. TriesOK'
  BY DEF DsTypeOK, TriesOK, WakeReasons
<1>3. Announcers' = Announcers
  BY DEF DsTypeOK, Announcers, WakeReasons
<1>4. OwedOK'
  BY <1>3, AnnouncersFinite DEF OwedOK, DsTypeOK
<1>5. Immediate'
  BY <1>3 DEF Immediate, NoDelayTimer, AtWork, DsTypeOK
<1> QED BY <1>1, <1>2, <1>4, <1>5

\* The second half of a wake-up.
LEMMA WakeDoneInv ==
    ASSUME DsInv, WakeDone PROVE DsInv'
<1> USE DeepSleepAssumption DEF DeepSleepAssumption, DsInv, WakeDone
<1>1. DsTypeOK'
  BY DEF DsTypeOK, Statuses, WakeReasons, NoSource
<1>2. TriesOK'
  BY DEF DsTypeOK, TriesOK, WakeReasons
<1>3. Announcers' = Announcers
  BY DEF DsTypeOK, Announcers, WakeReasons
<1>4. OwedOK'
  BY <1>3, AnnouncersFinite DEF OwedOK, DsTypeOK
<1>5. Immediate'
  BY <1>3 DEF Immediate, NoDelayTimer, AtWork, DsTypeOK
<1> QED BY <1>1, <1>2, <1>4, <1>5

\* The deep sleep variables are left alone.
LEMMA DsUnchanged == ASSUME DsInv, UNCHANGED dsVars PROVE DsInv'
<1> USE DEF dsVars
<1>1. Announcers' = Announcers
  BY DEF Announcers
<1>2. DsTypeOK' /\ TriesOK' /\ OwedOK'
  BY <1>1 DEF DsInv, DsTypeOK, TriesOK, OwedOK
<1>3. Immediate'
  BY <1>1 DEF DsInv, Immediate, NoDelayTimer, AtWork
<1> QED BY <1>2, <1>3 DEF DsInv

\* A wake-up key or a timeout is taken off the bus.
LEMMA DsTaken ==
    ASSUME DsInv,
           wakeKeys' \in Nat, timeouts' \in Nat,
           UNCHANGED <<dsStatus, delaySource, delayLive, delayLoop, delayFiring,
                       services, isLxcRestart, dsThread, tries, owedKeys>>
    PROVE  DsInv'
<1>1. Announcers' = Announcers
  BY DEF Announcers
<1>2. DsTypeOK' /\ TriesOK' /\ OwedOK'
  BY <1>1 DEF DsInv, DsTypeOK, TriesOK, OwedOK
<1>3. Immediate'
  BY <1>1 DEF DsInv, Immediate, NoDelayTimer, AtWork
<1> QED BY <1>2, <1>3 DEF DsInv

-----------------------------------------------------------------------------
(* One deep sleep at a time: what a client keeps that starts a thread only  *)
(* when nothing is under way.                                              *)

\* A thread that will call the HAL.
Entering(d) == dsThread[d] \in {"spawned", "claiming", "stopping", "trying"}

\* Nothing will call the HAL: no thread, no timer and no callback of one.
Settled ==
    /\ \A d \in DsThreads : ~Entering(d)
    /\ delayLive = {}
    /\ delayLoop = "idle"

\* At most one thread or timer will call the HAL, and once it has claimed the
\* operation the status says so.
OneSleep ==
    /\ \A d, e \in DsThreads : Entering(d) /\ Entering(e) => d = e
    /\ \A d \in DsThreads : Entering(d) => delayLive = {} /\ delayLoop = "idle"
    /\ \A d \in DsThreads : dsThread[d] \in {"stopping", "trying"} => dsStatus = "InProgress"
    /\ \A s \in delayLive : dsStatus = "InProgress"
    /\ delayLoop # "idle" => delayFiring \in delayLive
    /\ \A s, r \in delayLive : s = r

\* A thread keeps to one deep sleep, and begins none on its own.
LEMMA ThreadOneSleep ==
    ASSUME NEW d \in DsThreads, DsTypeOK, OneSleep, DsThreadStep(d)
    PROVE  /\ OneSleep'
           /\ Settled => Settled' /\ dsStatus' = dsStatus
<1> USE DEF OneSleep, Settled, Entering, DsTypeOK
<1>1. CASE DsGiveUp(d)
  BY <1>1 DEF DsGiveUp
<1>2. CASE DsDelay(d)
  BY <1>2 DEF DsDelay
<1>3. CASE DsClaim(d)
  BY <1>3 DEF DsClaim
<1>4. CASE DsStop(d)
  BY <1>4 DEF DsStop
<1>5. ASSUME NEW reason \in WakeReasons, DsResume(d, reason) PROVE OneSleep' /\ ~Settled
  BY <1>5 DEF DsResume, WakeReasons
<1>6. CASE DsFail(d)
  BY <1>6 DEF DsFail
<1>7. CASE DsReport(d)
  BY <1>7 DEF DsReport, WakeReasons
<1>8. CASE DsTest(d)
  BY <1>8 DEF DsTest
<1> QED BY <1>1, <1>2, <1>3, <1>4, <1>5, <1>6, <1>7, <1>8 DEF DsThreadStep

\* So does the delay timer, which does nothing once all is settled.
LEMMA DelayOneSleep ==
    ASSUME DsTypeOK, OneSleep, DelayStep
    PROVE  OneSleep' /\ ~Settled
<1> USE DEF OneSleep, Settled, Entering, DsTypeOK
<1>1. ASSUME NEW s \in SourceIds, DelayFire(s) PROVE OneSleep' /\ ~Settled
  BY <1>1 DEF DelayFire
<1>2. CASE DelayStop
  BY <1>2 DEF DelayStop
<1>3. ASSUME NEW reason \in WakeReasons, DelayEnter(reason) PROVE OneSleep' /\ ~Settled
  BY <1>3 DEF DelayEnter
<1> QED BY <1>1, <1>2, <1>3 DEF DelayStep

\* A change of mode to deep sleep, when nothing is under way.
LEMMA SpawnOneSleep ==
    ASSUME DsTypeOK, Settled, Spawn, UNCHANGED <<delayLive, delayLoop>>
    PROVE  OneSleep'
  BY DEF OneSleep, Settled, Entering, DsTypeOK, Spawn, FreeThread

\* A wake-up, when nothing is under way.
LEMMA WakeOneSleep ==
    ASSUME Settled, WakeRestart \/ WakeDone
    PROVE  OneSleep' /\ Settled'
  BY DEF OneSleep, Settled, Entering, WakeRestart, WakeDone
=============================================================================
