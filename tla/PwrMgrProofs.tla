---------------------------- MODULE PwrMgrProofs ----------------------------
(***************************************************************************)
(* Proofs about PwrMgr, for any states that are asked for and any number   *)
(* of requests, timers and deep sleep threads: type correctness, who owns  *)
(* powerStateMutex, and that the file follows the memory.                  *)
(***************************************************************************)
EXTENDS PwrMgr, DeepSleepProofs

Busy(t) == InCall(t) \/ pc[t] = "enter"

PcValues == CallSteps \cup {"none", "idle", "top", "wait", "lock", "voice", "enter",
                            "ecmWrite", "reboot"}

\* The types of the power manager's own variables.
PwrTypeOK ==
    /\ powerState \in States /\ file \in States /\ hal \in States
    /\ transitionState \in States /\ targetState \in States
    /\ mutex \in {"none", "async"}
    /\ pc \in [Threads -> PcValues]
    /\ new \in [Threads -> States \cup {"none"}]
    /\ bootupSource \in BOOLEAN
    /\ wakeupSource \in {NoSource} \cup SourceIds
    /\ wakeupLive \subseteq SourceIds
    /\ loopFiring \in {NoSource} \cup SourceIds
    /\ rebooting \in BOOLEAN
    /\ requests \in 0 .. MaxRequests /\ firings \in 0 .. MaxTimers
    /\ overlapped \in BOOLEAN /\ early \in BOOLEAN
    /\ unsaved \in BOOLEAN /\ crossed \in BOOLEAN

\* A thread in a call, or about to hand over a key, knows what it wants.
NewOK == \A t \in Threads : (Busy(t) \/ pc[t] = "lock") => new[t] \in States

\* The mutex is held exactly while the asynchronous thread is in a call.
MutexOK == mutex = "async" <=> Busy("async")

\* A difference between memory and file has its owner: a write that failed, a
\* thread about to write, or the main loop on its way from STANDBY to
\* DEEP_SLEEP.
FileOK ==
    SchdReboot =>
        /\ Busy("loop") => new["loop"] = "DEEP_SLEEP"
        /\ file # powerState =>
             \/ unsaved
             \/ \E t \in Threads : pc[t] \in {"write", "ecmWrite"}
             \/ pc["loop"] \in ForcedSteps /\ powerState # "DEEP_SLEEP"

\* The inductive invariant.
IInv == DsInv /\ PwrTypeOK /\ NewOK /\ MutexOK /\ FileOK

\* The initial state satisfies it.
LEMMA InitIInv == Init => IInv
<1> SUFFICES ASSUME Init PROVE IInv
  OBVIOUS
<1> USE PwrMgrAssumption DEF PwrMgrAssumption
<1>1. DsInv /\ requests = 0
  BY DsInitInv DEF Init
<1>2. PICK s \in BootStates : Booted(s)
  BY DEF Init
<1> USE <1>2 DEF Booted
<1>3. s \in States
  OBVIOUS
<1>4. pc \in [Threads -> PcValues]
  BY DEF PcValues
<1>5. new \in [Threads -> States \cup {"none"}]
  OBVIOUS
<1>6. bootupSource \in BOOLEAN
  OBVIOUS
<1>7. wakeupSource \in {NoSource} \cup SourceIds /\ wakeupLive \subseteq SourceIds
  OBVIOUS
<1>8. loopFiring \in {NoSource} \cup SourceIds /\ rebooting \in BOOLEAN
  OBVIOUS
<1>9. requests \in 0 .. MaxRequests /\ firings \in 0 .. MaxTimers
  BY <1>1
<1>10. overlapped \in BOOLEAN /\ early \in BOOLEAN /\ unsaved \in BOOLEAN /\ crossed \in BOOLEAN
  OBVIOUS
<1>11. PwrTypeOK
  BY <1>3, <1>4, <1>5, <1>6, <1>7, <1>8, <1>9, <1>10 DEF PwrTypeOK
<1>12. \A t \in Threads : ~Busy(t) /\ pc[t] # "lock"
  BY DEF Busy, InCall, CallSteps
<1>13. NewOK /\ MutexOK /\ FileOK
  BY <1>12 DEF NewOK, MutexOK, FileOK, Threads
<1> QED BY <1>1, <1>11, <1>13 DEF IInv

\* The steps of a call.
LEMMA EnterSameInv == ASSUME NEW t \in Threads, IInv, EnterSame(t) PROVE IInv'
<1> USE PwrMgrAssumption DEF PwrMgrAssumption, IInv, EnterSame, Leave, Returned, viewVars, runVars,
       Busy, InCall, CallSteps, PcValues, Threads, ForcedSteps
<1>1. DsInv'
  BY DsUnchanged
<1>2. PwrTypeOK'
  BY DEF PwrTypeOK, NewOK, States
<1>3. NewOK' /\ MutexOK'
  BY DEF PwrTypeOK, NewOK, MutexOK, States
<1>4. FileOK'
  BY DEF PwrTypeOK, NewOK, FileOK
<1> QED BY <1>1, <1>2, <1>3, <1>4

LEMMA EnterRefusedInv == ASSUME NEW t \in Threads, IInv, EnterRefused(t) PROVE IInv'
<1> USE PwrMgrAssumption DEF PwrMgrAssumption, IInv, EnterRefused, Leave, Returned, viewVars, runVars,
       Busy, InCall, CallSteps, PcValues, Threads, ForcedSteps
<1>1. DsInv'
  BY DsUnchanged
<1>2. PwrTypeOK'
  <2>1. pc' \in [Threads -> PcValues]
    BY DEF PwrTypeOK
  <2>2. new' \in [Threads -> States \cup {"none"}]
    BY DEF PwrTypeOK
  <2>3. bootupSource' \in BOOLEAN /\ mutex' \in {"none", "async"}
    BY DEF PwrTypeOK
  <2>4. wakeupLive' \subseteq SourceIds /\ loopFiring' \in {NoSource} \cup SourceIds
    BY DEF PwrTypeOK
  <2> QED BY <2>1, <2>2, <2>3, <2>4 DEF PwrTypeOK
<1>3. NewOK' /\ MutexOK'
  BY DEF PwrTypeOK, NewOK, MutexOK, States
<1>4. FileOK'
  BY DEF PwrTypeOK, NewOK, FileOK
<1> QED BY <1>1, <1>2, <1>3, <1>4

LEMMA EnterChangeInv == ASSUME NEW t \in Threads, IInv, EnterChange(t) PROVE IInv'
<1> USE PwrMgrAssumption DEF PwrMgrAssumption, IInv, EnterChange, viewVars,
       Busy, InCall, CallSteps, PcValues, Threads, ForcedSteps
<1>1. DsInv'
  BY DsUnchanged
<1>2. PwrTypeOK'
  <2>1. pc' \in [Threads -> PcValues]
    BY DEF PwrTypeOK
  <2>2. overlapped' \in BOOLEAN
    BY DEF PwrTypeOK
  <2>3. early' \in BOOLEAN
    BY DEF PwrTypeOK
  <2>4. bootupSource' \in BOOLEAN
    OBVIOUS
  <2> QED BY <2>1, <2>2, <2>3, <2>4 DEF PwrTypeOK
<1>3. NewOK' /\ MutexOK'
  BY DEF PwrTypeOK, NewOK, MutexOK, States
<1>4. FileOK'
  BY DEF PwrTypeOK, NewOK, FileOK
<1> QED BY <1>1, <1>2, <1>3, <1>4

LEMMA CallWakeRestartInv == ASSUME NEW t \in Threads, IInv, CallWakeRestart(t) PROVE IInv'
<1> USE PwrMgrAssumption DEF PwrMgrAssumption, IInv, CallWakeRestart, Goto, viewVars, timerVars, runVars,
       Busy, InCall, CallSteps, PcValues, Threads, ForcedSteps
<1>1. DsInv'
  BY WakeRestartInv
<1>2. PwrTypeOK'
  BY DEF PwrTypeOK, NewOK, States
<1>3. NewOK' /\ MutexOK'
  BY DEF PwrTypeOK, NewOK, MutexOK, States
<1>4. FileOK'
  BY DEF PwrTypeOK, NewOK, FileOK
<1> QED BY <1>1, <1>2, <1>3, <1>4

LEMMA CallWakeDoneInv == ASSUME NEW t \in Threads, IInv, CallWakeDone(t) PROVE IInv'
<1> USE PwrMgrAssumption DEF PwrMgrAssumption, IInv, CallWakeDone, Goto, viewVars, timerVars, runVars,
       Busy, InCall, CallSteps, PcValues, Threads, ForcedSteps
<1>1. DsInv'
  BY WakeDoneInv
<1>2. PwrTypeOK'
  BY DEF PwrTypeOK, NewOK, States
<1>3. NewOK' /\ MutexOK'
  BY DEF PwrTypeOK, NewOK, MutexOK, States
<1>4. FileOK'
  BY DEF PwrTypeOK, NewOK, FileOK
<1> QED BY <1>1, <1>2, <1>3, <1>4

LEMMA CallStoreInv == ASSUME NEW t \in Threads, IInv, CallStore(t) PROVE IInv'
<1> USE PwrMgrAssumption DEF PwrMgrAssumption, IInv, CallStore, Goto, timerVars, runVars,
       Busy, InCall, CallSteps, PcValues, Threads, ForcedSteps
<1>1. DsInv'
  BY DsUnchanged
<1>2. PwrTypeOK'
  BY DEF PwrTypeOK, NewOK, States
<1>3. NewOK' /\ MutexOK'
  BY DEF PwrTypeOK, NewOK, MutexOK, States
<1>4. FileOK'
  BY DEF PwrTypeOK, NewOK, FileOK
<1> QED BY <1>1, <1>2, <1>3, <1>4

LEMMA CallWriteInv == ASSUME NEW t \in Threads, IInv, CallWrite(t) PROVE IInv'
<1> USE PwrMgrAssumption DEF PwrMgrAssumption, IInv, CallWrite, WriteSettings, Goto, timerVars, runVars,
       Busy, InCall, CallSteps, PcValues, Threads, ForcedSteps
<1>1. DsInv'
  BY DsUnchanged
<1>2. PwrTypeOK'
  <2>1. file' \in States /\ unsaved' \in BOOLEAN
    BY DEF PwrTypeOK
  <2>2. pc' \in [Threads -> PcValues]
    BY DEF PwrTypeOK
  <2> QED BY <2>1, <2>2 DEF PwrTypeOK
<1>3. NewOK' /\ MutexOK'
  BY DEF PwrTypeOK, NewOK, MutexOK, States
<1>4. FileOK'
  BY DEF PwrTypeOK, NewOK, FileOK
<1> QED BY <1>1, <1>2, <1>3, <1>4

LEMMA CallTransitionInv == ASSUME NEW t \in Threads, IInv, CallTransition(t) PROVE IInv'
<1> USE PwrMgrAssumption DEF PwrMgrAssumption, IInv, CallTransition, Goto, timerVars, runVars,
       Busy, InCall, CallSteps, PcValues, Threads, ForcedSteps
<1>1. DsInv'
  BY DsUnchanged
<1>2. PwrTypeOK'
  BY DEF PwrTypeOK, NewOK, States
<1>3. NewOK' /\ MutexOK'
  BY DEF PwrTypeOK, NewOK, MutexOK, States
<1>4. FileOK'
  BY DEF PwrTypeOK, NewOK, FileOK
<1> QED BY <1>1, <1>2, <1>3, <1>4

LEMMA CallTargetInv == ASSUME NEW t \in Threads, IInv, CallTarget(t) PROVE IInv'
<1> USE PwrMgrAssumption DEF PwrMgrAssumption, IInv, CallTarget, Goto, timerVars, runVars,
       Busy, InCall, CallSteps, PcValues, Threads, ForcedSteps
<1>1. DsInv'
  BY DsUnchanged
<1>2. PwrTypeOK'
  BY DEF PwrTypeOK, NewOK, States
<1>3. NewOK' /\ MutexOK'
  BY DEF PwrTypeOK, NewOK, MutexOK, States
<1>4. FileOK'
  BY DEF PwrTypeOK, NewOK, FileOK
<1> QED BY <1>1, <1>2, <1>3, <1>4

LEMMA CallHalInv == ASSUME NEW t \in Threads, IInv, CallHal(t) PROVE IInv'
<1> USE PwrMgrAssumption DEF PwrMgrAssumption, IInv, CallHal, Goto, timerVars, runVars,
       Busy, InCall, CallSteps, PcValues, Threads, ForcedSteps
<1>1. DsInv'
  BY DsUnchanged
<1>2. PwrTypeOK'
  BY DEF PwrTypeOK, NewOK, States
<1>3. NewOK' /\ MutexOK'
  BY DEF PwrTypeOK, NewOK, MutexOK, States
<1>4. FileOK'
  BY DEF PwrTypeOK, NewOK, FileOK
<1> QED BY <1>1, <1>2, <1>3, <1>4

LEMMA CallOomInv == ASSUME NEW t \in Threads, IInv, CallOom(t) PROVE IInv'
<1> USE PwrMgrAssumption DEF PwrMgrAssumption, IInv, CallOom, Leave, Returned, viewVars, runVars,
       Busy, InCall, CallSteps, PcValues, Threads, ForcedSteps
<1>1. DsInv'
  BY DsUnchanged
<1>2. PwrTypeOK'
  BY DEF PwrTypeOK, NewOK, States
<1>3. NewOK' /\ MutexOK'
  BY DEF PwrTypeOK, NewOK, MutexOK, States
<1>4. FileOK'
  BY DEF PwrTypeOK, NewOK, FileOK
<1> QED BY <1>1, <1>2, <1>3, <1>4

LEMMA CallEventInv == ASSUME NEW t \in Threads, IInv, CallEvent(t) PROVE IInv'
<1> USE PwrMgrAssumption DEF PwrMgrAssumption, IInv, CallEvent, Goto, HasFresh, FreshSource, viewVars, runVars,
       Busy, InCall, CallSteps, PcValues, Threads, ForcedSteps
<1>1. DsInv'
  BY DsUnchanged
<1>2. PwrTypeOK'
  BY DEF PwrTypeOK, NewOK, States
<1>3. NewOK' /\ MutexOK'
  BY DEF PwrTypeOK, NewOK, MutexOK, States
<1>4. FileOK'
  BY DEF PwrTypeOK, NewOK, FileOK
<1> QED BY <1>1, <1>2, <1>3, <1>4

LEMMA CallBroadcastInv == ASSUME NEW t \in Threads, IInv, CallBroadcast(t) PROVE IInv'
<1> USE PwrMgrAssumption DEF PwrMgrAssumption, IInv, CallBroadcast, Leave, Returned, viewVars, runVars,
       Busy, InCall, CallSteps, PcValues, Threads, ForcedSteps
<1>1. DsInv'
  BY SpawnInv, DsUnchanged DEF dsVars
<1>2. PwrTypeOK'
  BY DEF PwrTypeOK, NewOK, States
<1>3. NewOK' /\ MutexOK'
  BY DEF PwrTypeOK, NewOK, MutexOK, States
<1>4. FileOK'
  BY DEF PwrTypeOK, NewOK, FileOK
<1> QED BY <1>1, <1>2, <1>3, <1>4

\* Keys and RPCs.
LEMMA PowerKeyInv == ASSUME NEW off \in OffStates, IInv, PowerKey(off) PROVE IInv'
<1> USE PwrMgrAssumption DEF PwrMgrAssumption, IInv, PowerKey, KeyAsksFor, MayRequest, timerVars,
       Busy, InCall, CallSteps, PcValues, Threads, ForcedSteps
<1>1. DsInv'
  BY DsUnchanged
<1>2. PwrTypeOK'
  BY DEF PwrTypeOK, NewOK, States
<1>3. NewOK' /\ MutexOK'
  BY DEF PwrTypeOK, NewOK, MutexOK, States
<1>4. FileOK'
  BY DEF PwrTypeOK, NewOK, FileOK
<1> QED BY <1>1, <1>2, <1>3, <1>4

LEMMA WakeupKeyInv == ASSUME IInv, WakeupKey PROVE IInv'
<1> USE PwrMgrAssumption DEF PwrMgrAssumption, IInv, WakeupKey, KeyAsksFor, timerVars, runVars,
       Busy, InCall, CallSteps, PcValues, Threads, ForcedSteps
<1>1. DsInv'
  BY DsTaken DEF DsInv, DsTypeOK
<1>2. PwrTypeOK'
  BY DEF PwrTypeOK, NewOK, States
<1>3. NewOK' /\ MutexOK'
  BY DEF PwrTypeOK, NewOK, MutexOK, States
<1>4. FileOK'
  BY DEF PwrTypeOK, NewOK, FileOK
<1> QED BY <1>1, <1>2, <1>3, <1>4

LEMMA DiscreteKeyInv == ASSUME NEW s \in DiscreteKeys, IInv, DiscreteKey(s) PROVE IInv'
<1> USE PwrMgrAssumption DEF PwrMgrAssumption, IInv, DiscreteKey, MayRequest, viewVars, timerVars,
       Busy, InCall, CallSteps, PcValues, Threads, ForcedSteps
<1>1. DsInv'
  BY DsUnchanged
<1>2. PwrTypeOK'
  BY DEF PwrTypeOK, NewOK, States
<1>3. NewOK' /\ MutexOK'
  BY DEF PwrTypeOK, NewOK, MutexOK, States
<1>4. FileOK'
  BY DEF PwrTypeOK, NewOK, FileOK
<1> QED BY <1>1, <1>2, <1>3, <1>4

LEMMA IrLockInv == ASSUME IInv, IrLock PROVE IInv'
<1> USE PwrMgrAssumption DEF PwrMgrAssumption, IInv, IrLock, timerVars, runVars,
       Busy, InCall, CallSteps, PcValues, Threads, ForcedSteps
<1>1. DsInv'
  BY DsUnchanged
<1>2. PwrTypeOK'
  BY DEF PwrTypeOK, NewOK, States
<1>3. NewOK' /\ MutexOK'
  BY DEF PwrTypeOK, NewOK, MutexOK, States
<1>4. FileOK'
  BY DEF PwrTypeOK, NewOK, FileOK
<1> QED BY <1>1, <1>2, <1>3, <1>4

LEMMA AsyncCallInv == ASSUME IInv, AsyncCall PROVE IInv'
<1> USE PwrMgrAssumption DEF PwrMgrAssumption, IInv, AsyncCall, viewVars, timerVars, runVars,
       Busy, InCall, CallSteps, PcValues, Threads, ForcedSteps
<1>1. DsInv'
  BY DsUnchanged
<1>2. PwrTypeOK'
  BY DEF PwrTypeOK, NewOK, States
<1>3. NewOK' /\ MutexOK'
  BY DEF PwrTypeOK, NewOK, MutexOK, States
<1>4. FileOK'
  BY DEF PwrTypeOK, NewOK, FileOK
<1> QED BY <1>1, <1>2, <1>3, <1>4

LEMMA AsyncWaitInv == ASSUME IInv, AsyncWait PROVE IInv'
<1> USE PwrMgrAssumption DEF PwrMgrAssumption, IInv, AsyncWait, viewVars, timerVars, runVars,
       Busy, InCall, CallSteps, PcValues, Threads, ForcedSteps
<1>1. DsInv'
  BY DsUnchanged
<1>2. PwrTypeOK'
  BY DEF PwrTypeOK, NewOK, States
<1>3. NewOK' /\ MutexOK'
  BY DEF PwrTypeOK, NewOK, MutexOK, States
<1>4. FileOK'
  BY DEF PwrTypeOK, NewOK, FileOK
<1> QED BY <1>1, <1>2, <1>3, <1>4

LEMMA RpcInv == ASSUME NEW s \in RpcStates, IInv, RpcSetPowerState(s) PROVE IInv'
<1> USE PwrMgrAssumption DEF PwrMgrAssumption, IInv, RpcSetPowerState, MayRequest, viewVars, timerVars,
       Busy, InCall, CallSteps, PcValues, Threads, ForcedSteps
<1>1. DsInv'
  BY DsUnchanged
<1>2. PwrTypeOK'
  BY DEF PwrTypeOK, NewOK, States
<1>3. NewOK' /\ MutexOK'
  BY DEF PwrTypeOK, NewOK, MutexOK, States
<1>4. FileOK'
  BY DEF PwrTypeOK, NewOK, FileOK
<1> QED BY <1>1, <1>2, <1>3, <1>4

LEMMA GhostKeyInv == ASSUME IInv, GhostKey PROVE IInv'
<1> USE PwrMgrAssumption DEF PwrMgrAssumption, IInv, GhostKey, MayRequest, viewVars, timerVars,
       Busy, InCall, CallSteps, PcValues, Threads, ForcedSteps
<1>1. DsInv'
  BY DsUnchanged
<1>2. PwrTypeOK'
  BY DEF PwrTypeOK, NewOK, States
<1>3. NewOK' /\ MutexOK'
  BY DEF PwrTypeOK, NewOK, MutexOK, States
<1>4. FileOK'
  BY DEF PwrTypeOK, NewOK, FileOK
<1> QED BY <1>1, <1>2, <1>3, <1>4

LEMMA VoiceLooksInv == ASSUME IInv, VoiceLooks PROVE IInv'
<1> USE PwrMgrAssumption DEF PwrMgrAssumption, IInv, VoiceLooks, MayRequest, viewVars, timerVars,
       Busy, InCall, CallSteps, PcValues, Threads, ForcedSteps
<1>1. DsInv'
  BY DsUnchanged
<1>2. PwrTypeOK'
  BY DEF PwrTypeOK, NewOK, States
<1>3. NewOK' /\ MutexOK'
  BY DEF PwrTypeOK, NewOK, MutexOK, States
<1>4. FileOK'
  BY DEF PwrTypeOK, NewOK, FileOK
<1> QED BY <1>1, <1>2, <1>3, <1>4

LEMMA VoiceKeyInv == ASSUME NEW off \in OffStates, IInv, VoiceKey(off) PROVE IInv'
<1> USE PwrMgrAssumption DEF PwrMgrAssumption, IInv, VoiceKey, KeyAsksFor, timerVars, runVars,
       Busy, InCall, CallSteps, PcValues, Threads, ForcedSteps
<1>1. DsInv'
  BY DsUnchanged
<1>2. PwrTypeOK'
  BY DEF PwrTypeOK, NewOK, States
<1>3. NewOK' /\ MutexOK'
  BY DEF PwrTypeOK, NewOK, MutexOK, States
<1>4. FileOK'
  BY DEF PwrTypeOK, NewOK, FileOK
<1> QED BY <1>1, <1>2, <1>3, <1>4

LEMMA EcmStoreInv == ASSUME IInv, EcmStore PROVE IInv'
<1> USE PwrMgrAssumption DEF PwrMgrAssumption, IInv, EcmStore, MayRequest, timerVars,
       Busy, InCall, CallSteps, PcValues, Threads, ForcedSteps
<1>1. DsInv'
  BY DsUnchanged
<1>2. PwrTypeOK'
  BY DEF PwrTypeOK, NewOK, States
<1>3. NewOK' /\ MutexOK'
  BY DEF PwrTypeOK, NewOK, MutexOK, States
<1>4. FileOK'
  BY DEF PwrTypeOK, NewOK, FileOK
<1> QED BY <1>1, <1>2, <1>3, <1>4

LEMMA EcmWriteInv == ASSUME IInv, EcmWrite PROVE IInv'
<1> USE PwrMgrAssumption DEF PwrMgrAssumption, IInv, EcmWrite, WriteSettings, Goto, timerVars,
       Busy, InCall, CallSteps, PcValues, Threads, ForcedSteps
<1>1. DsInv'
  BY DsUnchanged
<1>2. PwrTypeOK'
  <2>1. file' \in States /\ unsaved' \in BOOLEAN
    BY DEF PwrTypeOK
  <2>2. pc' \in [Threads -> PcValues]
    BY DEF PwrTypeOK
  <2> QED BY <2>1, <2>2 DEF PwrTypeOK
<1>3. NewOK' /\ MutexOK'
  BY DEF PwrTypeOK, NewOK, MutexOK, States
<1>4. FileOK'
  BY DEF PwrTypeOK, NewOK, FileOK
<1> QED BY <1>1, <1>2, <1>3, <1>4

\* Timers and restarts.
LEMMA WakeupTimerInv == ASSUME NEW s \in SourceIds, IInv, WakeupTimer(s) PROVE IInv'
<1> USE PwrMgrAssumption DEF PwrMgrAssumption, IInv, WakeupTimer, LoopIdle, MayFire, HandleTimeout,
       Busy, InCall, CallSteps, PcValues, Threads, ForcedSteps
<1>1. DsInv'
  BY DsUnchanged
<1>2. PwrTypeOK'
  <2>1. pc' \in [Threads -> PcValues]
    BY DEF PwrTypeOK
  <2>2. new' \in [Threads -> States \cup {"none"}] /\ powerState' \in States
    BY DEF PwrTypeOK, States
  <2>3. overlapped' \in BOOLEAN /\ rebooting' \in BOOLEAN
    BY DEF PwrTypeOK
  <2>4. firings' \in 0 .. MaxTimers
    BY DEF PwrTypeOK
  <2>5. loopFiring' \in {NoSource} \cup SourceIds
    BY DEF PwrTypeOK
  <2> QED BY <2>1, <2>2, <2>3, <2>4, <2>5 DEF PwrTypeOK
<1>3. NewOK' /\ MutexOK'
  BY DEF PwrTypeOK, NewOK, MutexOK, States
<1>4. FileOK'
  BY DEF PwrTypeOK, NewOK, FileOK
<1> QED BY <1>1, <1>2, <1>3, <1>4

LEMMA BootupTimerInv == ASSUME IInv, BootupTimer PROVE IInv'
<1> USE PwrMgrAssumption DEF PwrMgrAssumption, IInv, BootupTimer, LoopIdle, MayFire, timerVars,
       Busy, InCall, CallSteps, PcValues, Threads, ForcedSteps
<1>1. DsInv'
  BY DsUnchanged
<1>2. PwrTypeOK'
  BY DEF PwrTypeOK, NewOK, States
<1>3. NewOK' /\ MutexOK'
  BY DEF PwrTypeOK, NewOK, MutexOK, States
<1>4. FileOK'
  BY DEF PwrTypeOK, NewOK, FileOK
<1> QED BY <1>1, <1>2, <1>3, <1>4

LEMMA TimeoutThreadInv == ASSUME IInv, TimeoutThread PROVE IInv'
<1> USE PwrMgrAssumption DEF PwrMgrAssumption, IInv, TimeoutThread, MayFire, HandleTimeout, timerVars,
       Busy, InCall, CallSteps, PcValues, Threads, ForcedSteps
<1>1. DsInv'
  BY DsTaken DEF DsInv, DsTypeOK
<1>2. PwrTypeOK'
  <2>1. pc' \in [Threads -> PcValues]
    BY DEF PwrTypeOK
  <2>2. new' \in [Threads -> States \cup {"none"}] /\ powerState' \in States
    BY DEF PwrTypeOK, States
  <2>3. overlapped' \in BOOLEAN /\ rebooting' \in BOOLEAN
    BY DEF PwrTypeOK
  <2>4. firings' \in 0 .. MaxTimers
    BY DEF PwrTypeOK
  <2>5. loopFiring' \in {NoSource} \cup SourceIds
    BY DEF PwrTypeOK
  <2> QED BY <2>1, <2>2, <2>3, <2>4, <2>5 DEF PwrTypeOK
<1>3. NewOK' /\ MutexOK'
  BY DEF PwrTypeOK, NewOK, MutexOK, States
<1>4. FileOK'
  BY DEF PwrTypeOK, NewOK, FileOK
<1> QED BY <1>1, <1>2, <1>3, <1>4

LEMMA LoopDelayInv == ASSUME IInv, LoopDelay PROVE IInv'
<1> USE PwrMgrAssumption DEF PwrMgrAssumption, IInv, LoopDelay, viewVars, threadVars, timerVars, runVars,
       Busy, InCall, CallSteps, PcValues, Threads, ForcedSteps
<1>1. DsInv'
  BY DelayStepInv
<1>2. PwrTypeOK'
  BY DEF PwrTypeOK, NewOK, States
<1>3. NewOK' /\ MutexOK'
  BY DEF PwrTypeOK, NewOK, MutexOK, States
<1>4. FileOK'
  BY DEF PwrTypeOK, NewOK, FileOK
<1> QED BY <1>1, <1>2, <1>3, <1>4

LEMMA DsStepInv == ASSUME NEW d \in DsThreads, IInv, DsStep(d) PROVE IInv'
<1> USE PwrMgrAssumption DEF PwrMgrAssumption, IInv, DsStep, viewVars, threadVars, timerVars, runVars,
       Busy, InCall, CallSteps, PcValues, Threads, ForcedSteps
<1>1. DsInv'
  BY ThreadStepInv
<1>2. PwrTypeOK'
  BY DEF PwrTypeOK, NewOK, States
<1>3. NewOK' /\ MutexOK'
  BY DEF PwrTypeOK, NewOK, MutexOK, States
<1>4. FileOK'
  BY DEF PwrTypeOK, NewOK, FileOK
<1> QED BY <1>1, <1>2, <1>3, <1>4

LEMMA StutterInv == ASSUME IInv, UNCHANGED vars PROVE IInv'
<1> USE PwrMgrAssumption DEF PwrMgrAssumption, IInv, vars, viewVars, threadVars, timerVars, runVars,
       Busy, InCall, CallSteps, PcValues, Threads, ForcedSteps
<1>1. DsInv'
  BY DsUnchanged
<1>2. PwrTypeOK'
  BY DEF PwrTypeOK, NewOK, States
<1>3. NewOK' /\ MutexOK'
  BY DEF PwrTypeOK, NewOK, MutexOK, States
<1>4. FileOK'
  BY DEF PwrTypeOK, NewOK, FileOK
<1> QED BY <1>1, <1>2, <1>3, <1>4

LEMMA BootInv == ASSUME IInv, Boot PROVE IInv'
<1> USE PwrMgrAssumption DEF PwrMgrAssumption, IInv, Boot
<1>1. DsInit'
  BY DEF DsInit
<1>2. DsInit' => DsInv'
  BY DsInitInv, PTL
<1>3. PwrTypeOK'
  <2>1. pc' \in [Threads -> PcValues] /\ new' \in [Threads -> States \cup {"none"}]
    BY DEF PcValues
  <2>2. powerState' \in States /\ hal' \in States /\ file' \in States
    BY DEF PwrTypeOK
  <2>3. transitionState' \in States /\ targetState' \in States
    BY DEF PwrTypeOK
  <2>4. bootupSource' \in BOOLEAN
    OBVIOUS
  <2>5. firings' \in 0 .. MaxTimers /\ requests' \in 0 .. MaxRequests
    BY DEF PwrTypeOK
  <2>6. wakeupSource' \in {NoSource} \cup SourceIds /\ wakeupLive' \subseteq SourceIds
    OBVIOUS
  <2>7. loopFiring' \in {NoSource} \cup SourceIds /\ mutex' \in {"none", "async"}
    OBVIOUS
  <2>8. rebooting' \in BOOLEAN /\ overlapped' \in BOOLEAN
    OBVIOUS
  <2>9. early' \in BOOLEAN /\ unsaved' \in BOOLEAN /\ crossed' \in BOOLEAN
    OBVIOUS
  <2> QED BY <2>1, <2>2, <2>3, <2>4, <2>5, <2>6, <2>7, <2>8, <2>9 DEF PwrTypeOK
<1>4. \A t \in Threads : ~Busy(t)' /\ pc'[t] # "lock"
  BY DEF Busy, InCall, CallSteps
<1>5. NewOK' /\ MutexOK' /\ FileOK'
  BY <1>4 DEF NewOK, MutexOK, FileOK, Threads
<1> QED BY <1>1, <1>2, <1>3, <1>5

\* Every step preserves it.
LEMMA NextIInv == IInv /\ [Next]_vars => IInv'
<1> SUFFICES ASSUME IInv, [Next]_vars PROVE IInv'
  OBVIOUS
<1>1. ASSUME NEW t \in Threads, CallStep(t) PROVE IInv'
  BY <1>1, EnterSameInv, EnterRefusedInv, EnterChangeInv, CallWakeRestartInv,
     CallWakeDoneInv, CallStoreInv, CallWriteInv, CallTransitionInv,
     CallTargetInv, CallHalInv, CallOomInv, CallEventInv, CallBroadcastInv DEF CallStep, SetPowerStateStep
<1>2. ASSUME NEW off \in OffStates, PowerKey(off) PROVE IInv'
  BY <1>2, PowerKeyInv
<1>3. ASSUME NEW s \in DiscreteKeys, DiscreteKey(s) PROVE IInv'
  BY <1>3, DiscreteKeyInv
<1>4. ASSUME NEW s \in RpcStates, RpcSetPowerState(s) PROVE IInv'
  BY <1>4, RpcInv
<1>5. CASE WakeupKey \/ IrLock
  BY <1>5, WakeupKeyInv, IrLockInv
<1>6. CASE AsyncCall \/ AsyncWait
  BY <1>6, AsyncCallInv, AsyncWaitInv
<1>7. CASE EcmStore \/ EcmWrite
  BY <1>7, EcmStoreInv, EcmWriteInv
<1>8. ASSUME NEW s \in SourceIds, WakeupTimer(s) PROVE IInv'
  BY <1>8, WakeupTimerInv
<1>9. CASE BootupTimer \/ TimeoutThread \/ LoopDelay
  BY <1>9, BootupTimerInv, TimeoutThreadInv, LoopDelayInv
<1>10. ASSUME NEW d \in DsThreads, DsStep(d) PROVE IInv'
  BY <1>10, DsStepInv
<1>11. CASE Boot \/ UNCHANGED vars
  BY <1>11, BootInv, StutterInv
<1>12. ASSUME NEW off \in OffStates, VoiceKey(off) PROVE IInv'
  BY <1>12, VoiceKeyInv
<1>13. CASE GhostKey \/ VoiceLooks
  BY <1>13, GhostKeyInv, VoiceLooksInv
<1> QED BY <1>1, <1>2, <1>3, <1>4, <1>5, <1>6, <1>7, <1>8, <1>9, <1>10, <1>11, <1>12, <1>13
        DEF Next

\* The inductive invariant holds in every reachable state.
THEOREM InductiveInvariant == Spec => []IInv
  BY InitIInv, NextIInv, PTL DEF Spec

\* The variables of the power manager and of the deep sleep code it drives
\* keep their types.
THEOREM TypeCorrect == Spec => []TypeOK
<1>1. IInv => TypeOK
  BY DEF IInv, DsInv, PwrTypeOK, PcValues, TypeOK
<1> QED BY <1>1, InductiveInvariant, PTL

\* powerStateMutex is held exactly while the asynchronous thread is in a call:
\* never by a thread that waits, and never left behind by an early return.
THEOREM MutexHeldInCall ==
    Spec => [](mutex = "async" <=> (pc["async"] = "enter" \/ InCall("async")))
<1>1. IInv => (mutex = "async" <=> (pc["async"] = "enter" \/ InCall("async")))
  BY DEF IInv, MutexOK, Busy
<1> QED BY <1>1, InductiveInvariant, PTL

\* In builds that reboot on a timeout the settings file holds what the memory
\* holds whenever no thread is between a store and its write and the last write
\* did not fail, however many keys, RPCs, timers and restarts overlap.
THEOREM FileFollows == Spec => []FileMatches
<1>1. IInv => FileMatches
  BY DEF IInv, FileOK, FileMatches, Threads
<1> QED BY <1>1, InductiveInvariant, PTL
=============================================================================
