-------------------------- MODULE PwrMgrCalmProofs --------------------------
(***************************************************************************)
(* Proofs about PwrMgr while its calls come one at a time (OneAtATime):    *)
(* the box rests with all copies of the power state equal, no signal to    *)
(* the asynchronous thread is lost, no timer of deep sleep is left behind, *)
(* and only a box in the deep sleep state is put to sleep.  From the same  *)
(* invariant, PwrMgr implements PowerSpec.  All of it holds for any build, *)
(* any states asked for and any number of requests and timers.             *)
(***************************************************************************)
EXTENDS PwrMgrProofs

\* The steps of a call up to a given one.
BeforeStore == {"wakeRestart", "wakeDone", "prechange"}
BeforeWrite == BeforeStore \cup {"write"}
BeforeTargets == BeforeWrite \cup {"transition", "target"}
BeforeHal == BeforeTargets \cup {"hal"}
BeforeEvent == BeforeHal \cup {"event"}

\* Some call has a step of S still to take.
Owed(S) == \E t \in Threads : pc[t] \in S

\* One call at a time.
OneCall == \A t, u \in Threads : InCall(t) /\ InCall(u) => t = u

\* The timer of a box that started in deep sleep is there until the first call,
\* which finds no deep sleep under way.
BootOK ==
    bootupSource =>
        /\ \A t \in Threads : ~InCall(t)
        /\ Settled /\ dsStatus = "NotStarted" /\ wakeupLive = {}

\* The box is put to sleep in the deep sleep state only, and no call runs then.
SleepOK ==
    /\ OneSleep
    /\ ~Settled \/ dsStatus = "InProgress" =>
         powerState = "DEEP_SLEEP" /\ \A t \in Threads : ~InCall(t)

\* What a call has stored stays until it ends.
StoredOK ==
    \A t \in Threads :
        InCall(t) /\ pc[t] \notin BeforeStore => powerState = new[t]

\* A callback has stored a state no copy knows of, and will not be refused the
\* call that ends in one they all know.
Forced ==
    /\ \A t \in Threads : ~InCall(t)
    /\ \/ /\ pc["loop"] = "enter" /\ new["loop"] = "DEEP_SLEEP"
          /\ powerState # "DEEP_SLEEP"
       \/ /\ \E t \in {"loop", "tmo"} : pc[t] = "enter" /\ new[t] = "LIGHT_SLEEP"
          /\ powerState = "DEEP_SLEEP"
          /\ Settled /\ dsStatus # "InProgress"

\* The asynchronous thread will look at the target again.
AsyncBusy == pc["async"] \notin {"none", "wait"}

\* The states the keys go by differ from the memory only while somebody is on
\* the way to set them right.
KeysOK ==
    /\ pc["ir"] = "lock" => pc["async"] # "none"
    /\ pc["ir"] = "lock" =>
         \/ transitionState = new["ir"]
         \/ transitionState = targetState /\ targetState = powerState
         \/ Owed(BeforeTargets) \/ Forced
    /\ targetState # powerState => AsyncBusy \/ Owed(BeforeTargets) \/ Forced
    /\ transitionState # targetState /\ powerState = targetState =>
         pc["ir"] = "lock" \/ Owed(BeforeTargets) \/ Forced \/ crossed
    /\ \A t \in Threads : pc[t] = "target" =>
         \/ transitionState = new[t]
         \/ pc["ir"] = "lock" /\ transitionState = new["ir"]
         \/ pc["ir"] # "lock" /\ crossed

\* So do the copies of the memory, unless the file could not be written.
CopiesOK ==
    /\ file # powerState => unsaved \/ Owed(BeforeWrite) \/ Forced
    /\ hal # powerState => Owed(BeforeHal) \/ Forced

\* The timer of deep sleep runs in deep sleep, or during the call that removes it.
WakeupOK ==
    ~MayFail =>
        /\ wakeupLive \subseteq {wakeupSource}
        /\ wakeupLive # {} => powerState = "DEEP_SLEEP" \/ Owed(BeforeEvent)
        /\ \A t \in Threads :
              pc[t] \in BeforeEvent /\ new[t] = "DEEP_SLEEP" => wakeupLive = {}

\* The inductive invariant, next to IInv.
CalmOK == OneCall /\ BootOK /\ SleepOK /\ StoredOK /\ KeysOK /\ CopiesOK /\ WakeupOK

CalmInv == Calm => CalmOK

-----------------------------------------------------------------------------
\* The initial state satisfies it.
LEMMA InitCalm == Init => CalmInv
<1> SUFFICES ASSUME Init PROVE CalmOK
  BY DEF CalmInv
<1>1. PICK s \in BootStates : Booted(s)
  BY DEF Init
<1> USE <1>1 DEF Init, Booted, DsInit, InCall, CallSteps, Threads
<1>2. OneSleep /\ Settled
  BY DEF OneSleep, Settled, Entering
<1>3. OneCall /\ BootOK /\ SleepOK /\ StoredOK
  BY <1>2 DEF OneCall, BootOK, SleepOK, StoredOK
<1>4. KeysOK /\ CopiesOK
  BY DEF KeysOK, CopiesOK
<1>5. WakeupOK
  BY DEF WakeupOK, BeforeEvent, BeforeHal, BeforeTargets, BeforeWrite, BeforeStore
<1> QED BY <1>3, <1>4, <1>5 DEF CalmOK

\* The steps of a call.
LEMMA EnterSameCalm == ASSUME NEW t \in Threads, IInv, CalmInv, EnterSame(t) PROVE CalmInv'
<1> USE DEF EnterSame, Leave, Returned, viewVars, runVars, InCall, CallSteps, Threads
<1> SUFFICES ASSUME Calm' PROVE CalmOK'
  BY DEF CalmInv
<1>1. Calm /\ CalmOK
  BY DEF CalmInv, Calm, OneAtATime, IInv, PwrTypeOK
<1> USE <1>1 DEF IInv, PwrTypeOK, CalmOK
<1>2. OneCall'
  BY DEF OneCall, Calm, OneAtATime
<1>3. (Settled' <=> Settled) /\ (OneSleep' <=> OneSleep) /\ dsStatus' = dsStatus
  BY DEF Settled, OneSleep, Entering, dsVars
<1>4. BootOK'
  BY <1>3 DEF BootOK
<1>5. SleepOK'
  BY <1>3 DEF SleepOK, BootOK
<1>6. StoredOK'
  BY DEF StoredOK, BeforeStore, OneCall
<1>7. KeysOK'
  BY <1>3 DEF KeysOK, AsyncBusy, Owed, Forced, BeforeTargets, BeforeWrite, BeforeStore
<1>8. CopiesOK'
  BY <1>3 DEF CopiesOK, Owed, Forced, BeforeHal, BeforeTargets, BeforeWrite, BeforeStore
<1>9. WakeupOK'
  BY DEF WakeupOK, Owed, BeforeEvent, BeforeHal, BeforeTargets, BeforeWrite, BeforeStore
<1> QED BY <1>2, <1>4, <1>5, <1>6, <1>7, <1>8, <1>9

LEMMA EnterRefusedCalm == ASSUME NEW t \in Threads, IInv, CalmInv, EnterRefused(t) PROVE CalmInv'
<1> USE DEF EnterRefused, Leave, Returned, viewVars, runVars, InCall, CallSteps, Threads
<1> SUFFICES ASSUME Calm' PROVE CalmOK'
  BY DEF CalmInv
<1>1. Calm /\ CalmOK
  BY DEF CalmInv, Calm, OneAtATime, IInv, PwrTypeOK
<1> USE <1>1 DEF IInv, PwrTypeOK, CalmOK
<1>2. OneCall'
  BY DEF OneCall, Calm, OneAtATime
<1>3. (Settled' <=> Settled) /\ (OneSleep' <=> OneSleep) /\ dsStatus' = dsStatus
  BY DEF Settled, OneSleep, Entering, dsVars
<1>4. BootOK'
  BY <1>3 DEF BootOK
<1>5. SleepOK'
  BY <1>3 DEF SleepOK, BootOK
<1>6. StoredOK'
  BY DEF StoredOK, BeforeStore, OneCall
<1>7. KeysOK'
  BY <1>3 DEF KeysOK, AsyncBusy, Owed, Forced, BeforeTargets, BeforeWrite, BeforeStore
<1>8. CopiesOK'
  BY <1>3 DEF CopiesOK, Owed, Forced, BeforeHal, BeforeTargets, BeforeWrite, BeforeStore
<1>9. WakeupOK'
  BY DEF WakeupOK, Owed, BeforeEvent, BeforeHal, BeforeTargets, BeforeWrite, BeforeStore
<1> QED BY <1>2, <1>4, <1>5, <1>6, <1>7, <1>8, <1>9

LEMMA EnterChangeCalm == ASSUME NEW t \in Threads, IInv, CalmInv, EnterChange(t) PROVE CalmInv'
<1> USE DEF EnterChange, viewVars, InCall, CallSteps, Threads
<1> SUFFICES ASSUME Calm' PROVE CalmOK'
  BY DEF CalmInv
<1>1. Calm /\ CalmOK
  BY DEF CalmInv, Calm, OneAtATime, IInv, PwrTypeOK
<1> USE <1>1 DEF IInv, PwrTypeOK, CalmOK
<1>2. OneCall'
  <2>1. \A u \in Threads \ {t} : pc'[u] = pc[u] /\ ~InCall(u)
    BY DEF Calm, OneAtATime
  <2> QED BY <2>1 DEF OneCall
<1>3. (Settled' <=> Settled) /\ (OneSleep' <=> OneSleep) /\ dsStatus' = dsStatus
  BY DEF Settled, OneSleep, Entering, dsVars
<1>4. BootOK'
  BY <1>3 DEF BootOK
<1>5. SleepOK'
  <2>1. Settled /\ dsStatus # "InProgress"
    BY DEF SleepOK, OneSleep, Settled, Entering, Waiting, Calm, OneAtATime
  <2> QED BY <1>3, <2>1 DEF SleepOK
<1>6. StoredOK'
  BY DEF StoredOK, BeforeStore, OneCall
<1>7. KeysOK'
  BY <1>3 DEF KeysOK, AsyncBusy, Owed, Forced, BeforeTargets, BeforeWrite, BeforeStore
<1>8. CopiesOK'
  BY <1>3 DEF CopiesOK, Owed, Forced, BeforeHal, BeforeTargets, BeforeWrite, BeforeStore
<1>9. WakeupOK'
    BY DEF WakeupOK, Calm, OneAtATime, Owed, BeforeEvent, BeforeHal, BeforeTargets,
     BeforeWrite, BeforeStore
<1> QED BY <1>2, <1>4, <1>5, <1>6, <1>7, <1>8, <1>9

LEMMA CallWakeRestartCalm == ASSUME NEW t \in Threads, IInv, CalmInv, CallWakeRestart(t) PROVE CalmInv'
<1> USE DEF CallWakeRestart, Goto, viewVars, timerVars, runVars, InCall, CallSteps,
   Threads
<1> SUFFICES ASSUME Calm' PROVE CalmOK'
  BY DEF CalmInv
<1>1. Calm /\ CalmOK
  BY DEF CalmInv, Calm, OneAtATime, IInv, PwrTypeOK
<1> USE <1>1 DEF IInv, PwrTypeOK, CalmOK
<1>2. OneCall'
  BY DEF OneCall, Calm, OneAtATime
<1>3. OneSleep' /\ Settled' /\ Settled
  BY WakeOneSleep DEF SleepOK
<1>4. BootOK'
  BY <1>3 DEF BootOK
<1>5. SleepOK'
  BY <1>3 DEF SleepOK, WakeRestart
<1>6. StoredOK'
  BY DEF StoredOK, BeforeStore, OneCall
<1>7. KeysOK'
  BY <1>3 DEF KeysOK, AsyncBusy, Owed, Forced, BeforeTargets, BeforeWrite, BeforeStore
<1>8. CopiesOK'
  BY <1>3 DEF CopiesOK, Owed, Forced, BeforeHal, BeforeTargets, BeforeWrite, BeforeStore
<1>9. WakeupOK'
  BY DEF WakeupOK, Owed, BeforeEvent, BeforeHal, BeforeTargets, BeforeWrite, BeforeStore
<1> QED BY <1>2, <1>4, <1>5, <1>6, <1>7, <1>8, <1>9

LEMMA CallWakeDoneCalm == ASSUME NEW t \in Threads, IInv, CalmInv, CallWakeDone(t) PROVE CalmInv'
<1> USE DEF CallWakeDone, Goto, viewVars, timerVars, runVars, InCall, CallSteps, Threads
<1> SUFFICES ASSUME Calm' PROVE CalmOK'
  BY DEF CalmInv
<1>1. Calm /\ CalmOK
  BY DEF CalmInv, Calm, OneAtATime, IInv, PwrTypeOK
<1> USE <1>1 DEF IInv, PwrTypeOK, CalmOK
<1>2. OneCall'
  BY DEF OneCall, Calm, OneAtATime
<1>3. OneSleep' /\ Settled' /\ Settled
  BY WakeOneSleep DEF SleepOK
<1>4. BootOK'
  BY <1>3 DEF BootOK
<1>5. SleepOK'
  BY <1>3 DEF SleepOK, WakeDone
<1>6. StoredOK'
  BY DEF StoredOK, BeforeStore, OneCall
<1>7. KeysOK'
  BY <1>3 DEF KeysOK, AsyncBusy, Owed, Forced, BeforeTargets, BeforeWrite, BeforeStore
<1>8. CopiesOK'
  BY <1>3 DEF CopiesOK, Owed, Forced, BeforeHal, BeforeTargets, BeforeWrite, BeforeStore
<1>9. WakeupOK'
  BY DEF WakeupOK, Owed, BeforeEvent, BeforeHal, BeforeTargets, BeforeWrite, BeforeStore
<1> QED BY <1>2, <1>4, <1>5, <1>6, <1>7, <1>8, <1>9

LEMMA CallStoreCalm == ASSUME NEW t \in Threads, IInv, CalmInv, CallStore(t) PROVE CalmInv'
<1> USE DEF CallStore, Goto, timerVars, runVars, InCall, CallSteps, Threads
<1> SUFFICES ASSUME Calm' PROVE CalmOK'
  BY DEF CalmInv
<1>1. Calm /\ CalmOK
  BY DEF CalmInv, Calm, OneAtATime, IInv, PwrTypeOK
<1> USE <1>1 DEF IInv, PwrTypeOK, CalmOK
<1>2. OneCall'
  BY DEF OneCall, Calm, OneAtATime
<1>3. (Settled' <=> Settled) /\ (OneSleep' <=> OneSleep) /\ dsStatus' = dsStatus
  BY DEF Settled, OneSleep, Entering, dsVars
<1>4. BootOK'
  BY <1>3 DEF BootOK
<1>5. SleepOK'
  BY <1>3 DEF SleepOK, BootOK
<1>6. StoredOK'
  BY DEF StoredOK, BeforeStore, OneCall
<1>7. KeysOK'
  BY <1>3 DEF KeysOK, AsyncBusy, Owed, Forced, BeforeTargets, BeforeWrite, BeforeStore
<1>8. CopiesOK'
  BY <1>3 DEF CopiesOK, Owed, Forced, BeforeHal, BeforeTargets, BeforeWrite, BeforeStore
<1>9. WakeupOK'
  BY DEF WakeupOK, Owed, BeforeEvent, BeforeHal, BeforeTargets, BeforeWrite, BeforeStore
<1> QED BY <1>2, <1>4, <1>5, <1>6, <1>7, <1>8, <1>9

LEMMA CallWriteCalm == ASSUME NEW t \in Threads, IInv, CalmInv, CallWrite(t) PROVE CalmInv'
<1> USE DEF CallWrite, WriteSettings, Goto, timerVars, runVars, InCall, CallSteps, Threads
<1> SUFFICES ASSUME Calm' PROVE CalmOK'
  BY DEF CalmInv
<1>1. Calm /\ CalmOK
  BY DEF CalmInv, Calm, OneAtATime, IInv, PwrTypeOK
<1> USE <1>1 DEF IInv, PwrTypeOK, CalmOK
<1>2. OneCall'
  BY DEF OneCall, Calm, OneAtATime
<1>3. (Settled' <=> Settled) /\ (OneSleep' <=> OneSleep) /\ dsStatus' = dsStatus
  BY DEF Settled, OneSleep, Entering, dsVars
<1>4. BootOK'
  BY <1>3 DEF BootOK
<1>5. SleepOK'
  BY <1>3 DEF SleepOK, BootOK
<1>6. StoredOK'
  BY DEF StoredOK, BeforeStore, OneCall
<1>7. KeysOK'
  BY <1>3 DEF KeysOK, AsyncBusy, Owed, Forced, BeforeTargets, BeforeWrite, BeforeStore
<1>8. CopiesOK'
  BY <1>3 DEF CopiesOK, Owed, Forced, BeforeHal, BeforeTargets, BeforeWrite, BeforeStore
<1>9. WakeupOK'
  BY DEF WakeupOK, Owed, BeforeEvent, BeforeHal, BeforeTargets, BeforeWrite, BeforeStore
<1> QED BY <1>2, <1>4, <1>5, <1>6, <1>7, <1>8, <1>9

LEMMA CallTransitionCalm == ASSUME NEW t \in Threads, IInv, CalmInv, CallTransition(t) PROVE CalmInv'
<1> USE DEF CallTransition, Goto, timerVars, runVars, InCall, CallSteps, Threads
<1> SUFFICES ASSUME Calm' PROVE CalmOK'
  BY DEF CalmInv
<1>1. Calm /\ CalmOK
  BY DEF CalmInv, Calm, OneAtATime, IInv, PwrTypeOK
<1> USE <1>1 DEF IInv, PwrTypeOK, CalmOK
<1>2. OneCall'
  BY DEF OneCall, Calm, OneAtATime
<1>3. (Settled' <=> Settled) /\ (OneSleep' <=> OneSleep) /\ dsStatus' = dsStatus
  BY DEF Settled, OneSleep, Entering, dsVars
<1>4. BootOK'
  BY <1>3 DEF BootOK
<1>5. SleepOK'
  BY <1>3 DEF SleepOK, BootOK
<1>6. StoredOK'
  BY DEF StoredOK, BeforeStore, OneCall
<1>7. KeysOK'
    BY <1>3 DEF OneCall, KeysOK, AsyncBusy, Owed, Forced, BeforeTargets, BeforeWrite,
     BeforeStore
<1>8. CopiesOK'
  BY <1>3 DEF CopiesOK, Owed, Forced, BeforeHal, BeforeTargets, BeforeWrite, BeforeStore
<1>9. WakeupOK'
  BY DEF WakeupOK, Owed, BeforeEvent, BeforeHal, BeforeTargets, BeforeWrite, BeforeStore
<1> QED BY <1>2, <1>4, <1>5, <1>6, <1>7, <1>8, <1>9

LEMMA CallTargetCalm == ASSUME NEW t \in Threads, IInv, CalmInv, CallTarget(t) PROVE CalmInv'
<1> USE DEF CallTarget, Goto, timerVars, runVars, InCall, CallSteps, Threads
<1> SUFFICES ASSUME Calm' PROVE CalmOK'
  BY DEF CalmInv
<1>1. Calm /\ CalmOK
  BY DEF CalmInv, Calm, OneAtATime, IInv, PwrTypeOK
<1> USE <1>1 DEF IInv, PwrTypeOK, CalmOK
<1>2. OneCall'
  BY DEF OneCall, Calm, OneAtATime
<1>3. (Settled' <=> Settled) /\ (OneSleep' <=> OneSleep) /\ dsStatus' = dsStatus
  BY DEF Settled, OneSleep, Entering, dsVars
<1>4. BootOK'
  BY <1>3 DEF BootOK
<1>5. SleepOK'
  BY <1>3 DEF SleepOK, BootOK
<1>6. StoredOK'
  BY DEF StoredOK, BeforeStore, OneCall
<1>7. KeysOK'
    BY <1>3 DEF StoredOK, KeysOK, AsyncBusy, Owed, Forced, BeforeTargets, BeforeWrite,
     BeforeStore
<1>8. CopiesOK'
  BY <1>3 DEF CopiesOK, Owed, Forced, BeforeHal, BeforeTargets, BeforeWrite, BeforeStore
<1>9. WakeupOK'
  BY DEF WakeupOK, Owed, BeforeEvent, BeforeHal, BeforeTargets, BeforeWrite, BeforeStore
<1> QED BY <1>2, <1>4, <1>5, <1>6, <1>7, <1>8, <1>9

LEMMA CallHalCalm == ASSUME NEW t \in Threads, IInv, CalmInv, CallHal(t) PROVE CalmInv'
<1> USE DEF CallHal, Goto, timerVars, runVars, InCall, CallSteps, Threads
<1> SUFFICES ASSUME Calm' PROVE CalmOK'
  BY DEF CalmInv
<1>1. Calm /\ CalmOK
  BY DEF CalmInv, Calm, OneAtATime, IInv, PwrTypeOK
<1> USE <1>1 DEF IInv, PwrTypeOK, CalmOK
<1>2. OneCall'
  BY DEF OneCall, Calm, OneAtATime
<1>3. (Settled' <=> Settled) /\ (OneSleep' <=> OneSleep) /\ dsStatus' = dsStatus
  BY DEF Settled, OneSleep, Entering, dsVars
<1>4. BootOK'
  BY <1>3 DEF BootOK
<1>5. SleepOK'
  BY <1>3 DEF SleepOK, BootOK
<1>6. StoredOK'
  BY DEF StoredOK, BeforeStore, OneCall
<1>7. KeysOK'
  BY <1>3 DEF KeysOK, AsyncBusy, Owed, Forced, BeforeTargets, BeforeWrite, BeforeStore
<1>8. CopiesOK'
    BY <1>3 DEF StoredOK, CopiesOK, Owed, Forced, BeforeHal, BeforeTargets,
     BeforeWrite, BeforeStore
<1>9. WakeupOK'
  BY DEF WakeupOK, Owed, BeforeEvent, BeforeHal, BeforeTargets, BeforeWrite, BeforeStore
<1> QED BY <1>2, <1>4, <1>5, <1>6, <1>7, <1>8, <1>9

LEMMA CallOomCalm == ASSUME NEW t \in Threads, IInv, CalmInv, CallOom(t) PROVE CalmInv'
<1> USE DEF CallOom, Leave, Returned, viewVars, runVars, InCall, CallSteps, Threads
<1> SUFFICES ASSUME Calm' PROVE CalmOK'
  BY DEF CalmInv
<1>1. Calm /\ CalmOK
  BY DEF CalmInv, Calm, OneAtATime, IInv, PwrTypeOK
<1> USE <1>1 DEF IInv, PwrTypeOK, CalmOK
<1>2. OneCall'
  BY DEF OneCall, Calm, OneAtATime
<1>3. (Settled' <=> Settled) /\ (OneSleep' <=> OneSleep) /\ dsStatus' = dsStatus
  BY DEF Settled, OneSleep, Entering, dsVars
<1>4. BootOK'
  BY <1>3 DEF BootOK
<1>5. SleepOK'
  BY <1>3 DEF SleepOK, BootOK
<1>6. StoredOK'
  BY DEF StoredOK, BeforeStore, OneCall
<1>7. KeysOK'
  BY <1>3 DEF KeysOK, AsyncBusy, Owed, Forced, BeforeTargets, BeforeWrite, BeforeStore
<1>8. CopiesOK'
  BY <1>3 DEF CopiesOK, Owed, Forced, BeforeHal, BeforeTargets, BeforeWrite, BeforeStore
<1>9. WakeupOK'
  BY DEF WakeupOK, Owed, BeforeEvent, BeforeHal, BeforeTargets, BeforeWrite, BeforeStore
<1> QED BY <1>2, <1>4, <1>5, <1>6, <1>7, <1>8, <1>9

LEMMA CallEventCalm == ASSUME NEW t \in Threads, IInv, CalmInv, CallEvent(t) PROVE CalmInv'
<1> USE DEF CallEvent, Goto, HasFresh, FreshSource, viewVars, runVars, InCall,
   CallSteps, Threads
<1> SUFFICES ASSUME Calm' PROVE CalmOK'
  BY DEF CalmInv
<1>1. Calm /\ CalmOK
  BY DEF CalmInv, Calm, OneAtATime, IInv, PwrTypeOK
<1> USE <1>1 DEF IInv, PwrTypeOK, CalmOK
<1>2. OneCall'
  BY DEF OneCall, Calm, OneAtATime
<1>3. (Settled' <=> Settled) /\ (OneSleep' <=> OneSleep) /\ dsStatus' = dsStatus
  BY DEF Settled, OneSleep, Entering, dsVars
<1>4. BootOK'
  BY <1>3 DEF BootOK
<1>5. SleepOK'
  BY <1>3 DEF SleepOK, BootOK
<1>6. StoredOK'
  BY DEF StoredOK, BeforeStore, OneCall
<1>7. KeysOK'
  BY <1>3 DEF KeysOK, AsyncBusy, Owed, Forced, BeforeTargets, BeforeWrite, BeforeStore
<1>8. CopiesOK'
  BY <1>3 DEF CopiesOK, Owed, Forced, BeforeHal, BeforeTargets, BeforeWrite, BeforeStore
<1>9. WakeupOK'
    BY DEF StoredOK, OneCall, WakeupOK, Owed, BeforeEvent, BeforeHal, BeforeTargets,
     BeforeWrite, BeforeStore
<1> QED BY <1>2, <1>4, <1>5, <1>6, <1>7, <1>8, <1>9

LEMMA CallBroadcastCalm == ASSUME NEW t \in Threads, IInv, CalmInv, CallBroadcast(t) PROVE CalmInv'
<1> USE DEF CallBroadcast, Leave, Returned, viewVars, runVars, InCall, CallSteps,
   Threads
<1> SUFFICES ASSUME Calm' PROVE CalmOK'
  BY DEF CalmInv
<1>1. Calm /\ CalmOK
  BY DEF CalmInv, Calm, OneAtATime, IInv, PwrTypeOK
<1> USE <1>1 DEF IInv, PwrTypeOK, CalmOK
<1>2. OneCall'
  BY DEF OneCall, Calm, OneAtATime
<1>3. Settled /\ OneSleep' /\ dsStatus' = dsStatus /\ (new[t] # "DEEP_SLEEP" => Settled')
  BY SpawnOneSleep DEF SleepOK, DsInv, Settled, OneSleep, Entering
<1>4. BootOK'
  BY <1>3 DEF BootOK
<1>5. SleepOK'
  BY <1>3 DEF SleepOK, StoredOK, BeforeStore, OneCall
<1>6. StoredOK'
  BY DEF StoredOK, BeforeStore, OneCall
<1>7. KeysOK'
  BY <1>3 DEF KeysOK, AsyncBusy, Owed, Forced, BeforeTargets, BeforeWrite, BeforeStore
<1>8. CopiesOK'
  BY <1>3 DEF CopiesOK, Owed, Forced, BeforeHal, BeforeTargets, BeforeWrite, BeforeStore
<1>9. WakeupOK'
  BY DEF WakeupOK, Owed, BeforeEvent, BeforeHal, BeforeTargets, BeforeWrite, BeforeStore
<1> QED BY <1>2, <1>4, <1>5, <1>6, <1>7, <1>8, <1>9

\* Keys and RPCs.
LEMMA PowerKeyCalm == ASSUME NEW off \in OffStates, IInv, CalmInv, PowerKey(off) PROVE CalmInv'
<1> USE DEF PowerKey, KeyAsksFor, MayRequest, timerVars, InCall, CallSteps, Threads
<1> SUFFICES ASSUME Calm' PROVE CalmOK'
  BY DEF CalmInv
<1>1. Calm /\ CalmOK
  BY DEF CalmInv, Calm, OneAtATime, IInv, PwrTypeOK
<1> USE <1>1 DEF IInv, PwrTypeOK, CalmOK
<1>2. OneCall'
  BY DEF OneCall, Calm, OneAtATime
<1>3. (Settled' <=> Settled) /\ (OneSleep' <=> OneSleep) /\ dsStatus' = dsStatus
  BY DEF Settled, OneSleep, Entering, dsVars
<1>4. BootOK'
  BY <1>3 DEF BootOK
<1>5. SleepOK'
  BY <1>3 DEF SleepOK, BootOK
<1>6. StoredOK'
  BY DEF StoredOK, BeforeStore, OneCall
<1>7. KeysOK'
  BY <1>3 DEF KeysOK, AsyncBusy, Owed, Forced, BeforeTargets, BeforeWrite, BeforeStore
<1>8. CopiesOK'
  BY <1>3 DEF CopiesOK, Owed, Forced, BeforeHal, BeforeTargets, BeforeWrite, BeforeStore
<1>9. WakeupOK'
  BY DEF WakeupOK, Owed, BeforeEvent, BeforeHal, BeforeTargets, BeforeWrite, BeforeStore
<1> QED BY <1>2, <1>4, <1>5, <1>6, <1>7, <1>8, <1>9

LEMMA WakeupKeyCalm == ASSUME IInv, CalmInv, WakeupKey PROVE CalmInv'
<1> USE DEF WakeupKey, KeyAsksFor, timerVars, runVars, InCall, CallSteps, Threads
<1> SUFFICES ASSUME Calm' PROVE CalmOK'
  BY DEF CalmInv
<1>1. Calm /\ CalmOK
  BY DEF CalmInv, Calm, OneAtATime, IInv, PwrTypeOK
<1> USE <1>1 DEF IInv, PwrTypeOK, CalmOK
<1>2. OneCall'
  BY DEF OneCall, Calm, OneAtATime
<1>3. (Settled' <=> Settled) /\ (OneSleep' <=> OneSleep) /\ dsStatus' = dsStatus
  BY DEF Settled, OneSleep, Entering, dsVars
<1>4. BootOK'
  BY <1>3 DEF BootOK
<1>5. SleepOK'
  BY <1>3 DEF SleepOK, BootOK
<1>6. StoredOK'
  BY DEF StoredOK, BeforeStore, OneCall
<1>7. KeysOK'
  BY <1>3 DEF KeysOK, AsyncBusy, Owed, Forced, BeforeTargets, BeforeWrite, BeforeStore
<1>8. CopiesOK'
  BY <1>3 DEF CopiesOK, Owed, Forced, BeforeHal, BeforeTargets, BeforeWrite, BeforeStore
<1>9. WakeupOK'
  BY DEF WakeupOK, Owed, BeforeEvent, BeforeHal, BeforeTargets, BeforeWrite, BeforeStore
<1> QED BY <1>2, <1>4, <1>5, <1>6, <1>7, <1>8, <1>9

\* A thread begins a request: a call, or the release of a voice key.
LEMMA AskCalm ==
    ASSUME NEW t \in {"ir", "rpc"}, NEW to \in {"enter", "voice"}, NEW s,
           IInv, CalmInv, pc[t] = "idle",
           pc' = [pc EXCEPT ![t] = to], new' = [new EXCEPT ![t] = s],
           UNCHANGED <<dsVars, viewVars, timerVars, overlapped, early, unsaved, crossed>>
    PROVE  CalmInv'
<1> USE DEF viewVars, timerVars, InCall, CallSteps, Threads
<1> SUFFICES ASSUME Calm' PROVE CalmOK'
  BY DEF CalmInv
<1>1. Calm /\ CalmOK
  BY DEF CalmInv, Calm, OneAtATime, IInv, PwrTypeOK
<1> USE <1>1 DEF IInv, PwrTypeOK, CalmOK
<1>2. OneCall'
  BY DEF OneCall, Calm, OneAtATime
<1>3. (Settled' <=> Settled) /\ (OneSleep' <=> OneSleep) /\ dsStatus' = dsStatus
  BY DEF Settled, OneSleep, Entering, dsVars
<1>4. BootOK'
  BY <1>3 DEF BootOK
<1>5. SleepOK'
  BY <1>3 DEF SleepOK, BootOK
<1>6. StoredOK'
  BY DEF StoredOK, BeforeStore, OneCall
<1>7. KeysOK'
  BY <1>3 DEF KeysOK, AsyncBusy, Owed, Forced, BeforeTargets, BeforeWrite, BeforeStore
<1>8. CopiesOK'
  BY <1>3 DEF CopiesOK, Owed, Forced, BeforeHal, BeforeTargets, BeforeWrite, BeforeStore
<1>9. WakeupOK'
  BY DEF WakeupOK, Owed, BeforeEvent, BeforeHal, BeforeTargets, BeforeWrite, BeforeStore
<1> QED BY <1>2, <1>4, <1>5, <1>6, <1>7, <1>8, <1>9

LEMMA RequestCalm ==
    ASSUME IInv, CalmInv,
           \/ \E s \in DiscreteKeys : DiscreteKey(s)
           \/ \E s \in RpcStates : RpcSetPowerState(s)
           \/ GhostKey
           \/ VoiceLooks
    PROVE  CalmInv'
<1>1. ASSUME NEW s \in DiscreteKeys, DiscreteKey(s) PROVE CalmInv'
  BY <1>1, AskCalm DEF DiscreteKey
<1>2. ASSUME NEW s \in RpcStates, RpcSetPowerState(s) PROVE CalmInv'
  BY <1>2, AskCalm DEF RpcSetPowerState
<1>3. CASE GhostKey
  BY <1>3, AskCalm DEF GhostKey
<1>4. CASE VoiceLooks
  <2>1. new' = [new EXCEPT !["ir"] = new["ir"]]
    BY <1>4 DEF VoiceLooks, IInv, PwrTypeOK
  <2> QED BY <1>4, <2>1, AskCalm DEF VoiceLooks
<1> QED BY <1>1, <1>2, <1>3, <1>4

LEMMA IrLockCalm == ASSUME IInv, CalmInv, IrLock PROVE CalmInv'
<1> USE DEF IrLock, timerVars, runVars, InCall, CallSteps, Threads
<1> SUFFICES ASSUME Calm' PROVE CalmOK'
  BY DEF CalmInv
<1>1. Calm /\ CalmOK
  BY DEF CalmInv, Calm, OneAtATime, IInv, PwrTypeOK
<1> USE <1>1 DEF IInv, PwrTypeOK, CalmOK
<1>2. OneCall'
  BY DEF OneCall, Calm, OneAtATime
<1>3. (Settled' <=> Settled) /\ (OneSleep' <=> OneSleep) /\ dsStatus' = dsStatus
  BY DEF Settled, OneSleep, Entering, dsVars
<1>4. BootOK'
  BY <1>3 DEF BootOK
<1>5. SleepOK'
  BY <1>3 DEF SleepOK, BootOK
<1>6. StoredOK'
  BY DEF StoredOK, BeforeStore, OneCall
<1>7. KeysOK'
  BY <1>3 DEF KeysOK, AsyncBusy, Owed, Forced, BeforeTargets, BeforeWrite, BeforeStore
<1>8. CopiesOK'
  BY <1>3 DEF CopiesOK, Owed, Forced, BeforeHal, BeforeTargets, BeforeWrite, BeforeStore
<1>9. WakeupOK'
  BY DEF WakeupOK, Owed, BeforeEvent, BeforeHal, BeforeTargets, BeforeWrite, BeforeStore
<1> QED BY <1>2, <1>4, <1>5, <1>6, <1>7, <1>8, <1>9

LEMMA AsyncCallCalm == ASSUME IInv, CalmInv, AsyncCall PROVE CalmInv'
<1> USE DEF AsyncCall, viewVars, timerVars, runVars, InCall, CallSteps, Threads
<1> SUFFICES ASSUME Calm' PROVE CalmOK'
  BY DEF CalmInv
<1>1. Calm /\ CalmOK
  BY DEF CalmInv, Calm, OneAtATime, IInv, PwrTypeOK
<1> USE <1>1 DEF IInv, PwrTypeOK, CalmOK
<1>2. OneCall'
  BY DEF OneCall, Calm, OneAtATime
<1>3. (Settled' <=> Settled) /\ (OneSleep' <=> OneSleep) /\ dsStatus' = dsStatus
  BY DEF Settled, OneSleep, Entering, dsVars
<1>4. BootOK'
  BY <1>3 DEF BootOK
<1>5. SleepOK'
  BY <1>3 DEF SleepOK, BootOK
<1>6. StoredOK'
  BY DEF StoredOK, BeforeStore, OneCall
<1>7. KeysOK'
  BY <1>3 DEF KeysOK, AsyncBusy, Owed, Forced, BeforeTargets, BeforeWrite, BeforeStore
<1>8. CopiesOK'
  BY <1>3 DEF CopiesOK, Owed, Forced, BeforeHal, BeforeTargets, BeforeWrite, BeforeStore
<1>9. WakeupOK'
  BY DEF WakeupOK, Owed, BeforeEvent, BeforeHal, BeforeTargets, BeforeWrite, BeforeStore
<1> QED BY <1>2, <1>4, <1>5, <1>6, <1>7, <1>8, <1>9

LEMMA AsyncWaitCalm == ASSUME IInv, CalmInv, AsyncWait PROVE CalmInv'
<1> USE DEF AsyncWait, viewVars, timerVars, runVars, InCall, CallSteps, Threads
<1> SUFFICES ASSUME Calm' PROVE CalmOK'
  BY DEF CalmInv
<1>1. Calm /\ CalmOK
  BY DEF CalmInv, Calm, OneAtATime, IInv, PwrTypeOK
<1> USE <1>1 DEF IInv, PwrTypeOK, CalmOK
<1>2. OneCall'
  BY DEF OneCall, Calm, OneAtATime
<1>3. (Settled' <=> Settled) /\ (OneSleep' <=> OneSleep) /\ dsStatus' = dsStatus
  BY DEF Settled, OneSleep, Entering, dsVars
<1>4. BootOK'
  BY <1>3 DEF BootOK
<1>5. SleepOK'
  BY <1>3 DEF SleepOK, BootOK
<1>6. StoredOK'
  BY DEF StoredOK, BeforeStore, OneCall
<1>7. KeysOK'
  BY <1>3 DEF KeysOK, AsyncBusy, Owed, Forced, BeforeTargets, BeforeWrite, BeforeStore
<1>8. CopiesOK'
  BY <1>3 DEF CopiesOK, Owed, Forced, BeforeHal, BeforeTargets, BeforeWrite, BeforeStore
<1>9. WakeupOK'
  BY DEF WakeupOK, Owed, BeforeEvent, BeforeHal, BeforeTargets, BeforeWrite, BeforeStore
<1> QED BY <1>2, <1>4, <1>5, <1>6, <1>7, <1>8, <1>9

LEMMA VoiceKeyCalm == ASSUME NEW off \in OffStates, IInv, CalmInv, VoiceKey(off) PROVE CalmInv'
<1> USE DEF VoiceKey, KeyAsksFor, timerVars, runVars, InCall, CallSteps, Threads
<1> SUFFICES ASSUME Calm' PROVE CalmOK'
  BY DEF CalmInv
<1>1. Calm /\ CalmOK
  BY DEF CalmInv, Calm, OneAtATime, IInv, PwrTypeOK
<1> USE <1>1 DEF IInv, PwrTypeOK, CalmOK
<1>2. OneCall'
  BY DEF OneCall, Calm, OneAtATime
<1>3. (Settled' <=> Settled) /\ (OneSleep' <=> OneSleep) /\ dsStatus' = dsStatus
  BY DEF Settled, OneSleep, Entering, dsVars
<1>4. BootOK'
  BY <1>3 DEF BootOK
<1>5. SleepOK'
  BY <1>3 DEF SleepOK, BootOK
<1>6. StoredOK'
  BY DEF StoredOK, BeforeStore, OneCall
<1>7. KeysOK'
  BY <1>3 DEF KeysOK, AsyncBusy, Owed, Forced, BeforeTargets, BeforeWrite, BeforeStore
<1>8. CopiesOK'
  BY <1>3 DEF CopiesOK, Owed, Forced, BeforeHal, BeforeTargets, BeforeWrite, BeforeStore
<1>9. WakeupOK'
  BY DEF WakeupOK, Owed, BeforeEvent, BeforeHal, BeforeTargets, BeforeWrite, BeforeStore
<1> QED BY <1>2, <1>4, <1>5, <1>6, <1>7, <1>8, <1>9

LEMMA EcmStoreCalm == ASSUME IInv, CalmInv, EcmStore PROVE CalmInv'
<1>1. pc'["ir"] \in {"ecmWrite", "reboot"}
  BY DEF EcmStore, IInv, PwrTypeOK, Threads
<1> QED BY <1>1 DEF CalmInv, Calm

LEMMA EcmWriteCalm == ASSUME IInv, CalmInv, EcmWrite PROVE CalmInv'
<1>1. pc'["ir"] \in {"ecmWrite", "reboot"}
  BY DEF EcmWrite, IInv, PwrTypeOK, Threads, Goto
<1> QED BY <1>1 DEF CalmInv, Calm

\* Timers and restarts.
LEMMA WakeupTimerCalm == ASSUME NEW s \in SourceIds, IInv, CalmInv, WakeupTimer(s) PROVE CalmInv'
<1> USE DEF WakeupTimer, LoopIdle, MayFire, HandleTimeout, InCall, CallSteps, Threads
<1> SUFFICES ASSUME Calm' PROVE CalmOK'
  BY DEF CalmInv
<1>1. Calm /\ CalmOK
  BY DEF CalmInv, Calm, OneAtATime, IInv, PwrTypeOK
<1> USE <1>1 DEF IInv, PwrTypeOK, CalmOK
<1>2. OneCall'
  BY DEF OneCall, Calm, OneAtATime
<1>3. (Settled' <=> Settled) /\ (OneSleep' <=> OneSleep) /\ dsStatus' = dsStatus
  BY DEF Settled, OneSleep, Entering, dsVars
<1>4. BootOK'
  BY <1>3 DEF BootOK
<1>5. SleepOK'
  BY <1>3 DEF SleepOK, BootOK
<1>6. StoredOK'
  <2>1. CASE SchdReboot
    <3>1. powerState' = powerState /\ new' = new /\ \A t \in Threads : InCall(t)' => pc'[t] = pc[t]
      BY <2>1
    <3> QED BY <3>1 DEF StoredOK
  <2>2. CASE ~SchdReboot
    <3>1. \A t \in Threads : ~InCall(t)'
      BY <2>2 DEF Calm, OneAtATime
    <3> QED BY <3>1 DEF StoredOK
  <2> QED BY <2>1, <2>2
<1>7. KeysOK'
  <2>1. CASE SchdReboot
        BY <1>3, <2>1 DEF KeysOK, AsyncBusy, Owed, Forced, BeforeTargets, BeforeWrite,
       BeforeStore
  <2>2. CASE ~SchdReboot
    <3>1. ~Forced => powerState' = powerState \/ Forced'
      BY <1>3, <2>2 DEF SleepOK, Calm, OneAtATime, Forced
    <3>2. Forced => Forced'
      BY <1>3, <2>2 DEF SleepOK, Calm, OneAtATime, Forced
    <3>3. (\A t \in Threads \ {"loop"} : pc'[t] = pc[t]) /\ new'["ir"] = new["ir"]
      BY <2>2
    <3> QED BY <3>1, <3>2, <3>3 DEF KeysOK, AsyncBusy, Owed, BeforeTargets, BeforeWrite,
            BeforeStore
  <2> QED BY <2>1, <2>2
<1>8. CopiesOK'
  <2>1. CASE SchdReboot
    <3>1. /\ \A S \in {BeforeWrite, BeforeHal} : Owed(S) => Owed(S)'
          /\ Forced => Forced'
          /\ UNCHANGED <<powerState, file, hal>>
      BY <1>3, <2>1 DEF Owed, Forced, BeforeHal, BeforeTargets, BeforeWrite, BeforeStore
    <3> QED BY <3>1 DEF CopiesOK
  <2>2. CASE ~SchdReboot
    <3>1. ~Owed(BeforeWrite) /\ ~Owed(BeforeHal)
      BY <2>2 DEF Calm, OneAtATime, Owed, BeforeHal, BeforeTargets, BeforeWrite, BeforeStore
    <3>2. powerState' = powerState \/ Forced'
      BY <1>3, <2>2 DEF SleepOK, Calm, OneAtATime, Forced
    <3>3. Forced => Forced'
      BY <1>3, <2>2 DEF SleepOK, Calm, OneAtATime, Forced
    <3> QED BY <3>1, <3>2, <3>3 DEF CopiesOK
  <2> QED BY <2>1, <2>2
<1>9. WakeupOK'
  BY DEF WakeupOK, Owed, BeforeEvent, BeforeHal, BeforeTargets, BeforeWrite, BeforeStore
<1> QED BY <1>2, <1>4, <1>5, <1>6, <1>7, <1>8, <1>9

LEMMA BootupTimerCalm == ASSUME IInv, CalmInv, BootupTimer PROVE CalmInv'
<1> USE DEF BootupTimer, LoopIdle, MayFire, timerVars, InCall, CallSteps, Threads
<1> SUFFICES ASSUME Calm' PROVE CalmOK'
  BY DEF CalmInv
<1>1. Calm /\ CalmOK
  BY DEF CalmInv, Calm, OneAtATime, IInv, PwrTypeOK
<1> USE <1>1 DEF IInv, PwrTypeOK, CalmOK
<1>2. OneCall'
  BY DEF OneCall, Calm, OneAtATime
<1>3. (Settled' <=> Settled) /\ (OneSleep' <=> OneSleep) /\ dsStatus' = dsStatus
  BY DEF Settled, OneSleep, Entering, dsVars
<1>4. BootOK'
  BY <1>3 DEF BootOK
<1>5. SleepOK'
  BY <1>3 DEF SleepOK, BootOK
<1>6. StoredOK'
  BY DEF StoredOK, BootOK
<1>7. KeysOK'
    BY <1>3 DEF BootOK, KeysOK, AsyncBusy, Owed, Forced, BeforeTargets, BeforeWrite,
     BeforeStore
<1>8. CopiesOK'
    BY <1>3 DEF BootOK, CopiesOK, Owed, Forced, BeforeHal, BeforeTargets, BeforeWrite,
     BeforeStore
<1>9. WakeupOK'
    BY DEF BootOK, WakeupOK, Owed, BeforeEvent, BeforeHal, BeforeTargets, BeforeWrite,
     BeforeStore
<1> QED BY <1>2, <1>4, <1>5, <1>6, <1>7, <1>8, <1>9

LEMMA TimeoutThreadCalm == ASSUME IInv, CalmInv, TimeoutThread PROVE CalmInv'
<1> USE DEF TimeoutThread, MayFire, HandleTimeout, timerVars, InCall, CallSteps, Threads
<1> SUFFICES ASSUME Calm' PROVE CalmOK'
  BY DEF CalmInv
<1>1. Calm /\ CalmOK
  BY DEF CalmInv, Calm, OneAtATime, IInv, PwrTypeOK
<1> USE <1>1 DEF IInv, PwrTypeOK, CalmOK
<1>2. OneCall'
  BY DEF OneCall, Calm, OneAtATime
<1>3. (Settled' <=> Settled) /\ (OneSleep' <=> OneSleep) /\ dsStatus' = dsStatus
  BY DEF Settled, OneSleep, Entering, dsVars
<1>4. BootOK'
  BY <1>3 DEF BootOK
<1>5. SleepOK'
  BY <1>3 DEF SleepOK, BootOK
<1>6. StoredOK'
  <2>1. CASE SchdReboot
    <3>1. powerState' = powerState /\ new' = new /\ \A t \in Threads : InCall(t)' => pc'[t] = pc[t]
      BY <2>1
    <3> QED BY <3>1 DEF StoredOK
  <2>2. CASE ~SchdReboot
    <3>1. \A t \in Threads : ~InCall(t)'
      BY <2>2 DEF Calm, OneAtATime
    <3> QED BY <3>1 DEF StoredOK
  <2> QED BY <2>1, <2>2
<1>7. KeysOK'
  <2>1. CASE SchdReboot
        BY <1>3, <2>1 DEF KeysOK, AsyncBusy, Owed, Forced, BeforeTargets, BeforeWrite,
       BeforeStore
  <2>2. CASE ~SchdReboot
    <3>1. ~Forced => powerState' = powerState \/ Forced'
      BY <1>3, <2>2 DEF SleepOK, Calm, OneAtATime, Forced
    <3>2. Forced => Forced'
      BY <1>3, <2>2 DEF SleepOK, Calm, OneAtATime, Forced
    <3>3. (\A t \in Threads \ {"tmo"} : pc'[t] = pc[t]) /\ new'["ir"] = new["ir"]
      BY <2>2
    <3> QED BY <3>1, <3>2, <3>3 DEF KeysOK, AsyncBusy, Owed, BeforeTargets, BeforeWrite,
            BeforeStore
  <2> QED BY <2>1, <2>2
<1>8. CopiesOK'
  <2>1. CASE SchdReboot
    <3>1. /\ \A S \in {BeforeWrite, BeforeHal} : Owed(S) => Owed(S)'
          /\ Forced => Forced'
          /\ UNCHANGED <<powerState, file, hal>>
      BY <1>3, <2>1 DEF Owed, Forced, BeforeHal, BeforeTargets, BeforeWrite, BeforeStore
    <3> QED BY <3>1 DEF CopiesOK
  <2>2. CASE ~SchdReboot
    <3>1. ~Owed(BeforeWrite) /\ ~Owed(BeforeHal)
      BY <2>2 DEF Calm, OneAtATime, Owed, BeforeHal, BeforeTargets, BeforeWrite, BeforeStore
    <3>2. powerState' = powerState \/ Forced'
      BY <1>3, <2>2 DEF SleepOK, Calm, OneAtATime, Forced
    <3>3. Forced => Forced'
      BY <1>3, <2>2 DEF SleepOK, Calm, OneAtATime, Forced
    <3> QED BY <3>1, <3>2, <3>3 DEF CopiesOK
  <2> QED BY <2>1, <2>2
<1>9. WakeupOK'
  BY DEF WakeupOK, Owed, BeforeEvent, BeforeHal, BeforeTargets, BeforeWrite, BeforeStore
<1> QED BY <1>2, <1>4, <1>5, <1>6, <1>7, <1>8, <1>9

LEMMA LoopDelayCalm == ASSUME IInv, CalmInv, LoopDelay PROVE CalmInv'
<1> USE DEF LoopDelay, viewVars, threadVars, timerVars, runVars, InCall, CallSteps,
   Threads
<1> SUFFICES ASSUME Calm' PROVE CalmOK'
  BY DEF CalmInv
<1>1. Calm /\ CalmOK
  BY DEF CalmInv, Calm, OneAtATime, IInv, PwrTypeOK
<1> USE <1>1 DEF IInv, PwrTypeOK, CalmOK
<1>2. OneCall'
  BY DEF OneCall, Calm, OneAtATime
<1>3. OneSleep' /\ ~Settled
  BY DelayOneSleep DEF DsInv, SleepOK
<1>4. BootOK'
  BY <1>3 DEF BootOK
<1>5. SleepOK'
  BY <1>3 DEF SleepOK, BootOK
<1>6. StoredOK'
  BY DEF StoredOK, BeforeStore, OneCall
<1>7. KeysOK'
  BY <1>3 DEF KeysOK, AsyncBusy, Owed, Forced, BeforeTargets, BeforeWrite, BeforeStore
<1>8. CopiesOK'
  BY <1>3 DEF CopiesOK, Owed, Forced, BeforeHal, BeforeTargets, BeforeWrite, BeforeStore
<1>9. WakeupOK'
  BY DEF WakeupOK, Owed, BeforeEvent, BeforeHal, BeforeTargets, BeforeWrite, BeforeStore
<1> QED BY <1>2, <1>4, <1>5, <1>6, <1>7, <1>8, <1>9

LEMMA DsStepCalm == ASSUME NEW d \in DsThreads, IInv, CalmInv, DsStep(d) PROVE CalmInv'
<1> USE DEF DsStep, viewVars, threadVars, timerVars, runVars, InCall, CallSteps, Threads
<1> SUFFICES ASSUME Calm' PROVE CalmOK'
  BY DEF CalmInv
<1>1. Calm /\ CalmOK
  BY DEF CalmInv, Calm, OneAtATime, IInv, PwrTypeOK
<1> USE <1>1 DEF IInv, PwrTypeOK, CalmOK
<1>2. OneCall'
  BY DEF OneCall, Calm, OneAtATime
<1>3. OneSleep' /\ (Settled => Settled' /\ dsStatus' = dsStatus)
  BY ThreadOneSleep DEF DsInv, SleepOK
<1>4. BootOK'
  BY <1>3 DEF BootOK
<1>5. SleepOK'
  BY <1>3 DEF SleepOK, BootOK
<1>6. StoredOK'
  BY DEF StoredOK, BeforeStore, OneCall
<1>7. KeysOK'
  BY <1>3 DEF KeysOK, AsyncBusy, Owed, Forced, BeforeTargets, BeforeWrite, BeforeStore
<1>8. CopiesOK'
  BY <1>3 DEF CopiesOK, Owed, Forced, BeforeHal, BeforeTargets, BeforeWrite, BeforeStore
<1>9. WakeupOK'
  BY DEF WakeupOK, Owed, BeforeEvent, BeforeHal, BeforeTargets, BeforeWrite, BeforeStore
<1> QED BY <1>2, <1>4, <1>5, <1>6, <1>7, <1>8, <1>9

LEMMA StutterCalm == ASSUME IInv, CalmInv, UNCHANGED vars PROVE CalmInv'
<1> USE DEF vars, viewVars, threadVars, timerVars, runVars, InCall, CallSteps, Threads
<1> SUFFICES ASSUME Calm' PROVE CalmOK'
  BY DEF CalmInv
<1>1. Calm /\ CalmOK
  BY DEF CalmInv, Calm, OneAtATime, IInv, PwrTypeOK
<1> USE <1>1 DEF IInv, PwrTypeOK, CalmOK
<1>2. OneCall'
  BY DEF OneCall, Calm, OneAtATime
<1>3. (Settled' <=> Settled) /\ (OneSleep' <=> OneSleep) /\ dsStatus' = dsStatus
  BY DEF Settled, OneSleep, Entering, dsVars
<1>4. BootOK'
  BY <1>3 DEF BootOK
<1>5. SleepOK'
  BY <1>3 DEF SleepOK, BootOK
<1>6. StoredOK'
  BY DEF StoredOK, BeforeStore, OneCall
<1>7. KeysOK'
  BY <1>3 DEF KeysOK, AsyncBusy, Owed, Forced, BeforeTargets, BeforeWrite, BeforeStore
<1>8. CopiesOK'
  BY <1>3 DEF CopiesOK, Owed, Forced, BeforeHal, BeforeTargets, BeforeWrite, BeforeStore
<1>9. WakeupOK'
  BY DEF WakeupOK, Owed, BeforeEvent, BeforeHal, BeforeTargets, BeforeWrite, BeforeStore
<1> QED BY <1>2, <1>4, <1>5, <1>6, <1>7, <1>8, <1>9

LEMMA BootCalm == ASSUME IInv, Boot PROVE CalmInv'
<1> SUFFICES CalmOK'
  BY DEF CalmInv
<1> USE DEF Boot, InCall, CallSteps, Threads
<1>1. OneSleep' /\ Settled'
  BY DEF OneSleep, Settled, Entering
<1>2. OneCall' /\ BootOK' /\ SleepOK' /\ StoredOK'
  BY <1>1 DEF OneCall, BootOK, SleepOK, StoredOK
<1>3. KeysOK' /\ CopiesOK'
  BY DEF KeysOK, CopiesOK
<1>4. WakeupOK'
  BY DEF WakeupOK, BeforeEvent, BeforeHal, BeforeTargets, BeforeWrite, BeforeStore
<1> QED BY <1>2, <1>3, <1>4 DEF CalmOK

\* Every step preserves it.
LEMMA NextCalm == IInv /\ CalmInv /\ [Next]_vars => CalmInv'
<1> SUFFICES ASSUME IInv, CalmInv, [Next]_vars PROVE CalmInv'
  OBVIOUS
<1>1. ASSUME NEW t \in Threads, CallStep(t) PROVE CalmInv'
  BY <1>1, EnterSameCalm, EnterRefusedCalm, EnterChangeCalm, CallWakeRestartCalm,
     CallWakeDoneCalm, CallStoreCalm, CallWriteCalm, CallTransitionCalm,
     CallTargetCalm, CallHalCalm, CallOomCalm, CallEventCalm, CallBroadcastCalm DEF CallStep, SetPowerStateStep
<1>2. ASSUME NEW off \in OffStates, PowerKey(off) \/ VoiceKey(off) PROVE CalmInv'
  BY <1>2, PowerKeyCalm, VoiceKeyCalm
<1>3. CASE \/ \E s \in DiscreteKeys : DiscreteKey(s)
           \/ \E s \in RpcStates : RpcSetPowerState(s)
           \/ GhostKey \/ VoiceLooks
  BY <1>3, RequestCalm
<1>4. CASE WakeupKey \/ IrLock
  BY <1>4, WakeupKeyCalm, IrLockCalm
<1>5. CASE AsyncCall \/ AsyncWait
  BY <1>5, AsyncCallCalm, AsyncWaitCalm
<1>6. CASE EcmStore \/ EcmWrite
  BY <1>6, EcmStoreCalm, EcmWriteCalm
<1>7. ASSUME NEW s \in SourceIds, WakeupTimer(s) PROVE CalmInv'
  BY <1>7, WakeupTimerCalm
<1>8. CASE BootupTimer \/ TimeoutThread \/ LoopDelay
  BY <1>8, BootupTimerCalm, TimeoutThreadCalm, LoopDelayCalm
<1>9. ASSUME NEW d \in DsThreads, DsStep(d) PROVE CalmInv'
  BY <1>9, DsStepCalm
<1>10. CASE Boot \/ UNCHANGED vars
  BY <1>10, BootCalm, StutterCalm
<1> QED BY <1>1, <1>2, <1>3, <1>4, <1>5, <1>6, <1>7, <1>8, <1>9, <1>10 DEF Next

\* It holds in every reachable state.
THEOREM CalmInvariant == Spec => [](IInv /\ CalmInv)
  BY InitCalm, NextCalm, InitIInv, NextIInv, PTL DEF Spec

\* The asynchronous thread never waits while the others rest and the target is
\* not reached: pthread_cond_signal was not sent too early.
THEOREM SignalsArrive == Spec => []NoLostSignal
<1>1. IInv /\ CalmInv => NoLostSignal
  <2> SUFFICES ASSUME IInv, CalmInv PROVE NoLostSignal
    OBVIOUS
  <2>1. mutex = "async" <=> (pc["async"] = "enter" \/ InCall("async"))
    BY DEF IInv, MutexOK, Busy
  <2>2. ASSUME OneAtATime, pc["async"] = "wait", \A t \in Threads : pc[t] \in {"idle", "wait"}
        PROVE  targetState = powerState
    <3>1. KeysOK
      BY <2>2 DEF CalmInv, Calm, CalmOK, Threads
        <3> QED BY <2>2, <3>1 DEF KeysOK, AsyncBusy, Owed, Forced, BeforeTargets,
       BeforeWrite,
            BeforeStore, Threads
  <2> QED BY <2>1, <2>2 DEF NoLostSignal
<1> QED BY <1>1, CalmInvariant, PTL

\* Whatever keys, RPCs and timers have come one after the other: once no call
\* is left, memory, file, hardware and both states of the keys agree, but for a
\* write that failed and a key that came between the two writes of a call.
THEOREM CopiesAgree == Spec => []AgreeAtRest
<1>1. CalmInv => AgreeAtRest
  <2> SUFFICES ASSUME CalmInv, AtRest, OneAtATime
               PROVE  /\ powerState = file \/ unsaved
                      /\ powerState = hal
                      /\ powerState = transitionState \/ crossed
                      /\ powerState = targetState
    BY DEF AgreeAtRest
  <2> USE DEF AtRest, Threads
  <2>1. KeysOK /\ CopiesOK
    BY DEF CalmInv, Calm, CalmOK
  <2>2. ~Owed(BeforeHal) /\ ~Forced /\ ~AsyncBusy
    BY DEF Owed, Forced, AsyncBusy, BeforeHal, BeforeTargets, BeforeWrite, BeforeStore
  <2>3. ~Owed(BeforeTargets) /\ ~Owed(BeforeWrite)
    BY <2>2 DEF Owed, BeforeHal, BeforeTargets
  <2> QED BY <2>1, <2>2, <2>3 DEF KeysOK, CopiesOK
<1> QED BY <1>1, CalmInvariant, PTL

\* No timer of deep sleep is left on the main loop of a box that has left deep
\* sleep, as long as malloc does not fail: then the call returns before it
\* removes the timer.
THEOREM WakeupRemoved == ASSUME ~MayFail PROVE Spec => []NoStrayWakeup
<1>1. CalmInv => NoStrayWakeup
    BY DEF CalmInv, Calm, CalmOK, WakeupOK, NoStrayWakeup, AtRest, Threads, Owed,
     BeforeEvent,
         BeforeHal, BeforeTargets, BeforeWrite, BeforeStore
<1> QED BY <1>1, CalmInvariant, PTL

-----------------------------------------------------------------------------
(* PwrMgr implements PowerSpec *)

\* With one call at a time, what the box is changing to is what the call wants.
LEMMA CallIsTheChange ==
    ASSUME NEW t \in Threads, OneCall, InCall(t)
    PROVE  Changing = new[t]
<1>1. \A u \in Threads : InCall(u) <=> u = t
  BY DEF OneCall
<1>2. (CHOOSE u \in Threads : InCall(u)) = t
  BY <1>1
<1> QED BY <1>2 DEF Changing

\* The same after a step.
LEMMA CallIsTheChangeNext ==
    ASSUME NEW t \in Threads, OneCall', InCall(t)'
    PROVE  Changing' = new'[t]
<1>1. \A u \in Threads : InCall(u)' <=> u = t
  BY DEF OneCall
<1>2. (CHOOSE u \in Threads : InCall(u)') = t
  BY <1>1
<1> QED BY <1>2 DEF Changing

\* Nobody is in a call, before or after a step.
LEMMA NoCallNoChange ==
    /\ (\A t \in Threads : ~InCall(t)) => Changing = "none"
    /\ (\A t \in Threads : ~InCall(t)') => Changing' = "none"
  BY DEF Changing

\* A step that begins no call, ends none and gives none another state.
LEMMA SameChange ==
    ASSUME OneCall, OneCall',
           \A t \in Threads : /\ InCall(t)' <=> InCall(t)
                              /\ InCall(t) => new'[t] = new[t]
    PROVE  Changing' = Changing
<1>1. CASE \E t \in Threads : InCall(t)
  <2>1. PICK t \in Threads : InCall(t)
    BY <1>1
  <2> QED BY <2>1, CallIsTheChange, CallIsTheChangeNext
<1>2. CASE \A t \in Threads : ~InCall(t)
  BY <1>2, NoCallNoChange
<1> QED BY <1>1, <1>2

\* No step seen from outside: neither file nor platform, call nor sleep change.
LEMMA HiddenStep ==
    ASSUME Calm, Calm', CalmInv, CalmInv',
           file' = file, hal' = hal, SaveFailed' = SaveFailed, Sleeping' <=> Sleeping,
           \A t \in Threads : /\ InCall(t)' <=> InCall(t)
                              /\ InCall(t) => new'[t] = new[t]
    PROVE  UNCHANGED Power!vars
<1>1. OneCall /\ OneCall'
  BY DEF CalmInv, CalmOK
<1>2. Changing' = Changing
  BY <1>1, SameChange
<1>3. Calm' = Calm /\ Sleeping' = Sleeping
  BY DEF Calm, Sleeping
<1> QED BY <1>2, <1>3 DEF Power!vars

\* A box that may be put to sleep has saved and shown the deep sleep state.
LEMMA SleepIsShown ==
    ASSUME Calm, CalmInv, ~Settled
    PROVE  /\ file = "DEEP_SLEEP" \/ SaveFailed
           /\ hal = "DEEP_SLEEP"
           /\ \A t \in Threads : ~InCall(t)
<1>1. CalmOK
  BY DEF CalmInv
<1>2. powerState = "DEEP_SLEEP" /\ \A t \in Threads : ~InCall(t)
  BY <1>1 DEF CalmOK, SleepOK
<1>3. ~Owed(BeforeHal) /\ ~Owed(BeforeWrite)
  BY <1>2 DEF Owed, InCall, CallSteps, BeforeHal, BeforeTargets, BeforeWrite, BeforeStore
<1>4. ~Forced
  BY <1>2 DEF Forced
<1>5. hal = "DEEP_SLEEP" /\ (file = "DEEP_SLEEP" \/ unsaved)
  BY <1>1, <1>2, <1>3, <1>4 DEF CalmOK, CopiesOK
<1>6. unsaved => SaveFailed
  BY <1>3 DEF SaveFailed, Owed, BeforeWrite, BeforeStore
<1> QED BY <1>2, <1>5, <1>6

\* What a call has saved and shown at each of its steps.
LEMMA CallProgress ==
    ASSUME Calm, CalmInv, NEW t \in Threads, InCall(t)
    PROVE  /\ pc[t] \notin BeforeStore => powerState = new[t]
           /\ pc[t] \notin BeforeWrite => file = new[t] \/ SaveFailed
           /\ pc[t] \notin BeforeHal => hal = new[t]
<1>1. CalmOK
  BY DEF CalmInv
<1>2. ~Forced
  BY DEF Forced
<1>3. pc[t] \notin BeforeStore => powerState = new[t]
  BY <1>1 DEF CalmOK, StoredOK
<1>4. \A u \in Threads : u # t => pc[u] \notin CallSteps
  BY <1>1 DEF CalmOK, OneCall, InCall
<1>5. BeforeStore \subseteq BeforeWrite /\ BeforeWrite \subseteq BeforeHal /\ BeforeHal \subseteq CallSteps
  BY DEF BeforeHal, BeforeTargets, BeforeWrite, BeforeStore, CallSteps
<1>6. pc[t] \notin BeforeWrite => file = new[t] \/ SaveFailed
  <2> SUFFICES ASSUME pc[t] \notin BeforeWrite PROVE file = new[t] \/ SaveFailed
    OBVIOUS
  <2>1. ~Owed(BeforeWrite)
    BY <1>4, <1>5 DEF Owed
  <2>2. powerState = new[t]
    BY <1>3, <1>5
  <2>3. unsaved => SaveFailed
    BY <2>1 DEF SaveFailed, Owed, BeforeWrite, BeforeStore
  <2> QED BY <1>1, <1>2, <2>1, <2>2, <2>3 DEF CalmOK, CopiesOK
<1>7. pc[t] \notin BeforeHal => hal = new[t]
  BY <1>1, <1>2, <1>3, <1>4, <1>5 DEF CalmOK, CopiesOK, Owed
<1> QED BY <1>3, <1>6, <1>7

\* A box that is being put to sleep is not settled.
LEMMA SleepingIsUnsettled == (Sleeping => ~Settled) /\ (Sleeping' => ~Settled')
  BY DEF Sleeping, Settled, Entering

\* The deep sleep code goes on: nothing to be seen, or the box falls asleep, or
\* it resumes.
LEMMA SleepMayChange ==
    ASSUME Calm, Calm', CalmInv, CalmInv', Settled => Settled',
           UNCHANGED <<file, hal, pc, new, unsaved>>
    PROVE  [Power!Next]_(Power!vars)
<1>1. \A t \in Threads : /\ InCall(t)' <=> InCall(t)
                         /\ InCall(t) => new'[t] = new[t]
  BY DEF InCall
<1>2. OneCall /\ OneCall'
  BY DEF CalmInv, CalmOK
<1>3. Changing' = Changing
  BY <1>1, <1>2, SameChange
<1>4. Calm' = Calm /\ SaveFailed' = SaveFailed /\ Sleeping \in BOOLEAN /\ Sleeping' \in BOOLEAN
  BY DEF Calm, Sleeping, SaveFailed
<1>5. CASE Sleeping' <=> Sleeping
  BY <1>1, <1>4, <1>5, HiddenStep
<1>6. CASE ~Sleeping /\ Sleeping'
  <2>1. ~Settled
    BY <1>6, SleepingIsUnsettled
  <2>2. /\ file = "DEEP_SLEEP" \/ SaveFailed
        /\ hal = "DEEP_SLEEP" /\ Changing = "none"
    BY <2>1, SleepIsShown, NoCallNoChange
  <2>3. Sleeping' = TRUE
    BY <1>4, <1>6
  <2> QED BY <1>3, <1>4, <1>6, <2>2, <2>3 DEF Power!Next, Power!FallAsleep, Power!NoChange
<1>7. CASE Sleeping /\ ~Sleeping'
  <2>1. Sleeping' = FALSE
    BY <1>4, <1>7
  <2> QED BY <1>3, <1>4, <1>7, <2>1 DEF Power!Next, Power!Resume
<1> QED BY <1>5, <1>6, <1>7

\* What is disturbed stays so until the box restarts.
LEMMA DisturbedStays ==
    ASSUME IInv, ~Calm, [Next]_vars, ~Boot
    PROVE  ~Calm'
<1> USE DEF IInv, PwrTypeOK, Calm, OneAtATime, Threads
<1>1. ASSUME NEW t \in Threads, CallStep(t) PROVE ~Calm'
  <2> USE DEF Leave, Returned, Goto, viewVars, timerVars, runVars
  <2>1. CASE EnterSame(t) \/ EnterRefused(t) \/ EnterChange(t)
    BY <2>1 DEF EnterSame, EnterRefused, EnterChange
  <2>2. CASE CallWakeRestart(t) \/ CallWakeDone(t) \/ CallStore(t) \/ CallWrite(t)
    BY <2>2 DEF CallWakeRestart, CallWakeDone, CallStore, CallWrite
  <2>3. CASE CallTransition(t) \/ CallTarget(t) \/ CallHal(t) \/ CallOom(t)
    BY <2>3 DEF CallTransition, CallTarget, CallHal, CallOom
  <2>4. CASE CallEvent(t) \/ CallBroadcast(t)
    BY <2>4 DEF CallEvent, CallBroadcast
  <2> QED BY <1>1, <2>1, <2>2, <2>3, <2>4 DEF CallStep, SetPowerStateStep
<1>2. ASSUME NEW off \in OffStates, PowerKey(off) \/ VoiceKey(off) PROVE ~Calm'
  BY <1>2 DEF PowerKey, VoiceKey, KeyAsksFor, runVars
<1>3. CASE \/ \E s \in DiscreteKeys : DiscreteKey(s)
           \/ \E s \in RpcStates : RpcSetPowerState(s)
           \/ GhostKey \/ VoiceLooks
  BY <1>3 DEF DiscreteKey, RpcSetPowerState, GhostKey, VoiceLooks
<1>4. CASE WakeupKey \/ IrLock \/ AsyncCall \/ AsyncWait
  BY <1>4 DEF WakeupKey, KeyAsksFor, IrLock, AsyncCall, AsyncWait, runVars
<1>5. CASE EcmStore \/ EcmWrite
  BY <1>5 DEF EcmStore, EcmWrite, Goto
<1>6. CASE (\E s \in SourceIds : WakeupTimer(s)) \/ BootupTimer \/ TimeoutThread
  BY <1>6 DEF WakeupTimer, BootupTimer, TimeoutThread, HandleTimeout
<1>7. CASE LoopDelay \/ (\E d \in DsThreads : DsStep(d)) \/ UNCHANGED vars
  BY <1>7 DEF LoopDelay, DsStep, threadVars, runVars, vars
<1> QED BY <1>1, <1>2, <1>3, <1>4, <1>5, <1>6, <1>7 DEF Next

\* A step that disturbs something, or follows one that did.
LEMMA DisturbedStep == ASSUME IInv', ~Calm' PROVE Power!Disturbed
<1>1. file' \in States /\ hal' \in States /\ new' \in [Threads -> States \cup {"none"}]
  BY DEF IInv, PwrTypeOK
<1>2. Changing' \in States \cup {"none"}
  <2>1. CASE \E t \in Threads : InCall(t)'
    <3>1. (CHOOSE t \in Threads : InCall(t)') \in Threads
      BY <2>1
    <3> QED BY <1>1, <2>1, <3>1 DEF Changing
  <2>2. CASE \A t \in Threads : ~InCall(t)'
    BY <2>2, NoCallNoChange
  <2> QED BY <2>1, <2>2
<1>3. Calm' = FALSE /\ Sleeping' \in BOOLEAN /\ SaveFailed' \in BOOLEAN
  BY DEF Calm, Sleeping, SaveFailed
<1> QED BY <1>1, <1>2, <1>3 DEF Power!Disturbed, Power!NoChange

LEMMA RestartStep == ASSUME Boot PROVE Power!Restart
<1>1. Calm' /\ ~Sleeping' /\ \A t \in Threads : ~InCall(t)'
  BY DEF Boot, Calm, OneAtATime, Sleeping, InCall, CallSteps, Threads
<1>2. Changing' = "none"
  BY <1>1, NoCallNoChange
<1>3. Calm' = TRUE /\ Sleeping' = FALSE
  BY <1>1 DEF Calm, Sleeping
<1>4. file' = file /\ hal' = file /\ SaveFailed' = FALSE
  BY DEF Boot, SaveFailed
<1> QED BY <1>2, <1>3, <1>4 DEF Power!Restart, Power!NoChange

\* The steps of a call while nothing disturbs it.
LEMMA CallRefines ==
    ASSUME Calm, Calm', CalmInv, CalmInv', IInv, NEW t \in Threads, CallStep(t)
    PROVE  [Power!Next]_(Power!vars)
<1> USE DEF Goto, InCall, CallSteps
<1>1. OneCall /\ OneCall' /\ pc \in [Threads -> PcValues] /\ new \in [Threads -> States \cup {"none"}]
  BY DEF CalmInv, CalmOK, IInv, PwrTypeOK
<1>2. Calm = TRUE /\ Calm' = TRUE /\ Sleeping \in BOOLEAN
  BY DEF Calm, Sleeping
<1>3. CASE EnterSame(t) \/ EnterRefused(t)
  <2>1. SaveFailed' = SaveFailed
    BY <1>1, <1>3 DEF EnterSame, EnterRefused, Leave, Returned, runVars, SaveFailed
  <2> QED BY <1>1, <1>3, <2>1, HiddenStep
          DEF EnterSame, EnterRefused, Leave, Returned, viewVars, dsVars, Sleeping
<1>4. CASE EnterChange(t)
  <2>1. /\ \A u \in Threads : ~InCall(u)
        /\ InCall(t)' /\ new' = new /\ new[t] \in States
        /\ UNCHANGED <<file, hal>> /\ (Sleeping' <=> Sleeping)
    BY <1>1, <1>4 DEF EnterChange, Calm, OneAtATime, IInv, PwrTypeOK, NewOK, Busy, Sleeping,
                      viewVars, dsVars
  <2>2. Changing = "none" /\ Changing' = new[t]
    BY <1>1, <2>1, NoCallNoChange, CallIsTheChangeNext
  <2>3. ~Sleeping
    <3>1. SleepOK /\ ~(powerState = "DEEP_SLEEP" /\ dsStatus = "InProgress")
      BY <1>4 DEF CalmInv, CalmOK, EnterChange
    <3>2. Sleeping => powerState = "DEEP_SLEEP"
      BY <3>1, SleepingIsUnsettled DEF SleepOK
    <3>3. Sleeping => dsStatus = "InProgress"
      BY <3>1 DEF SleepOK, OneSleep, Sleeping
    <3> QED BY <3>1, <3>2, <3>3
  <2>4. Sleeping' = Sleeping
    BY <2>1 DEF Sleeping
  <2>5. SaveFailed' = FALSE
    <3>1. pc'[t] \in {"wakeRestart", "prechange"}
      BY <1>1, <1>4 DEF EnterChange
    <3> QED BY <3>1 DEF SaveFailed
  <2> QED BY <1>2, <2>1, <2>2, <2>3, <2>4, <2>5 DEF Power!Next, Power!Begin, Power!NoChange
<1>5. CASE CallWakeRestart(t) \/ CallWakeDone(t)
  <2>1. SaveFailed' = SaveFailed
    BY <1>1, <1>5 DEF CallWakeRestart, CallWakeDone, runVars, SaveFailed
  <2> QED BY <1>1, <1>5, <2>1, HiddenStep
          DEF CallWakeRestart, CallWakeDone, WakeRestart, WakeDone, viewVars, Sleeping
<1>6. CASE CallStore(t) \/ CallTransition(t) \/ CallTarget(t) \/ CallEvent(t)
  <2>1. SaveFailed' = SaveFailed
    BY <1>1, <1>6 DEF CallStore, CallTransition, CallTarget, CallEvent, runVars, SaveFailed
  <2> QED BY <1>1, <1>6, <2>1, HiddenStep
          DEF CallStore, CallTransition, CallTarget, CallEvent, viewVars, dsVars, Sleeping
<1>7. CASE CallWrite(t)
  <2>1. /\ InCall(t) /\ new' = new /\ pc[t] = "write"
        /\ \A u \in Threads : InCall(u)' <=> InCall(u)
        /\ hal' = hal /\ WriteSettings /\ (Sleeping' <=> Sleeping)
    BY <1>1, <1>7 DEF CallWrite, dsVars, Sleeping
  <2>2. powerState = new[t] /\ new[t] \in States
    BY <2>1, CallProgress DEF BeforeStore, IInv, NewOK, Busy
  <2>3. Changing = new[t] /\ Changing' = Changing
    BY <1>1, <2>1, CallIsTheChange, SameChange
  <2>4. "none" \notin States
    BY DEF States
  <2>5. SaveFailed' <=> unsaved'
    <3>1. \A u \in Threads : InCall(u) => u = t
      BY <1>1, <2>1 DEF OneCall
    <3>2. \A u \in Threads : pc'[u] \notin {"wakeRestart", "wakeDone", "prechange", "write"}
      BY <1>1, <1>7, <3>1 DEF CallWrite
    <3> QED BY <3>2 DEF SaveFailed
  <2>6. Sleeping' = Sleeping
    BY <2>1 DEF Sleeping
  <2>7. CASE file' = powerState /\ unsaved' = FALSE
    <3>1. SaveFailed' = FALSE
      BY <2>5, <2>7 DEF SaveFailed
    <3> QED BY <1>2, <2>1, <2>2, <2>3, <2>4, <2>6, <2>7, <3>1
            DEF Power!Next, Power!Save, Power!NoChange
  <2>8. CASE unsaved' = TRUE /\ file' = file
    <3>1. SaveFailed' = TRUE
      BY <2>5, <2>8 DEF SaveFailed
    <3> QED BY <1>2, <2>1, <2>2, <2>3, <2>4, <2>6, <2>8, <3>1
            DEF Power!Next, Power!SaveFails, Power!NoChange
  <2> QED BY <2>1, <2>7, <2>8 DEF WriteSettings
<1>8. CASE CallHal(t)
  <2>1. /\ InCall(t) /\ new' = new /\ pc[t] = "hal"
        /\ \A u \in Threads : InCall(u)' <=> InCall(u)
        /\ hal' = new[t] /\ file' = file /\ (Sleeping' <=> Sleeping)
    BY <1>1, <1>8 DEF CallHal, dsVars, Sleeping
  <2>2. (file = new[t] \/ SaveFailed) /\ new[t] \in States
    BY <2>1, CallProgress DEF BeforeWrite, BeforeStore, IInv, NewOK, Busy
  <2>3. Changing = new[t] /\ Changing' = Changing
    BY <1>1, <2>1, CallIsTheChange, SameChange
  <2>4. "none" \notin States
    BY DEF States
  <2>5. SaveFailed' = SaveFailed /\ Sleeping' = Sleeping
    BY <1>1, <1>8, <2>1 DEF CallHal, runVars, SaveFailed, Sleeping
  <2> QED BY <1>2, <2>1, <2>2, <2>3, <2>4, <2>5 DEF Power!Next, Power!Show, Power!NoChange
<1>9. CASE CallOom(t) \/ CallBroadcast(t)
  <2>1. /\ InCall(t) /\ pc[t] \in {"event", "broadcast"} /\ ~InCall(t)'
        /\ \A u \in Threads \ {t} : pc'[u] = pc[u]
        /\ UNCHANGED <<file, hal>>
    BY <1>1, <1>9 DEF CallOom, CallBroadcast, Leave, Returned, viewVars
  <2>2. Sleeping' <=> Sleeping
    <3>1. CASE dsThread' = dsThread /\ delayLoop' = delayLoop
      BY <3>1 DEF Sleeping
    <3>2. CASE Spawn /\ delayLoop' = delayLoop
      <4>1. FreeThread \in DsThreads /\ dsThread[FreeThread] = "free"
        BY <3>2 DEF Spawn, FreeThread
      <4>2. dsThread \in [DsThreads -> {"free", "spawned", "claiming", "stopping", "trying"}
                                          \cup WakeReasons]
        BY DEF IInv, DsInv, DsTypeOK
      <4> QED BY <3>2, <4>1, <4>2 DEF Spawn, Sleeping
    <3> QED BY <1>9, <3>1, <3>2 DEF CallOom, CallBroadcast, dsVars
  <2>3. \A u \in Threads : ~InCall(u)'
    BY <1>1, <2>1 DEF OneCall
  <2>4. /\ Changing = new[t] /\ Changing' = "none"
        /\ file = new[t] \/ SaveFailed
        /\ hal = new[t] /\ new[t] \in States
    <3>1. (file = new[t] \/ SaveFailed) /\ hal = new[t]
      BY <2>1, CallProgress DEF BeforeHal, BeforeTargets, BeforeWrite, BeforeStore
    <3>2. new[t] \in States
      BY <2>1 DEF IInv, NewOK, Busy
    <3> QED BY <1>1, <2>1, <2>3, <3>1, <3>2, CallIsTheChange, NoCallNoChange
  <2>5. "none" \notin States
    BY DEF States
  <2>6. Sleeping' = Sleeping
    BY <2>2 DEF Sleeping
  <2>7. SaveFailed' = SaveFailed
    BY <1>1, <1>9, <2>1 DEF CallOom, CallBroadcast, Leave, Returned, runVars, SaveFailed
  <2> QED BY <1>2, <2>1, <2>4, <2>5, <2>6, <2>7 DEF Power!Next, Power!End, Power!NoChange
<1> QED BY <1>3, <1>4, <1>5, <1>6, <1>7, <1>8, <1>9 DEF CallStep, SetPowerStateStep

\* Every step is one of PowerSpec's, or none that is seen from outside.
LEMMA PowerStep ==
    ASSUME IInv, IInv', CalmInv, CalmInv', [Next]_vars
    PROVE  [Power!Next]_(Power!vars)
<1>1. CASE Boot
  BY <1>1, RestartStep DEF Power!Next
<1>2. CASE ~Calm'
  BY <1>2, DisturbedStep DEF Power!Next
<1>3. CASE Calm' /\ ~Boot
  <2>1. Calm
    BY <1>3, DisturbedStays
  <2> USE <1>3, <2>1
  <2>2. ASSUME NEW t \in Threads, CallStep(t) PROVE [Power!Next]_(Power!vars)
    BY <2>2, CallRefines
  <2>3. pc \in [Threads -> PcValues] /\ new \in [Threads -> States \cup {"none"}]
    BY DEF IInv, PwrTypeOK
  <2>4. ASSUME UNCHANGED <<file, hal, delayLoop, dsThread, unsaved>>,
               \A t \in Threads : \/ pc'[t] = pc[t] /\ new'[t] = new[t]
                                  \/ ~InCall(t) /\ ~InCall(t)'
        PROVE  [Power!Next]_(Power!vars)
    <3>1. \A t \in Threads : /\ InCall(t)' <=> InCall(t)
                             /\ InCall(t) => new'[t] = new[t]
      BY <2>4 DEF InCall
    <3>2. SaveFailed' = SaveFailed
      BY <2>4 DEF SaveFailed, InCall, CallSteps
    <3>3. Sleeping' <=> Sleeping
      BY <2>4 DEF Sleeping
    <3> QED BY <2>4, <3>1, <3>2, <3>3, HiddenStep
  <2>5. ASSUME NEW off \in OffStates, PowerKey(off) \/ VoiceKey(off)
        PROVE  [Power!Next]_(Power!vars)
    BY <2>3, <2>4, <2>5 DEF PowerKey, VoiceKey, KeyAsksFor, dsVars, runVars, InCall, CallSteps, Threads
  <2>6. CASE \/ \E s \in DiscreteKeys : DiscreteKey(s)
             \/ \E s \in RpcStates : RpcSetPowerState(s)
             \/ GhostKey \/ VoiceLooks
    BY <2>3, <2>4, <2>6 DEF DiscreteKey, RpcSetPowerState, GhostKey, VoiceLooks, dsVars,
                            viewVars, InCall, CallSteps, Threads
  <2>7. CASE WakeupKey \/ IrLock
    BY <2>3, <2>4, <2>7 DEF WakeupKey, IrLock, KeyAsksFor, dsVars, runVars, InCall, CallSteps, Threads
  <2>8. CASE AsyncCall \/ AsyncWait
    BY <2>3, <2>4, <2>8 DEF AsyncCall, AsyncWait, dsVars, viewVars, runVars, InCall, CallSteps, Threads
  <2>9. CASE EcmStore \/ EcmWrite
    <3>1. pc'["ir"] \in {"ecmWrite", "reboot"}
      BY <2>3, <2>9 DEF EcmStore, EcmWrite, Goto, Threads
    <3> QED BY <3>1 DEF Calm
  <2>10. CASE (\E s \in SourceIds : WakeupTimer(s)) \/ BootupTimer \/ TimeoutThread
    BY <2>3, <2>4, <2>10 DEF WakeupTimer, BootupTimer, TimeoutThread, HandleTimeout, LoopIdle,
                             dsVars, InCall, CallSteps, Threads
  <2>11. CASE LoopDelay
    BY <2>11, DelayOneSleep, SleepMayChange
       DEF LoopDelay, CalmInv, CalmOK, SleepOK, IInv, DsInv, viewVars, threadVars, runVars
  <2>12. ASSUME NEW d \in DsThreads, DsStep(d) PROVE [Power!Next]_(Power!vars)
    BY <2>12, ThreadOneSleep, SleepMayChange
       DEF DsStep, CalmInv, CalmOK, SleepOK, IInv, DsInv, viewVars, threadVars, runVars
  <2>13. CASE UNCHANGED vars
    BY <2>4, <2>13 DEF vars, dsVars, viewVars, threadVars, runVars
  <2> QED BY <2>2, <2>5, <2>6, <2>7, <2>8, <2>9, <2>10, <2>11, <2>12, <2>13 DEF Next
<1> QED BY <1>1, <1>2, <1>3

\* The power manager keeps what PowerSpec promises: it saves a state before it
\* shows it, ends no change half done, puts the box to sleep only in deep sleep
\* and comes back from a restart in the state it saved last.
THEOREM PowerRefines == Spec => PowerAsPromised
<1>1. Init => Power!Init
  <2> SUFFICES ASSUME Init PROVE Power!Init
    OBVIOUS
  <2>1. PICK s \in BootStates : Booted(s)
    BY DEF Init
  <2>2. s \in States
    BY PwrMgrAssumption DEF PwrMgrAssumption
  <2>3. Calm /\ ~Sleeping /\ \A t \in Threads : ~InCall(t)
    BY <2>1 DEF Init, DsInit, Booted, Calm, OneAtATime, Sleeping, InCall, CallSteps, Threads
  <2>4. Changing = "none" /\ Calm = TRUE /\ Sleeping = FALSE /\ SaveFailed = FALSE
    BY <2>1, <2>3, NoCallNoChange DEF Calm, Sleeping, SaveFailed, Booted
  <2> QED BY <2>1, <2>2, <2>4 DEF Booted, Power!Init, Power!NoChange
<1>2. IInv /\ IInv' /\ CalmInv /\ CalmInv' /\ [Next]_vars => [Power!Next]_(Power!vars)
  BY PowerStep
<1> QED BY <1>1, <1>2, CalmInvariant, PTL DEF Spec, PowerAsPromised, Power!Spec
=============================================================================
