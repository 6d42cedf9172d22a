--------------------------- MODULE ServicesProofs ---------------------------
(***************************************************************************)
(* Proofs about the sleep timer, the warehouse and factory resets, the     *)
(* automatic binding and the manufacturer library manager, for any number  *)
(* of armings, resets, threads, ghost keys, clients and failures.          *)
(***************************************************************************)
EXTENDS SleepTimer, DeviceResets, AutoBind, MfrMgr, FiniteSetTheorems, TLAPS

-----------------------------------------------------------------------------
(* SleepTimer *)

\* The dispatching main loop and the history agree with the sources: what is
\* removed is gone for good, what is dispatched had not fired before.
SourcesOK ==
    /\ live \cup removed \cup {timerSource, firing} \subseteq 0 .. armed
    /\ (firing = None) <=> (loop = "idle")
    /\ \A a \in removed : standbys[a] = 0 /\ a \notin live /\ a # firing
    /\ \A a \in live : standbys[a] = 0
    /\ \A a \in Armings : standbys[a] <= 1
    /\ firing # None => standbys[firing] = 0
    /\ \A a \in Armings : a > armed => standbys[a] = 0

\* While nobody has set the timer under a waiting callback, that callback's
\* source is the only one there is.
WaitingOK == (~overtaken /\ loop = "waiting") => live \subseteq {firing}

\* The inductive invariant.
IInv == TypeOK /\ SourcesOK /\ WaitingOK /\ NoOrphan

\* The properties follow from the inductive invariant.
LEMMA IInvImplies == IInv => CancelledStaysSilent /\ OneStandbyPerArming
  BY DEF IInv, SourcesOK, TypeOK, CancelledStaysSilent, OneStandbyPerArming

\* The initial state satisfies it.
LEMMA InitIInv == Init => IInv
<1> SUFFICES ASSUME Init PROVE IInv
  OBVIOUS
<1> USE SleepTimerAssumption DEF Init, Armings, None
<1>1. TypeOK
  <2>1. standbys \in [Armings -> Nat]
    OBVIOUS
  <2>2. live \subseteq Armings /\ expired \subseteq Armings /\ removed \subseteq Armings
    OBVIOUS
  <2>3. loop \in {"idle", "waiting", "sending"} /\ overtaken \in BOOLEAN
    OBVIOUS
  <2>4. armed \in 0 .. MaxArm
    OBVIOUS
  <2>5. timerSource \in {None} \cup Armings /\ timerEnd \in {None} \cup Armings
    OBVIOUS
  <2>6. firing \in {None} \cup Armings
    OBVIOUS
  <2> QED BY <2>1, <2>2, <2>3, <2>4, <2>5, <2>6 DEF TypeOK
<1>2. SourcesOK
  BY DEF SourcesOK
<1>3. WaitingOK /\ NoOrphan
  BY DEF WaitingOK, NoOrphan, Pending
<1> QED BY <1>1, <1>2, <1>3 DEF IInv

\* Every step preserves it.
LEMMA NextIInv == IInv /\ [Next]_vars => IInv'
<1> SUFFICES ASSUME IInv, [Next]_vars PROVE IInv'
  OBVIOUS
<1> USE SleepTimerAssumption DEF Armings, None, IInv, TypeOK, Pending
<1>1. CASE SetSleepTimer
  <2> USE <1>1 DEF SetSleepTimer, RemoveSource, NoteRemoval
  <2>1. TypeOK'
    OBVIOUS
  <2>2. SourcesOK'
    BY DEF SourcesOK
  <2>3. WaitingOK' /\ NoOrphan'
    BY DEF SourcesOK, WaitingOK, NoOrphan
  <2> QED BY <2>1, <2>2, <2>3
<1>2. CASE CancelSleepTimer
  <2> USE <1>2 DEF CancelSleepTimer, RemoveSource, NoteRemoval
  <2>1. TypeOK'
    OBVIOUS
  <2>2. SourcesOK'
    BY DEF SourcesOK
  <2>3. WaitingOK' /\ NoOrphan'
    BY DEF SourcesOK, WaitingOK, NoOrphan
  <2> QED BY <2>1, <2>2, <2>3
<1>3. ASSUME NEW a \in Armings, Expire(a) PROVE IInv'
  BY <1>3 DEF Expire, SourcesOK, WaitingOK, NoOrphan
<1>4. ASSUME NEW a \in Armings, Dispatch(a) PROVE IInv'
  <2>1. TypeOK' /\ SourcesOK'
    BY <1>4 DEF Dispatch, SourcesOK
  <2>2. WaitingOK' /\ NoOrphan'
    BY <1>4 DEF Dispatch, SourcesOK, WaitingOK, NoOrphan
  <2> QED BY <2>1, <2>2
<1>5. CASE FireLocked
  BY <1>5 DEF FireLocked, SourcesOK, WaitingOK, NoOrphan
<1>6. CASE FireSend
  <2> USE <1>6 DEF FireSend
  <2>1. firing \in Armings
    BY DEF SourcesOK
  <2>2. TypeOK'
    BY <2>1
  <2>3. SourcesOK'
    BY <2>1 DEF SourcesOK
  <2>4. WaitingOK' /\ NoOrphan'
    BY DEF WaitingOK, NoOrphan
  <2> QED BY <2>2, <2>3, <2>4
<1>7. CASE UNCHANGED vars
  BY <1>7 DEF vars, SourcesOK, WaitingOK, NoOrphan
<1> QED BY <1>1, <1>2, <1>3, <1>4, <1>5, <1>6, <1>7 DEF Next

\* The inductive invariant holds in every reachable state.
THEOREM InductiveInvariant == Spec => []IInv
  BY InitIInv, NextIInv, PTL DEF Spec

\* The sleep timer's variables keep their types.
THEOREM TypeCorrect == Spec => []TypeOK
  BY InductiveInvariant, PTL DEF IInv

\* However often the timer is armed and cancelled, the source that can still
\* fire is the one _SetSleepTimer can remove, unless a call came between the
\* dispatch and the lock.
THEOREM NoOrphanHolds == Spec => []NoOrphan
  BY InductiveInvariant, PTL DEF IInv

\* A timer that was cancelled in time never switches the TV off.
THEOREM StandbyOnlyWhenDue == Spec => []CancelledStaysSilent
  BY InductiveInvariant, IInvImplies, PTL

\* No timer switches the TV off twice, whatever calls come between its dispatch and
\* its message.
THEOREM StandbyOnce == Spec => []OneStandbyPerArming
  BY InductiveInvariant, IInvImplies, PTL

-----------------------------------------------------------------------------
(* DeviceResets *)

WhPcs == {"start", "script", "wait", "tell", "unlock", "clear", "ended"}
WhOps == Async \union Sync \union {"none"}

WhTypeOK ==
    /\ whId \in Nat
    /\ whBus \in [pc : {"idle", "create", "store", "detach", "script"}, op : WhOps,
                  ret : {"none", "SUCCESS", "IPCCORE_FAIL"}]
    /\ whThread \in Seq([pc : WhPcs, op : WhOps])
    /\ Len(whThread) <= MaxResets
    /\ whBus.pc = "store" => Len(whThread) > 0

\* The id is that of the only thread, until it ends, unless it is still to be stored; and
\* when the bus thread has found none it is still 0 when the thread is created, though
\* the mutex is not taken.
WhIdOK ==
    /\ \A t \in DOMAIN whThread :
         Alive(t) => whId = t \/ (whBus.pc = "store" /\ t = Len(whThread))
    /\ whId \in ResetThread => Alive(whId) \/ whLate
    /\ whBus.pc \in {"create", "store"} => whId = 0

WhInv == WhTypeOK /\ WhIdOK

LEMMA ElementOfSeq ==
    ASSUME NEW S, NEW s \in Seq(S), NEW i \in DOMAIN s
    PROVE  s[i] \in S
  OBVIOUS

LEMMA WhInitInv == WhInit => WhInv
<1> SUFFICES ASSUME WhInit PROVE WhInv
  OBVIOUS
<1> USE DeviceResetsAssumption DEF DeviceResetsAssumption, WhInit
<1>1. whBus \in [pc : {"idle", "create", "store", "detach", "script"}, op : WhOps,
                 ret : {"none", "SUCCESS", "IPCCORE_FAIL"}]
  BY DEF Idle, WhOps
<1>2. whThread \in Seq([pc : WhPcs, op : WhOps]) /\ Len(whThread) = 0
  OBVIOUS
<1>3. WhIdOK
  BY <1>2 DEF WhIdOK, Alive, ResetThread, Idle
<1> QED BY <1>1, <1>2, <1>3 DEF WhInv, WhTypeOK, Idle

\* The bus thread keeps it, when no thread is changed.
LEMMA WhBusInv ==
    ASSUME WhInv, WhTest \/ WhCreateFails \/ WhDetach \/ WhSyncStart \/ WhSyncEnd
    PROVE  WhInv'
<1> USE DeviceResetsAssumption DEF DeviceResetsAssumption
<1>1. UNCHANGED <<whThread, whLate>> /\ whBus.pc # "store" /\ whBus'.pc # "store"
  BY DEF Idle, WhTest, WhCreateFails, WhDetach, WhSyncStart, WhSyncEnd
<1>2. /\ whBus' \in [pc : {"idle", "create", "store", "detach", "script"}, op : WhOps,
                     ret : {"none", "SUCCESS", "IPCCORE_FAIL"}]
      /\ whBus'.pc \in {"create", "store"} => whId = 0 /\ whId' = whId
  <2>1. CASE WhTest
    BY <2>1 DEF WhTest, Idle, WhOps
  <2>2. CASE WhCreateFails \/ WhDetach
    BY <2>2 DEF WhCreateFails, WhDetach, Idle, WhOps
  <2>3. CASE WhSyncStart
    BY <2>3 DEF WhSyncStart, WhOps
  <2>4. CASE WhSyncEnd
    BY <2>4 DEF WhSyncEnd, Idle, Returned, WhOps
  <2> QED BY <2>1, <2>2, <2>3, <2>4
<1>3. \/ whId' = whId
      \/ whBus.pc = "create" /\ whId' \in {0, Stale}
  BY DEF WhTest, WhCreateFails, WhDetach, WhSyncStart, WhSyncEnd
<1>4. whId' \in Nat /\ WhIdOK'
  <2>1. CASE whId' = whId
    BY <1>1, <1>2, <2>1 DEF WhInv, WhTypeOK, WhIdOK, Alive
  <2>2. CASE whBus.pc = "create" /\ whId' \in {0, Stale} /\ whId' # whId
    <3>1. \A t \in DOMAIN whThread : ~Alive(t)
      BY <2>2 DEF WhInv, WhTypeOK, WhIdOK
    <3>2. whId' \notin ResetThread /\ whId' \in Nat
      BY <2>2 DEF Stale, ResetThread
    <3> QED BY <1>1, <1>2, <2>2, <3>1, <3>2 DEF WhIdOK, Alive
  <2> QED BY <1>3, <2>1, <2>2
<1> QED BY <1>1, <1>2, <1>4 DEF WhInv, WhTypeOK

\* A thread is created only when none is there.
LEMMA WhCreateInv == ASSUME WhInv, WhCreate PROVE WhInv'
<1> USE DeviceResetsAssumption DEF DeviceResetsAssumption
<1> DEFINE new == [pc |-> "start", op |-> whBus.op]
<1>1. /\ whThread' = Append(whThread, new)
      /\ whBus.pc = "create" /\ Len(whThread) < MaxResets /\ whId = 0
  BY DEF WhCreate, WhInv, WhIdOK
<1>2. new \in [pc : WhPcs, op : WhOps]
  BY DEF WhInv, WhTypeOK, WhPcs
<1>3. /\ whThread' \in Seq([pc : WhPcs, op : WhOps])
      /\ Len(whThread') = Len(whThread) + 1
      /\ whThread'[Len(whThread) + 1] = new
      /\ \A t \in 1..Len(whThread) : whThread'[t] = whThread[t]
  BY <1>1, <1>2 DEF WhInv, WhTypeOK
<1>4. \A t \in DOMAIN whThread : ~Alive(t)
  BY <1>1 DEF WhInv, WhTypeOK, WhIdOK
<1>5. \A t \in DOMAIN whThread' : Alive(t)' => t = Len(whThread')
  BY <1>1, <1>3, <1>4 DEF Alive, WhInv, WhTypeOK
<1>6. CASE whId' = Len(whThread') /\ whBus' = [whBus EXCEPT !.pc = "detach"]
  <2>1. Alive(whId)'
    BY <1>1, <1>3, <1>6 DEF Alive, WhInv, WhTypeOK
  <2> QED BY <1>1, <1>3, <1>5, <1>6, <2>1 DEF WhInv, WhTypeOK, WhIdOK
<1>7. CASE whId' = whId /\ whBus' = [whBus EXCEPT !.pc = "store"]
  BY <1>1, <1>3, <1>5, <1>7 DEF WhInv, WhTypeOK, WhIdOK, ResetThread
<1> QED BY <1>6, <1>7 DEF WhCreate

\* The id that is stored late is that of the only thread, or of none.
LEMMA WhStoreInv == ASSUME WhInv, WhStore PROVE WhInv'
<1>1. /\ whBus.pc = "store" /\ whId' = Len(whThread) /\ UNCHANGED whThread
      /\ whBus' = [whBus EXCEPT !.pc = "detach"]
      /\ ~Alive(Len(whThread)) => whLate'
  BY Zenon DEF WhStore
<1>2. WhTypeOK'
  BY <1>1 DEF WhInv, WhTypeOK
<1>3. \A t \in DOMAIN whThread' : Alive(t)' => whId' = t
  BY <1>1 DEF WhInv, WhTypeOK, WhIdOK, Alive
<1>4. Alive(whId)' \/ whLate'
  BY <1>1 DEF Alive
<1> QED BY <1>1, <1>2, <1>3, <1>4 DEF WhInv, WhIdOK, WhTypeOK

\* After a crash there is no thread and no id.
LEMMA WhDetachNullInv == ASSUME WhInv, WhDetachNull PROVE WhInv'
<1> USE DeviceResetsAssumption DEF DeviceResetsAssumption
<1>1. whBus' \in [pc : {"idle", "create", "store", "detach", "script"}, op : WhOps,
                  ret : {"none", "SUCCESS", "IPCCORE_FAIL"}]
      /\ whBus'.pc = "idle" /\ whId' = 0
  BY DEF WhDetachNull, Idle, WhOps, WhInv, WhTypeOK
<1>2. CASE UNCHANGED whThread
  BY <1>1, <1>2 DEF WhDetachNull, WhInv, WhTypeOK, WhIdOK, Alive, ResetThread
<1>3. CASE whThread' = [t \in DOMAIN whThread |-> [whThread[t] EXCEPT !.pc = "ended"]]
  <2>1. \A t \in DOMAIN whThread : /\ whThread'[t] \in [pc : WhPcs, op : WhOps]
                                   /\ whThread'[t].pc = "ended"
    <3> SUFFICES ASSUME NEW t \in DOMAIN whThread
                 PROVE  whThread'[t] \in [pc : WhPcs, op : WhOps] /\ whThread'[t].pc = "ended"
      OBVIOUS
    <3>1. whThread[t] \in [pc : WhPcs, op : WhOps]
      BY ElementOfSeq DEF WhInv, WhTypeOK
    <3> QED BY <1>3, <3>1 DEF WhPcs
  <2>2. whThread' \in Seq([pc : WhPcs, op : WhOps]) /\ Len(whThread') = Len(whThread)
        /\ DOMAIN whThread' = DOMAIN whThread
    BY <1>3, <2>1 DEF WhInv, WhTypeOK
  <2>3. WhIdOK'
    BY <1>1, <2>1, <2>2 DEF WhIdOK, Alive, ResetThread
  <2> QED BY <1>1, <2>2, <2>3 DEF WhInv, WhTypeOK
<1> QED BY <1>2, <1>3 DEF WhDetachNull

\* A thread on its way changes nothing but its own place, and the id when it ends.
LEMMA WhThreadInv ==
    ASSUME WhInv, NEW t \in DOMAIN whThread, WhThread(t) \/ WhScriptEnds(t)
    PROVE  WhInv'
<1>1. CASE WhScriptEnds(t)
  BY <1>1 DEF WhScriptEnds, WhInv, WhTypeOK, WhIdOK, Alive
<1>2. CASE WhThread(t)
  <2>1. PICK from \in WhPcs, to \in WhPcs : WhStep(t, from, to) /\ from # "ended"
    <3>1. CASE WhScript(t)
      BY <3>1 DEF WhScript, WhPcs
    <3>2. CASE ~WhScript(t)
      BY <1>2, <3>2 DEF WhThread, WhLock, WhWaited, WhTell, WhUnlock, WhClear, WhPcs
    <3> QED BY <3>1, <3>2
  <2>2. /\ whThread' = [whThread EXCEPT ![t].pc = to] /\ Alive(t)
    BY <2>1 DEF WhStep, Alive
  <2>3. whThread[t] \in [pc : WhPcs, op : WhOps]
    BY ElementOfSeq DEF WhInv, WhTypeOK
  <2>4. /\ whThread' \in Seq([pc : WhPcs, op : WhOps]) /\ Len(whThread') = Len(whThread)
        /\ DOMAIN whThread' = DOMAIN whThread
        /\ \A u \in DOMAIN whThread : Alive(u)' => Alive(u)
        /\ to # "ended" => Alive(t)'
    BY <2>1, <2>2, <2>3 DEF WhInv, WhTypeOK, Alive
  <2>5. /\ whId = t \/ (whBus.pc = "store" /\ t = Len(whThread) /\ whId = 0)
        /\ UNCHANGED <<whBus, whLate>> /\ whBus.pc # "create"
    BY <1>2, <2>2
       DEF WhInv, WhTypeOK, WhIdOK, WhThread, WhLock, WhScript, WhWaited, WhTell, WhUnlock,
           WhClear
  <2>6. CASE WhClear(t)
    <3>1. ~Alive(t)' /\ whId' = 0
      BY <2>2, <2>3, <2>6 DEF WhClear, WhStep, Alive, WhInv, WhTypeOK
    <3>2. \A u \in DOMAIN whThread : Alive(u) => u = t
      BY <2>5 DEF WhInv, WhTypeOK, WhIdOK
    <3>3. \A u \in DOMAIN whThread' : ~Alive(u)'
      BY <2>4, <3>1, <3>2
    <3>4. whId' \notin ResetThread
      BY <3>1 DEF ResetThread
    <3>5. WhIdOK'
      BY <2>5, <3>1, <3>3, <3>4 DEF WhInv, WhIdOK
    <3>6. WhTypeOK'
      <4>1. whId' \in Nat /\ Len(whThread') <= MaxResets
        BY <2>4, <3>1 DEF WhInv, WhTypeOK
      <4>2. whBus' = whBus /\ (whBus.pc = "store" => Len(whThread') > 0)
        BY <2>4, <2>5 DEF WhInv, WhTypeOK
      <4> QED BY <2>4, <4>1, <4>2 DEF WhInv, WhTypeOK
    <3> QED BY <3>5, <3>6 DEF WhInv
  <2>7. CASE ~WhClear(t)
    <3>1. UNCHANGED whId
      BY <1>2, <2>7 DEF WhThread, WhLock, WhScript, WhWaited, WhTell, WhUnlock
    <3>2. to # "ended"
      BY <1>2, <2>2, <2>3, <2>7
         DEF WhThread, WhLock, WhScript, WhWaited, WhTell, WhUnlock, WhStep, WhInv, WhTypeOK
    <3>3. WhTypeOK'
      BY <2>4, <2>5, <3>1 DEF WhInv, WhTypeOK
    <3>4. Alive(t)'
      BY <2>4, <3>2
    <3>5. whId' \in ResetThread => Alive(whId)'
      BY <2>5, <3>1, <3>4 DEF ResetThread
    <3>6. WhIdOK'
      BY <2>4, <2>5, <3>1, <3>5 DEF WhInv, WhIdOK
    <3> QED BY <3>3, <3>6 DEF WhInv
  <2> QED BY <2>6, <2>7
<1> QED BY <1>1, <1>2

LEMMA WhNextInv == WhInv /\ [WhNext]_whVars => WhInv'
<1> SUFFICES ASSUME WhInv, [WhNext]_whVars PROVE WhInv'
  OBVIOUS
<1>1. CASE UNCHANGED whVars
  BY <1>1 DEF whVars, WhInv, WhTypeOK, WhIdOK, Alive
<1> QED BY <1>1, WhBusInv, WhCreateInv, WhStoreInv, WhDetachNullInv, WhThreadInv DEF WhNext

\* There is never a second warehouse thread, whether pthread_create stores the id before
\* the thread runs or after it; and what a caller is refused for really runs, unless the
\* id was stored after the thread had ended.  For any number of resets, failed creations
\* and crashes.
THEOREM OneReset == WhSpec => []OneOperation
<1>1. WhInv => OneOperation
  <2> SUFFICES ASSUME WhInv PROVE OneOperation
    OBVIOUS
  <2> DEFINE the == IF whBus.pc = "store" THEN Len(whThread) ELSE whId
  <2>1. {t \in ResetThread : Alive(t)} \subseteq {the}
    BY DEF WhInv, WhIdOK, Alive, ResetThread
  <2>2. Cardinality({t \in ResetThread : Alive(t)}) <= 1
    <3>1. IsFiniteSet({the}) /\ Cardinality({the}) = 1
      BY FS_Singleton
    <3>2. Cardinality({t \in ResetThread : Alive(t)}) <= Cardinality({the})
      BY <2>1, <3>1, FS_Subset
    <3> QED BY <3>1, <3>2
  <2> QED BY <2>2 DEF OneOperation, WhInv, WhIdOK
<1> QED BY <1>1, WhInitInv, WhNextInv, PTL DEF WhSpec

-----------------------------------------------------------------------------
(* AutoBind *)

AbTypeOK ==
    /\ abKey \in {"idle", "look", "extend", "set", "create"}
    /\ abThread \in [OffThread -> {"none", "new", "asleep", "clear", "call"}]
    /\ {abOn, abClock, abFailed, abStale} \subseteq BOOLEAN

\* Unless the clock was set for a thread that had cleared it, it stands for the one
\* thread that will clear it, or for the one that is about to be created.
AbClockOK ==
    /\ \A t, u \in WillClear : t = u
    /\ WillClear # {} => abClock /\ abKey # "set" /\ abKey # "create"
    /\ abClock /\ abKey # "create" => WillClear # {}
    /\ abKey = "create" => abClock

AbInv == AbTypeOK /\ (~abFailed /\ ~abStale => AbClockOK /\ Watched)

LEMMA AbInitInv == AbInit => AbInv
  BY DEF AbInit, AbInv, AbTypeOK, AbClockOK, Watched, WillClear

\* The key handler keeps it.
LEMMA AbKeyInv ==
    ASSUME AbInv, GhostKey \/ Look \/ Extend \/ SetClock \/ CreateThread
    PROVE  AbInv'
<1>1. CASE GhostKey
  <2>1. UNCHANGED <<abClock, abThread, abFailed, abStale>> /\ WillClear' = WillClear
    BY <1>1 DEF GhostKey, WillClear
  <2>2. CASE abOn' = TRUE /\ abKey' = "look"
    BY <1>1, <2>1, <2>2 DEF GhostKey, AbInv, AbTypeOK, AbClockOK, Watched
  <2>3. CASE UNCHANGED <<abOn, abKey>>
    BY <2>1, <2>3 DEF AbInv, AbTypeOK, AbClockOK, Watched
  <2> QED BY <1>1, <2>2, <2>3 DEF GhostKey
<1>2. CASE Look
  BY <1>2 DEF Look, AbInv, AbTypeOK, AbClockOK, Watched, WillClear
<1>3. CASE Extend
  <2>1. AbTypeOK' /\ WillClear' = WillClear
    BY <1>3 DEF Extend, AbInv, AbTypeOK, WillClear
  <2>2. ASSUME ~abFailed', ~abStale' PROVE AbClockOK' /\ Watched'
    <3>1. AbClockOK /\ WillClear # {} /\ UNCHANGED abThread
      BY <1>3, <2>2 DEF Extend, AbInv
    <3>2. \E t \in OffThread : abThread[t] # "none"
      BY <3>1 DEF WillClear
    <3> QED BY <1>3, <2>1, <3>1, <3>2 DEF Extend, AbClockOK, Watched
  <2> QED BY <2>1, <2>2 DEF AbInv
<1>4. CASE SetClock
  BY <1>4 DEF SetClock, AbInv, AbTypeOK, AbClockOK, Watched, WillClear
<1>5. CASE CreateThread
  <2>1. CASE abFailed'
    <3>1. AbTypeOK'
      BY <1>5 DEF CreateThread, AbInv, AbTypeOK
    <3> QED BY <2>1, <3>1 DEF AbInv
  <2>2. CASE ~abFailed'
    <3>1. PICK t \in OffThread : /\ abThread[t] = "none"
                                 /\ abThread' = [abThread EXCEPT ![t] = "new"]
      BY <1>5, <2>2 DEF CreateThread
    <3>2. abThread' \in [OffThread -> {"none", "new", "asleep", "clear", "call"}]
          /\ abThread'[t] = "new" /\ \A u \in OffThread \ {t} : abThread'[u] = abThread[u]
      BY <3>1 DEF AbInv, AbTypeOK
    <3>3. AbTypeOK'
      BY <1>5, <3>2 DEF CreateThread, AbInv, AbTypeOK
    <3>4. ASSUME ~abFailed', ~abStale' PROVE AbClockOK' /\ Watched'
      <4>1. AbClockOK /\ abKey = "create" /\ abKey' = "idle" /\ UNCHANGED <<abClock, abStale>>
        BY <1>5, <2>2, <3>4 DEF CreateThread, AbInv, AbTypeOK
      <4>2. WillClear' = {t}
        BY <3>2, <4>1 DEF AbClockOK, WillClear
      <4> QED BY <3>2, <4>1, <4>2 DEF AbClockOK, Watched
    <3> QED BY <3>3, <3>4 DEF AbInv
  <2> QED BY <2>1, <2>2
<1> QED BY <1>1, <1>2, <1>3, <1>4, <1>5

\* So does a thread.
LEMMA AbThreadInv ==
    ASSUME AbInv, NEW t \in OffThread, StartThread(t) \/ Wake(t) \/ ClearClock(t) \/ SwitchOff(t)
    PROVE  AbInv'
<1>1. CASE StartThread(t)
  BY <1>1 DEF StartThread, Moves, AbInv, AbTypeOK, AbClockOK, Watched, WillClear
<1>2. CASE Wake(t)
  BY <1>2 DEF Wake, Moves, Order, AbInv, AbTypeOK, AbClockOK, Watched, WillClear
<1>3. CASE ClearClock(t)
    BY <1>3 DEF ClearClock, Moves, AfterStep, Order, AbInv, AbTypeOK, AbClockOK,
     Watched, WillClear
<1>4. CASE SwitchOff(t)
    BY <1>4 DEF SwitchOff, Moves, AfterStep, Order, AbInv, AbTypeOK, AbClockOK,
     Watched, WillClear
<1> QED BY <1>1, <1>2, <1>3, <1>4

LEMMA AbNextInv == AbInv /\ [AbNext]_abVars => AbInv'
<1> SUFFICES ASSUME AbInv, [AbNext]_abVars PROVE AbInv'
  OBVIOUS
<1>1. CASE UNCHANGED abVars
  BY <1>1 DEF abVars, AbInv, AbTypeOK, AbClockOK, Watched, WillClear
<1> QED BY <1>1, AbKeyInv, AbThreadInv DEF AbNext

\* While binding is on there is a thread that will switch it off, for any number of keys
\* and threads, unless a call or a creation failed or a key came too late for its thread.
THEOREM BindingIsWatched == AbSpec => []SomebodySwitchesOff
<1>1. AbInv => SomebodySwitchesOff
  BY DEF AbInv, SomebodySwitchesOff
<1> QED BY <1>1, AbInitInv, AbNextInv, PTL DEF AbSpec

-----------------------------------------------------------------------------
(* MfrMgr *)

MfProgress == {"STARTED", "COMPLETED", "ABORTED"}
MfBy == Client \union {"none"}

MfTypeOK ==
    /\ mfCall \in [by : MfBy, at : {"idle", "write", "poll"}]
    /\ mfLast \in MfProgress \union {"NOT_STARTED"}
    /\ mfLib \in [by : MfBy, at : MfProgress \union {"none"}, reports : Nat]
    /\ mfReport \in [of : MfBy, status : MfProgress \union {"none"}]

\* When no write is served, the library writes nothing and reports nothing: the bus
\* thread has seen the last report of the write before.
MfRestOK == mfCall.at # "poll" => mfLib.at # "STARTED" /\ mfReport.status = "none"
\* The status of the write before is forgotten when the library is called.
MfForgotten == mfCall.at = "write" => mfLast = "NOT_STARTED"
\* What is polled is what the library said of this write.
MfPollOK ==
    mfCall.at = "poll" =>
        /\ mfLib.by = mfCall.by
        /\ mfReport.status \in {"none", mfLib.at}
        /\ \/ mfLast \in {"NOT_STARTED", "STARTED"}
           \/ mfLast = mfLib.at /\ mfReport.status = "none"

MfInv == MfTypeOK /\ MfRestOK /\ MfForgotten /\ MfPollOK

LEMMA MfInitInv == MfInit => MfInv
  BY DEF MfInit, MfInv, MfTypeOK, MfBy, MfProgress, MfRestOK, MfForgotten, MfPollOK

\* All but the write of an image leave what it shares alone, and answer no write.
LEMMA MfOthers ==
    ASSUME \/ ConnectBus \/ RegisterNext \/ LibraryAppears
           \/ \E c \in Client :
                \/ GetSerializedData(c) \/ WifiCredentials(c) \/ SetBootLoaderPattern(c)
                \/ NameTooLong(c) \/ deletePDRI(c) \/ scrubAllBanks(c)
                \/ mfrWifiEraseAllData(c)
    PROVE  UNCHANGED mfWriting
<1>1. CASE ConnectBus \/ RegisterNext \/ LibraryAppears
  BY <1>1 DEF ConnectBus, RegisterNext, LibraryAppears
<1>2. ASSUME NEW c \in Client,
             \/ GetSerializedData(c) \/ WifiCredentials(c) \/ SetBootLoaderPattern(c)
             \/ NameTooLong(c)
      PROVE  UNCHANGED mfWriting
  BY <1>2 DEF GetSerializedData, WifiCredentials, SetBootLoaderPattern, NameTooLong
<1>3. ASSUME NEW c \in Client, deletePDRI(c) \/ scrubAllBanks(c) \/ mfrWifiEraseAllData(c)
      PROVE  UNCHANGED mfWriting
  BY <1>3 DEF deletePDRI, scrubAllBanks, mfrWifiEraseAllData, SimpleCall
<1> QED BY <1>1, <1>2, <1>3

\* The write of an image keeps the invariant.
LEMMA MfWriteInv ==
    ASSUME MfInv,
           \/ \E c \in Client : WriteImage(c)
           \/ Write \/ Poll \/ (\E s \in MfProgress : Report(s)) \/ CallModule \/ Store
           \/ CallbackReturns
    PROVE  MfInv'
<1> USE DEF MfInv, MfTypeOK, MfRestOK, MfForgotten, MfPollOK, MfProgress, MfBy
<1>1. ASSUME NEW c \in Client, WriteImage(c) PROVE MfInv'
  <2>1. CASE CanFind("WriteImage")
    BY <1>1, <2>1 DEF WriteImage, Free, Forgotten
  <2>2. CASE ~CanFind("WriteImage")
    BY <1>1, <2>2 DEF WriteImage
  <2> QED BY <2>1, <2>2
<1>2. CASE Write
  <2>1. CASE mfCall' = [mfCall EXCEPT !.at = "poll"]
             /\ mfLib' = [by |-> mfCall.by, at |-> "STARTED", reports |-> 0]
    BY <1>2, <2>1 DEF Write
  <2>2. CASE mfCall' = [mfCall EXCEPT !.at = "idle"] /\ mfLib' = mfLib
    BY <1>2, <2>2 DEF Write
  <2> QED BY <1>2, <2>1, <2>2 DEF Write
<1>3. CASE Poll
  BY <1>3 DEF Poll
<1>4. ASSUME NEW s \in MfProgress, Report(s) PROVE MfInv'
  <2>1. mfLib' \in [by : MfBy, at : MfProgress \union {"none"}, reports : Nat]
        /\ mfLib'.at = s /\ mfLib'.by = mfLib.by
    <3>1. mfLib.by \in MfBy /\ mfLib.reports \in Nat
      OBVIOUS
    <3>2. mfLib' = [by |-> mfLib.by, at |-> s, reports |-> mfLib.reports + 1]
      BY <1>4 DEF Report
    <3>3. mfLib.reports + 1 \in Nat
      BY <3>1
    <3> HIDE DEF MfBy
    <3> QED BY <3>1, <3>2, <3>3
  <2>2. mfReport' = [of |-> mfLib.by, status |-> s] /\ mfReport.status = "none"
        /\ mfLib.at = "STARTED" /\ UNCHANGED <<mfCall, mfLast>>
    BY <1>4 DEF Report
  <2>3. mfReport' \in [of : MfBy, status : MfProgress \union {"none"}] /\ mfReport'.status = s
    BY <2>2
  <2> QED BY <2>1, <2>2, <2>3
<1>5. CASE CallModule
  BY <1>5 DEF CallModule
<1>6. CASE Store
  BY <1>6 DEF Store
<1>7. CASE CallbackReturns
  BY <1>7 DEF CallbackReturns
<1> QED BY <1>1, <1>2, <1>3, <1>4, <1>5, <1>6, <1>7

LEMMA MfNextInv == MfInv /\ [MfNext]_mfVars => MfInv'
<1> SUFFICES ASSUME MfInv, [MfNext]_mfVars PROVE MfInv'
  OBVIOUS
<1>1. CASE UNCHANGED mfWriting
  BY <1>1 DEF mfWriting, MfInv, MfTypeOK, MfRestOK, MfForgotten, MfPollOK
<1>2. CASE ~UNCHANGED mfWriting
  BY <1>2, MfOthers, MfWriteInv DEF MfNext, MfProgress, mfVars
<1> QED BY <1>1, <1>2

\* A client that is told SUCCESS has its own image written, for any number of clients,
\* writes and reports.
THEOREM SuccessIsOfTheWrite == MfSpec => SuccessIsOwn
<1>1. MfInv /\ [MfNext]_mfVars =>
        [ mfAnswer'.result = "SUCCESS" /\ mfAnswer'.api = "WriteImage" /\ mfCall.at = "poll"
            /\ mfCall'.at = "idle"
          => mfLib.by = mfCall.by /\ mfLib.at = "COMPLETED" ]_mfVars
  <2> SUFFICES ASSUME MfInv, MfNext, mfAnswer'.result = "SUCCESS", mfCall.at = "poll",
                      mfCall'.at = "idle"
               PROVE  mfLib.by = mfCall.by /\ mfLib.at = "COMPLETED"
    OBVIOUS
  <2>1. Poll
    <3>1. ~UNCHANGED mfWriting
      BY DEF mfWriting
    <3>2. \A c \in Client : ~WriteImage(c)
      BY DEF WriteImage, Free
    <3>3. mfCall' # mfCall
      OBVIOUS
    <3>5. ~Write /\ ~CallModule /\ ~Store /\ ~CallbackReturns
      BY <3>3 DEF Write, CallModule, Store, CallbackReturns
    <3>6. \A s \in MfProgress : ~Report(s)
      BY <3>3 DEF Report
    <3>4. CASE \/ ConnectBus \/ RegisterNext \/ LibraryAppears
               \/ \E c \in Client :
                    \/ GetSerializedData(c) \/ WifiCredentials(c) \/ SetBootLoaderPattern(c)
                    \/ NameTooLong(c) \/ deletePDRI(c) \/ scrubAllBanks(c)
                    \/ mfrWifiEraseAllData(c)
      BY <3>1, <3>4, MfOthers
    <3> QED BY <3>2, <3>4, <3>5, <3>6, Zenon DEF MfNext, MfProgress
  <2>2. mfLast = "COMPLETED"
    BY <2>1 DEF Poll, Answers
  <2> QED BY <2>2 DEF MfInv, MfPollOK
<1> QED BY <1>1, MfInitInv, MfNextInv, PTL DEF MfSpec, SuccessIsOwn
=============================================================================
