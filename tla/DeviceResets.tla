----------------------------- MODULE DeviceResets -----------------------------
(***************************************************************************)
(* The resets of the box that callers on the bus ask for (pwrmgr2/pwrMgr.c *)
(* _WareHouseReset to _UserFactoryReset, with the reset scripts they run). *)
(* Calls are served one at a time by the bus thread.  A warehouse          *)
(* operation with suppressReboot runs in a thread of its own; the global   *)
(* asyncPowerWarehouseOpsThreadId says that there is one.  Every other     *)
(* reset runs its script in the call.                                      *)
(***************************************************************************)
EXTENDS Naturals, FiniteSets, Sequences

CONSTANTS
    MaxResets,     \* bound: threads that are created
    MaxCreateFails, \* bound: failures of pthread_create
    MaxRestarts     \* bound: restarts after a crash

ASSUME DeviceResetsAssumption ==
    {MaxResets, MaxCreateFails, MaxRestarts} \subseteq Nat

ResetThread == 1..MaxResets
Stale == MaxResets + 1

Async == {"WAREHOUSE_RESET", "WAREHOUSE_CLEAR"}
Sync == {"warehouse", "WAREHOUSE_CLEAR", "coldfactory", "factory", "userfactory"}

VARIABLES
    whId,     \* asyncPowerWarehouseOpsThreadId: 0 is NULL; a failed create may leave any
              \* other value, Stale
    whBus,    \* the bus thread: [pc, op, ret]
    whThread, \* the threads that were ever created: [pc, op], in this order
    whLock,   \* the holder of wareHouseOpsMutex, 0 if none
    whScript, \* script of each of them: "none", "running", "ok", "failed"
    whEvents, \* STATUSCHANGED events: [op, status, by]
    whLate,   \* history: an id was stored after its thread had ended
    whBounds  \* failures and restarts so far

whVars == <<whId, whBus, whThread, whLock, whScript, whEvents, whLate, whBounds>>

Idle(ret) == [pc |-> "idle", op |-> "none", ret |-> ret]

WhInit ==
    /\ whId = 0
    /\ whBus = Idle("none")
    /\ whThread = <<>>
    /\ whLock = 0
    /\ whScript = <<>>
    /\ whEvents = <<>>
    /\ whLate = FALSE
    /\ whBounds = [fails |-> 0, restarts |-> 0]

Alive(t) == t \in DOMAIN whThread /\ whThread[t].pc # "ended"

------------------------------------------------------------------------------
(* The bus thread *)

\* Mutant (OneOperation): an operation is started whatever runs.
Mut_WhTest_Always ==
    /\ whBus.pc = "idle"
    /\ \E op \in Async : whBus' = [pc |-> "create", op |-> op, ret |-> "none"]
    /\ UNCHANGED <<whId, whThread, whLock, whScript, whEvents, whLate, whBounds>>

\* _SetPowerWareHouseOperation tests the id; INVALID_STATE becomes IPCCORE_FAIL.
WhTest ==
    /\ whBus.pc = "idle"
    /\ \E op \in Async :
         whBus' = IF whId = 0 THEN [pc |-> "create", op |-> op, ret |-> "none"]
                              ELSE Idle("IPCCORE_FAIL")
    /\ UNCHANGED <<whId, whThread, whLock, whScript, whEvents, whLate, whBounds>>

\* pthread_create: nothing says whether the id is stored before the new thread runs or
\* after; both are possible.
WhCreate ==
    /\ whBus.pc = "create"
    /\ Len(whThread) < MaxResets
    /\ whThread' = Append(whThread, [pc |-> "start", op |-> whBus.op])
    /\ whScript' = Append(whScript, "none")
    /\ \/ whId' = Len(whThread') /\ whBus' = [whBus EXCEPT !.pc = "detach"]
       \/ whId' = whId /\ whBus' = [whBus EXCEPT !.pc = "store"]
    /\ UNCHANGED <<whLock, whEvents, whLate, whBounds>>

WhStore ==
    /\ whBus.pc = "store"
    /\ whId' = Len(whThread)
    /\ whLate' = (whLate \/ ~Alive(Len(whThread)))
    /\ whBus' = [whBus EXCEPT !.pc = "detach"]
    /\ UNCHANGED <<whThread, whLock, whScript, whEvents, whLate, whBounds>>

\* It fails: the id is undefined then, and the caller is told SUCCESS.
WhCreateFails ==
    /\ whBus.pc = "create"
    /\ whBounds.fails < MaxCreateFails
    /\ whBounds' = [whBounds EXCEPT !.fails = @ + 1]
    /\ whId' \in {0, Stale}
    /\ whBus' = Idle("SUCCESS")
    /\ UNCHANGED <<whThread, whLock, whScript, whEvents, whLate>>

\* pthread_detach reads the id again.
WhDetach ==
    /\ whBus.pc = "detach"
    /\ whId # 0
    /\ whBus' = Idle("SUCCESS")
    /\ UNCHANGED <<whId, whThread, whLock, whScript, whEvents, whLate, whBounds>>

\* The thread has ended and cleared it: the C library may find no thread, or crash on
\* the NULL; the manager is started again then, and its scripts run on.
WhDetachNull ==
    /\ whBus.pc = "detach"
    /\ whId = 0
    /\ \/ whBus' = Idle("SUCCESS") /\ UNCHANGED <<whId, whThread, whLock, whBounds>>
       \/ /\ whBounds.restarts < MaxRestarts
          /\ whBounds' = [whBounds EXCEPT !.restarts = @ + 1]
          /\ whBus' = Idle("none")
          /\ whId' = 0
          /\ whThread' = [t \in DOMAIN whThread |-> [whThread[t] EXCEPT !.pc = "ended"]]
          /\ whLock' = 0
    /\ UNCHANGED <<whScript, whEvents, whLate>>

\* processWHReset, processWHClear and the three factory resets run on the bus thread.
WhSyncStart ==
    /\ whBus.pc = "idle"
    /\ \E op \in Sync : whBus' = [pc |-> "script", op |-> op, ret |-> "none"]
    /\ UNCHANGED <<whId, whThread, whLock, whScript, whEvents, whLate, whBounds>>

\* What they return: 1 always, or the status of the script; only 0 is SUCCESS.
Returned(op, ok) ==
    IF op \in {"warehouse", "userfactory"} /\ ok THEN "SUCCESS" ELSE "IPCCORE_FAIL"

WhSyncEnd ==
    /\ whBus.pc = "script"
    /\ \E ok \in BOOLEAN : whBus' = Idle(Returned(whBus.op, ok))
    /\ UNCHANGED <<whId, whThread, whLock, whScript, whEvents, whLate, whBounds>>

------------------------------------------------------------------------------
(* _AsyncPowerWareHouseOperation, the thread t *)

WhStep(t, from, to) ==
    /\ whThread[t].pc = from
    /\ whThread' = [whThread EXCEPT ![t].pc = to]

WhLock(t) ==
    /\ WhStep(t, "start", "script")
    /\ whLock = 0
    /\ whLock' = t
    /\ UNCHANGED <<whId, whBus, whScript, whEvents, whLate, whBounds>>

\* The reset puts its script into the background and goes on; the clear waits for its own.
WhScript(t) ==
    /\ WhStep(t, "script", IF whThread[t].op = "WAREHOUSE_RESET" THEN "tell" ELSE "wait")
    /\ whScript' = [whScript EXCEPT ![t] = "running"]
    /\ UNCHANGED <<whId, whBus, whLock, whEvents, whLate, whBounds>>

WhScriptEnds(t) ==
    /\ whScript[t] = "running"
    /\ \E r \in {"ok", "failed"} : whScript' = [whScript EXCEPT ![t] = r]
    /\ UNCHANGED <<whId, whBus, whThread, whLock, whEvents, whLate, whBounds>>

WhWaited(t) ==
    /\ WhStep(t, "wait", "tell")
    /\ whScript[t] # "running"
    /\ UNCHANGED <<whId, whBus, whLock, whScript, whEvents, whLate, whBounds>>

\* The status does not depend on what the script returned.
WhTell(t) ==
    /\ WhStep(t, "tell", "unlock")
    /\ whEvents' = Append(whEvents, [op |-> whThread[t].op, status |-> "COMPLETED", by |-> t])
    /\ UNCHANGED <<whId, whBus, whLock, whScript, whLate, whBounds>>

\* Mutant (OperationsEnd): the mutex is not released.
Mut_WhUnlock_Not(t) ==
    /\ WhStep(t, "unlock", "clear")
    /\ UNCHANGED <<whId, whBus, whLock, whScript, whEvents, whLate, whBounds>>

WhUnlock(t) ==
    /\ WhStep(t, "unlock", "clear")
    /\ whLock' = 0
    /\ UNCHANGED <<whId, whBus, whScript, whEvents, whLate, whBounds>>

WhClear(t) ==
    /\ WhStep(t, "clear", "ended")
    /\ whId' = 0
    /\ UNCHANGED <<whBus, whLock, whScript, whEvents, whLate, whBounds>>

WhThread(t) ==
    \/ WhLock(t) \/ WhScript(t) \/ WhWaited(t) \/ WhTell(t) \/ WhUnlock(t) \/ WhClear(t)

WhNext ==
    \/ WhTest \/ WhCreate \/ WhStore \/ WhCreateFails \/ WhDetach \/ WhDetachNull
    \/ WhSyncStart \/ WhSyncEnd
    \/ \E t \in DOMAIN whThread : WhThread(t) \/ WhScriptEnds(t)

\* The threads are scheduled, and the scripts end.
WhFairness ==
    /\ \A t \in ResetThread : /\ WF_whVars(t \in DOMAIN whThread /\ WhThread(t))
                         /\ WF_whVars(t \in DOMAIN whThread /\ WhScriptEnds(t))
    /\ WF_whVars(WhStore \/ WhDetach \/ WhDetachNull)

WhSpec == WhInit /\ [][WhNext]_whVars /\ WhFairness

------------------------------------------------------------------------------
(* Properties *)

\* Though the id is tested, set and cleared by two threads with no lock, there is never
\* a second warehouse thread, and the id is that of the thread until it ends: what a
\* caller is refused for really runs.  One case is left out, in which a caller is refused
\* for good although nothing runs: a C library that stores the id only after the new
\* thread has run to its end leaves the id of a dead thread behind.
OneOperation ==
    /\ Cardinality({t \in ResetThread : Alive(t)}) <= 1
    /\ \A t \in DOMAIN whThread : Alive(t) => whId = t \/ whBus.pc = "store"
    /\ whId \in ResetThread => Alive(whId) \/ whLate

\* Every operation whose thread was created ends, the event sent (or the manager crashed
\* on the way).
OperationsEnd ==
    \A t \in ResetThread :
        Alive(t)
            ~> /\ ~Alive(t)
               /\ (\E i \in DOMAIN whEvents : whEvents[i].by = t) \/ whBounds.restarts > 0

==============================================================================
