------------------------------- MODULE AutoBind -------------------------------
(***************************************************************************)
(* Binding a remote control in line of sight (ir/irMgr.c): a ghost key      *)
(* switches it on at the radio's manager, and a thread switches it off      *)
(* again some time later.  A variable says that such a thread is running;   *)
(* the key handler and the threads share it without a lock.  The three      *)
(* builds, for three interfaces of the radio's manager, do the same.        *)
(***************************************************************************)
EXTENDS Naturals, FiniteSets

CONSTANTS
    OffThread, \* identities for threads
    MaxGhosts  \* bound: ghost keys

ASSUME AutoBindAssumption == IsFiniteSet(OffThread) /\ MaxGhosts \in Nat

VARIABLES
    abOn,     \* binding in line of sight is on at the radio's manager
    abClock,  \* Rf4ceAutoBindClock is not zero
    abKey,    \* where the key handler is
    abThread, \* where each thread is
    abGhosts, \* ghost keys so far
    abFailed, \* history: a call that switches it off, or the start of a thread, failed
    abStale   \* history: the clock was set for a thread that had cleared it already

abVars == <<abOn, abClock, abKey, abThread, abGhosts, abFailed, abStale>>

AbInit ==
    /\ abOn = FALSE
    /\ abClock = FALSE
    /\ abKey = "idle"
    /\ abThread = [t \in OffThread |-> "none"]
    /\ abGhosts = 0
    /\ abFailed = FALSE
    /\ abStale = FALSE

\* Threads that will still clear the clock.
WillClear == {t \in OffThread : abThread[t] \in {"new", "asleep", "clear"}}

------------------------------------------------------------------------------
(* _IrInputKeyEventHandler, for KED_RF_PAIR_GHOST *)

\* Binding is switched on; a call that fails ends the handling.
GhostKey ==
    /\ abKey = "idle" /\ abGhosts < MaxGhosts
    /\ abGhosts' = abGhosts + 1
    /\ \/ abOn' = TRUE /\ abKey' = "look"
       \/ UNCHANGED <<abOn, abKey>>
    /\ UNCHANGED <<abClock, abThread, abFailed, abStale>>

Look ==
    /\ abKey = "look"
    /\ abKey' = IF abClock THEN "extend" ELSE "set"
    /\ UNCHANGED <<abOn, abClock, abThread, abGhosts, abFailed, abStale>>

\* A thread is running: the clock is set anew, which nobody reads.
Extend ==
    /\ abKey = "extend"
    /\ abClock' = TRUE
    /\ abStale' = (abStale \/ WillClear = {})
    /\ abKey' = "idle"
    /\ UNCHANGED <<abOn, abThread, abGhosts, abFailed>>

SetClock ==
    /\ abKey = "set"
    /\ abClock' = TRUE
    /\ abKey' = "create"
    /\ UNCHANGED <<abOn, abThread, abGhosts, abFailed, abStale>>

\* Whether the thread starts is not looked at.
CreateThread ==
    /\ abKey = "create"
    /\ abKey' = "idle"
    /\ \/ /\ \E t \in OffThread : /\ abThread[t] = "none"
                                  /\ abThread' = [abThread EXCEPT ![t] = "new"]
          /\ UNCHANGED abFailed
       \/ abFailed' = TRUE /\ UNCHANGED abThread
    /\ UNCHANGED <<abOn, abClock, abGhosts, abStale>>

------------------------------------------------------------------------------
(* _Rf4ceAutoBindOffThreadFunc *)

Moves(t, from, to) == abThread[t] = from /\ abThread' = [abThread EXCEPT ![t] = to]

StartThread(t) ==
    /\ Moves(t, "new", IF abClock THEN "asleep" ELSE "none")
    /\ UNCHANGED <<abOn, abClock, abKey, abGhosts, abFailed, abStale>>

\* Mutant (SomebodySwitchesOff): the clock is cleared after the call.
Mut_Order_CallFirst == <<"call", "clear">>
\* After its sleep of 600 ms a thread clears the clock and then switches off.
Order == <<"clear", "call">>

Wake(t) ==
    /\ Moves(t, "asleep", Order[1])
    /\ UNCHANGED <<abOn, abClock, abKey, abGhosts, abFailed, abStale>>

AfterStep(step) == IF Order[1] = step THEN Order[2] ELSE "none"

ClearClock(t) ==
    /\ Moves(t, "clear", AfterStep("clear"))
    /\ abClock' = FALSE
    /\ UNCHANGED <<abOn, abKey, abGhosts, abFailed, abStale>>

SwitchOff(t) ==
    /\ Moves(t, "call", AfterStep("call"))
    /\ \/ abOn' = FALSE /\ UNCHANGED abFailed
       \/ abFailed' = TRUE /\ UNCHANGED abOn
    /\ UNCHANGED <<abClock, abKey, abGhosts, abStale>>

AbNext ==
    \/ GhostKey \/ Look \/ Extend \/ SetClock \/ CreateThread
    \/ \E t \in OffThread : StartThread(t) \/ Wake(t) \/ ClearClock(t) \/ SwitchOff(t)

AbSpec == AbInit /\ [][AbNext]_abVars

------------------------------------------------------------------------------
(* Properties *)

\* While binding is on, and the key that switched it on has been dealt with,
\* a thread is there that will switch it off.
Watched == abOn /\ abKey = "idle" => \E t \in OffThread : abThread[t] # "none"

\* That holds unless a call or the start of a thread failed, or a key was in
\* time to see the clock and too late for the thread ...
SomebodySwitchesOff == ~abFailed /\ ~abStale => Watched

\* ... as the comment on the thread has it without exception: it "waits 600ms
\* and shuts down the auto binding" (irMgr.c:1010).  A key that extends the
\* time of a thread which clears the clock at that moment leaves it set for
\* ever, and the next key starts no thread.
AlwaysSwitchedOff == ~abFailed => Watched
=============================================================================
