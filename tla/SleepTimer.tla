----------------------------- MODULE SleepTimer -----------------------------
(***************************************************************************)
(* The sleep timer of the power manager (pwrmgr2/sleepTimer.c).            *)
(*                                                                         *)
(* RPC threads arm and cancel one GLib timeout; the main loop dispatches   *)
(* it.  Every access to timerSource and timerEnd is under `_lock', and no  *)
(* critical section spans a call that blocks, so each is one action here.  *)
(* What is not atomic is the callback: the main loop has chosen the source *)
(* (Dispatch) before the callback takes the lock (FireLocked), and sends   *)
(* the CEC message after it has released it (FireSend).                    *)
(*                                                                         *)
(* An arming is named by its number.  GLib source ids are never reused, so *)
(* the arming number stands for the source id and for the end time.        *)
(***************************************************************************)
EXTENDS Naturals, FiniteSets

CONSTANTS
    MaxArm,         \* bound: how many times the timer may be armed
    UseCecStandby   \* SLEEPTIMER_USE_CECSTANDBY is defined in the build

ASSUME SleepTimerAssumption ==
    /\ MaxArm \in Nat
    /\ UseCecStandby \in BOOLEAN

Armings == 1 .. MaxArm
None == 0

VARIABLES
    timerSource,    \* the source id the program remembers, or None
    timerEnd,       \* the arming whose end time the program remembers, or None
    live,           \* sources attached to the main loop
    expired,        \* armings whose time has passed
    loop,           \* the main loop: "idle", "waiting" (for _lock) or "sending"
    firing,         \* the source the main loop is dispatching, or None
    armed,          \* history: number of armings so far
    removed,        \* history: sources removed before they were dispatched
    overtaken,      \* history: the timer was set while its callback waited
    standbys        \* history: how often each arming sent standby to the TV

vars == <<timerSource, timerEnd, live, expired, loop, firing,
          armed, removed, overtaken, standbys>>

Init ==
    /\ timerSource = None
    /\ timerEnd = None
    /\ live = {}
    /\ expired = {}
    /\ loop = "idle"
    /\ firing = None
    /\ armed = 0
    /\ removed = {}
    /\ overtaken = FALSE
    /\ standbys = [a \in Armings |-> 0]

-----------------------------------------------------------------------------
(* _SetSleepTimer *)

\* Mutant (NoOrphan): g_source_remove is not called before a new source is attached.
Mut_RemoveSource_Forgotten == live

\* What g_source_remove(timerSource) takes off the main loop.
RemoveSource == live \ {timerSource}

\* The history both branches keep.
NoteRemoval ==
    /\ removed' = removed \cup (({timerSource} \cap live) \ {firing})
    /\ overtaken' = (overtaken \/ loop = "waiting")

\* start == 1: the old source is removed and a new one is attached.
SetSleepTimer ==
    /\ armed < MaxArm
    /\ armed' = armed + 1
    /\ timerEnd' = armed'
    /\ timerSource' = armed'
    /\ live' = RemoveSource \cup {armed'}
    /\ NoteRemoval
    /\ UNCHANGED <<expired, loop, firing, standbys>>

\* Mutant (CancelledStaysSilent): the ids are dropped but the source stays attached.
Mut_CancelSleepTimer_Keeps ==
    /\ live' = live
    /\ timerSource' = None
    /\ timerEnd' = None
    /\ NoteRemoval
    /\ UNCHANGED <<expired, loop, firing, armed, standbys>>

\* start == 0.
CancelSleepTimer ==
    /\ live' = RemoveSource
    /\ timerSource' = None
    /\ timerEnd' = None
    /\ NoteRemoval
    /\ UNCHANGED <<expired, loop, firing, armed, standbys>>

-----------------------------------------------------------------------------
(* The main loop *)

\* Time passes the end of an arming.
Expire(a) ==
    /\ a \in 1 .. armed \ expired
    /\ expired' = expired \cup {a}
    /\ UNCHANGED <<timerSource, timerEnd, live, loop, firing,
                   armed, removed, overtaken, standbys>>

\* g_main_loop_run picks a source that is due and calls _onSleepTimerFire.
Dispatch(a) ==
    /\ loop = "idle"
    /\ a \in live \cap expired
    /\ loop' = "waiting"
    /\ firing' = a
    /\ UNCHANGED <<timerSource, timerEnd, live, expired,
                   armed, removed, overtaken, standbys>>

\* The critical section of _onSleepTimerFire.
FireLocked ==
    /\ loop = "waiting"
    /\ timerEnd' = None
    /\ timerSource' = None
    /\ loop' = "sending"
    /\ UNCHANGED <<live, expired, firing, armed, removed, overtaken, standbys>>

\* Mutant (OneStandbyPerArming): the callback returns TRUE and stays attached.
Mut_FireSend_Repeats ==
    /\ loop = "sending"
    /\ standbys' = [standbys EXCEPT ![firing] = @ + 1]
    /\ loop' = "idle"
    /\ firing' = None
    /\ standbys[firing] < 2
    /\ UNCHANGED <<timerSource, timerEnd, live, expired,
                   armed, removed, overtaken>>

\* Mutant (ArmingEnds): the standby is sent only if the ids are still set.
Mut_FireSend_IfSet ==
    /\ loop = "sending"
    /\ standbys' = IF timerSource # None
                     THEN [standbys EXCEPT ![firing] = @ + 1]
                     ELSE standbys
    /\ live' = live \ {firing}
    /\ loop' = "idle"
    /\ firing' = None
    /\ UNCHANGED <<timerSource, timerEnd, expired, armed, removed, overtaken>>

\* SendCECStandby, then `return FALSE', on which GLib destroys the source.
FireSend ==
    /\ loop = "sending"
    /\ standbys' = IF UseCecStandby
                     THEN [standbys EXCEPT ![firing] = @ + 1]
                     ELSE standbys
    /\ live' = live \ {firing}
    /\ loop' = "idle"
    /\ firing' = None
    /\ UNCHANGED <<timerSource, timerEnd, expired, armed, removed, overtaken>>

Next ==
    \/ SetSleepTimer
    \/ CancelSleepTimer
    \/ \E a \in Armings : Expire(a)
    \/ \E a \in Armings : Dispatch(a)
    \/ FireLocked
    \/ FireSend

\* Time passes and the main loop keeps running; nobody has to set the timer.
Fairness ==
    /\ \A a \in Armings : WF_vars(Expire(a)) /\ WF_vars(Dispatch(a))
    /\ WF_vars(FireLocked)
    /\ WF_vars(FireSend)

Spec == Init /\ [][Next]_vars
FairSpec == Spec /\ Fairness

-----------------------------------------------------------------------------
(* Properties *)

\* The type invariant.
TypeOK ==
    /\ timerSource \in {None} \cup Armings
    /\ timerEnd \in {None} \cup Armings
    /\ live \subseteq Armings
    /\ expired \subseteq Armings
    /\ loop \in {"idle", "waiting", "sending"}
    /\ firing \in {None} \cup Armings
    /\ armed \in 0 .. MaxArm
    /\ removed \subseteq Armings
    /\ overtaken \in BOOLEAN
    /\ standbys \in [Armings -> Nat]

\* Sources that will still call back, the one being dispatched aside.
Pending == live \ {firing}

\* As long as nobody sets the timer between the moment the main loop picks it
\* and the moment its callback gets the lock, the one source that can still
\* fire is the one the program can remove: _SetSleepTimer replaces, and never
\* leaks, the source it armed before.
NoOrphan == ~overtaken => Pending \subseteq {timerSource}

\* An arming that was cancelled or replaced before the main loop picked it
\* never switches the TV off, whatever the interleaving of _SetSleepTimer
\* and _onSleepTimerFire.
CancelledStaysSilent == \A a \in removed : standbys[a] = 0 /\ a \notin live

\* The callback is one-shot: an arming sends standby at most once.
OneStandbyPerArming == \A a \in Armings : standbys[a] <= 1

\* No arming is forgotten: it is removed before it is due to run, or the TV
\* is sent standby for it.
ArmingEnds ==
    \A a \in Armings : a \in live ~> (a \in removed \/ standbys[a] > 0)
=============================================================================
