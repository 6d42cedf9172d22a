------------------------------ MODULE GraceSpec ------------------------------
(***************************************************************************)
(* What a thermal protection with a grace period promises, after the        *)
(* comments on its settings (pwrmgr2/therm_mgr.c:71-95): it acts at once   *)
(* above the critical threshold; it acts below it only when the grace      *)
(* period has passed since the temperature reached the concern threshold,  *)
(* and the temperature has not fallen below the safe threshold since then; *)
(* it never acts while the grace period is 0.  One sentence of those       *)
(* comments is not here, for the code does not keep it: by line 74 the     *)
(* timer of the reboot "is started 2 minutes late to give deepsleep logic  *)
(* a chance to work".  rebootIfNeeded takes the time when it enters the    *)
(* zone (:283) and compares it with the interval alone.                    *)
(***************************************************************************)
EXTENDS Integers

CONSTANTS Critical, Concern, Safe

VARIABLES
    heat,   \* the temperature as last read
    since,  \* when it reached Concern, or Never
    clock,  \* time that has really passed
    grace,  \* the grace period
    fired   \* toggles with every action taken

vars == <<heat, since, clock, grace, fired>>

Never == -1

Init ==
    /\ heat = 0
    /\ since = Never
    /\ clock \in Nat
    /\ grace \in Int
    /\ fired = FALSE

\* The moment from which the grace period counts after reading temperature t.
SinceAfter(t) ==
    CASE since = Never /\ t >= Concern -> clock
      [] since # Never /\ t < Safe     -> Never
      [] OTHER                         -> since

Read ==
    /\ heat' \in Int
    /\ since' = SinceAfter(heat')
    /\ UNCHANGED <<clock, grace, fired>>

Pass ==
    /\ clock' \in Nat /\ clock' > clock
    /\ UNCHANGED <<heat, since, grace, fired>>

SetGrace ==
    /\ grace' \in Int
    /\ UNCHANGED <<heat, since, clock, fired>>

Due ==
    /\ grace # 0
    /\ \/ heat >= Critical
       \/ since # Never /\ clock - since >= grace

Act ==
    /\ Due
    /\ fired' = ~fired
    /\ UNCHANGED <<heat, since, clock, grace>>

Restart ==
    /\ heat' = 0
    /\ since' = Never
    /\ clock' = clock
    /\ grace' \in Int
    /\ fired' = FALSE

Next == Read \/ Pass \/ SetGrace \/ Act \/ Restart

Spec == Init /\ [][Next]_vars
==============================================================================
