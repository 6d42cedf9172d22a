------------------------------ MODULE PowerSpec ------------------------------
(***************************************************************************)
(* What the power manager promises to those who look at the box from the   *)
(* outside, as long as its calls come one at a time.  There is one power   *)
(* state.  A change saves the new state first and shows it to the platform *)
(* afterwards, so that a restart at any moment comes back in the state     *)
(* that was saved last and loses nothing that could be seen; a change that *)
(* has ended has done both.  Saving may fail: the change goes on, and only *)
(* a restart shows that it was not saved.  The box is put to sleep when    *)
(* the deep sleep state is saved and shown and no change is under way, and *)
(* no change begins before it has resumed.  When calls disturb each other  *)
(* nothing is promised until the next restart.                             *)
(***************************************************************************)
CONSTANTS
    States,
    Deep        \* the state in which the box may sleep

VARIABLES
    calm,       \* nothing has disturbed a change since the last restart
    saved,      \* the state a restart comes back in
    shown,      \* the state the platform is in
    next,       \* the state the box is changing to, or NoChange
    sleeping,   \* the box is being put to sleep, or sleeps
    unsaved     \* the change under way, or the last one, could not be saved

vars == <<calm, saved, shown, next, sleeping, unsaved>>

NoChange == "none"

Init ==
    /\ calm = TRUE
    /\ saved \in States
    /\ shown = saved
    /\ next = NoChange
    /\ sleeping = FALSE
    /\ unsaved = FALSE

Begin ==
    /\ next = NoChange /\ ~sleeping
    /\ next' \in States
    /\ unsaved' = FALSE
    /\ UNCHANGED <<calm, saved, shown, sleeping>>

Save ==
    /\ next # NoChange
    /\ saved' = next
    /\ unsaved' = FALSE
    /\ UNCHANGED <<calm, shown, next, sleeping>>

SaveFails ==
    /\ next # NoChange
    /\ unsaved' = TRUE
    /\ UNCHANGED <<calm, saved, shown, next, sleeping>>

Show ==
    /\ next # NoChange
    /\ saved = next \/ unsaved
    /\ shown' = next
    /\ UNCHANGED <<calm, saved, next, sleeping, unsaved>>

End ==
    /\ next # NoChange /\ shown = next
    /\ saved = next \/ unsaved
    /\ next' = NoChange
    /\ UNCHANGED <<calm, saved, shown, sleeping, unsaved>>

FallAsleep ==
    /\ next = NoChange /\ shown = Deep
    /\ saved = Deep \/ unsaved
    /\ ~sleeping /\ sleeping' = TRUE
    /\ UNCHANGED <<calm, saved, shown, next, unsaved>>

Resume ==
    /\ sleeping /\ sleeping' = FALSE
    /\ UNCHANGED <<calm, saved, shown, next, unsaved>>

\* Also what ends a disturbance.
Restart ==
    /\ calm' = TRUE
    /\ saved' = saved /\ shown' = saved
    /\ next' = NoChange
    /\ sleeping' = FALSE
    /\ unsaved' = FALSE

Disturbed ==
    /\ calm' = FALSE
    /\ saved' \in States /\ shown' \in States
    /\ next' \in States \cup {NoChange}
    /\ sleeping' \in BOOLEAN /\ unsaved' \in BOOLEAN

Next ==
    \/ calm /\ (Begin \/ Save \/ SaveFails \/ Show \/ End \/ FallAsleep \/ Resume)
    \/ Restart
    \/ Disturbed

Spec == Init /\ [][Next]_vars
==============================================================================
