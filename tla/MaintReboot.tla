------------------------------ MODULE MaintReboot ------------------------------
(***************************************************************************)
(* The maintenance reboots of pwrmgr2/pwrMgr.c (OFFLINE_MAINT_REBOOT): the *)
(* heartbeat of the main loop, every 300 seconds, reads standby_time and   *)
(* the power state, which _SetPowerState writes on the thread of its       *)
(* caller; there is no lock.  Times are in heartbeats; the grace interval  *)
(* of 900 seconds is three of them.                                        *)
(***************************************************************************)
EXTENDS Integers

CONSTANTS
    RfcValues,     \* what RFC may say of a threshold: [kind, n], in heartbeats
    DefaultStandby,\* 864 heartbeats, three days
    DefaultForce,  \* 1728 heartbeats, six days
    MaxUp,         \* bound: the clock
    MaxSets        \* bound: changes of the power state

Grace == 3
MtStates == {"ON", "STANDBY", "LIGHT_SLEEP", "DEEP_SLEEP"}

ASSUME MaintRebootAssumption ==
    /\ \A v \in RfcValues : v.kind \in {"none", "quoted", "number"} /\ v.n \in Nat
    /\ {DefaultStandby, DefaultForce, MaxUp, MaxSets} \subseteq Nat

VARIABLES
    mtUp,        \* the monotonic clock
    mtThreshold, \* standby_reboot_threshold, force_reboot_threshold
    mtUpdated,   \* rfcUpdated
    mtStandby,   \* standby_time
    mtPower,     \* m_settings.powerState
    mtSet,       \* the _SetPowerState under way: [pc, to]
    mtBeat,      \* the heartbeat: [pc, up]
    mtSets,      \* changes so far
    mtReboot,    \* history: the last reboot that was decided: its kind and the clock
    mtOffSince,  \* history: since when the box is off, -1 while it is on
    mtMoved      \* history: the box was switched off since the heartbeat read standby_time

mtVars == <<mtUp, mtThreshold, mtUpdated, mtStandby, mtPower, mtSet, mtBeat,
            mtSets, mtReboot, mtOffSince, mtMoved>>

MtNever == [kind |-> "none", up |-> 0, off |-> 0, moved |-> FALSE]

MtInit ==
    /\ mtUp = 0
    /\ mtThreshold = [standby |-> DefaultStandby, force |-> DefaultForce]
    /\ mtUpdated = FALSE
    /\ mtStandby = 0
    /\ mtPower \in {"ON", "STANDBY"}
    /\ mtSet = [pc |-> "idle", to |-> "ON"]
    /\ mtBeat = [pc |-> "idle", up |-> 0]
    /\ mtSets = 0
    /\ mtReboot = MtNever
    /\ mtOffSince = IF mtPower = "ON" THEN -1 ELSE 0
    /\ mtMoved = FALSE

\* Time passes, less than a heartbeat while one is at work, and less than one between
\* two assignments of _SetPowerState.
MtTick ==
    /\ mtUp < MaxUp
    /\ mtBeat.pc = "idle"
    /\ mtSet.pc = "idle"
    /\ mtUp' = mtUp + 1
    /\ mtBeat' = [pc |-> "rfc", up |-> mtUp']
    /\ UNCHANGED <<mtThreshold, mtUpdated, mtStandby, mtPower, mtSet, mtSets,
                   mtReboot, mtOffSince, mtMoved>>

------------------------------------------------------------------------------
(* _SetPowerState *)

\* Mutant (StandbyRebootEarned): the time is set on the way to ON.
Mut_MtSetTime_On ==
    /\ mtSet.pc = "idle"
    /\ mtSets < MaxSets
    /\ mtSets' = mtSets + 1
    /\ \E to \in MtStates \ {mtPower} :
         /\ mtSet' = [pc |-> "power", to |-> to]
         /\ mtStandby' = IF to = "ON" THEN mtUp ELSE mtStandby
    /\ UNCHANGED <<mtUp, mtThreshold, mtUpdated, mtPower, mtBeat, mtReboot,
                   mtOffSince, mtMoved>>

\* standby_time is set on the way to every state but ON.
MtSetTime ==
    /\ mtSet.pc = "idle"
    /\ mtSets < MaxSets
    /\ mtSets' = mtSets + 1
    /\ \E to \in MtStates \ {mtPower} :
         /\ mtSet' = [pc |-> "power", to |-> to]
         /\ mtStandby' = IF to # "ON" THEN mtUp ELSE mtStandby
    /\ UNCHANGED <<mtUp, mtThreshold, mtUpdated, mtPower, mtBeat, mtReboot,
                   mtOffSince, mtMoved>>

MtSetPower ==
    /\ mtSet.pc = "power"
    /\ mtPower' = mtSet.to
    /\ mtSet' = [mtSet EXCEPT !.pc = "idle"]
    /\ mtOffSince' = IF mtSet.to = "ON" THEN -1
                     ELSE IF mtOffSince = -1 THEN mtUp ELSE mtOffSince
    /\ mtMoved' = (mtMoved \/ mtPower = "ON")
    /\ UNCHANGED <<mtUp, mtThreshold, mtUpdated, mtStandby, mtBeat, mtSets, mtReboot>>

------------------------------------------------------------------------------
(* heartbeatMsg *)

\* getStandbyRebootValue: the closing quote is looked for one place too far, so a
\* quoted number is taken as 0.
Value(v, default) ==
    CASE v.kind = "none" -> default [] v.kind = "quoted" -> 0 [] v.kind = "number" -> v.n

\* The thresholds are read by the first heartbeat only; whether the reboots are
\* enabled is asked every time.
MtRfc ==
    /\ mtBeat.pc = "rfc"
    /\ IF mtUpdated THEN UNCHANGED mtThreshold
       ELSE \E standby, force \in RfcValues :
              mtThreshold' = [standby |-> Value(standby, DefaultStandby),
                              force |-> Value(force, DefaultForce)]
    /\ mtUpdated' = TRUE
    /\ \E enabled \in BOOLEAN :
         mtBeat' = [mtBeat EXCEPT !.pc = IF enabled /\ mtBeat.up >= mtThreshold'.standby
                                         THEN "grace" ELSE "idle"]
    /\ UNCHANGED <<mtUp, mtStandby, mtPower, mtSet, mtSets, mtReboot, mtOffSince, mtMoved>>

\* REBOOT_GRACE_INTERVAL
MtGrace ==
    /\ mtBeat.pc = "grace"
    /\ mtBeat' = [mtBeat EXCEPT !.pc = IF mtBeat.up - mtStandby >= Grace THEN "power" ELSE "force"]
    /\ mtMoved' = FALSE
    /\ UNCHANGED <<mtUp, mtThreshold, mtUpdated, mtStandby, mtPower, mtSet, mtSets,
                   mtReboot, mtOffSince>>

Decide(kind) ==
    mtReboot' = [kind |-> kind, up |-> mtBeat.up, moved |-> mtMoved,
                 off |-> IF mtOffSince = -1 THEN 0 ELSE mtUp - mtOffSince]

isInStandby == mtPower \in {"STANDBY", "LIGHT_SLEEP"}

\* The reboot comes ten seconds after it was decided, or not, if the script fails.
MtPower ==
    /\ mtBeat.pc = "power"
    /\ IF isInStandby THEN Decide("standby") ELSE UNCHANGED mtReboot
    /\ mtBeat' = [mtBeat EXCEPT !.pc = "force"]
    /\ UNCHANGED <<mtUp, mtThreshold, mtUpdated, mtStandby, mtPower, mtSet, mtSets,
                   mtOffSince, mtMoved>>

MtForce ==
    /\ mtBeat.pc = "force"
    /\ IF mtBeat.up >= mtThreshold.force THEN Decide("forced") ELSE UNCHANGED mtReboot
    /\ mtBeat' = [mtBeat EXCEPT !.pc = "idle"]
    /\ UNCHANGED <<mtUp, mtThreshold, mtUpdated, mtStandby, mtPower, mtSet, mtSets,
                   mtOffSince, mtMoved>>

MtNext ==
    \/ MtTick \/ MtSetTime \/ MtSetPower \/ MtRfc \/ MtGrace \/ MtPower \/ MtForce

MtSpec == MtInit /\ [][MtNext]_mtVars

------------------------------------------------------------------------------
(* Properties *)

\* The box reboots for maintenance in standby only when it was off for the grace
\* interval.  One window is left out, for there the code does otherwise: the heartbeat
\* reads standby_time and then the state without a lock, and a box that is switched off
\* between the two reads is tested with the time of an earlier standby, so that it
\* reboots at once.  All other changes of the state, between the two reads too, are
\* covered.
StandbyRebootEarned ==
    mtReboot.kind = "standby" => mtReboot.off >= Grace \/ mtReboot.moved

==============================================================================
