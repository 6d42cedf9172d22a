---------------------------- MODULE ProductTraits ----------------------------
(***************************************************************************)
(* What the display manager does at a change of the power state, at its    *)
(* start and before a reboot, for each product profile                     *)
(* (dsmgr/dsMgrProductTraitsHandler.cpp, and its users in                  *)
(* dsMgrPwrEventListener.c).                                               *)
(*                                                                         *)
(* Four threads: "main" starts the listener and then runs the timer that   *)
(* waits for the reboot reason; "event" handles power changes, "call" the  *)
(* reboot configuration; "retry" sets the boot loader's pattern until it   *)
(* is taken.  They share two flags under a mutex, and the ports, the LED   *)
(* and the pattern under none.  Switching the ports, port by port in       *)
(* StandbyVideo, is one step here.                                         *)
(***************************************************************************)
EXTENDS Naturals, Sequences

CONSTANTS
    Profiles,  \* the profiles looked at
    MaxPower,  \* bound: changes of the power state
    MaxConfig, \* bound: calls before a reboot
    Retries,   \* remaining_retries, 12
    Checks     \* how often the timer looks for the reason in vain, 61

State == {"ON", "OFF", "STANDBY", "DEEP_SLEEP"}
Pattern == {"NORMAL", "SILENT", "SILENT_LED_ON"}

ASSUME ProductTraitsAssumption ==
    /\ Profiles \subseteq {"stb", "tv", "stb_eu", "tv_eu"}
    /\ {MaxPower, MaxConfig} \subseteq Nat
    /\ {Retries, Checks} \subseteq Nat \ {0}

VARIABLES
    trProfile, \* the profile of the box
    trPower,   \* the power manager's states, [cur, prev]
    trEvents,  \* changes announced and not yet handled
    trForced,  \* the flag file, or the factory: ports on after every reboot
    trReason,  \* the reboot reason: "HARD", "SOFT" or "UNAVAILABLE"
    trMain,    \* where the main thread is
    trRead,    \* the states it read, [cur, prev]
    trChecks,  \* count of reboot_reason_cb
    trEvent,   \* where the event thread is: [at, to]
    trCall,    \* the pattern the call sets, or "none"
    trRetry,   \* the retry thread: [pattern, left], left = 0 if there is none
    trInvalid, \* invalidateAsyncBootloaderPattern
    trFirst,   \* firstPowerTransitionComplete
    trPorts,   \* the state the ports were switched for last
    trLed,     \* the same of the LED
    trBoot,    \* the pattern the boot loader has
    trBounds,  \* changes and calls so far
    trHandled, \* history: a change has been applied since the start read the state
    trRace,    \* history: main switches the ports for what it saw before the last change
    trMust,    \* history: the pattern of the last change or reboot, or "none"
    trSpoilt   \* history: the start undid what a change or a call did to the pattern

trHw == <<trPorts, trLed>>
trHistory == <<trHandled, trRace, trMust, trSpoilt>>
trFlags == <<trInvalid, trFirst>>
trEnv == <<trProfile, trPower, trForced, trBounds>>
trMains == <<trMain, trRead, trChecks>>
trVars == <<trEnv, trEvents, trReason, trMains, trEvent, trCall, trRetry, trFlags, trHw,
            trBoot, trHistory>>

TrInit ==
    /\ trProfile \in Profiles
    /\ trPower \in [cur : {"ON", "STANDBY", "DEEP_SLEEP"}, prev : {"ON", "OFF", "STANDBY"}]
    /\ trEvents = <<>>
    /\ trForced \in BOOLEAN
    /\ trReason \in {"HARD", "SOFT", "UNAVAILABLE"}
    /\ trMain = "start"
    /\ trRead = [cur |-> "ON", prev |-> "ON"]
    /\ trChecks = 0
    /\ trEvent = [at |-> "idle", to |-> "ON"]
    /\ trCall = "none"
    /\ trRetry = [pattern |-> "NORMAL", left |-> 0]
    /\ trInvalid = FALSE
    /\ trFirst = FALSE
    /\ trPorts = "unset"
    /\ trLed = "unset"
    /\ trBoot \in Pattern
    /\ trBounds = [power |-> 0, config |-> 0]
    /\ trHandled = FALSE
    /\ trRace = FALSE
    /\ trMust = "none"
    /\ trSpoilt = FALSE

------------------------------------------------------------------------------
(* What a profile asks for *)

isTV == trProfile \in {"tv", "tv_eu"}
enableSilentRebootSupport == trProfile # "stb"

\* Mutant (PatternStands): a change does not end the retries.
Mut_Invalidated_Not == trInvalid
\* set_bootloader_pattern ends the retries before it calls.
Invalidated == TRUE

\* The pattern of applyPowerStateChangeConfig, or "none".
ChangePattern(s) ==
    IF ~isTV THEN "none" ELSE IF s = "ON" THEN "NORMAL" ELSE "SILENT_LED_ON"

\* The pattern of applyPreMaintenanceRebootConfig in state s, or "none".
MaintenancePattern(s) ==
    CASE s = "ON" \/ trProfile = "stb" -> "none"
      [] trProfile = "tv"              -> "SILENT_LED_ON"
      [] OTHER                         -> "SILENT"

\* The pattern of applyPostRebootConfig for the state the box comes up in, or "none".
BootPattern(s) ==
    CASE ~enableSilentRebootSupport              -> "none"
      [] isTV /\ s \in {"STANDBY", "DEEP_SLEEP"} -> "SILENT_LED_ON"
      [] OTHER                                   -> "NORMAL"

\* The box was on before the reboot and comes up in standby.
OnBefore == trRead.prev = "ON" /\ trRead.cur = "STANDBY"

\* What the ports are switched for after a reboot: "none" while the reason is unknown.
PortsAfterBoot ==
    CASE ~OnBefore \/ trProfile = "stb"         -> trRead.cur
      [] trProfile # "tv" \/ trForced           -> "ON"
      [] trReason = "HARD"                      -> "STANDBY"
      [] trReason = "SOFT"                      -> "ON"
      [] OTHER                                  -> "none"

\* The LED after a reboot: a European TV keeps the boot loader's.
LedAfterBoot ==
    CASE trProfile = "tv_eu"              -> "unset"
      [] OnBefore /\ trProfile = "stb_eu" -> "ON"
      [] OTHER                            -> trRead.cur

\* _set_bootloader_pattern, which mfrMgr may refuse or not be there to take.
Sets(pattern, taken) == trBoot' = IF taken THEN pattern ELSE trBoot

\* set_bootloader_pattern by a change or a call, its second step.
MustSet(pattern) ==
    \E taken \in BOOLEAN :
      /\ Sets(pattern, taken)
      /\ trMust' = IF taken THEN pattern ELSE trMust

------------------------------------------------------------------------------
(* initPwrEventListner *)

\* The handlers are registered before the state is read.
Register ==
    /\ trMain = "start"
    /\ trMain' = "read"
    /\ UNCHANGED <<trEnv, trEvents, trReason, trRead, trChecks, trEvent, trCall, trRetry, trFlags,
                   trHw, trBoot, trHistory>>

\* The power manager may not answer.
ReadState ==
    /\ trMain = "read"
    /\ trRead' \in {trPower, [cur |-> "STANDBY", prev |-> "OFF"]}
    /\ trMain' = "display"
    /\ trHandled' = FALSE
    /\ UNCHANGED <<trEnv, trEvents, trReason, trChecks, trEvent, trCall, trRetry, trFlags, trHw,
                   trBoot, trRace, trMust, trSpoilt>>

\* applyPostRebootConfig: LED and ports, or a timer that waits for the reason.
PostReboot ==
    /\ trMain = "display"
    /\ trLed' = IF LedAfterBoot = "unset" THEN trLed ELSE LedAfterBoot
    /\ IF PortsAfterBoot = "none"
         THEN trMain' = "pattern_timer" /\ UNCHANGED trPorts
         ELSE trMain' = "pattern" /\ trPorts' = PortsAfterBoot
    /\ UNCHANGED <<trEnv, trEvents, trReason, trRead, trChecks, trEvent, trCall, trRetry, trFlags,
                   trBoot, trHistory>>

AfterPattern == IF trMain \in {"pattern_timer", "retry_timer"} THEN "timer" ELSE "loop"

\* set_bootloader_pattern_fault_tolerant, its first call.
PostPattern ==
    /\ trMain \in {"pattern", "pattern_timer"}
    /\ LET pattern == BootPattern(trRead.cur)
       IN  \/ /\ pattern = "none"
              /\ trMain' = AfterPattern
              /\ UNCHANGED <<trBoot, trSpoilt>>
           \/ /\ pattern # "none"
              /\ Sets(pattern, TRUE)
              /\ trSpoilt' = (trSpoilt \/ trMust # "none")
              /\ trMain' = AfterPattern
           \/ /\ pattern # "none"
              /\ Sets(pattern, FALSE)
              /\ trMain' = IF trMain = "pattern" THEN "retry" ELSE "retry_timer"
              /\ UNCHANGED trSpoilt
    /\ UNCHANGED <<trEnv, trEvents, trReason, trRead, trChecks, trEvent, trCall, trRetry, trFlags,
                   trHw, trHandled, trRace, trMust>>

\* The call failed: a thread is started that tries again.  A change since may
\* have ended the retries already; they are allowed again.
StartRetry ==
    /\ trMain \in {"retry", "retry_timer"}
    /\ trInvalid' = FALSE
    /\ trSpoilt' = (trSpoilt \/ trInvalid)
    /\ trRetry' = [pattern |-> BootPattern(trRead.cur), left |-> Retries]
    /\ trMain' = AfterPattern
    /\ UNCHANGED <<trEnv, trEvents, trReason, trRead, trChecks, trEvent, trCall, trFirst, trHw,
                   trBoot, trHandled, trRace, trMust>>

------------------------------------------------------------------------------
(* _set_bootloader_pattern_async, and the timer reboot_reason_cb *)

\* The mutex is held from the test of the flag until the call has returned.
RetryPattern ==
    /\ trRetry.left > 0
    /\ IF trInvalid
         THEN trRetry' = [trRetry EXCEPT !.left = 0] /\ UNCHANGED trBoot
         ELSE \E taken \in BOOLEAN :
                /\ Sets(trRetry.pattern, taken)
                /\ trRetry' = [trRetry EXCEPT !.left = IF taken THEN 0 ELSE @ - 1]
    /\ UNCHANGED <<trEnv, trEvents, trReason, trMains, trEvent, trCall, trFlags, trHw, trHistory>>

\* Mutant (PortsFollowPower): the reason is used whatever happened since.
Mut_StillFirst_Always == TRUE
\* sync_display_ports_with_reboot_reason looks under the mutex ...
StillFirst == ~trFirst

reboot_reason_cb ==
    /\ trMain = "timer"
    /\ IF trReason = "UNAVAILABLE"
         THEN /\ trChecks' = trChecks + 1
              /\ trMain' = IF trChecks + 1 > Checks THEN "loop" ELSE "timer"
         ELSE /\ trMain' = IF StillFirst THEN "switch" ELSE "loop"
              /\ UNCHANGED trChecks
    /\ UNCHANGED <<trEnv, trEvents, trReason, trRead, trEvent, trCall, trRetry, trFlags, trHw,
                   trBoot, trHistory>>

\* ... and switches the ports without it.
SwitchPorts ==
    /\ trMain = "switch"
    /\ trPorts' = IF trReason = "HARD" THEN "STANDBY" ELSE "ON"
    /\ trMain' = "loop"
    /\ UNCHANGED <<trEnv, trEvents, trReason, trRead, trChecks, trEvent, trCall, trRetry, trFlags,
                   trLed, trBoot, trHistory>>

------------------------------------------------------------------------------
(* _PwrEventHandler: applyPowerStateChangeConfig *)

\* A TV's first change ends the wait for the reboot reason.
TakeChange ==
    /\ trMain # "start" /\ trEvents # <<>> /\ trEvent.at = "idle"
    /\ trEvent' = [at |-> "ports", to |-> Head(trEvents)]
    /\ trEvents' = Tail(trEvents)
    /\ trFirst' = (trFirst \/ trProfile = "tv")
    /\ UNCHANGED <<trEnv, trReason, trMains, trCall, trRetry, trInvalid, trHw, trBoot, trHistory>>

\* The ports follow; main may be about to switch them for what it saw before.
ChangePorts ==
    /\ trEvent.at = "ports"
    /\ trPorts' = trEvent.to
    /\ trHandled' = TRUE
    /\ trRace' = (trMain \in {"display", "switch"})
    /\ trEvent' = [trEvent EXCEPT !.at = IF isTV THEN "flag" ELSE "led"]
    /\ UNCHANGED <<trEnv, trEvents, trReason, trMains, trCall, trRetry, trFlags, trLed, trBoot,
                   trMust, trSpoilt>>

ChangeLed ==
    /\ trEvent.at = "led"
    /\ trLed' = trEvent.to
    /\ trEvent' = [trEvent EXCEPT !.at = "idle"]
    /\ UNCHANGED <<trEnv, trEvents, trReason, trMains, trCall, trRetry, trFlags, trPorts, trBoot,
                   trHistory>>

\* set_bootloader_pattern: the flag under the mutex ...
ChangeFlag ==
    /\ trEvent.at = "flag"
    /\ trInvalid' = Invalidated
    /\ trEvent' = [trEvent EXCEPT !.at = "pattern"]
    /\ UNCHANGED <<trEnv, trEvents, trReason, trMains, trCall, trRetry, trFirst, trHw, trBoot,
                   trHistory>>

\* ... and the call without it.
ChangeBoot ==
    /\ trEvent.at = "pattern"
    /\ MustSet(ChangePattern(trEvent.to))
    /\ trEvent' = [trEvent EXCEPT !.at = "idle"]
    /\ UNCHANGED <<trEnv, trEvents, trReason, trMains, trCall, trRetry, trFlags, trHw, trHandled,
                   trRace, trSpoilt>>

------------------------------------------------------------------------------
(* _SetRebootConfig, which the power manager calls before it reboots for     *)
(* maintenance; before another reboot no profile does anything.              *)

RebootFlag ==
    /\ trMain # "start" /\ trCall = "none" /\ trBounds.config < MaxConfig
    /\ MaintenancePattern(trPower.cur) # "none"
    /\ trInvalid' = Invalidated
    /\ trCall' = MaintenancePattern(trPower.cur)
    /\ trBounds' = [trBounds EXCEPT !.config = @ + 1]
    /\ UNCHANGED <<trProfile, trPower, trForced, trEvents, trReason, trMains, trEvent, trRetry,
                   trFirst, trHw, trBoot, trHistory>>

RebootPattern ==
    /\ trCall # "none"
    /\ MustSet(trCall)
    /\ trCall' = "none"
    /\ UNCHANGED <<trEnv, trEvents, trReason, trMains, trEvent, trRetry, trFlags, trHw, trHandled,
                   trRace, trSpoilt>>

------------------------------------------------------------------------------
(* The power manager, and the script that finds the reboot reason: external *)

PowerChanges(s) ==
    /\ s # trPower.cur /\ trBounds.power < MaxPower
    /\ trPower' = [cur |-> s, prev |-> trPower.cur]
    /\ trEvents' = Append(trEvents, s)
    /\ trBounds' = [trBounds EXCEPT !.power = @ + 1]
    /\ UNCHANGED <<trProfile, trForced, trReason, trMains, trEvent, trCall, trRetry, trFlags,
                   trHw, trBoot, trHistory>>

ReasonFound ==
    /\ trReason = "UNAVAILABLE"
    /\ trReason' \in {"HARD", "SOFT"}
    /\ UNCHANGED <<trEnv, trEvents, trMains, trEvent, trCall, trRetry, trFlags, trHw, trBoot,
                   trHistory>>

TrNext ==
    \/ Register \/ ReadState \/ PostReboot \/ PostPattern \/ StartRetry
    \/ RetryPattern \/ reboot_reason_cb \/ SwitchPorts
    \/ TakeChange \/ ChangePorts \/ ChangeLed \/ ChangeFlag \/ ChangeBoot
    \/ RebootFlag \/ RebootPattern
    \/ \E s \in {"ON", "STANDBY", "DEEP_SLEEP"} : PowerChanges(s)
    \/ ReasonFound

TrSpec == TrInit /\ [][TrNext]_trVars

------------------------------------------------------------------------------
(* Properties *)

\* Once a change has been applied, and nothing is on its way, the ports are
\* switched for the power manager's state: neither the start nor a late reboot
\* reason takes them back.  Both can in one window: the start between reading
\* the state and switching, the timer between its look and switching.
PortsFollowPower ==
    trMain \in {"timer", "loop"} /\ trEvents = <<>> /\ trEvent.at = "idle" /\ trHandled /\ ~trRace
      => trPorts = trPower.cur

\* A pattern that a change or a reboot call has set stays: no retry of the
\* pattern of the start replaces it.  Only the start itself can, by an answer
\* that comes late or by allowing the retries that a change had just ended.
PatternStands == trMust # "none" /\ ~trSpoilt => trBoot = trMust

=============================================================================
