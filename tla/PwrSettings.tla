----------------------------- MODULE PwrSettings -----------------------------
(***************************************************************************)
(* The settings file of the power manager (pwrmgr2/pwrMgr.c): how          *)
(* _InitSettings reads what any build has written, brings the platform to  *)
(* the state it found, and which calls change it.                          *)
(*                                                                         *)
(* Builds differ in the settings they have: the power state, with          *)
(* ENABLE_DEEP_SLEEP also the deep sleep timeout, on some platforms also   *)
(* the network standby mode; `fields' counts them, and stands for the      *)
(* length a build writes.  The box may get another build with any reboot.  *)
(* The file can be opened; reads, writes and ftruncate may fail, a write   *)
(* as a whole.  A crash between a change and its write is a write that     *)
(* fails, followed by a start.                                             *)
(***************************************************************************)
EXTENDS Integers, FiniteSets

CONSTANTS
    StBuilds,       \* [fields : Nat, boot2standby : BOOLEAN]
    FirstFiles,     \* files the box may have from its past
    Timeouts,       \* arguments of SetDeepSleepTimeOut
    DefaultTimeout, \* 28800, the initial deep_sleep_wakeup_timeout_sec
    Nows,           \* times of the day, in half hours, UTC
    Zones,          \* time zones that the code knows: subset of KnownZones
    MaxStarts,      \* bound: starts of the manager
    MaxCalls,       \* bound: calls and power changes
    MaxFaults       \* bound: failures of read, write and ftruncate

PowerState == {"OFF", "STANDBY", "ON", "LIGHT_SLEEP", "DEEP_SLEEP"}
\* A read, the write and the ftruncate for a file of another length, the write of defaults.
Fault == {"read", "migrate", "truncate", "save"}
NoFile == [ver |-> -1]

\* A file as a build with n fields writes it; fields it lacks are not there.
FileOf(n, m) ==
    [ver |-> 1, fields |-> n, power |-> m.power,
     timeout |-> IF n >= 2 THEN m.timeout ELSE 0,
     nw |-> IF n >= 3 THEN m.nw ELSE FALSE]

\* What the box may have: nothing, a file of the old manager, or one of any build.
StFiles ==
    {NoFile} \union [ver : {0}, power : PowerState]
      \union [ver : {1}, fields : Nat, power : PowerState, timeout : Nat, nw : BOOLEAN]

\* The time zones that getTZDiffInSec knows: the hours it adds, and how many hours the
\* clocks there are behind UTC in winter and in summer.
KnownZones ==
    {[adds |-> 11, winter |-> 11, summer |-> 11], [adds |-> 10, winter |-> 11, summer |-> 10],
     [adds |-> 9, winter |-> 9, summer |-> 9], [adds |-> 8, winter |-> 9, summer |-> 8],
     [adds |-> 8, winter |-> 8, summer |-> 8], [adds |-> 8, winter |-> 8, summer |-> 7],
     [adds |-> 7, winter |-> 7, summer |-> 7], [adds |-> 6, winter |-> 7, summer |-> 6],
     [adds |-> 6, winter |-> 6, summer |-> 6], [adds |-> 5, winter |-> 6, summer |-> 5],
     [adds |-> 5, winter |-> 5, summer |-> 5], [adds |-> 4, winter |-> 5, summer |-> 4]}

ASSUME SettingsAssumption ==
    /\ FirstFiles \subseteq StFiles
    /\ StBuilds \subseteq [fields : 1..4, boot2standby : BOOLEAN]
    /\ Timeouts \subseteq Nat /\ DefaultTimeout \in Nat
    /\ Nows \subseteq 0..47 /\ Zones \subseteq KnownZones
    /\ {MaxStarts, MaxCalls, MaxFaults} \subseteq Nat

VARIABLES
    stPc,       \* "off", "load", "sync" or "run"
    stBuild,    \* the build that runs
    stFile,     \* the settings file
    stMem,      \* m_settings
    stTimeout,  \* deep_sleep_wakeup_timeout_sec
    stNw,       \* nwStandbyMode_gs
    stTimerSet, \* IsWakeupTimerSet
    stLast,     \* g_last_known_power_state
    stHw,       \* the state the platform is in
    stRestarted,\* /tmp/pwrmgr_restarted exists: not the first start since the boot
    stTold,     \* the new state of the last MODECHANGED event
    stBounds,   \* starts, calls and faults so far
    stAsked,    \* history: the power state the box is to be in
    stKept,     \* history: what that was when the file was last written
    stWake      \* history: when the last wake-up that was computed takes place

stSettings == <<stFile, stMem, stTimeout, stNw, stTimerSet, stLast>>
stVars == <<stPc, stBuild, stSettings, stHw, stRestarted, stTold, stBounds, stAsked,
            stKept, stWake>>

NoWake == [known |-> FALSE, exact |-> FALSE, at |-> 0]

StInit ==
    /\ stPc = "load"
    /\ stBuild \in StBuilds
    /\ stFile \in FirstFiles
    /\ stMem = [power |-> "OFF", timeout |-> 0, nw |-> FALSE]
    /\ stTimeout = DefaultTimeout
    /\ stNw = FALSE
    /\ stTimerSet = FALSE
    /\ stLast = "ON"
    /\ stHw \in {"ON", "STANDBY"}
    /\ stRestarted = FALSE
    /\ stTold = "none"
    /\ stBounds = [starts |-> 1, calls |-> 0, faults |-> 0]
    /\ stKept = IF stFile.ver = 1 THEN stFile.power ELSE "ON"
    /\ stAsked = stKept
    /\ stWake = NoWake

------------------------------------------------------------------------------
(* _InitSettings *)

\* _ConvertUIDevToIARMBusPowerState
Convert(p) == IF p = "OFF" THEN "OFF" ELSE "ON"

ColdStart == stBuild.boot2standby /\ ~stRestarted

\* A start without a usable file.
DefaultPower == IF ColdStart THEN "STANDBY" ELSE "ON"

\* Mutant (PowerKept): a build that boots to standby does so on every start.
Mut_Same_Always(f) ==
    [mem |-> [power |-> IF stBuild.boot2standby THEN "STANDBY" ELSE f.power,
              timeout |-> f.timeout, nw |-> f.nw],
     last |-> f.power, timeout |-> f.timeout, nw |-> f.nw]

\* The file has the length this build writes.
Same(f) ==
    [mem |-> [power |-> IF ColdStart THEN "STANDBY" ELSE f.power,
              timeout |-> f.timeout, nw |-> f.nw],
     last |-> f.power, timeout |-> f.timeout, nw |-> f.nw]

\* It is shorter: all fields but the power state are set to what this build starts
\* with, those in the file too.
Longer(f) ==
    [mem |-> [power |-> IF ColdStart THEN "STANDBY" ELSE f.power,
              timeout |-> stTimeout, nw |-> stNw],
     last |-> f.power, timeout |-> stTimeout, nw |-> stNw]

\* It is longer: the fields are read, and nothing else is done with them.
Shorter(f) ==
    [mem |-> [power |-> f.power, timeout |-> f.timeout, nw |-> f.nw],
     last |-> f.power, timeout |-> stTimeout, nw |-> stNw]

\* It is of the old user interface manager.
Old(f) ==
    [mem |-> [power |-> Convert(f.power), timeout |-> stTimeout, nw |-> stNw],
     last |-> Convert(f.power), timeout |-> stTimeout, nw |-> stNw]

\* The file is there and is read, and one of another length can be made one of this
\* build.  (Whether one of the old manager can be rewritten is not looked at.)
Usable(f, failed) ==
    /\ f.ver # -1 /\ "read" \notin failed
    /\ f.ver = 1 =>
         /\ f.fields # stBuild.fields => "migrate" \notin failed
         /\ f.fields > stBuild.fields => "truncate" \notin failed

\* What such a file says, in the terms of this build.
Found(f) ==
    CASE f.ver = 0 -> Old(f)
      [] f.ver = 1 /\ f.fields = stBuild.fields -> Same(f)
      [] f.ver = 1 /\ f.fields < stBuild.fields -> Longer(f)
      [] f.ver = 1 /\ f.fields > stBuild.fields -> Shorter(f)

\* Every failure leads to the defaults; the last known state may have been read before.
Loaded(f, failed) ==
    IF Usable(f, failed) THEN Found(f)
    ELSE [mem |-> [power |-> DefaultPower, timeout |-> stTimeout, nw |-> stNw],
          last |-> IF f.ver = 1 /\ "read" \notin failed THEN f.power ELSE stLast,
          timeout |-> stTimeout, nw |-> stNw]

\* Whether they are written at once,
Writes(f, failed) ==
    IF Usable(f, failed)
    THEN IF f.ver = 0 THEN "migrate" \notin failed ELSE f.fields # stBuild.fields
    ELSE "save" \notin failed

\* and what is in the file then: a longer one may have been rewritten and not cut.
Saved(f, failed) ==
    LET notCut == /\ ~Usable(f, failed) /\ f.ver = 1 /\ f.fields > stBuild.fields
                  /\ failed \intersect {"read", "migrate"} = {}
    IN  IF Writes(f, failed) THEN FileOf(stBuild.fields, Loaded(f, failed).mem)
        ELSE IF notCut THEN FileOf(stBuild.fields, Shorter(f).mem)
        ELSE f

\* The file is read, or made anew.
StLoad ==
    /\ stPc = "load"
    /\ \E failed \in SUBSET Fault :
         /\ stBounds.faults + Cardinality(failed) <= MaxFaults
         /\ stBounds' = [stBounds EXCEPT !.faults = @ + Cardinality(failed)]
         /\ stMem' = Loaded(stFile, failed).mem
         /\ stLast' = Loaded(stFile, failed).last
         /\ stTimeout' = Loaded(stFile, failed).timeout
         /\ stNw' = Loaded(stFile, failed).nw
         /\ stFile' = Saved(stFile, failed)
         /\ stAsked' = IF ~Usable(stFile, failed) THEN DefaultPower
                       ELSE IF stFile.ver = 0 THEN Convert(stFile.power)
                       ELSE IF ColdStart /\ stFile.fields <= stBuild.fields THEN "STANDBY"
                       ELSE stAsked
         /\ stKept' = IF Writes(stFile, failed) THEN stAsked' ELSE stKept
    /\ stPc' = "sync"
    /\ UNCHANGED <<stBuild, stTimerSet, stHw, stRestarted, stTold, stWake>>

\* The file is written, or the write fails.
StWrite(bounds) ==
    \/ /\ stFile' = FileOf(stBuild.fields, stMem')
       /\ stKept' = stAsked'
       /\ stBounds' = bounds
    \/ /\ stBounds.faults < MaxFaults
       /\ stBounds' = [bounds EXCEPT !.faults = @ + 1]
       /\ UNCHANGED <<stFile, stKept>>

\* The platform is brought to the state, in up to ten tries; if it refuses, its own
\* state is taken.  What came of it is written and announced.
StSync ==
    /\ stPc = "sync"
    /\ \E answers, obeys \in BOOLEAN :
         LET refuses == answers /\ ~obeys /\ stHw # stMem.power
         IN  /\ stMem' = [stMem EXCEPT !.power = IF refuses THEN stHw ELSE @]
             /\ stHw' = IF answers THEN stMem'.power ELSE stHw
             /\ stAsked' = IF refuses THEN stHw ELSE stAsked
             /\ stTold' = IF ColdStart THEN "STANDBY" ELSE stMem'.power
             /\ IF answers THEN StWrite(stBounds) ELSE UNCHANGED <<stFile, stKept, stBounds>>
    /\ stPc' = "run"
    /\ UNCHANGED <<stBuild, stTimeout, stNw, stTimerSet, stLast, stRestarted, stWake>>

------------------------------------------------------------------------------
(* Calls *)

StCall ==
    /\ stPc = "run"
    /\ stBounds.calls < MaxCalls

Called == [stBounds EXCEPT !.calls = @ + 1]

\* _SetDeepSleepTimeOut
StSetTimeout ==
    /\ StCall
    /\ stBuild.fields >= 2
    /\ \E t \in Timeouts :
         /\ stTimeout' = t
         /\ stMem' = [stMem EXCEPT !.timeout = t]
    /\ stTimerSet' = TRUE
    /\ UNCHANGED stAsked
    /\ StWrite(Called)
    /\ UNCHANGED <<stPc, stBuild, stNw, stLast, stHw, stRestarted, stTold, stWake>>

\* _SetNetworkStandbyMode
StSetNw ==
    /\ StCall
    /\ stBuild.fields >= 3
    /\ \E b \in BOOLEAN :
         /\ stNw' = b
         /\ stMem' = [stMem EXCEPT !.nw = b]
    /\ UNCHANGED stAsked
    /\ StWrite(Called)
    /\ UNCHANGED <<stPc, stBuild, stTimeout, stTimerSet, stLast, stHw, stRestarted, stTold,
                   stWake>>

\* What getTZDiffInSec adds if the system manager names the zone, names none or does not answer, or
\* names one that is not in the map (which makes the entry, with 0).
getTZDiff(zone, answer) ==
    CASE answer = "zone" -> zone.adds [] answer = "none" -> 6 [] answer = "unknown" -> 0

\* Half hours from a time of the day to the next 02:00.
UntilTwo(time) == IF time < 4 THEN 4 - time ELSE 48 - time + 4

\* Mutant (WakesAtTwo): the way to the next 02:00 is always over midnight.
Mut_getWakeupTime_OverMidnight(time, random, hours) == (48 - time) + random + 2 * hours

\* getWakeupTime: half hours from the time of the day, by the clock of the process, to
\* the next 02:00, a random part of an hour, and the hours of the time zone.  (A file in
\* /tmp may name another time.)
getWakeupTime(time, random, hours) == UntilTwo(time) + random + 2 * hours

\* A change of the power state, as far as the settings are concerned; whether a
\* wake-up time is computed depends on who set one.  The process may run in UTC or in
\* the zone of the box.
StSetPower ==
    /\ StCall
    /\ \E p \in PowerState \ {stMem.power} :
         /\ stMem' = [stMem EXCEPT !.power = p]
         /\ stHw' = p
         /\ stTold' = p
         /\ stAsked' = p
    /\ StWrite(Called)
    /\ IF stTimerSet \/ stBuild.fields < 2
       THEN UNCHANGED <<stTimeout, stWake>>
       ELSE \E now \in Nows, random \in {0, 1}, zone \in Zones,
               answer \in {"zone", "none", "unknown"}, summer, utc \in BOOLEAN :
              LET behind == IF summer THEN zone.summer ELSE zone.winter
                  local == (now - 2 * behind) % 48
              IN  /\ stTimeout' = getWakeupTime(IF utc THEN now ELSE local, random,
                                                getTZDiff(zone, answer))
                  /\ stWake' = [known |-> utc /\ answer = "zone",
                                exact |-> zone.adds = behind,
                                at |-> (now - 2 * behind + stTimeout') % 48]
    /\ UNCHANGED <<stPc, stBuild, stNw, stTimerSet, stLast, stRestarted>>

------------------------------------------------------------------------------
(* Starts *)

\* The manager crashed and is started again; or the box reboots, perhaps with
\* another build; both at any step.
StStart ==
    /\ stBounds.starts < MaxStarts
    /\ stBounds' = [stBounds EXCEPT !.starts = @ + 1]
    /\ \/ stRestarted' = TRUE /\ UNCHANGED <<stBuild, stHw>>
       \/ /\ stRestarted' = FALSE
          /\ stBuild' \in StBuilds
          /\ stHw' \in {"ON", "STANDBY"}
    /\ stPc' = "load"
    /\ stMem' = [power |-> "OFF", timeout |-> 0, nw |-> FALSE]
    /\ stTimeout' = DefaultTimeout
    /\ stNw' = FALSE
    /\ stTimerSet' = FALSE
    /\ stLast' = "ON"
    /\ stTold' = "none"
    /\ stAsked' = stKept
    /\ stWake' = NoWake
    /\ UNCHANGED <<stFile, stKept>>

StNext == StLoad \/ StSync \/ StSetTimeout \/ StSetNw \/ StSetPower \/ StStart

StSpec == StInit /\ [][StNext]_stVars

------------------------------------------------------------------------------
(* Properties *)

\* Whatever restarts, reboots, changes of the build and failures lie between, the box is in
\* the power state it was last put into, and that is in the file if the last write did not
\* fail.  A start goes back to the state of the last write that succeeded; it goes to the
\* state of the build's first start (ON, or STANDBY) if the file is missing, cannot be
\* read, or is of another length and cannot be rewritten; to what the old manager's file
\* says; to STANDBY at the boot of a build that boots to standby, unless the file is of a
\* build with more settings; and to the platform's state if that refuses to change.
PowerKept ==
    stPc = "run" =>
        /\ stMem.power = stAsked
        /\ stFile.ver = 1 => stFile.power = stKept

\* Of a box whose time zone is known, with a power manager that runs in UTC: it wakes up
\* between 01:00 and 04:00 by its own clock, whenever it falls asleep, and between 02:00
\* and 03:00, the "1 hour window" of pwrMgr.c:2388, in the season whose hours the code adds.
\* In the other season, and where the zone is not known, that window is missed.
WakesAtTwo ==
    stWake.known => /\ stWake.at \in 2..7
                    /\ stWake.exact => stWake.at \in {4, 5}

==============================================================================
