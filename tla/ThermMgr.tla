------------------------------ MODULE ThermMgr -------------------------------
(***************************************************************************)
(* Thermal protection of the power manager (pwrmgr2/therm_mgr.c with the   *)
(* platform calls of therm_mon.c).                                         *)
(*                                                                         *)
(* One thread polls the temperature and runs three state machines on it:   *)
(* "sleep" (deepSleepIfNeeded), "reboot" (rebootIfNeeded) and the CPU      *)
(* clock (declockIfNeeded).  A bus thread may change the two grace periods *)
(* between any two steps of the poll; no lock protects them.  Durations    *)
(* are measured with gettimeofday, that is with `up + skew': the time that *)
(* has really passed and what setting the clock has added.                 *)
(***************************************************************************)
EXTENDS Integers

CONSTANTS
    Readings,       \* what the platform may report: [temp, level]
    Critical,       \* thresholds of each machine, functions on Machine
    Concern,
    Safe,
    DcCritical,     \* thresholds of the clock
    DcConcern,
    DcSafe,
    DcGrace,        \* grace period of the clock
    GraceConfig,    \* grace periods the RFC parameters may configure
    GraceCalls,     \* arguments of SetOvertempGraceInterval
    ClockSteps,     \* by how much setting the clock may move it
    BootSpeeds,     \* clock rates found at start-up
    MaxTime,        \* bound: time that passes
    MaxGraceCalls,  \* bound: calls of SetOvertempGraceInterval
    MaxBoots        \* bound: starts of the manager

Machine == {"sleep", "reboot"}

\* PLAT_CPU_SPEED_MINIMAL, _SCALED and _NORMAL; other rates have other numbers.
MINIMAL == 1
SCALED == 2
NORMAL == 3

ASSUME ThermAssumption ==
    /\ Readings \subseteq [temp : Int, level : STRING]
    /\ Critical \in [Machine -> Int]
    /\ Concern \in [Machine -> Int]
    /\ Safe \in [Machine -> Int]
    /\ {DcCritical, DcConcern, DcSafe, DcGrace} \subseteq Int
    /\ GraceConfig \subseteq Int
    /\ GraceCalls \subseteq Int
    /\ ClockSteps \subseteq Int
    /\ BootSpeeds \subseteq Nat
    /\ {MaxTime, MaxGraceCalls, MaxBoots} \subseteq Nat

Never == -1

VARIABLES
    thPc,       \* the next step of the polling thread
    temp,       \* cur_Thermal_Value
    level,      \* cur_Thermal_Level
    zone,       \* rebootZone and deepSleepZone
    start,      \* monitorTime of both
    grace,      \* thermal_reboot_grace_interval, thermal_deepsleep_grace_interval
    graceCall,  \* the bus thread: the value it still has to store, or "none"
    dcGrace,    \* thermal_declock_grace_interval
    dcStart,    \* monitorTime of declockIfNeeded
    cpu,        \* cur_Cpu_Speed
    up,         \* time that has passed since the box was switched on
    skew,       \* what setting the clock has added to gettimeofday
    boots,      \* number of starts
    calls,      \* number of calls of SetOvertempGraceInterval
    fired,      \* history: toggles with every command of a machine
    hotSince    \* history: since when the temperature counts for a machine

thSettings == <<grace, graceCall, calls>>
thZones == <<zone, start, fired>>
thClock == <<dcGrace, dcStart, cpu>>
thTime == <<up, skew, boots>>
thHistory == <<hotSince>>
thVars == <<thPc, temp, level, thSettings, thZones, thClock, thTime, thHistory>>

wall == up + skew

\* What a start of the manager leaves: initialised statics, settings from RFC,
\* no thread when RFC disables the feature, no declocking when the platform cannot
\* tell its clock rates.  monitorTime starts at the epoch, before or after which
\* the box's own clock may have started.
ThInit ==
    /\ thPc \in {"off", "read"}
    /\ temp = 0
    /\ level = "NORMAL"
    /\ zone = [m \in Machine |-> FALSE]
    /\ start = [m \in Machine |-> 0]
    /\ grace \in [Machine -> GraceConfig]
    /\ graceCall = "none"
    /\ cpu \in BootSpeeds
    /\ dcGrace \in {0, DcGrace}
    /\ dcStart \in {0, -DcGrace}
    /\ up = 0
    /\ skew = 0
    /\ boots = 1
    /\ calls = 0
    /\ fired = [m \in Machine |-> FALSE]
    /\ hotSince = [m \in Machine |-> Never]

\* The box restarts: a reboot command was carried out, or it lost power.
ThRestart ==
    /\ boots < MaxBoots
    /\ boots' = boots + 1
    /\ thPc' = IF thPc = "off" THEN "off" ELSE "read"
    /\ temp' = 0
    /\ level' = "NORMAL"
    /\ zone' = [m \in Machine |-> FALSE]
    /\ start' = [m \in Machine |-> 0]
    /\ grace' \in [Machine -> GraceConfig]
    /\ graceCall' = "none"
    /\ cpu' \in BootSpeeds
    /\ dcGrace' \in {0, DcGrace}
    /\ dcStart' = 0
    /\ fired' = [m \in Machine |-> FALSE]
    /\ hotSince' = [m \in Machine |-> Never]
    /\ UNCHANGED <<up, skew, calls>>

------------------------------------------------------------------------------
(* _PollThermalLevels *)

\* The history for a reading t, as the comments on the settings define it.
HotSinceAfter(m, t) ==
    CASE hotSince[m] = Never /\ t >= Concern[m] -> up
      [] hotSince[m] # Never /\ t < Safe[m]     -> Never
      [] OTHER                                  -> hotSince[m]

\* PLAT_API_GetTemperature succeeds; a new level is broadcast.
ThRead ==
    /\ thPc = "read"
    /\ \E r \in Readings :
         /\ temp' = r.temp
         /\ level' = r.level
         /\ hotSince' = [m \in Machine |-> HotSinceAfter(m, r.temp)]
    /\ thPc' = "sleep"
    /\ UNCHANGED <<thSettings, thZones, thClock, thTime>>

\* It fails: this poll does nothing.
ThReadFails ==
    /\ thPc = "read"
    /\ thPc' = "pause"
    /\ UNCHANGED <<temp, level, thSettings, thZones, thClock, thTime, thHistory>>

\* The order of the calls in the loop; a machine is tested, then its clock.
ZoneStep(m) == IF m = "sleep" THEN "sleepZone" ELSE "rebootZone"
StepAfter(m) == IF m = "sleep" THEN "reboot" ELSE "declock"

\* "This check is disable": the machine keeps its zone and its clock.
ThDisabled(m) ==
    /\ thPc = m
    /\ grace[m] = 0
    /\ thPc' = StepAfter(m)
    /\ UNCHANGED <<temp, level, thSettings, thZones, thClock, thTime, thHistory>>

\* Mutant (RebootGraceKept): the zone is not left when the temperature falls.
Mut_ThTest_NeverLeaves(m) ==
    /\ thPc = m
    /\ grace[m] # 0
    /\ thPc' = ZoneStep(m)
    /\ \/ /\ temp >= Critical[m]
          /\ fired' = [fired EXCEPT ![m] = ~@]
          /\ UNCHANGED <<zone, start>>
       \/ /\ temp < Critical[m] /\ ~zone[m] /\ temp >= Concern[m]
          /\ zone' = [zone EXCEPT ![m] = TRUE]
          /\ start' = [start EXCEPT ![m] = wall]
          /\ UNCHANGED fired
       \/ /\ temp < Critical[m]
          /\ zone[m] \/ temp < Concern[m]
          /\ UNCHANGED thZones
    /\ UNCHANGED <<temp, level, thSettings, thClock, thTime, thHistory>>

\* The chain of conditions at the start of rebootIfNeeded and deepSleepIfNeeded:
\* forced, entering the zone, leaving it, or neither.
ThTest(m) ==
    /\ thPc = m
    /\ grace[m] # 0
    /\ thPc' = ZoneStep(m)
    /\ \/ /\ temp >= Critical[m]
          /\ fired' = [fired EXCEPT ![m] = ~@]
          /\ UNCHANGED <<zone, start>>
       \/ /\ temp < Critical[m] /\ ~zone[m] /\ temp >= Concern[m]
          /\ zone' = [zone EXCEPT ![m] = TRUE]
          /\ start' = [start EXCEPT ![m] = wall]
          /\ UNCHANGED fired
       \/ /\ temp < Critical[m] /\ zone[m] /\ temp < Safe[m]
          /\ zone' = [zone EXCEPT ![m] = FALSE]
          /\ UNCHANGED <<start, fired>>
       \/ /\ temp < Critical[m]
          /\ IF zone[m] THEN temp >= Safe[m] ELSE temp < Concern[m]
          /\ UNCHANGED thZones
    /\ UNCHANGED <<temp, level, thSettings, thClock, thTime, thHistory>>

\* In the zone: act when the grace period has passed.
ThZone(m) ==
    /\ thPc = ZoneStep(m)
    /\ thPc' = StepAfter(m)
    /\ fired' = IF zone[m] /\ wall - start[m] >= grace[m]
                THEN [fired EXCEPT ![m] = ~@] ELSE fired
    /\ UNCHANGED <<temp, level, thSettings, zone, start, thClock, thTime, thHistory>>

\* Whether the clock may be raised.
DcDue == wall - dcStart >= dcGrace

\* The rate declockIfNeeded leaves.  Whether the platform obeyed is not looked at.
ClockFor ==
    CASE temp >= DcCritical                   -> MINIMAL
      [] temp < DcCritical /\ temp >= DcConcern -> IF cpu = NORMAL THEN SCALED ELSE cpu
      [] temp < DcConcern /\ temp > DcSafe    -> IF cpu = MINIMAL /\ DcDue THEN SCALED ELSE cpu
      [] OTHER                                -> IF DcDue THEN NORMAL ELSE cpu

\* When the time is taken anew.
ResetsMonitor ==
    \/ temp >= DcConcern
    \/ temp > DcSafe /\ (cpu # MINIMAL \/ DcDue)

ThDeclock ==
    /\ thPc = "declock"
    /\ thPc' = "pause"
    /\ IF dcGrace = 0
       THEN UNCHANGED <<cpu, dcStart>>
       ELSE /\ cpu' = ClockFor
            /\ dcStart' = IF ResetsMonitor THEN wall ELSE dcStart
    /\ UNCHANGED <<temp, level, thSettings, thZones, dcGrace, thTime, thHistory>>

\* sleep(thermal_poll_interval), the unit of time.
ThPause ==
    /\ thPc = "pause"
    /\ up < MaxTime
    /\ up' = up + 1
    /\ thPc' = "read"
    /\ UNCHANGED <<temp, level, thSettings, thZones, thClock, skew, boots, thHistory>>

------------------------------------------------------------------------------
(* Everything else *)

\* _SetOvertempGraceInterval stores the interval twice, one store after the other.
\* A negative one is refused.
ThSetGrace ==
    /\ thPc # "off" /\ graceCall = "none" /\ calls < MaxGraceCalls
    /\ \E g \in GraceCalls :
         /\ g >= 0
         /\ grace' = [grace EXCEPT !["reboot"] = g]
         /\ graceCall' = "sleep"
    /\ calls' = calls + 1
    /\ UNCHANGED <<thPc, temp, level, thZones, thClock, thTime, thHistory>>

ThSetGraceRest ==
    /\ graceCall # "none"
    /\ grace' = [grace EXCEPT !["sleep"] = grace["reboot"]]
    /\ graceCall' = "none"
    /\ UNCHANGED <<thPc, temp, level, calls, thZones, thClock, thTime, thHistory>>

\* Commands take time (system), and threads wait for the processor.
ThTick ==
    /\ thPc \notin {"off", "pause"}
    /\ up < MaxTime
    /\ up' = up + 1
    /\ UNCHANGED <<thPc, temp, level, thSettings, thZones, thClock, skew, boots, thHistory>>

\* The clock of the box is set, once (NTP).
ThSetClock ==
    /\ skew = 0
    /\ skew' \in ClockSteps
    /\ UNCHANGED <<thPc, temp, level, thSettings, thZones, thClock, up, boots, thHistory>>

ThNext ==
    \/ ThRead \/ ThReadFails
    \/ \E m \in Machine : ThDisabled(m) \/ ThTest(m) \/ ThZone(m)
    \/ ThDeclock \/ ThPause
    \/ ThSetGrace \/ ThSetGraceRest
    \/ ThTick \/ ThSetClock \/ ThRestart

ThSpec == ThInit /\ [][ThNext]_thVars

------------------------------------------------------------------------------
(* Properties *)

RebootGrace == INSTANCE GraceSpec WITH
    Critical <- Critical["reboot"], Concern <- Concern["reboot"], Safe <- Safe["reboot"],
    heat <- temp, since <- hotSince["reboot"], clock <- up,
    grace <- grace["reboot"], fired <- fired["reboot"]

SleepGrace == INSTANCE GraceSpec WITH
    Critical <- Critical["sleep"], Concern <- Concern["sleep"], Safe <- Safe["sleep"],
    heat <- temp, since <- hotSince["sleep"], clock <- up,
    grace <- grace["sleep"], fired <- fired["sleep"]

\* rebootIfNeeded keeps what GraceSpec says of its settings, as long as nobody sets the
\* interval to 0 and the clock of the box is not set forward.
RebootGraceKept == RebootGrace!Spec

\* The same of deepSleepIfNeeded.
SleepGraceKept == SleepGrace!Spec

==============================================================================
