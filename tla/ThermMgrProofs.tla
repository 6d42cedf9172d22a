--------------------------- MODULE ThermMgrProofs ----------------------------
(***************************************************************************)
(* Theorems about ThermMgr: under the conditions Undisturbed names, both   *)
(* machines keep the promise of GraceSpec for every value of the           *)
(* thresholds, intervals, readings and bounds.                             *)
(***************************************************************************)
EXTENDS ThermMgr, TLAPS

\* No machine's safe threshold is above its others, nobody sets an interval to 0,
\* and the clock of the box is not set forward.
Undisturbed ==
    /\ \A m \in Machine : Safe[m] <= Concern[m] /\ Safe[m] <= Critical[m]
    /\ 0 \notin GraceCalls
    /\ \A s \in ClockSteps : s <= 0

\* Steps between a reading and the test of machine m.
BeforeTest(m) == IF m = "sleep" THEN {"sleep"} ELSE {"sleep", "sleepZone", "reboot"}

ThType ==
    /\ thPc \in {"off", "read", "sleep", "sleepZone", "reboot", "rebootZone",
                 "declock", "pause"}
    /\ temp \in Int
    /\ up \in Nat
    /\ skew \in Int /\ skew <= 0
    /\ zone \in [Machine -> BOOLEAN]
    /\ start \in [Machine -> Int]
    /\ grace \in [Machine -> Int]
    /\ graceCall \in {"none", "sleep"}
    /\ fired \in [Machine -> BOOLEAN]
    /\ hotSince \in [Machine -> Int]

\* What is true of machine m: it tests an interval only when there is one; the
\* history is about the past; a temperature it has still to look at is in the
\* history; and in the zone its clock was started after the heat began, unless it
\* has still to see that the heat is over.
MachineOK(m) ==
    /\ thPc = ZoneStep(m) => grace[m] # 0
    /\ hotSince[m] # Never => 0 <= hotSince[m] /\ hotSince[m] <= up
    /\ thPc \in BeforeTest(m) /\ temp >= Concern[m] => hotSince[m] # Never
    /\ zone[m] =>
         /\ grace[m] # 0
         /\ \/ hotSince[m] # Never /\ hotSince[m] <= start[m] - skew
            \/ thPc \in BeforeTest(m) /\ temp < Safe[m]

\* The inductive invariant; a call on its way stores an interval that is not 0.
ThInv ==
    /\ ThType
    /\ graceCall = "sleep" => grace["reboot"] # 0
    /\ \A m \in Machine : MachineOK(m)

LEMMA InitInv == Undisturbed /\ ThInit => ThInv
<1> SUFFICES ASSUME ThInit PROVE ThInv
  OBVIOUS
<1>1. grace \in [Machine -> Int]
  BY ThermAssumption DEF ThInit
<1>2. ThType
  BY <1>1, SMT DEF ThInit, ThType, Machine, Never
<1>3. ASSUME NEW m \in Machine PROVE MachineOK(m)
  BY SMT DEF ThInit, MachineOK, Machine, Never, ZoneStep, BeforeTest
<1>4. graceCall # "sleep"
  BY DEF ThInit
<1>. QED
  BY <1>2, <1>3, <1>4 DEF ThInv

LEMMA ReadInv == Undisturbed /\ ThInv /\ (ThRead \/ ThReadFails) => ThInv'
<1> SUFFICES ASSUME Undisturbed, ThInv, ThRead \/ ThReadFails
             PROVE  ThInv'
  OBVIOUS
<1> USE DEF Machine, Never, ZoneStep, BeforeTest
<1>1. CASE ThReadFails
  BY <1>1, SMT DEF ThReadFails, ThInv, ThType, MachineOK, thSettings, thZones, thClock, thTime, thHistory
<1>2. CASE ThRead
  <2>1. PICK r \in Readings : /\ temp' = r.temp
                             /\ hotSince' = [m \in Machine |-> HotSinceAfter(m, r.temp)]
    BY <1>2 DEF ThRead
  <2>2. r.temp \in Int
    BY ThermAssumption
  <2>3. /\ UNCHANGED <<thSettings, thZones, thTime>>
        /\ thPc = "read" /\ thPc' = "sleep"
    BY <1>2 DEF ThRead
  <2>4. ThType'
    BY <2>1, <2>2, <2>3, ThermAssumption, SMT DEF ThInv, ThType, HotSinceAfter, thSettings, thZones, thTime
  <2>5. ASSUME NEW m \in Machine PROVE MachineOK(m)'
    <3>1. hotSince'[m] = HotSinceAfter(m, r.temp)
      BY <2>1
    <3>2. Concern[m] \in Int /\ Safe[m] \in Int
      BY ThermAssumption
    <3>. QED
      BY <2>1, <2>2, <2>3, <2>4, <3>1, <3>2, SMT
         DEF Undisturbed, ThInv, ThType, MachineOK, HotSinceAfter, thSettings, thZones, thTime
  <2>. QED
    BY <2>3, <2>4, <2>5 DEF ThInv, thSettings
<1>. QED
  BY <1>1, <1>2

LEMMA TestInv ==
  ASSUME Undisturbed, ThInv, NEW m \in Machine, ThDisabled(m) \/ ThTest(m) \/ ThZone(m)
  PROVE  ThInv'
<1> USE DEF Machine, Never, ZoneStep, StepAfter
<1>1. UNCHANGED <<temp, grace, graceCall, up, skew, hotSince>>
  BY DEF ThDisabled, ThTest, ThZone, thSettings, thTime, thHistory
<1>2. ThType'
  <2>1. wall \in Int
    BY SMT DEF ThInv, ThType, wall
  <2>2. CASE ThDisabled(m)
    BY <1>1, <2>2, SMT DEF ThInv, ThType, ThDisabled, thZones
  <2>3. CASE ThTest(m)
    <3>1. zone' \in [Machine -> BOOLEAN] /\ start' \in [Machine -> Int] /\ fired' \in [Machine -> BOOLEAN]
      BY <2>1, <2>3 DEF ThInv, ThType, ThTest, thZones
    <3>. QED
      BY <1>1, <2>3, <3>1, SMT DEF ThInv, ThType, ThTest
  <2>4. CASE ThZone(m)
    BY <1>1, <2>4, SMT DEF ThInv, ThType, ThZone
  <2>. QED
    BY <2>2, <2>3, <2>4
<1>3. ASSUME NEW n \in Machine PROVE MachineOK(n)'
  <2>1. Concern[n] \in Int /\ Safe[n] \in Int /\ Critical[n] \in Int
    BY ThermAssumption
  <2>2. Safe[n] <= Concern[n] /\ Safe[n] <= Critical[n]
    BY DEF Undisturbed
  <2> USE <1>1, <1>2, <2>1, <2>2
  <2>3. CASE n = m
    <3>1. CASE ThDisabled(m)
      BY <2>3, <3>1, SMT DEF ThDisabled, ThInv, ThType, MachineOK, BeforeTest, thZones
    <3>2. CASE ThTest(m)
      BY <2>3, <3>2, SMT DEF ThTest, ThInv, ThType, MachineOK, BeforeTest, thZones, wall
    <3>3. CASE ThZone(m)
      BY <2>3, <3>3, SMT DEF ThZone, ThInv, ThType, MachineOK, BeforeTest
    <3>. QED
      BY <3>1, <3>2, <3>3
  <2>4. CASE n # m
    <3>1. zone'[n] = zone[n] /\ start'[n] = start[n]
      BY <2>4, SMT DEF ThDisabled, ThTest, ThZone, ThInv, ThType, thZones
    <3>2. /\ thPc' \in BeforeTest(n) => thPc \in BeforeTest(n)
          /\ thPc' # ZoneStep(n)
          /\ thPc \in BeforeTest(n) => thPc' \in BeforeTest(n)
      BY <2>4, SMT DEF ThDisabled, ThTest, ThZone, BeforeTest
    <3>. QED
      BY <3>1, <3>2, SMT DEF ThInv, ThType, MachineOK
  <2>. QED
    BY <2>3, <2>4
<1>. QED
  BY <1>1, <1>2, <1>3 DEF ThInv

LEMMA OtherInv ==
  ASSUME Undisturbed, ThInv,
         \/ ThDeclock \/ ThPause \/ ThSetGrace \/ ThSetGraceRest
         \/ ThTick \/ ThSetClock \/ ThRestart \/ UNCHANGED thVars
  PROVE  ThInv'
<1> USE DEF Machine, Never, ZoneStep, BeforeTest
<1>1. CASE ThDeclock
  BY <1>1, SMT DEF ThDeclock, ThInv, ThType, MachineOK, thSettings, thZones, thTime, thHistory
<1>2. CASE ThPause
  BY <1>2, SMT DEF ThPause, ThInv, ThType, MachineOK, thSettings, thZones, thHistory
<1>3. CASE ThTick
  BY <1>3, SMT DEF ThTick, ThInv, ThType, MachineOK, thSettings, thZones, thHistory
<1>4. CASE ThSetClock
  <2>1. skew' \in Int /\ skew' <= 0
    BY <1>4, ThermAssumption DEF ThSetClock, Undisturbed
  <2>. QED
    BY <1>4, <2>1, SMT DEF ThSetClock, ThInv, ThType, MachineOK, thSettings, thZones, thHistory
<1>5. CASE ThSetGrace
  <2>1. PICK g \in GraceCalls : grace' = [grace EXCEPT !["reboot"] = g]
    BY <1>5 DEF ThSetGrace
  <2>2. g \in Int /\ g # 0
    BY ThermAssumption DEF Undisturbed
  <2>. QED
    BY <1>5, <2>1, <2>2, SMT DEF ThSetGrace, ThInv, ThType, MachineOK, thZones, thTime, thHistory
<1>6. CASE ThSetGraceRest
  BY <1>6, SMT DEF ThSetGraceRest, ThInv, ThType, MachineOK, thZones, thTime, thHistory
<1>7. CASE ThRestart
  <2>1. grace' \in [Machine -> Int]
    BY <1>7, ThermAssumption DEF ThRestart
  <2>2. ThType'
    BY <1>7, <2>1, SMT DEF ThRestart, ThInv, ThType
  <2>3. ASSUME NEW m \in Machine PROVE MachineOK(m)'
    BY <1>7, SMT DEF ThRestart, MachineOK
  <2>4. graceCall' # "sleep"
    BY <1>7 DEF ThRestart
  <2>. QED
    BY <2>2, <2>3, <2>4 DEF ThInv
<1>8. CASE UNCHANGED thVars
  BY <1>8, SMT DEF thVars, thSettings, thZones, thTime, thHistory, ThInv, ThType, MachineOK
<1>. QED
  BY <1>1, <1>2, <1>3, <1>4, <1>5, <1>6, <1>7, <1>8

LEMMA NextInv == Undisturbed /\ ThInv /\ [ThNext]_thVars => ThInv'
BY ReadInv, TestInv, OtherInv DEF ThNext

\* Both machines are in order in every state.
THEOREM ZonesInOrder == ASSUME Undisturbed PROVE ThSpec => []ThInv
<1>1. ThInit => ThInv
  BY InitInv
<1>2. ThInv /\ [ThNext]_thVars => ThInv'
  BY NextInv
<1>. QED
  BY <1>1, <1>2, PTL DEF ThSpec

------------------------------------------------------------------------------
(* Refinement *)

\* A step of the poll that toggles machine m's command finds it due.
LEMMA FiresWhenDue ==
  ASSUME Undisturbed, ThInv, NEW m \in Machine, NEW n \in Machine,
         ThDisabled(n) \/ ThTest(n) \/ ThZone(n)
  PROVE  /\ UNCHANGED <<temp, hotSince, up, grace>>
         /\ \/ fired'[m] = fired[m]
            \/ /\ fired'[m] = ~fired[m]
               /\ grace[m] # 0
               /\ \/ temp >= Critical[m]
                  \/ hotSince[m] # Never /\ up - hotSince[m] >= grace[m]
<1> USE DEF Machine, Never, ZoneStep, StepAfter
<1>1. UNCHANGED <<temp, hotSince, up, grace>>
  BY DEF ThDisabled, ThTest, ThZone, thSettings, thTime, thHistory
<1>2. CASE m # n \/ ThDisabled(n)
  BY <1>1, <1>2, SMT DEF ThDisabled, ThTest, ThZone, ThInv, ThType, thZones
<1>3. CASE m = n /\ ThTest(n)
  BY <1>1, <1>3, SMT DEF ThTest, ThInv, ThType, thZones
<1>4. CASE m = n /\ ThZone(n)
  BY <1>1, <1>4, SMT DEF ThZone, ThInv, ThType, MachineOK, BeforeTest, wall
<1>. QED
  BY <1>2, <1>3, <1>4

LEMMA RebootStep ==
  Undisturbed /\ ThInv /\ ThInv' /\ [ThNext]_thVars => [RebootGrace!Next]_(RebootGrace!vars)
<1> SUFFICES ASSUME Undisturbed, ThInv, ThInv', [ThNext]_thVars
             PROVE  [RebootGrace!Next]_(RebootGrace!vars)
  OBVIOUS
<1> USE DEF Machine
<1>1. CASE ThRead
  <2>1. /\ temp' \in Int
        /\ hotSince'["reboot"] = HotSinceAfter("reboot", temp')
        /\ UNCHANGED <<up, grace, fired>>
    BY <1>1 DEF ThRead, ThInv, ThType, thSettings, thZones, thTime
  <2>. QED
    BY <2>1 DEF HotSinceAfter, Never, RebootGrace!Next, RebootGrace!Read, RebootGrace!SinceAfter, RebootGrace!Never
<1>2. CASE ThReadFails \/ ThDeclock \/ ThSetGraceRest
  BY <1>2, SMT DEF ThReadFails, ThDeclock, ThSetGraceRest, ThInv, ThType, thSettings, thZones, thTime, thHistory, RebootGrace!vars
<1>3. ASSUME NEW n \in Machine, ThDisabled(n) \/ ThTest(n) \/ ThZone(n)
      PROVE  [RebootGrace!Next]_(RebootGrace!vars)
  BY <1>3, FiresWhenDue, SMT
     DEF Never, RebootGrace!vars, RebootGrace!Next, RebootGrace!Act, RebootGrace!Due, RebootGrace!Never
<1>4. CASE ThPause \/ ThTick
  BY <1>4, SMT DEF ThPause, ThTick, ThInv, ThType, thSettings, thZones, thHistory, RebootGrace!Next, RebootGrace!Pass
<1>5. CASE ThSetGrace
  <2>1. grace'["reboot"] \in Int /\ UNCHANGED <<temp, hotSince, up, fired>>
    BY <1>5 DEF ThSetGrace, ThInv, ThType, thZones, thTime, thHistory
  <2>. QED
    BY <2>1 DEF RebootGrace!Next, RebootGrace!SetGrace
<1>6. CASE ThSetClock
  BY <1>6 DEF ThSetClock, thSettings, thZones, thHistory, RebootGrace!vars
<1>7. CASE ThRestart
  BY <1>7 DEF ThRestart, ThInv, ThType, Never, RebootGrace!Next, RebootGrace!Restart, RebootGrace!Never
<1>8. CASE UNCHANGED thVars
  BY <1>8 DEF thVars, thSettings, thZones, thTime, thHistory, RebootGrace!vars
<1>. QED
  BY <1>1, <1>2, <1>3, <1>4, <1>5, <1>6, <1>7, <1>8 DEF ThNext

\* The reboot logic implements GraceSpec (rebootIfNeeded).
THEOREM RebootRefines == ASSUME Undisturbed PROVE ThSpec => RebootGraceKept
<1>1. ThInit => RebootGrace!Init
  <2>1. ThInit => ThInv
    BY InitInv
  <2>2. ThInit /\ ThType => RebootGrace!Init
    BY DEF ThInit, ThType, Machine, Never, RebootGrace!Init, RebootGrace!Never
  <2>. QED
    BY <2>1, <2>2 DEF ThInv
<1>2. ThInv /\ ThInv' /\ [ThNext]_thVars => [RebootGrace!Next]_(RebootGrace!vars)
  BY RebootStep
<1>. QED
  BY <1>1, <1>2, ZonesInOrder, PTL DEF ThSpec, RebootGraceKept, RebootGrace!Spec

LEMMA SleepStep ==
  Undisturbed /\ ThInv /\ ThInv' /\ [ThNext]_thVars => [SleepGrace!Next]_(SleepGrace!vars)
<1> SUFFICES ASSUME Undisturbed, ThInv, ThInv', [ThNext]_thVars
             PROVE  [SleepGrace!Next]_(SleepGrace!vars)
  OBVIOUS
<1> USE DEF Machine
<1>1. CASE ThRead
  <2>1. /\ temp' \in Int
        /\ hotSince'["sleep"] = HotSinceAfter("sleep", temp')
        /\ UNCHANGED <<up, grace, fired>>
    BY <1>1 DEF ThRead, ThInv, ThType, thSettings, thZones, thTime
  <2>. QED
    BY <2>1 DEF HotSinceAfter, Never, SleepGrace!Next, SleepGrace!Read, SleepGrace!SinceAfter, SleepGrace!Never
<1>2. CASE ThReadFails \/ ThDeclock \/ ThSetGrace
  BY <1>2, SMT DEF ThReadFails, ThDeclock, ThSetGrace, ThInv, ThType, thSettings, thZones, thTime, thHistory, SleepGrace!vars
<1>3. ASSUME NEW n \in Machine, ThDisabled(n) \/ ThTest(n) \/ ThZone(n)
      PROVE  [SleepGrace!Next]_(SleepGrace!vars)
  BY <1>3, FiresWhenDue, SMT
     DEF Never, SleepGrace!vars, SleepGrace!Next, SleepGrace!Act, SleepGrace!Due, SleepGrace!Never
<1>4. CASE ThPause \/ ThTick
  BY <1>4, SMT DEF ThPause, ThTick, ThInv, ThType, thSettings, thZones, thHistory, SleepGrace!Next, SleepGrace!Pass
<1>5. CASE ThSetGraceRest
  <2>1. grace'["sleep"] \in Int /\ UNCHANGED <<temp, hotSince, up, fired>>
    BY <1>5 DEF ThSetGraceRest, ThInv, ThType, thZones, thTime, thHistory
  <2>. QED
    BY <2>1 DEF SleepGrace!Next, SleepGrace!SetGrace
<1>6. CASE ThSetClock
  BY <1>6 DEF ThSetClock, thSettings, thZones, thHistory, SleepGrace!vars
<1>7. CASE ThRestart
  BY <1>7 DEF ThRestart, ThInv, ThType, Never, SleepGrace!Next, SleepGrace!Restart, SleepGrace!Never
<1>8. CASE UNCHANGED thVars
  BY <1>8 DEF thVars, thSettings, thZones, thTime, thHistory, SleepGrace!vars
<1>. QED
  BY <1>1, <1>2, <1>3, <1>4, <1>5, <1>6, <1>7, <1>8 DEF ThNext

\* So does the deep sleep logic (deepSleepIfNeeded).
THEOREM SleepRefines == ASSUME Undisturbed PROVE ThSpec => SleepGraceKept
<1>1. ThInit => SleepGrace!Init
  <2>1. ThInit => ThInv
    BY InitInv
  <2>2. ThInit /\ ThType => SleepGrace!Init
    BY DEF ThInit, ThType, Machine, Never, SleepGrace!Init, SleepGrace!Never
  <2>. QED
    BY <2>1, <2>2 DEF ThInv
<1>2. ThInv /\ ThInv' /\ [ThNext]_thVars => [SleepGrace!Next]_(SleepGrace!vars)
  BY SleepStep
<1>. QED
  BY <1>1, <1>2, ZonesInOrder, PTL DEF ThSpec, SleepGraceKept, SleepGrace!Spec
==============================================================================
