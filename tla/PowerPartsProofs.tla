--------------------------- MODULE PowerPartsProofs ---------------------------
(***************************************************************************)
(* Proofs about four parts of the power managers: the maintenance reboot,  *)
(* the settings file, the older pair of processes and the reset keys.      *)
(***************************************************************************)
EXTENDS MaintReboot, PwrSettings, PowerPair, ResetKeys, WellFoundedInduction, TLAPS

-----------------------------------------------------------------------------
(* MaintReboot *)

MtTypeOK ==
    /\ mtUp \in Nat /\ mtStandby \in Nat
    /\ mtPower \in MtStates
    /\ mtSet \in [pc : {"idle", "power"}, to : MtStates]
    /\ mtBeat \in [pc : {"idle", "rfc", "grace", "power", "force"}, up : Nat]
    /\ mtOffSince \in Int
    /\ mtMoved \in BOOLEAN

\* The box is off since mtOffSince, and standby_time is no older: it is set on
\* the way to every state but ON, without a tick before the state itself.
MtOffOK ==
    /\ mtOffSince = -1 <=> mtPower = "ON"
    /\ mtOffSince <= mtUp
    /\ mtPower # "ON" => mtOffSince <= mtStandby
    /\ mtSet.pc = "power" /\ mtSet.to # "ON" => mtStandby = mtUp

\* A heartbeat that found the grace interval over is right about it, unless the
\* box was switched off since.
MtBeatOK ==
    /\ mtBeat.pc # "idle" => mtBeat.up = mtUp
    /\ mtBeat.pc = "power" /\ ~mtMoved /\ mtPower # "ON" => mtUp - mtOffSince >= Grace

MtInv == MtTypeOK /\ MtOffOK /\ MtBeatOK /\ StandbyRebootEarned

\* The initial state satisfies it.
LEMMA MtInitInv == MtInit => MtInv
<1> SUFFICES ASSUME MtInit PROVE MtInv
  OBVIOUS
<1> USE DEF MtInit, MtStates
<1>1. mtSet \in [pc : {"idle", "power"}, to : MtStates]
  OBVIOUS
<1>2. mtBeat \in [pc : {"idle", "rfc", "grace", "power", "force"}, up : Nat]
  OBVIOUS
<1>3. mtOffSince \in Int
  <2>1. mtOffSince = -1 \/ mtOffSince = 0
    OBVIOUS
  <2> QED BY <2>1
<1>7. mtUp \in Nat /\ mtStandby \in Nat /\ mtMoved \in BOOLEAN
  OBVIOUS
<1>5. mtPower \in MtStates
  OBVIOUS
<1>6. MtTypeOK
  BY <1>1, <1>2, <1>3, <1>5, <1>7 DEF MtTypeOK
<1>4. MtOffOK /\ MtBeatOK /\ StandbyRebootEarned
  BY DEF MtOffOK, MtBeatOK, StandbyRebootEarned, MtNever
<1> QED BY <1>6, <1>4 DEF MtInv

\* Every step preserves it.
LEMMA MtNextInv == MtInv /\ [MtNext]_mtVars => MtInv'
<1> SUFFICES ASSUME MtInv, [MtNext]_mtVars PROVE MtInv'
  OBVIOUS
<1> USE DEF MtInv, MtTypeOK, MtOffOK, MtBeatOK, StandbyRebootEarned, Grace, MtStates
<1>1. CASE MtTick
  BY <1>1 DEF MtTick
<1>2. CASE MtSetTime
  BY <1>2 DEF MtSetTime
<1>3. CASE MtSetPower
  <2>1. mtMoved' \in BOOLEAN /\ (~mtMoved' => ~mtMoved /\ mtPower # "ON")
    BY <1>3, Zenon DEF MtSetPower
  <2>2. mtPower # "ON" /\ mtPower' # "ON" => mtOffSince' = mtOffSince
    BY <1>3 DEF MtSetPower
  <2>3. MtTypeOK' /\ MtOffOK'
    BY <1>3, <2>1 DEF MtSetPower
  <2>4. MtBeatOK' /\ StandbyRebootEarned'
    BY <1>3, <2>1, <2>2 DEF MtSetPower
  <2> QED BY <2>3, <2>4
<1>4. CASE MtRfc
  <2>1. PICK enabled \in BOOLEAN :
           mtBeat' = [mtBeat EXCEPT !.pc = IF enabled /\ mtBeat.up >= mtThreshold'.standby
                                           THEN "grace" ELSE "idle"]
    BY <1>4 DEF MtRfc
  <2>2. mtBeat'.pc \in {"grace", "idle"} /\ mtBeat'.up = mtBeat.up /\ mtBeat.pc = "rfc"
    BY <1>4, <2>1 DEF MtRfc
  <2>3. mtBeat' \in [pc : {"idle", "rfc", "grace", "power", "force"}, up : Nat]
    BY <2>1, <2>2
  <2> QED BY <1>4, <2>2, <2>3 DEF MtRfc
<1>5. CASE MtGrace
  <2>1. /\ mtBeat'.pc = IF mtBeat.up - mtStandby >= 3 THEN "power" ELSE "force"
        /\ mtBeat'.up = mtBeat.up
        /\ mtBeat' \in [pc : {"idle", "rfc", "grace", "power", "force"}, up : Nat]
    BY <1>5 DEF MtGrace
  <2>2. mtBeat.up = mtUp
    BY <1>5 DEF MtGrace
  <2>3. MtTypeOK' /\ MtOffOK'
    BY <1>5, <2>1 DEF MtGrace
  <2>4. mtBeat'.pc = "power" /\ mtPower' # "ON" => mtUp' - mtOffSince' >= 3
    BY <1>5, <2>1, <2>2 DEF MtGrace
  <2> QED BY <1>5, <2>1, <2>2, <2>3, <2>4 DEF MtGrace
<1>6. CASE MtPower
  BY <1>6 DEF MtPower, Decide, isInStandby
<1>7. CASE MtForce
  BY <1>7 DEF MtForce, Decide
<1>8. CASE UNCHANGED mtVars
  BY <1>8 DEF mtVars
<1> QED BY <1>1, <1>2, <1>3, <1>4, <1>5, <1>6, <1>7, <1>8 DEF MtNext

\* The maintenance reboot of a box in standby comes only after it was off for the
\* grace interval, whatever else _SetPowerState writes between the heartbeat's reads;
\* except when it is switched off between the read of standby_time and that of the
\* state, where the unlocked reads mix two standbys.  For any thresholds.
THEOREM RebootEarned == MtSpec => []StandbyRebootEarned
<1>1. MtInv => StandbyRebootEarned
  BY DEF MtInv
<1> QED BY <1>1, MtInitInv, MtNextInv, PTL DEF MtSpec
-----------------------------------------------------------------------------
(* PwrSettings *)

StMems == [power : PowerState, timeout : Nat, nw : BOOLEAN]
StResults == [mem : StMems, last : PowerState, timeout : Nat, nw : BOOLEAN]

StTypeOK ==
    /\ stPc \in {"load", "sync", "run"}
    /\ stBuild \in [fields : 1..4, boot2standby : BOOLEAN]
    /\ stFile \in StFiles
    /\ stMem \in StMems
    /\ stTimeout \in Nat /\ stNw \in BOOLEAN
    /\ stLast \in PowerState /\ stHw \in PowerState
    /\ stAsked \in PowerState /\ stKept \in PowerState

\* The file has the state it was last written with; a start goes back to it, and the
\* memory has what is asked for once the file has been read.
StPowerOK ==
    /\ stFile.ver = 1 => stFile.power = stKept
    /\ stPc = "load" => stAsked = stKept
    /\ stPc \in {"sync", "run"} => stMem.power = stAsked

StInv == StTypeOK /\ StPowerOK /\ WakesAtTwo

\* What a build writes is a file that any build can read, and has the power state.
LEMMA FileOfMem ==
    ASSUME NEW n \in Nat, NEW m \in StMems
    PROVE  FileOf(n, m) \in StFiles /\ FileOf(n, m).ver = 1 /\ FileOf(n, m).power = m.power
  BY DEF FileOf, StFiles, StMems

\* A file is missing, of the old manager, or of a build that counted its fields.
LEMMA FileKinds ==
    ASSUME StTypeOK
    PROVE  /\ stFile.ver \in {-1, 0, 1}
           /\ stFile.ver # -1 => stFile.power \in PowerState
           /\ stFile.ver = 1 => /\ stFile.fields \in Nat /\ stFile.timeout \in Nat
                                /\ stFile.nw \in BOOLEAN
           /\ stBuild.fields \in Nat
  BY DEF StTypeOK, StFiles, NoFile

\* A usable file leads to settings; without a change of the format and a boot to standby
\* they have its power state.
LEMMA FoundOK ==
    ASSUME StTypeOK, stFile.ver # -1
    PROVE  /\ Found(stFile) \in StResults
           /\ stFile.ver = 0 => Found(stFile).mem.power = Convert(stFile.power)
           /\ stFile.ver = 1 =>
                Found(stFile).mem.power =
                    IF ColdStart /\ stFile.fields <= stBuild.fields THEN "STANDBY"
                                                                    ELSE stFile.power
           /\ stFile.ver = 1 => Shorter(stFile).mem \in StMems
                                /\ Shorter(stFile).mem.power = stFile.power
<1> USE FileKinds DEF StTypeOK, StResults, StMems, PowerState
<1>1. CASE stFile.ver = 0
  BY <1>1 DEF Found, Old, Convert
<1>2. CASE stFile.ver = 1
  <2>1. /\ Same(stFile) \in StResults /\ Longer(stFile) \in StResults
        /\ Shorter(stFile) \in StResults
    BY <1>2 DEF Same, Longer, Shorter
  <2>2. /\ Same(stFile).mem.power = IF ColdStart THEN "STANDBY" ELSE stFile.power
        /\ Longer(stFile).mem.power = IF ColdStart THEN "STANDBY" ELSE stFile.power
        /\ Shorter(stFile).mem.power = stFile.power
    BY DEF Same, Longer, Shorter
  <2>3. Shorter(stFile).mem \in StMems
    BY <2>1
  <2>4. \/ stFile.fields = stBuild.fields /\ Found(stFile) = Same(stFile)
        \/ stFile.fields < stBuild.fields /\ Found(stFile) = Longer(stFile)
        \/ stFile.fields > stBuild.fields /\ Found(stFile) = Shorter(stFile)
    BY <1>2 DEF Found
  <2> QED BY <1>2, <2>1, <2>2, <2>3, <2>4
<1> QED BY <1>1, <1>2

\* Every file leads to settings, whatever fails.
LEMMA LoadedOK ==
    ASSUME StTypeOK, NEW failed \in SUBSET Fault
    PROVE  /\ Loaded(stFile, failed) \in StResults
           /\ ~Usable(stFile, failed) => Loaded(stFile, failed).mem.power = DefaultPower
           /\ Usable(stFile, failed) => /\ stFile.ver \in {0, 1}
                                      /\ Loaded(stFile, failed) = Found(stFile)
<1>1. CASE Usable(stFile, failed)
  <2>1. stFile.ver \in {0, 1} /\ Loaded(stFile, failed) = Found(stFile)
    BY <1>1, FileKinds DEF Usable, Loaded
  <2> QED BY <1>1, <2>1, FoundOK
<1>2. CASE ~Usable(stFile, failed)
  <2> DEFINE l == Loaded(stFile, failed)
  <2>1. /\ l = [mem |-> l.mem, last |-> l.last, timeout |-> stTimeout, nw |-> stNw]
        /\ l.mem = [power |-> DefaultPower, timeout |-> stTimeout, nw |-> stNw]
        /\ l.last = stLast \/ (stFile.ver = 1 /\ l.last = stFile.power)
    BY <1>2 DEF Loaded
  <2>2. DefaultPower \in PowerState /\ l.last \in PowerState
    BY <2>1, FileKinds DEF DefaultPower, PowerState, StTypeOK
  <2>3. l.mem \in StMems
    BY <2>1, <2>2 DEF StMems, StTypeOK
  <2> HIDE DEF l
  <2>4. l \in StResults
    BY <2>1, <2>2, <2>3 DEF StResults, StTypeOK
  <2> QED BY <1>2, <2>1, <2>4 DEF l
<1> QED BY <1>1, <1>2

\* The initial state satisfies the invariant.
LEMMA StInitInv == StInit => StInv
<1> SUFFICES ASSUME StInit PROVE StInv
  OBVIOUS
<1> USE SettingsAssumption DEF SettingsAssumption, StInit
<1>1. stMem \in StMems
  BY DEF StMems, PowerState
<1>2. stKept \in PowerState
  BY DEF StFiles, NoFile, PowerState
<1>3. StTypeOK
  BY <1>1, <1>2 DEF StTypeOK, PowerState
<1> QED BY <1>3 DEF StInv, StPowerOK, WakesAtTwo, NoWake

LEMMA StLoadInv == ASSUME StInv, StLoad PROVE StInv'
<1> USE DEF StInv
<1>1. PICK failed \in SUBSET Fault :
         /\ stMem' = Loaded(stFile, failed).mem
         /\ stLast' = Loaded(stFile, failed).last
         /\ stTimeout' = Loaded(stFile, failed).timeout
         /\ stNw' = Loaded(stFile, failed).nw
         /\ stFile' = Saved(stFile, failed)
         /\ stAsked' = IF ~Usable(stFile, failed) THEN DefaultPower
                       ELSE IF stFile.ver = 0 THEN Convert(stFile.power)
                       ELSE IF ColdStart /\ stFile.fields <= stBuild.fields THEN "STANDBY"
                       ELSE stAsked
         /\ stKept' = IF Writes(stFile, failed) THEN stAsked' ELSE stKept
  BY DEF StLoad
<1>2. /\ UNCHANGED <<stBuild, stHw, stWake>> /\ stPc = "load" /\ stPc' = "sync"
      /\ stBuild.fields \in Nat /\ stFile.ver \in {-1, 0, 1}
  BY FileKinds DEF StLoad
<1>3. Loaded(stFile, failed) \in StResults
  BY LoadedOK
<1>4. stMem' \in StMems /\ stLast' \in PowerState /\ stTimeout' \in Nat /\ stNw' \in BOOLEAN
  BY <1>1, <1>3 DEF StResults
<1>5. stMem'.power = stAsked'
  <2>1. CASE ~Usable(stFile, failed)
    BY <1>1, <2>1, LoadedOK
  <2>2. CASE Usable(stFile, failed)
    <3>1. stFile.ver \in {0, 1} /\ stMem'.power = Found(stFile).mem.power
      BY <1>1, <2>2, LoadedOK
    <3>2. stFile.ver = 1 => stAsked = stFile.power
      BY <1>2 DEF StPowerOK
    <3> QED BY <1>1, <2>2, <3>1, <3>2, FoundOK
  <2> QED BY <2>1, <2>2
<1>6. /\ FileOf(stBuild.fields, stMem') \in StFiles /\ FileOf(stBuild.fields, stMem').ver = 1
      /\ FileOf(stBuild.fields, stMem').power = stAsked'
  BY <1>2, <1>4, <1>5, FileOfMem
<1>7. stFile' \in StFiles /\ (stFile'.ver = 1 => stFile'.power = stKept')
  <2>1. CASE Writes(stFile, failed)
    BY <1>1, <1>6, <2>1 DEF Saved
  <2>2. CASE ~Writes(stFile, failed)
    <3>1. stKept' = stKept /\ stFile \in StFiles /\ (stFile.ver = 1 => stFile.power = stKept)
      BY <1>1, <2>2 DEF StTypeOK, StPowerOK
    <3>2. \/ stFile' = stFile
          \/ stFile.ver = 1 /\ stFile' = FileOf(stBuild.fields, Shorter(stFile).mem)
      BY <1>1, <2>2 DEF Saved
    <3>3. stFile.ver = 1 =>
             /\ FileOf(stBuild.fields, Shorter(stFile).mem) \in StFiles
             /\ FileOf(stBuild.fields, Shorter(stFile).mem).power = stFile.power
      <4>1. stFile.ver = 1 => Shorter(stFile).mem \in StMems
                              /\ Shorter(stFile).mem.power = stFile.power
        BY FoundOK
      <4> QED BY <1>2, <4>1, FileOfMem
    <3> QED BY <3>1, <3>2, <3>3
  <2> QED BY <2>1, <2>2
<1>8. stAsked' \in PowerState /\ stKept' \in PowerState
  <2>1. stAsked' \in PowerState
    BY <1>4, <1>5 DEF StMems
  <2> QED BY <1>1, <2>1 DEF StTypeOK
<1>9. StTypeOK'
  BY <1>2, <1>4, <1>7, <1>8 DEF StTypeOK
<1>10. StPowerOK' /\ WakesAtTwo'
  BY <1>2, <1>5, <1>7 DEF StPowerOK, WakesAtTwo
<1> QED BY <1>9, <1>10

\* A write leaves a file with the power state it was to have, or as it was.
LEMMA StWriteOK ==
    ASSUME StInv, NEW bounds, StWrite(bounds), stMem' \in StMems, stMem'.power = stAsked',
           stBuild' = stBuild, stAsked' \in PowerState
    PROVE  /\ stFile' \in StFiles /\ stKept' \in PowerState
           /\ stFile'.ver = 1 => stFile'.power = stKept'
<1>1. stBuild.fields \in Nat
  BY FileKinds DEF StInv
<1>2. CASE stFile' = FileOf(stBuild.fields, stMem') /\ stKept' = stAsked'
  BY <1>1, <1>2, FileOfMem
<1>3. CASE UNCHANGED <<stFile, stKept>>
  BY <1>3 DEF StInv, StTypeOK, StPowerOK
<1> QED BY <1>2, <1>3 DEF StWrite

LEMMA StSyncInv == ASSUME StInv, StSync PROVE StInv'
<1> USE DEF StInv
<1>1. PICK answers \in BOOLEAN, obeys \in BOOLEAN :
         LET refuses == answers /\ ~obeys /\ stHw # stMem.power
         IN  /\ stMem' = [stMem EXCEPT !.power = IF refuses THEN stHw ELSE @]
             /\ stHw' = IF answers THEN stMem'.power ELSE stHw
             /\ stAsked' = IF refuses THEN stHw ELSE stAsked
             /\ IF answers THEN StWrite(stBounds) ELSE UNCHANGED <<stFile, stKept, stBounds>>
  BY DEF StSync
<1>2. UNCHANGED <<stBuild, stTimeout, stNw, stLast, stWake>> /\ stPc = "sync" /\ stPc' = "run"
  BY DEF StSync
<1>3. stMem' \in StMems /\ stMem'.power = stAsked' /\ stHw' \in PowerState
  BY <1>1, <1>2 DEF StTypeOK, StPowerOK, StMems
<1>4. stAsked' \in PowerState
  BY <1>3 DEF StMems
<1>5. /\ stFile' \in StFiles /\ stKept' \in PowerState
      /\ stFile'.ver = 1 => stFile'.power = stKept'
  <2>1. CASE answers
    BY <1>1, <1>2, <1>3, <1>4, <2>1, StWriteOK
  <2>2. CASE ~answers
    BY <1>1, <2>2 DEF StTypeOK, StPowerOK
  <2> QED BY <2>1, <2>2
<1>6. StTypeOK'
  BY <1>2, <1>3, <1>4, <1>5 DEF StTypeOK
<1> QED BY <1>2, <1>3, <1>5, <1>6 DEF StPowerOK, WakesAtTwo

\* The wake-up that is computed takes place in the right hour, or an hour off.
LEMMA WakeUpTime ==
    ASSUME NEW now \in 0..47, NEW random \in {0, 1}, NEW zone \in KnownZones,
           NEW behind \in {zone.summer, zone.winter}
    PROVE  LET at == (now - 2 * behind + getWakeupTime(now, random, zone.adds)) % 48
           IN  at \in 2..7 /\ (zone.adds = behind => at \in {4, 5})
<1>1. zone.adds \in Int /\ behind \in Int /\ zone.adds - behind \in {-1, 0, 1}
  BY DEF KnownZones
<1>2. now + UntilTwo(now) \in {4, 52} /\ UntilTwo(now) \in Int
  BY DEF UntilTwo
<1>3. /\ now - 2 * behind + getWakeupTime(now, random, zone.adds)
           = now + UntilTwo(now) + random + 2 * (zone.adds - behind)
      /\ now + UntilTwo(now) + random + 2 * (zone.adds - behind) \in 2..7 \union 50..55
      /\ zone.adds = behind =>
           now + UntilTwo(now) + random + 2 * (zone.adds - behind) \in {4, 5, 52, 53}
  BY <1>1, <1>2 DEF getWakeupTime
<1> QED BY <1>3

LEMMA StSetPowerWake ==
    ASSUME StInv, StSetPower
    PROVE  WakesAtTwo' /\ stTimeout' \in Nat
<1>1. CASE stTimerSet \/ stBuild.fields < 2
  BY <1>1 DEF StSetPower, StInv, StTypeOK, WakesAtTwo
<1>2. CASE ~(stTimerSet \/ stBuild.fields < 2)
  <2>1. PICK now \in Nows, random \in {0, 1}, zone \in Zones,
             answer \in {"zone", "none", "unknown"}, summer \in BOOLEAN, utc \in BOOLEAN :
           LET behind == IF summer THEN zone.summer ELSE zone.winter
               local == (now - 2 * behind) % 48
           IN  /\ stTimeout' = getWakeupTime(IF utc THEN now ELSE local, random,
                                             getTZDiff(zone, answer))
               /\ stWake' = [known |-> utc /\ answer = "zone",
                             exact |-> zone.adds = behind,
                             at |-> (now - 2 * behind + stTimeout') % 48]
    BY <1>2 DEF StSetPower
  <2> DEFINE behind == IF summer THEN zone.summer ELSE zone.winter
             local == (now - 2 * behind) % 48
             time == IF utc THEN now ELSE local
  <2>2. /\ now \in 0..47 /\ zone \in KnownZones
        /\ behind \in {zone.summer, zone.winter} /\ behind \in Int
    BY SettingsAssumption DEF SettingsAssumption, KnownZones
  <2> HIDE DEF behind
  <2>3. time \in 0..47 /\ getTZDiff(zone, answer) \in Nat
    <3>1. local \in 0..47
      <4>1. now - 2 * behind \in Int
        BY <2>2
      <4> QED BY <4>1
    <3>2. zone.adds \in Nat
      BY <2>2 DEF KnownZones
    <3> QED BY <2>2, <3>1, <3>2 DEF getTZDiff
  <2>4. /\ stTimeout' = getWakeupTime(time, random, getTZDiff(zone, answer))
        /\ stWake' = [known |-> utc /\ answer = "zone", exact |-> zone.adds = behind,
                      at |-> (now - 2 * behind + stTimeout') % 48]
    BY <2>1 DEF behind
  <2> HIDE DEF local
  <2>5. stTimeout' \in Nat
    BY <2>3, <2>4 DEF getWakeupTime, UntilTwo
  <2>6. ASSUME stWake'.known
        PROVE  stWake'.at \in 2..7 /\ (stWake'.exact => stWake'.at \in {4, 5})
    <3>1. utc /\ answer = "zone"
      BY <2>4, <2>6
    <3>2. getTZDiff(zone, answer) = zone.adds /\ time = now
      BY <3>1 DEF getTZDiff
    <3>3. stTimeout' = getWakeupTime(now, random, zone.adds)
      BY <2>4, <3>2
    <3>4. LET at == (now - 2 * behind + getWakeupTime(now, random, zone.adds)) % 48
          IN  at \in 2..7 /\ (zone.adds = behind => at \in {4, 5})
      BY <2>2, WakeUpTime
    <3> QED BY <2>4, <3>3, <3>4
  <2> QED BY <2>5, <2>6 DEF WakesAtTwo
<1> QED BY <1>1, <1>2

LEMMA StCallsInv == ASSUME StInv, StSetTimeout \/ StSetNw \/ StSetPower PROVE StInv'
<1> USE DEF StInv
<1>1. /\ stPc = "run" /\ stPc' = "run" /\ stBuild' = stBuild /\ stLast' = stLast
      /\ StWrite(Called)
  BY DEF StSetTimeout, StSetNw, StSetPower, StCall
<1>2. CASE StSetTimeout \/ StSetNw
  <2>1. /\ stMem' \in StMems /\ stMem'.power = stMem.power /\ stHw' = stHw
        /\ stTimeout' \in Nat /\ stNw' \in BOOLEAN /\ UNCHANGED <<stAsked, stWake>>
    BY <1>2, SettingsAssumption
       DEF StSetTimeout, StSetNw, StTypeOK, StMems, SettingsAssumption
  <2>2. stMem'.power = stAsked' /\ stAsked' \in PowerState
    BY <1>1, <2>1 DEF StTypeOK, StPowerOK
  <2>3. /\ stFile' \in StFiles /\ stKept' \in PowerState
        /\ stFile'.ver = 1 => stFile'.power = stKept'
    BY <1>1, <2>1, <2>2, StWriteOK
  <2>4. StTypeOK'
    BY <1>1, <2>1, <2>2, <2>3 DEF StTypeOK
  <2> QED BY <1>1, <2>1, <2>2, <2>3, <2>4 DEF StPowerOK, WakesAtTwo
<1>3. CASE StSetPower
  <2>1. PICK p \in PowerState :
           stMem' = [stMem EXCEPT !.power = p] /\ stHw' = p /\ stAsked' = p
    BY <1>3 DEF StSetPower
  <2>2. stMem' \in StMems /\ stMem'.power = stAsked' /\ stAsked' \in PowerState
    BY <2>1 DEF StTypeOK, StMems
  <2>3. /\ stFile' \in StFiles /\ stKept' \in PowerState
        /\ stFile'.ver = 1 => stFile'.power = stKept'
    BY <1>1, <2>2, StWriteOK
  <2>4. WakesAtTwo' /\ stTimeout' \in Nat /\ stNw' = stNw
    BY <1>3, StSetPowerWake DEF StSetPower
  <2>5. StTypeOK'
    BY <1>1, <2>1, <2>2, <2>3, <2>4 DEF StTypeOK
  <2> QED BY <1>1, <2>2, <2>3, <2>4, <2>5 DEF StPowerOK
<1> QED BY <1>2, <1>3

LEMMA StStartInv == ASSUME StInv, StStart PROVE StInv'
<1> USE SettingsAssumption DEF SettingsAssumption, StInv, StStart
<1>1. stMem' \in StMems
  BY DEF StMems, PowerState
<1>2. stBuild' \in [fields : 1..4, boot2standby : BOOLEAN] /\ stHw' \in PowerState
  BY DEF StTypeOK, PowerState
<1>3. StTypeOK'
  BY <1>1, <1>2 DEF StTypeOK, PowerState
<1>4. StPowerOK' /\ WakesAtTwo'
  BY DEF StPowerOK, WakesAtTwo, NoWake
<1> QED BY <1>3, <1>4

\* Every step preserves it.
LEMMA StNextInv == StInv /\ [StNext]_stVars => StInv'
<1> SUFFICES ASSUME StInv, [StNext]_stVars PROVE StInv'
  OBVIOUS
<1>1. CASE UNCHANGED stVars
  BY <1>1 DEF stVars, stSettings, StInv, StTypeOK, StPowerOK, WakesAtTwo
<1> QED BY <1>1, StLoadInv, StSyncInv, StCallsInv, StStartInv DEF StNext

\* The box is in the power state it was last put into and the file has what it was last
\* written with, for any sequence of restarts, reboots, builds, calls and failures of the
\* file; what a start goes back to after a failure is said at PowerKept.
THEOREM PowerStateKept == StSpec => []PowerKept
<1>1. StInv => PowerKept
  BY DEF StInv, StPowerOK, PowerKept
<1> QED BY <1>1, StInitInv, StNextInv, PTL DEF StSpec

\* Whenever the box falls asleep, in every zone the code knows and either season, it
\* wakes up between 01:00 and 04:00 of its own clock, and between 02:00 and 03:00 if the
\* hours that the code adds are in force; with a power manager that runs in UTC.
THEOREM MaintenanceAtTwo == StSpec => []WakesAtTwo
<1>1. StInv => WakesAtTwo
  BY DEF StInv
<1> QED BY <1>1, StInitInv, StNextInv, PTL DEF StSpec

-----------------------------------------------------------------------------
(* PowerPair *)

PpPcs == {"idle", "enter", "voice", "ask", "wake", "restart", "change", "post"}

PpTypeOK ==
    /\ ppPc \in [Thread -> PpPcs]
    /\ ppNew \in [Thread -> {"ON", "STANDBY", "LIGHT", "DEEP"}]
    /\ ppEvents \in Seq({"DEEP", "TIMEOUT"})
    /\ ppSleep \in {"STANDBY", "DEEP"}
    /\ ppBuild \in [byEvent: BOOLEAN, reboots: BOOLEAN, wakesTo: {"ON", "STANDBY"}]
    /\ ppBoot \in BOOLEAN

\* A deep sleep is on its way to the deep sleep manager, or begins, or is on.
Announced == \E i \in DOMAIN ppEvents : ppEvents[i] = "DEEP"
\* With a delay that includes the time before the deep sleep and, because its status
\* stays, all the time after.
Asleep ==
    \/ ppHandler \in {"stopping", "asleep"}
    \/ ppDelayed # "none" \/ ppLoop # "idle"
Moving(t) == ppPc[t] \in {"wake", "restart", "change", "post"}

\* One call changes the state at a time,
OneChange == \A t, u \in Thread : Changing(t) /\ Changing(u) => t = u
\* and none gets past the question for the status from the announcement of a deep
\* sleep to its end: the state is DEEP and the timer of the start is gone.
PpSleepOK ==
    Announced \/ Asleep => ppPower = "DEEP" /\ ~ppBoot /\ \A t \in Thread : ~Moving(t)
PpStatusOK == Asleep => ppStatus = "InProgress"
\* There is one deep sleep: announced once, then on one thread.
DeepOnce ==
    \A i, j \in DOMAIN ppEvents : ppEvents[i] = "DEEP" /\ ppEvents[j] = "DEEP" => i = j
OneHandler ==
    ppHandler \in {"stopping", "asleep"} => ppDelayed = "none" /\ ppLoop = "idle"
PpOneSleep == DeepOnce /\ OneHandler /\ (Announced => ~Asleep)
\* What is announced is what was stored.
PpPostOK == \A t \in Thread : ppPc[t] = "post" => ppPower = ppNew[t]
\* The first call that changes the state takes the timer of the start away.
PpBootOK == ppBoot => \A t \in Thread : ~Changing(t)

PpRest == OneChange /\ PpSleepOK /\ PpStatusOK /\ PpOneSleep /\ PpPostOK /\ PpBootOK
PpInv == PpTypeOK /\ (Fair /\ ~ppRebooting => PpRest)

LEMMA PpInitInv == PpInit => PpInv
<1> SUFFICES ASSUME PpInit PROVE PpInv
  OBVIOUS
<1> USE DEF PpInit, Thread
<1>1. PpTypeOK
  <2>1. ppPc \in [Thread -> PpPcs] /\ ppNew \in [Thread -> {"ON", "STANDBY", "LIGHT", "DEEP"}]
    BY DEF PpPcs
  <2>2. ppBuild \in [byEvent: BOOLEAN, reboots: BOOLEAN, wakesTo: {"ON", "STANDBY"}]
    BY PairAssumption DEF PairAssumption
  <2>3. ppEvents \in Seq({"DEEP", "TIMEOUT"}) /\ ppSleep \in {"STANDBY", "DEEP"}
    OBVIOUS
  <2> QED BY <2>1, <2>2, <2>3 DEF PpTypeOK
<1>2. ~Announced /\ ~Asleep /\ \A t \in Thread : ppPc[t] = "idle"
  BY DEF Announced, Asleep
<1>3. PpRest
  BY <1>2 DEF PpRest, OneChange, PpSleepOK, PpStatusOK, PpOneSleep, DeepOnce, OneHandler,
              PpPostOK, PpBootOK, Changing
<1> QED BY <1>1, <1>3 DEF PpInv

\* Where a thread is and what it asks for, when one thread takes a step.
LEMMA GotoType ==
    ASSUME PpTypeOK, NEW t \in Thread, NEW from, NEW to \in PpPcs, Goto(t, from, to)
    PROVE  /\ ppPc' \in [Thread -> PpPcs]
           /\ ppPc[t] = from /\ ppPc'[t] = to
           /\ \A u \in Thread \ {t} : ppPc'[u] = ppPc[u]
  BY DEF PpTypeOK, Goto

LEMMA AppendEvent ==
    ASSUME PpTypeOK, NEW e \in {"DEEP", "TIMEOUT"}, ppEvents' = Append(ppEvents, e)
    PROVE  /\ ppEvents' \in Seq({"DEEP", "TIMEOUT"})
           /\ Announced' => Announced \/ e = "DEEP"
           /\ DeepOnce /\ e = "TIMEOUT" => DeepOnce'
           /\ ~Announced => DeepOnce'
<1>1. /\ ppEvents' \in Seq({"DEEP", "TIMEOUT"}) /\ Len(ppEvents) \in Nat
      /\ DOMAIN ppEvents = 1..Len(ppEvents) /\ DOMAIN ppEvents' = 1..(Len(ppEvents) + 1)
      /\ \A i \in DOMAIN ppEvents : ppEvents'[i] = ppEvents[i]
      /\ ppEvents'[Len(ppEvents) + 1] = e
  BY DEF PpTypeOK
<1>2. \A i \in DOMAIN ppEvents' : i \in DOMAIN ppEvents \/ i = Len(ppEvents) + 1
  BY <1>1
<1> QED BY <1>1, <1>2 DEF Announced, DeepOnce

LEMMA TakeEvent ==
    ASSUME PpTypeOK, ppEvents # <<>>, ppEvents' = Tail(ppEvents)
    PROVE  /\ ppEvents' \in Seq({"DEEP", "TIMEOUT"})
           /\ Announced' => Announced
           /\ Head(ppEvents) = "DEEP" => Announced
           /\ DeepOnce => DeepOnce' /\ (Head(ppEvents) = "DEEP" => ~Announced')
<1>1. /\ ppEvents' \in Seq({"DEEP", "TIMEOUT"}) /\ Len(ppEvents) \in Nat \ {0}
      /\ DOMAIN ppEvents = 1..Len(ppEvents) /\ DOMAIN ppEvents' = 1..(Len(ppEvents) - 1)
      /\ \A i \in DOMAIN ppEvents' : ppEvents'[i] = ppEvents[i + 1]
      /\ Head(ppEvents) = ppEvents[1]
  BY DEF PpTypeOK
<1>2. \A i \in DOMAIN ppEvents' : i + 1 \in DOMAIN ppEvents /\ i + 1 # 1
  BY <1>1
<1>3. 1 \in DOMAIN ppEvents
  BY <1>1
<1>4. DeepOnce => DeepOnce'
  <2> SUFFICES ASSUME DeepOnce, NEW i \in DOMAIN ppEvents', NEW j \in DOMAIN ppEvents',
                      ppEvents'[i] = "DEEP", ppEvents'[j] = "DEEP"
               PROVE  i = j
    BY DEF DeepOnce
  <2>1. i + 1 = j + 1
    BY <1>1, <1>2 DEF DeepOnce
  <2> QED BY <1>1, <2>1
<1>5. DeepOnce /\ Head(ppEvents) = "DEEP" => ~Announced'
  BY <1>1, <1>2, <1>3 DEF DeepOnce, Announced
<1> QED BY <1>1, <1>2, <1>3, <1>4, <1>5 DEF Announced

\* _SetPowerState keeps it.
LEMMA PowerStepInv == ASSUME PpInv, NEW t \in Thread, PowerStep(t) PROVE PpInv'
<1> USE DEF PpInv, PpRest, Fair, ppState, ppThreads, ppBus, ppDeep, ppHistory
<1>0. PpTypeOK /\ "idle" \in PpPcs /\ "ask" \in PpPcs /\ "change" \in PpPcs /\ "post" \in PpPcs
      /\ "wake" \in PpPcs /\ "restart" \in PpPcs
  BY DEF PpPcs
<1>1. CASE Enter(t)
  <2> DEFINE to == IF ppPower = ppNew[t] THEN "idle"
                   ELSE IF ppPower = "DEEP" THEN "ask" ELSE "change"
  <2>1. /\ ppPc' \in [Thread -> PpPcs] /\ ppPc[t] = "enter" /\ ppPc'[t] = to
        /\ \A u \in Thread \ {t} : ppPc'[u] = ppPc[u]
    BY <1>0, <1>1, GotoType DEF Enter
  <2>2. /\ UNCHANGED <<ppNew, ppEvents, ppSleep, ppBuild, ppPower, ppHandler, ppDelayed,
                       ppLoop, ppStatus, ppEarly, ppRebooting>>
        /\ ppBoot' \in BOOLEAN /\ (ppBoot' => ppBoot) /\ (ppOverlap => ppOverlap')
    BY <1>0, <1>1 DEF Enter, PpTypeOK
  <2>3. PpTypeOK'
    BY <2>1, <2>2 DEF PpTypeOK
  <2>4. ASSUME ~ppEarly', ~ppOverlap', ~ppRebooting' PROVE PpRest'
    <3>1. OneChange /\ PpSleepOK /\ PpStatusOK /\ PpOneSleep /\ PpPostOK /\ PpBootOK
      BY <2>2, <2>4
    <3>2. CASE ppPower = ppNew[t]
      BY <2>1, <2>2, <3>1, <3>2
         DEF OneChange, PpSleepOK, PpStatusOK, PpOneSleep, DeepOnce, OneHandler, PpPostOK,
             PpBootOK, Changing, Moving, Announced, Asleep
    <3>3. CASE ppPower # ppNew[t]
      <4>1. \A u \in Thread \ {t} : ~Changing(u) /\ ~Changing(u)'
        BY <1>1, <2>1, <2>4, <3>3 DEF Enter, Changing
      <4>2. OneChange'
        BY <4>1 DEF OneChange
      <4>3. PpSleepOK'
        BY <2>1, <2>2, <3>1, <3>3 DEF PpSleepOK, Moving, Announced, Asleep
      <4>4. PpStatusOK' /\ PpPostOK' /\ PpOneSleep'
        BY <2>1, <2>2, <3>1, <3>3
           DEF PpStatusOK, PpPostOK, PpOneSleep, DeepOnce, OneHandler, Announced, Asleep
      <4>5. PpBootOK'
        BY <1>1, <3>3 DEF Enter, PpBootOK
      <4> QED BY <4>2, <4>3, <4>4, <4>5
    <3> QED BY <3>2, <3>3
  <2> QED BY <2>3, <2>4
<1>2. CASE Ask(t)
  <2>1. /\ ppPc' \in [Thread -> PpPcs] /\ ppPc[t] = "ask"
        /\ \/ ppPc'[t] = "idle"
           \/ /\ ppPc'[t] = "wake" /\ ppStatus # "InProgress"
              /\ ppEarly' = (ppEarly \/ ppEvents # <<>>)
        /\ \A u \in Thread \ {t} : ppPc'[u] = ppPc[u]
    BY <1>0, <1>2, GotoType DEF Ask
  <2>2. PpTypeOK'
    BY <1>2, <2>1 DEF Ask, PpTypeOK
  <2>3. ASSUME ~ppEarly', ~ppOverlap', ~ppRebooting' PROVE PpRest'
    <3>1. OneChange /\ PpSleepOK /\ PpStatusOK /\ PpOneSleep /\ PpPostOK /\ PpBootOK
      BY <1>2, <2>3 DEF Ask
    <3>2. OneChange' /\ PpPostOK' /\ PpBootOK' /\ PpStatusOK' /\ PpOneSleep'
      BY <1>2, <2>1, <3>1
         DEF Ask, OneChange, PpPostOK, PpBootOK, PpStatusOK, PpOneSleep, DeepOnce, OneHandler,
             Changing, Announced, Asleep
    <3>3. CASE ppPc'[t] = "idle"
      BY <1>2, <2>1, <3>1, <3>2, <3>3 DEF Ask, PpSleepOK, Moving, Announced, Asleep
    <3>4. CASE ppPc'[t] = "wake"
      <4>1. ppEvents = <<>> /\ ~Asleep
        BY <2>1, <2>3, <3>1, <3>4 DEF PpStatusOK
      <4>2. ~Announced' /\ ~Asleep'
        BY <1>2, <4>1 DEF Ask, Announced, Asleep
      <4> QED BY <3>2, <4>2 DEF PpSleepOK
    <3> QED BY <2>1, <3>3, <3>4
  <2> QED BY <2>2, <2>3
<1>3. CASE Wake(t) \/ Restart(t) \/ Change(t)
  <2>1. /\ ppPc' \in [Thread -> PpPcs] /\ ppPc[t] \in {"wake", "restart", "change"}
        /\ ppPc'[t] = "post" <=> ppPc[t] = "change"
        /\ ppPc'[t] \in {"restart", "change", "post"}
        /\ \A u \in Thread \ {t} : ppPc'[u] = ppPc[u]
    BY <1>0, <1>3, GotoType DEF Wake, Restart, Change
  <2>2. /\ UNCHANGED <<ppNew, ppEvents, ppSleep, ppBuild, ppBoot, ppHandler, ppLoop, ppEarly,
                       ppRebooting>>
        /\ ppDelayed = "none" => ppDelayed' = "none"
        /\ ppPower' = IF ppPc[t] = "change" THEN ppNew[t] ELSE ppPower
        /\ ~ppOverlap' => ~ppOverlap
    <3>1. CASE Wake(t)
      BY <3>1 DEF Wake, Goto
    <3>2. CASE Restart(t)
      BY <3>2 DEF Restart, Goto
    <3>3. CASE Change(t)
      BY <3>3 DEF Change, Goto
    <3> QED BY <1>3, <3>1, <3>2, <3>3
  <2>3. PpTypeOK'
    BY <2>1, <2>2 DEF PpTypeOK
  <2>4. ASSUME ~ppEarly', ~ppOverlap', ~ppRebooting' PROVE PpRest'
    <3>1. OneChange /\ PpSleepOK /\ PpStatusOK /\ PpOneSleep /\ PpPostOK /\ PpBootOK
      BY <2>2, <2>4
    <3>2. Changing(t) /\ Moving(t)
      BY <2>1 DEF Changing, Moving
    <3>3. \A u \in Thread \ {t} : ~Changing(u) /\ ~Changing(u)'
      BY <2>1, <3>1, <3>2 DEF OneChange, Changing
    <3>4. ~Announced' /\ ~Asleep'
      <4>1. ~Announced /\ ~Asleep
        BY <3>1, <3>2 DEF PpSleepOK
      <4> QED BY <2>2, <4>1 DEF Announced, Asleep
    <3>5. ~ppBoot'
      BY <2>2, <3>1, <3>2 DEF PpBootOK
    <3>6. PpPostOK'
      <4> SUFFICES ASSUME NEW u \in Thread, ppPc'[u] = "post" PROVE ppPower' = ppNew'[u]
        BY DEF PpPostOK
      <4>1. u = t
        BY <3>3 DEF Changing
      <4> QED BY <2>1, <2>2, <4>1
    <3>7. PpOneSleep'
      BY <2>2, <3>1, <3>4 DEF PpOneSleep, DeepOnce, OneHandler, Asleep
    <3> QED BY <3>3, <3>4, <3>5, <3>6, <3>7 DEF OneChange, PpSleepOK, PpStatusOK, PpBootOK
  <2> QED BY <2>3, <2>4
<1>4. CASE Post(t)
  <2>1. /\ ppPc' \in [Thread -> PpPcs] /\ ppPc[t] = "post" /\ ppPc'[t] = "idle"
        /\ \A u \in Thread \ {t} : ppPc'[u] = ppPc[u]
    BY <1>0, <1>4, GotoType DEF Post
  <2>2. /\ ppEvents' \in Seq({"DEEP", "TIMEOUT"})
        /\ Announced' => Announced \/ ppNew[t] = "DEEP"
        /\ DeepOnce /\ ~Announced => DeepOnce'
    <3>1. CASE ppNew[t] = "DEEP"
      BY <1>4, <3>1, AppendEvent DEF Post
    <3>2. CASE ppNew[t] # "DEEP"
      BY <1>4, <3>2 DEF Post, PpTypeOK, Announced, DeepOnce
    <3> QED BY <3>1, <3>2
  <2>3. PpTypeOK'
    BY <1>4, <2>1, <2>2 DEF Post, PpTypeOK
  <2>4. ASSUME ~ppEarly', ~ppOverlap', ~ppRebooting' PROVE PpRest'
    <3>1. OneChange /\ PpSleepOK /\ PpStatusOK /\ PpOneSleep /\ PpPostOK /\ PpBootOK
      BY <1>4, <2>4 DEF Post
    <3>2. Changing(t) /\ Moving(t) /\ ppPower = ppNew[t]
      BY <2>1, <3>1 DEF Changing, Moving, PpPostOK
    <3>3. \A u \in Thread : ~Changing(u)' /\ ~Moving(u)' /\ ppPc'[u] # "post"
      BY <2>1, <3>1, <3>2 DEF OneChange, Changing, Moving
    <3>4. ~Announced /\ ~Asleep' /\ ~ppBoot' /\ ppPower' = ppPower
      BY <1>4, <3>1, <3>2 DEF Post, PpSleepOK, PpBootOK, Asleep
    <3>5. PpOneSleep'
      BY <2>2, <3>1, <3>4 DEF PpOneSleep, OneHandler, Asleep
    <3> QED BY <2>2, <3>2, <3>3, <3>4, <3>5
            DEF OneChange, PpSleepOK, PpStatusOK, PpPostOK, PpBootOK
  <2> QED BY <2>3, <2>4
<1> QED BY <1>1, <1>2, <1>3, <1>4 DEF PowerStep

\* Steps that move no thread into a change, announce no deep sleep and begin none
\* keep it, if they leave the state alone or change it while no call does.
LEMMA QuietStep ==
    ASSUME PpInv,
           ppPc' \in [Thread -> PpPcs],
           ppNew' \in [Thread -> {"ON", "STANDBY", "LIGHT", "DEEP"}],
           ppEvents' \in Seq({"DEEP", "TIMEOUT"}),
           ppSleep' \in {"STANDBY", "DEEP"},
           UNCHANGED <<ppBuild, ppBoot>>,
           \A t \in Thread : \/ ppPc'[t] \in {"idle", "enter", "voice"}
                             \/ ppPc'[t] = ppPc[t] /\ ppNew'[t] = ppNew[t],
           Announced' => Announced,
           DeepOnce => DeepOnce',
           OneHandler => OneHandler' /\ (Asleep' => Asleep /\ ppStatus' = ppStatus),
           Fair' /\ ~ppRebooting' =>
              /\ Fair /\ ~ppRebooting
              /\ \/ ppPower' = ppPower
                 \/ (\A t \in Thread : ~Changing(t)) /\ (ppPower' = "DEEP" \/ ppBoot)
    PROVE  PpInv'
<1>1. PpTypeOK'
  BY DEF PpInv, PpTypeOK
<1>2. ASSUME Fair', ~ppRebooting' PROVE PpRest'
  <2>1. OneChange /\ PpSleepOK /\ PpStatusOK /\ PpOneSleep /\ PpPostOK /\ PpBootOK
    BY <1>2 DEF PpInv, PpRest
  <2>2. \A t \in Thread : Changing(t)' => /\ Changing(t)
                                          /\ ppPc'[t] = ppPc[t] /\ ppNew'[t] = ppNew[t]
    BY DEF Changing
  <2>3. \A t \in Thread : Moving(t)' => Moving(t)
    BY DEF Moving
  <2>4. \A t \in Thread : ppPc'[t] = "post" => ppPc[t] = "post" /\ Changing(t)
                                               /\ ppNew'[t] = ppNew[t]
    BY <2>2 DEF Changing
  <2>0. OneHandler' /\ DeepOnce' /\ (Asleep' => Asleep /\ ppStatus' = ppStatus)
    BY <2>1 DEF PpOneSleep
  <2>5. OneChange' /\ PpBootOK' /\ PpStatusOK' /\ PpOneSleep'
    BY <2>0, <2>1, <2>2 DEF OneChange, PpBootOK, PpStatusOK, PpOneSleep
  <2>6. PpPostOK'
    BY <1>2, <2>1, <2>4 DEF PpPostOK
  <2>7. PpSleepOK'
    BY <1>2, <2>0, <2>1, <2>3 DEF PpSleepOK
  <2> QED BY <2>5, <2>6, <2>7 DEF PpRest
<1> QED BY <1>1, <1>2 DEF PpInv

LEMMA CallsType ==
    ASSUME PpTypeOK, NEW t \in Thread, NEW s \in {"ON", "STANDBY", "LIGHT", "DEEP"}, Calls(t, s)
    PROVE  /\ ppPc' \in [Thread -> PpPcs]
           /\ ppNew' \in [Thread -> {"ON", "STANDBY", "LIGHT", "DEEP"}]
           /\ \A u \in Thread : \/ ppPc'[u] \in {"idle", "enter", "voice"}
                                \/ ppPc'[u] = ppPc[u] /\ ppNew'[u] = ppNew[u]
  BY DEF PpTypeOK, PpPcs, Calls, Goto

\* Keys, calls and the other events of the power manager.
LEMMA ClientInv ==
    ASSUME PpInv,
           \/ Call \/ Key \/ Ghost \/ VoiceLooks \/ VoiceKey \/ WakeKey
           \/ _sleepModeChangeHandler \/ _systemStateChangeHandler
    PROVE  PpInv'
<1> USE DEF Fair, ppState, ppThreads, ppBus, ppDeep, ppHistory
<1>0. PpTypeOK /\ {"events", "calls"} \subseteq Thread
  BY DEF PpInv, Thread
<1>1. /\ UNCHANGED <<ppBuild, ppBoot, ppEvents, ppHandler, ppDelayed, ppLoop, ppStatus,
                     ppEarly, ppOverlap>>
      /\ ppSleep' \in {"STANDBY", "DEEP"}
      /\ ~ppRebooting' => ppPower' = ppPower /\ ~ppRebooting
  <2>1. CASE Call \/ Ghost \/ VoiceLooks \/ WakeKey
    BY <1>0, <2>1 DEF Call, Ghost, VoiceLooks, WakeKey, PpTypeOK
  <2>2. CASE Key \/ VoiceKey
    BY <1>0, <2>2 DEF Key, VoiceKey, PpTypeOK
  <2>3. CASE _sleepModeChangeHandler \/ _systemStateChangeHandler
    BY <1>0, <2>3 DEF _sleepModeChangeHandler, _systemStateChangeHandler, PpTypeOK
  <2> QED BY <2>1, <2>2, <2>3
<1>2. /\ ppPc' \in [Thread -> PpPcs]
      /\ ppNew' \in [Thread -> {"ON", "STANDBY", "LIGHT", "DEEP"}]
      /\ \A t \in Thread : \/ ppPc'[t] \in {"idle", "enter", "voice"}
                           \/ ppPc'[t] = ppPc[t] /\ ppNew'[t] = ppNew[t]
  <2>1. CASE Call
    BY <1>0, <2>1, CallsType, PairAssumption DEF Call, PairAssumption
  <2>2. Toggled \in {"ON", "STANDBY", "LIGHT", "DEEP"}
        /\ ppBuild.wakesTo \in {"ON", "STANDBY", "LIGHT", "DEEP"}
    BY <1>0 DEF Toggled, PpTypeOK
  <2>3. CASE Key
    <3>1. CASE UNCHANGED ppThreads
      BY <1>0, <3>1 DEF PpTypeOK
    <3>2. CASE ~UNCHANGED ppThreads
      <4>1. \E s \in {"ON", "STANDBY", "LIGHT", "DEEP"} : Calls("events", s)
        BY <2>2, <2>3, <3>2 DEF Key
      <4> QED BY <1>0, <4>1, CallsType
    <3> QED BY <3>1, <3>2
  <2>4. CASE Ghost
    BY <1>0, <2>4, CallsType DEF Ghost
  <2>5. CASE VoiceLooks
    BY <1>0, <2>5 DEF VoiceLooks, PpTypeOK, PpPcs, Goto
  <2>6. CASE VoiceKey
    <3>1. ppNew' \in [Thread -> {"ON", "STANDBY", "LIGHT", "DEEP"}]
          /\ \A u \in Thread \ {"events"} : ppNew'[u] = ppNew[u]
      BY <1>0, <2>2, <2>6 DEF VoiceKey, PpTypeOK
    <3>2. PICK to \in {"enter", "idle"} : Goto("events", "voice", to)
      BY <2>6 DEF VoiceKey
    <3>3. ppPc' \in [Thread -> PpPcs] /\ ppPc'["events"] = to
          /\ \A u \in Thread \ {"events"} : ppPc'[u] = ppPc[u]
      BY <1>0, <3>2 DEF Goto, PpTypeOK, PpPcs
    <3> QED BY <3>1, <3>2, <3>3
  <2>7. CASE WakeKey
    <3>1. CASE UNCHANGED ppThreads
      BY <1>0, <3>1 DEF PpTypeOK
    <3>2. CASE ~UNCHANGED ppThreads
      <4>1. \E s \in {"ON", "STANDBY", "LIGHT", "DEEP"} : Calls("events", s)
        BY <2>2, <2>7, <3>2 DEF WakeKey
      <4> QED BY <1>0, <4>1, CallsType
    <3> QED BY <3>1, <3>2
  <2>8. CASE _sleepModeChangeHandler \/ _systemStateChangeHandler
    BY <1>0, <2>8 DEF _sleepModeChangeHandler, _systemStateChangeHandler, PpTypeOK
  <2> QED BY <2>1, <2>3, <2>4, <2>5, <2>6, <2>7, <2>8
<1>3. /\ (Announced' <=> Announced) /\ (Asleep' <=> Asleep) /\ (DeepOnce => DeepOnce')
      /\ (OneHandler => OneHandler') /\ ppEvents' \in Seq({"DEEP", "TIMEOUT"})
  BY <1>0, <1>1 DEF Announced, Asleep, DeepOnce, OneHandler, PpTypeOK
<1> QED BY <1>1, <1>2, <1>3, QuietStep

\* A wake-up by the timer: the event, or the state DEEP and a call on the timers' thread.
LEMMA TimeoutType ==
    ASSUME PpTypeOK, Timeout
    PROVE  /\ ppPc' \in [Thread -> PpPcs]
           /\ ppNew' \in [Thread -> {"ON", "STANDBY", "LIGHT", "DEEP"}]
           /\ ppEvents' \in Seq({"DEEP", "TIMEOUT"})
           /\ \A t \in Thread : \/ ppPc'[t] \in {"idle", "enter", "voice"}
                                \/ ppPc'[t] = ppPc[t] /\ ppNew'[t] = ppNew[t]
           /\ Announced' => Announced
           /\ DeepOnce => DeepOnce'
           /\ ppPower' = ppPower \/ ppPower' = "DEEP"
<1>1. CASE ppBuild.reboots
  <2>1. ppEvents' = Append(ppEvents, "TIMEOUT") /\ UNCHANGED <<ppPower, ppPc, ppNew>>
    BY <1>1 DEF Timeout, ppThreads
  <2>2. ppEvents' \in Seq({"DEEP", "TIMEOUT"}) /\ (Announced' => Announced)
        /\ (DeepOnce => DeepOnce')
    BY <2>1, AppendEvent
  <2> QED BY <2>1, <2>2 DEF PpTypeOK
<1>2. CASE ~ppBuild.reboots
  <2>1. ppPower' = "DEEP" /\ Calls("timers", "LIGHT") /\ UNCHANGED ppEvents
    BY <1>2 DEF Timeout
  <2>2. "timers" \in Thread
    BY DEF Thread
  <2> QED BY <2>1, <2>2, CallsType DEF PpTypeOK, Announced, DeepOnce
<1> QED BY <1>1, <1>2

\* Timers of the power manager, and the call of the deep sleep manager when its timer
\* has woken the box.
LEMMA TimerInv ==
    ASSUME PpInv,
           \/ deep_sleep_wakeup_fn \/ invoke_deep_sleep_on_bootup_timeout
           \/ WokenByTimer \/ DelayedAwakes
    PROVE  PpInv'
<1> USE DEF Fair, ppState, ppThreads, ppBus, ppDeep, ppHistory
<1>0. PpTypeOK
  BY DEF PpInv
<1>1. CASE deep_sleep_wakeup_fn
  BY <1>0, <1>1, TimeoutType, QuietStep DEF deep_sleep_wakeup_fn, PpTypeOK, Asleep, OneHandler
<1>2. CASE invoke_deep_sleep_on_bootup_timeout
  <2>1. "timers" \in Thread
    BY DEF Thread
  <2>2. /\ Calls("timers", "DEEP") /\ ppBoot /\ (Announced' <=> Announced)
        /\ (Asleep' <=> Asleep) /\ (DeepOnce' <=> DeepOnce) /\ (OneHandler' <=> OneHandler)
    BY <1>2 DEF invoke_deep_sleep_on_bootup_timeout, Announced, Asleep, DeepOnce, OneHandler
  <2> QED BY <1>0, <1>2, <2>1, <2>2, CallsType, QuietStep
          DEF invoke_deep_sleep_on_bootup_timeout, PpTypeOK
<1>3. CASE WokenByTimer
  <2>1. ppHandler' = "idle" /\ UNCHANGED <<ppStatus, ppDelayed, ppLoop>>
        /\ (Asleep' => Asleep) /\ (OneHandler => OneHandler')
    BY <1>3 DEF WokenByTimer, Asleep, OneHandler
  <2>2. CASE UNCHANGED <<ppPower, ppThreads, ppEvents, ppOverlap>>
    BY <1>0, <1>3, <2>1, <2>2, QuietStep DEF WokenByTimer, PpTypeOK, Announced, DeepOnce
  <2>3. CASE TimeoutCall
        BY <1>0, <1>3, <2>1, <2>3, TimeoutType, QuietStep DEF WokenByTimer,
       TimeoutCall, PpTypeOK
  <2> QED BY <1>3, <2>2, <2>3 DEF WokenByTimer
<1>4. CASE DelayedAwakes
  <2>1. /\ UNCHANGED <<ppHandler, ppStatus, ppDelayed>> /\ (Asleep' => Asleep)
        /\ (OneHandler => OneHandler')
    BY <1>4 DEF DelayedAwakes, Asleep, OneHandler
  <2>2. CASE UNCHANGED <<ppPower, ppThreads, ppEvents, ppOverlap>>
    BY <1>0, <1>4, <2>1, <2>2, QuietStep DEF DelayedAwakes, PpTypeOK, Announced, DeepOnce
  <2>3. CASE TimeoutCall
        BY <1>0, <1>4, <2>1, <2>3, TimeoutType, QuietStep DEF DelayedAwakes,
       TimeoutCall, PpTypeOK
  <2> QED BY <1>4, <2>2, <2>3 DEF DelayedAwakes
<1> QED BY <1>1, <1>2, <1>3, <1>4

\* The rest of the deep sleep manager.
LEMMA SleeperInv ==
    ASSUME PpInv,
           \/ HandleDeep \/ HandleTimeout \/ StopServices \/ SleepFails \/ Awakes \/ SendKey
           \/ DelayEnds \/ DelayStops \/ _SetDeepSleepTimer
    PROVE  PpInv'
<1> USE DEF Fair, ppState, ppThreads, ppBus, ppDeep, ppHistory
<1>0. PpTypeOK
  BY DEF PpInv
<1>1. CASE HandleDeep
  <2>1. /\ ppEvents' \in Seq({"DEEP", "TIMEOUT"}) /\ Announced
        /\ DeepOnce => DeepOnce' /\ ~Announced'
    BY <1>0, <1>1, TakeEvent DEF HandleDeep
  <2>2. PpTypeOK'
    BY <1>0, <1>1, <2>1 DEF HandleDeep, PpTypeOK
  <2>3. ASSUME Fair, ~ppRebooting PROVE PpRest'
    <3>1. PpRest /\ ~Asleep
      BY <2>1, <2>3 DEF PpInv, PpRest, PpOneSleep
    <3>2. PpOneSleep'
      BY <1>1, <2>1, <3>1 DEF HandleDeep, PpRest, PpOneSleep, OneHandler, Asleep
    <3> QED BY <1>1, <2>1, <3>1, <3>2
            DEF HandleDeep, PpRest, OneChange, PpSleepOK, PpStatusOK, PpPostOK, PpBootOK,
                Changing, Moving
  <2> QED BY <1>1, <2>2, <2>3 DEF HandleDeep, PpInv
<1>2. CASE HandleTimeout
  <2>1. ppEvents' \in Seq({"DEEP", "TIMEOUT"}) /\ (Announced' => Announced)
        /\ (DeepOnce => DeepOnce')
    BY <1>0, <1>2, TakeEvent DEF HandleTimeout
  <2> QED BY <1>0, <1>2, <2>1, QuietStep DEF HandleTimeout, PpTypeOK, Asleep, OneHandler
<1>3. CASE \/ StopServices \/ SleepFails \/ Awakes \/ SendKey
           \/ DelayEnds \/ DelayStops \/ _SetDeepSleepTimer
  <2>1. UNCHANGED <<ppPc, ppNew, ppEvents, ppSleep, ppBuild, ppBoot, ppPower, ppEarly,
                    ppOverlap, ppRebooting>>
    BY <1>3 DEF StopServices, SleepFails, Awakes, SendKey, DelayEnds, DelayStops,
                _SetDeepSleepTimer
  <2>2. OneHandler => OneHandler' /\ (Asleep' => Asleep /\ ppStatus' = ppStatus)
    <3>1. CASE StopServices \/ SendKey \/ _SetDeepSleepTimer
      BY <3>1 DEF StopServices, SendKey, _SetDeepSleepTimer, OneHandler, Asleep
    <3>2. CASE SleepFails \/ Awakes
      BY <3>2 DEF SleepFails, Awakes, OneHandler, Asleep
    <3>3. CASE DelayEnds \/ DelayStops
      BY <3>3 DEF DelayEnds, DelayStops, OneHandler, Asleep
    <3> QED BY <1>3, <3>1, <3>2, <3>3
  <2>3. (Announced' <=> Announced) /\ (DeepOnce' <=> DeepOnce)
    BY <2>1 DEF Announced, DeepOnce
  <2> QED BY <1>0, <2>1, <2>2, <2>3, QuietStep DEF PpTypeOK
<1> QED BY <1>1, <1>2, <1>3

\* A box that comes up is neither asleep nor changing its state.
LEMMA RebootInv == ASSUME PpInv, Reboot PROVE PpInv'
<1>1. /\ ppPc' = [t \in Thread |-> "idle"] /\ ppNew' = [t \in Thread |-> "ON"]
      /\ ppEvents' = <<>> /\ ppHandler' = "idle" /\ ppBoot' \in BOOLEAN
      /\ ppDelayed' = "none" /\ ppLoop' = "idle"
      /\ UNCHANGED <<ppBuild, ppSleep>>
  BY DEF Reboot, Booted
<1>2. ppPc' \in [Thread -> PpPcs] /\ ppNew' \in [Thread -> {"ON", "STANDBY", "LIGHT", "DEEP"}]
  BY <1>1 DEF PpPcs
<1>3. ppEvents' \in Seq({"DEEP", "TIMEOUT"}) /\ ~Announced' /\ ~Asleep' /\ DeepOnce'
  BY <1>1 DEF Announced, Asleep, DeepOnce
<1>4. PpTypeOK'
  BY <1>1, <1>2, <1>3 DEF PpInv, PpTypeOK
<1>5. \A t \in Thread : ppPc'[t] = "idle"
  BY <1>1
<1>6. OneHandler'
  BY <1>1 DEF OneHandler
<1> QED BY <1>3, <1>4, <1>5, <1>6
        DEF PpInv, PpRest, OneChange, PpSleepOK, PpStatusOK, PpOneSleep, PpPostOK, PpBootOK,
            Changing

\* Every step preserves it.
LEMMA PpNextInv == PpInv /\ [PpNext]_ppVars => PpInv'
<1> SUFFICES ASSUME PpInv, [PpNext]_ppVars PROVE PpInv'
  OBVIOUS
<1>1. CASE UNCHANGED ppVars
  BY <1>1, QuietStep
     DEF ppVars, ppState, ppThreads, ppBus, ppDeep, ppHistory, PpInv, PpTypeOK, Fair, Announced,
         Asleep, DeepOnce, OneHandler
<1>2. CASE PpNext
    BY <1>2, PowerStepInv, ClientInv, TimerInv, SleeperInv, RebootInv DEF PpNext,
     SleepStep
<1> QED BY <1>1, <1>2

\* The deep sleep manager puts the box to sleep only while the power manager's state is
\* DEEP, whatever the build, the delay and the number of requests, timers and reboots,
\* unless a wake-up overtook the event or calls overlapped.
THEOREM PairSleepsInDeepSleep == PpSafe => []SleepsOnlyInDeepSleep
<1>1. PpInv => SleepsOnlyInDeepSleep
  BY DEF PpInv, PpRest, PpSleepOK, Asleep, SleepsOnlyInDeepSleep
<1> QED BY <1>1, PpInitInv, PpNextInv, PTL DEF PpSafe
-----------------------------------------------------------------------------
(* ResetKeys *)

\* What the proofs use of the sequences: POWER stands at their ends only.
LEMMA SeqFacts ==
    ASSUME NEW m \in Reset
    PROVE  /\ Seqs[m] \in Seq(RkKey)
           /\ Len(Seqs[m]) \in 3..6
           /\ Seqs[m][1] = "POWER"
           /\ Seqs[m][Len(Seqs[m])] \in {"POWER", "UNDEFINED"}
           /\ \A i \in 2..(Len(Seqs[m]) - 1) : Seqs[m][i] \notin {"POWER", "UNDEFINED"}
<1> USE DEF RkKey, HoldKey
<1>1. CASE m = "COLD_FACTORY"
  <2>1. Seqs[m] = <<"POWER", "OK", "RIGHT", "MENU", "RIGHT", "POWER">>
    BY <1>1 DEF Seqs
  <2> QED BY <2>1
<1>2. CASE m = "FACTORY"
  <2>1. Seqs[m] = <<"POWER", "OK", "RIGHT", "MENU", "LEFT", "POWER">>
    BY <1>2 DEF Seqs
  <2> QED BY <2>1
<1>3. CASE m = "WARE_HOUSE"
  <2>1. Seqs[m] = <<"POWER", "OK", "RIGHT", "DOWN", "POWER">>
    BY <1>3 DEF Seqs
  <2> QED BY <2>1
<1>4. CASE m = "CUSTOMER"
  <2>1. Seqs[m] = <<"POWER", "OK", "UNDEFINED">>
    BY <1>4 DEF Seqs
  <2> QED BY <2>1
<1>5. CASE m = "PERSONALITY"
  <2>1. Seqs[m] = <<"POWER", "OK", "LEFT", "DOWN", "POWER">>
    BY <1>5 DEF Seqs
  <2> QED BY <2>1
<1> QED BY <1>1, <1>2, <1>3, <1>4, <1>5 DEF Reset

\* Min of natural numbers.
LEMMA MinIs ==
    ASSUME NEW S \in SUBSET Nat, S # {}
    PROVE  Min(S) \in S /\ \A y \in S : Min(S) <= y
<1>1. PICK x \in S : \A y \in S : ~ (<<y, x>> \in OpToRel(<, Nat))
  BY NatLessThanWellFounded, WFMin
<1>2. \A y \in S : x <= y
  <2> TAKE y \in S
  <2>1. ~ (<<y, x>> \in {rr \in Nat \X Nat : rr[1] < rr[2]})
    BY <1>1 DEF OpToRel
  <2>2. <<y, x>> \in Nat \X Nat /\ <<y, x>>[1] = y /\ <<y, x>>[2] = x
    OBVIOUS
  <2>3. ~ (y < x)
    BY <2>1, <2>2
  <2> QED BY <2>3
<1> QED BY <1>2 DEF Min

\* What the history says of one key.
Entry == [key : RkKey, late : BOOLEAN]

\* The part of u from p on.
LEMMA EndPart ==
    ASSUME NEW u \in Seq(Entry), NEW p \in 1..(Len(u) + 1)
    PROVE  LET w == SubSeq(u, p, Len(u))
           IN  /\ w \in Seq(Entry) /\ Len(w) = Len(u) - p + 1
               /\ \A j \in 1..Len(w) : w[j] = u[p + j - 1]
  OBVIOUS

\* MayBegin, key by key.
LEMMA MayBeginIs ==
    ASSUME NEW w \in Seq(Entry)
    PROVE  MayBegin(w) <=> \E m \in Reset : /\ Len(w) <= Len(Seqs[m])
                                            /\ \A j \in 1..Len(w) : w[j].key = Seqs[m][j]
<1> DEFINE K == [i \in DOMAIN w |-> w[i].key]
<1>1. K \in Seq(RkKey) /\ Len(K) = Len(w) /\ \A j \in 1..Len(w) : K[j] = w[j].key
  <2>1. \A i \in DOMAIN w : w[i] \in Entry
    OBVIOUS
  <2>2. \A i \in DOMAIN w : w[i].key \in RkKey
    BY <2>1 DEF Entry
  <2>3. DOMAIN w = 1..Len(w) /\ Len(w) \in Nat
    OBVIOUS
  <2> QED BY <2>2, <2>3
<1> HIDE DEF K
<1>2. ASSUME NEW m \in Reset
      PROVE  IsPrefix(K, Seqs[m]) <=> /\ Len(w) <= Len(Seqs[m])
                                      /\ \A j \in 1..Len(w) : w[j].key = Seqs[m][j]
  <2>1. Seqs[m] \in Seq(RkKey)
    BY SeqFacts
  <2>2. SubSeq(K, 1, Len(K)) = K
    BY <1>1
  <2>3. ASSUME Len(K) <= Len(Seqs[m])
        PROVE  K = SubSeq(Seqs[m], 1, Len(K)) <=> \A j \in 1..Len(K) : K[j] = Seqs[m][j]
    <3> DEFINE P == SubSeq(Seqs[m], 1, Len(K))
    <3>1. /\ P \in Seq(RkKey) /\ Len(P) = Len(K)
          /\ \A j \in 1..Len(K) : P[j] = Seqs[m][j]
      BY <1>1, <2>1, <2>3
    <3> HIDE DEF P
    <3>2. K = P <=> \A j \in 1..Len(K) : K[j] = P[j]
      BY <1>1, <3>1
    <3> QED BY <3>1, <3>2 DEF P
  <2> QED BY <1>1, <2>2, <2>3 DEF IsPrefix
<1> QED BY <1>2 DEF MayBegin, K

\* The last i keys of the history are the first i of a sequence, in time.
Ends(t, m, i) ==
    /\ i <= Len(t)
    /\ \A j \in 1..i : /\ t[Len(t) - i + j].key = Seqs[m][j]
                       /\ j > 1 => ~t[Len(t) - i + j].late

\* The history keeps the longest part that may begin a sequence, so no machine's keys are
\* lost from it.
LEMMA BeginningKeeps ==
    ASSUME NEW t \in Seq(Entry), NEW e \in Entry
    PROVE  LET T == Beginning(Append(t, e))
           IN  /\ T \in Seq(Entry) /\ MayBegin(T)
               /\ \A m \in Reset, i \in Nat :
                     /\ Ends(t, m, i) /\ i < Len(Seqs[m]) /\ e.key = Seqs[m][i + 1]
                     /\ i > 0 => ~e.late
                     => Ends(T, m, i + 1)
<1> DEFINE u == Append(t, e)
           S == {i \in 1..(Len(u) + 1) : MayBegin(SubSeq(u, i, Len(u)))}
           n == Min(S)
           T == SubSeq(u, n, Len(u))
<1>1. /\ u \in Seq(Entry) /\ Len(u) = Len(t) + 1 /\ u[Len(u)] = e
      /\ \A j \in 1..Len(t) : u[j] = t[j]
  OBVIOUS
<1>2. Beginning(Append(t, e)) = T
  BY DEF Beginning
<1> HIDE DEF u
<1>3. Len(u) + 1 \in S
  <2>1. SubSeq(u, Len(u) + 1, Len(u)) \in Seq(Entry) /\ Len(SubSeq(u, Len(u) + 1, Len(u))) = 0
    BY <1>1, EndPart
  <2>2. MayBegin(SubSeq(u, Len(u) + 1, Len(u)))
    <3> DEFINE w == SubSeq(u, Len(u) + 1, Len(u))
    <3>1. "FACTORY" \in Reset
      BY DEF Reset
    <3>2. Len(Seqs["FACTORY"]) \in 3..6
      BY <3>1, SeqFacts
    <3>3. w \in Seq(Entry) /\ Len(w) = 0
      BY <2>1
    <3> HIDE DEF w
    <3>4. /\ Len(w) <= Len(Seqs["FACTORY"])
          /\ \A j \in 1..Len(w) : w[j].key = Seqs["FACTORY"][j]
      BY <3>2, <3>3
    <3>5. MayBegin(w)
      BY <3>1, <3>3, <3>4, MayBeginIs
    <3> QED BY <3>5 DEF w
  <2> QED BY <1>1, <2>2
<1>4. n \in S /\ \A y \in S : n <= y
  <2>1. S \in SUBSET Nat
    OBVIOUS
  <2> HIDE DEF S
  <2> QED BY <1>3, <2>1, MinIs
<1>5. n \in 1..(Len(u) + 1) /\ MayBegin(T)
  BY <1>4
<1> HIDE DEF n
<1>6. /\ T \in Seq(Entry) /\ Len(T) = Len(u) - n + 1
      /\ \A j \in 1..Len(T) : T[j] = u[n + j - 1]
  BY <1>1, <1>5, EndPart
<1>7. ASSUME NEW m \in Reset, NEW i \in Nat, Ends(t, m, i), i < Len(Seqs[m]),
             e.key = Seqs[m][i + 1], i > 0 => ~e.late
      PROVE  Ends(T, m, i + 1)
  <2> DEFINE p == Len(u) - i
             w == SubSeq(u, p, Len(u))
  <2>1. i <= Len(t) /\ p \in 1..Len(u)
    BY <1>1, <1>7 DEF Ends
  <2>2. \A j \in 1..(i + 1) : /\ u[Len(u) - (i + 1) + j].key = Seqs[m][j]
                              /\ j > 1 => ~u[Len(u) - (i + 1) + j].late
    <3> TAKE j \in 1..(i + 1)
    <3>1. CASE j = i + 1
      BY <1>1, <1>7, <3>1
    <3>2. CASE j # i + 1
      <4>1. j \in 1..i /\ Len(t) - i + j \in 1..Len(t) /\ Len(u) - (i + 1) + j = Len(t) - i + j
        BY <1>1, <2>1, <3>2
      <4>2. u[Len(t) - i + j] = t[Len(t) - i + j]
        BY <1>1, <4>1
      <4> QED BY <1>7, <4>1, <4>2 DEF Ends
    <3> QED BY <3>1, <3>2
  <2>3. p \in S
    <3>1. w \in Seq(Entry) /\ Len(w) = i + 1 /\ \A j \in 1..Len(w) : w[j] = u[p + j - 1]
      BY <1>1, <2>1, EndPart
    <3>2. \A j \in 1..Len(w) : w[j].key = Seqs[m][j]
      <4> TAKE j \in 1..Len(w)
      <4>1. w[j] = u[Len(u) - (i + 1) + j]
        BY <1>1, <3>1
      <4> QED BY <2>2, <3>1, <4>1
    <3>3. Len(w) <= Len(Seqs[m])
      BY <1>7, <3>1, SeqFacts
    <3> HIDE DEF w
    <3>4. MayBegin(w)
      BY <3>1, <3>2, <3>3, MayBeginIs
    <3> QED BY <1>1, <2>1, <3>4 DEF w
  <2>4. n <= p
    BY <1>4, <2>3
  <2>5. i + 1 <= Len(T)
    BY <1>1, <1>5, <1>6, <2>1, <2>4
  <2>6. \A j \in 1..(i + 1) : T[Len(T) - (i + 1) + j] = u[Len(u) - (i + 1) + j]
    <3> TAKE j \in 1..(i + 1)
    <3>1. Len(T) - (i + 1) + j \in 1..Len(T)
      BY <1>1, <1>5, <1>6, <2>5
    <3>2. n + (Len(T) - (i + 1) + j) - 1 = Len(u) - (i + 1) + j
      BY <1>1, <1>5, <1>6
    <3> QED BY <1>6, <3>1, <3>2
  <2> HIDE DEF T
  <2> QED BY <2>2, <2>5, <2>6 DEF Ends
<1> HIDE DEF T
<1> QED BY <1>2, <1>5, <1>6, <1>7

\* A history that ends with a whole sequence is that sequence.
LEMMA WholeIsTyped ==
    ASSUME NEW t \in Seq(Entry), MayBegin(t), NEW m \in Reset, Ends(t, m, Len(Seqs[m]))
    PROVE  /\ [i \in DOMAIN t |-> t[i].key] = Seqs[m]
           /\ \A i \in 2..Len(t) : ~t[i].late
<1> DEFINE L == Len(Seqs[m])
<1>1. PICK q \in Reset : /\ Len(t) <= Len(Seqs[q])
                         /\ \A j \in 1..Len(t) : t[j].key = Seqs[q][j]
  BY MayBeginIs
<1>2. /\ L \in 3..6 /\ Seqs[m][1] = "POWER" /\ Seqs[m] \in Seq(RkKey)
      /\ Len(Seqs[q]) \in 3..6
      /\ \A i \in 2..(Len(Seqs[q]) - 1) : Seqs[q][i] \notin {"POWER", "UNDEFINED"}
  BY SeqFacts
<1>3. Len(t) \in Nat /\ L <= Len(t)
  BY DEF Ends
<1>4. t[Len(t) - L + 1].key = "POWER"
  <2>1. 1 \in 1..L
    BY <1>2
  <2>2. t[Len(t) - L + 1].key = Seqs[m][1]
    BY <2>1 DEF Ends
  <2> QED BY <1>2, <2>2
<1>5. Len(t) = L
  <2> SUFFICES ASSUME Len(t) > L PROVE FALSE
    BY <1>2, <1>3
  <2> DEFINE p == Len(t) - L + 1
  <2>1. p \in 2..(Len(Seqs[q]) - 1) /\ p \in 1..Len(t)
    <3>1. L \in 3..6 /\ Len(Seqs[q]) \in 3..6 /\ Len(t) \in Nat /\ Len(t) <= Len(Seqs[q])
      BY <1>1, <1>2, <1>3
    <3> HIDE DEF L
    <3> QED BY <3>1
  <2>2. t[p].key = Seqs[q][p] /\ t[p].key = "POWER"
    BY <1>1, <1>4, <2>1
  <2>3. Seqs[q][p] \notin {"POWER", "UNDEFINED"}
    BY <1>2, <2>1
  <2> QED BY <2>2, <2>3
<1>6. \A j \in 1..L : t[j].key = Seqs[m][j] /\ (j > 1 => ~t[j].late)
  BY <1>2, <1>5 DEF Ends
<1>7. [i \in DOMAIN t |-> t[i].key] = Seqs[m]
  BY <1>2, <1>5, <1>6
<1> QED BY <1>2, <1>5, <1>6, <1>7

\* The type of rk; an index counts up to the longest sequence.
RkState ==
    [idx : [Reset -> 0..6], mode : BOOLEAN, focus : BOOLEAN, pressed : Int, cur : Int,
     timeout : Int, monitored : BOOLEAN, event : Int, shown : Int,
     ran : Reset \union {"none", "reboot"}]

\* What ResetResetState leaves.
LEMMA ResetFields ==
    ASSUME NEW s \in RkState
    PROVE  LET r == ResetResetState(s)
           IN  /\ r \in RkState
               /\ r.mode = FALSE /\ r.cur = None /\ r.pressed = None /\ r.ran = s.ran
               /\ r.idx = [m \in Reset |-> 0]
<1> DEFINE a == IF s.monitored THEN 0 ELSE s.event
           b == IF s.monitored THEN -1 ELSE s.shown
<1>0. ResetResetState(s) =
        [s EXCEPT !.idx = [m \in Reset |-> 0], !.mode = FALSE, !.focus = FALSE,
                  !.pressed = None, !.cur = None, !.timeout = 0, !.monitored = FALSE,
                  !.event = a, !.shown = b]
  BY DEF ResetResetState
<1> HIDE DEF a, b
<1>1. ResetResetState(s) =
        [idx |-> [m \in Reset |-> 0], mode |-> FALSE, focus |-> FALSE, pressed |-> None,
         cur |-> None, timeout |-> 0, monitored |-> FALSE,
         event |-> a, shown |-> b, ran |-> s.ran]
  BY <1>0 DEF RkState
<1>2. [m \in Reset |-> 0] \in [Reset -> 0..6]
  OBVIOUS
<1>3. a \in Int /\ b \in Int
  BY DEF RkState, a, b
<1>4. s.ran \in Reset \union {"none", "reboot"}
  BY DEF RkState
<1> QED BY <1>1, <1>2, <1>3, <1>4 DEF RkState, None

\* Setting ran touches nothing else.
LEMMA SetRan ==
    ASSUME NEW s \in RkState, NEW v \in Reset \union {"none", "reboot"}
    PROVE  LET r == [s EXCEPT !.ran = v]
           IN  /\ r \in RkState /\ r.ran = v
               /\ r.idx = s.idx /\ r.mode = s.mode /\ r.cur = s.cur /\ r.timeout = s.timeout
               /\ r.pressed = s.pressed
  BY DEF RkState

-----------------------------------------------------------------------------

\* Machine m takes s to r when it sees k: the wrong key sends it back, the last one runs
\* its reset, any other moves it on, and all but the first start the wait until the next.
Sees(s, r, m, k) ==
    /\ r \in RkState
    /\ Seqs[m][s.idx[m] + 1] # k =>
          /\ r.idx = [s.idx EXCEPT ![m] = 0]
          /\ r.mode = s.mode /\ r.cur = s.cur /\ r.timeout = s.timeout
          /\ r.ran = s.ran /\ r.pressed = s.pressed
    /\ Seqs[m][s.idx[m] + 1] = k /\ s.idx[m] + 1 = Len(Seqs[m]) =>
          /\ r.idx = [q \in Reset |-> 0]
          /\ r.mode = FALSE /\ r.cur = None
          /\ r.ran = m /\ r.pressed = None
    /\ Seqs[m][s.idx[m] + 1] = k /\ s.idx[m] + 1 # Len(Seqs[m]) =>
          /\ r.idx = [s.idx EXCEPT ![m] = s.idx[m] + 1]
          /\ r.mode = s.mode /\ r.ran = s.ran /\ r.pressed = s.pressed
          /\ s.idx[m] = 0 => r.cur = s.cur /\ r.timeout = s.timeout
          /\ s.idx[m] # 0 => r.cur = 0 /\ r.timeout = KeyTimeout

\* A machine does one of these.
LEMMA OneMachine ==
    ASSUME ResetAssumption,
           NEW s \in RkState, NEW m \in Reset, NEW k \in RkKey, s.idx[m] < Len(Seqs[m])
    PROVE  Sees(s, checkResetModeSequence(s, m, k), m, k)
<1> DEFINE i == s.idx[m]
           told == Tell(s, i)
           moved == Advance(s, m)
           r == checkResetModeSequence(s, m, k)
<1>1. i \in 0..6 /\ Len(Seqs[m]) \in 3..6 /\ i + 1 <= Len(Seqs[m])
  <2> DEFINE n == Len(Seqs[m])
  <2>1. i \in 0..6
    BY DEF RkState
  <2>2. n \in 3..6
    BY SeqFacts
  <2>3. i < n
    OBVIOUS
  <2> HIDE DEF i, n
  <2>4. i + 1 <= n
    BY <2>1, <2>2, <2>3
  <2> QED BY <2>1, <2>2, <2>4 DEF n
<1>2. /\ told \in RkState
      /\ told.idx = s.idx /\ told.ran = s.ran /\ told.mode = s.mode /\ told.cur = s.cur
      /\ told.timeout = s.timeout /\ told.pressed = s.pressed
  <2>1. CASE i > 0 /\ s.event # i
    <3>1. told = [s EXCEPT !.monitored = TRUE, !.event = i, !.shown = i]
      BY Zenon, <2>1 DEF Tell
    <3>2. i \in Int
      BY <1>1
    <3> HIDE DEF told, i
    <3>3. told = [idx |-> s.idx, mode |-> s.mode, focus |-> s.focus, pressed |-> s.pressed,
                  cur |-> s.cur, timeout |-> s.timeout, monitored |-> TRUE, event |-> i,
                  shown |-> i, ran |-> s.ran]
      BY <3>1 DEF RkState
    <3> QED BY <3>2, <3>3 DEF RkState
  <2>2. CASE ~(i > 0 /\ s.event # i)
    <3>1. told = s
      BY Zenon, <2>2 DEF Tell
    <3> HIDE DEF told, i
    <3> QED BY <3>1
  <2> QED BY <2>1, <2>2
<1>3. moved = IF i + 1 = Len(Seqs[m]) THEN [ResetResetState(told) EXCEPT !.ran = m]
                                      ELSE [told EXCEPT !.idx[m] = i + 1]
  BY Zenon DEF Advance
<1>4. r = IF Seqs[m][i + 1] = k THEN StartWait(moved, k) ELSE [s EXCEPT !.idx[m] = 0]
  BY Zenon DEF checkResetModeSequence
<1> HIDE DEF told, moved, r
<1>5. CASE Seqs[m][i + 1] # k
  <2>1. r = [s EXCEPT !.idx[m] = 0]
    BY Zenon, <1>4, <1>5
  <2> DEFINE a == [s EXCEPT !.idx[m] = 0]
  <2>2. /\ a \in RkState /\ a.idx = [s.idx EXCEPT ![m] = 0]
        /\ a.ran = s.ran /\ a.mode = s.mode /\ a.cur = s.cur /\ a.timeout = s.timeout
        /\ a.pressed = s.pressed
    <3>1. 0 \in 0..6
      OBVIOUS
    <3> QED BY <3>1 DEF RkState
  <2> HIDE DEF a
  <2> QED BY <1>5, <2>1, <2>2 DEF r, a, Sees
<1>6. CASE Seqs[m][i + 1] = k /\ i + 1 = Len(Seqs[m])
  <2>1. k \in {"POWER", "UNDEFINED"}
    BY <1>6, SeqFacts
  <2>2. validTime(k) = 0
    BY <2>1 DEF validTime
  <2> DEFINE back == ResetResetState(told)
             a == [back EXCEPT !.ran = m]
  <2>3. r = a
    BY Zenon, <1>3, <1>4, <1>6, <2>2 DEF StartWait
  <2>4. /\ back \in RkState /\ back.mode = FALSE /\ back.cur = None /\ back.pressed = None
        /\ back.idx = [q \in Reset |-> 0]
    BY <1>2, ResetFields
  <2> HIDE DEF back
  <2>5. /\ a \in RkState /\ a.mode = FALSE /\ a.cur = None /\ a.pressed = None
        /\ a.idx = [q \in Reset |-> 0] /\ a.ran = m
    BY <2>4, SetRan
  <2> HIDE DEF a
  <2> QED BY <1>6, <2>3, <2>5 DEF r, Sees
<1>7. CASE Seqs[m][i + 1] = k /\ i + 1 # Len(Seqs[m])
  <2>1. moved = [told EXCEPT !.idx[m] = i + 1]
    BY Zenon, <1>3, <1>7
  <2>2. /\ moved \in RkState /\ moved.idx = [s.idx EXCEPT ![m] = i + 1]
        /\ moved.ran = s.ran /\ moved.mode = s.mode /\ moved.cur = s.cur
        /\ moved.timeout = s.timeout /\ moved.pressed = s.pressed
    <3>1. i + 1 \in 0..6
      <4> DEFINE n == Len(Seqs[m])
      <4>1. i \in 0..6 /\ n \in 3..6 /\ i + 1 <= n
        BY <1>1
      <4> HIDE DEF i, n
      <4> QED BY <4>1
    <3> HIDE DEF i
    <3> QED BY <1>2, <2>1, <3>1 DEF RkState
  <2>3. r = StartWait(moved, k)
    BY Zenon, <1>4, <1>7
  <2>4. CASE i = 0
    <3>1. k = "POWER"
      BY <1>7, <2>4, SeqFacts
    <3>2. r = moved
      BY <2>3, <3>1 DEF validTime, StartWait
    <3> HIDE DEF i
    <3> QED BY <1>7, <2>2, <2>4, <3>2 DEF r, i, Sees
  <2>5. CASE i # 0
    <3>1. i + 1 \in 2..(Len(Seqs[m]) - 1)
      <4>1. i \in Nat /\ Len(Seqs[m]) \in Nat /\ i + 1 <= Len(Seqs[m])
        BY <1>1
      <4> HIDE DEF i
      <4> QED BY <1>7, <2>5, <4>1
    <3>2. k \notin {"POWER", "UNDEFINED"}
      BY <1>7, <3>1, SeqFacts
    <3>3. validTime(k) = KeyTimeout /\ KeyTimeout \in Int /\ KeyTimeout # 0
      BY <3>2 DEF validTime, ResetAssumption
    <3>4. r = [moved EXCEPT !.cur = 0, !.timeout = KeyTimeout]
      BY <2>3, <3>3 DEF StartWait
    <3>5. /\ r \in RkState /\ r.cur = 0 /\ r.timeout = KeyTimeout
          /\ r.idx = moved.idx /\ r.ran = moved.ran /\ r.mode = moved.mode
          /\ r.pressed = moved.pressed
      <4>1. moved \in RkState
        BY <2>2
      <4>2. r = [idx |-> moved.idx, mode |-> moved.mode, focus |-> moved.focus,
                 pressed |-> moved.pressed, cur |-> 0, timeout |-> KeyTimeout,
                 monitored |-> moved.monitored, event |-> moved.event,
                 shown |-> moved.shown, ran |-> moved.ran]
        BY <3>4, <4>1 DEF RkState
      <4> QED BY <3>3, <4>1, <4>2 DEF RkState
    <3> QED BY <1>7, <2>2, <2>5, <3>5 DEF r, Sees
  <2> QED BY <2>4, <2>5
<1> QED BY <1>5, <1>6, <1>7 DEF r

\* The machines that see the keys.
Machines == IF rkBuild.wareHouse THEN Reset ELSE Reset \ {"WARE_HOUSE"}

\* T is the history t after key k came: it keeps the keys of every machine that k moves on.
Follows(t, T, k, late) ==
    /\ T \in Seq(Entry)
    /\ \A m \in Reset, i \in Nat :
          Ends(t, m, i) /\ i < Len(Seqs[m]) /\ k = Seqs[m][i + 1] /\ (i > 0 => ~late)
          => Ends(T, m, i + 1)

\* While a key goes round: the machines of D have seen it, the others have not.
Round(s, D, t, T, late) ==
    /\ s \in RkState
    /\ s.mode =>
          /\ s.ran = "none" /\ s.cur >= 0 /\ s.timeout <= FirstTimeout
          /\ \A m \in Machines : /\ s.idx[m] < Len(Seqs[m])
                                 /\ s.idx[m] > 1 => s.timeout <= KeyTimeout
                                 /\ m \in D => Ends(T, m, s.idx[m])
                                 /\ m \notin D => Ends(t, m, s.idx[m]) /\ (s.idx[m] > 0 => ~late)
    /\ ~s.mode =>
          /\ s.cur = None /\ s.pressed = None
          /\ s.ran \in Reset /\ Ends(T, s.ran, Len(Seqs[s.ran]))
          /\ \A m \in Reset \ D : s.idx[m] = 0

\* A machine in its first state has counted no key.
LEMMA NoKeyYet ==
    ASSUME NEW T \in Seq(Entry), NEW m \in Reset
    PROVE  Ends(T, m, 0)
<1>1. 1..0 = {} /\ Len(T) \in Nat
  OBVIOUS
<1> QED BY <1>1 DEF Ends

\* The key goes on to machine m.
LEMMA OneSees ==
    ASSUME ResetAssumption,
           NEW s, NEW D \in SUBSET Reset, NEW m \in Machines \ D, NEW k \in RkKey,
           NEW t, NEW T, NEW late \in BOOLEAN,
           Follows(t, T, k, late), Round(s, D, t, T, late)
    PROVE  Round(checkResetModeSequence(s, m, k), D \union {m}, t, T, late)
<1> DEFINE i == s.idx[m]
           r == checkResetModeSequence(s, m, k)
<1>1. s \in RkState /\ m \in Reset /\ m \notin D /\ Machines \subseteq Reset
  BY DEF Round, Machines
<1>2. s.idx \in [Reset -> 0..6] /\ Len(Seqs[m]) \in 3..6 /\ T \in Seq(Entry)
  BY <1>1, SeqFacts DEF RkState, Follows
<1>3. i \in 0..6 /\ i < Len(Seqs[m]) /\ KeyTimeout \in Int /\ FirstTimeout \in Int
      /\ KeyTimeout <= FirstTimeout
  <2>1. i \in 0..6
    BY <1>1, <1>2
  <2>4. KeyTimeout \in Int /\ FirstTimeout \in Int /\ KeyTimeout <= FirstTimeout
    BY DEF ResetAssumption
  <2>2. CASE s.mode
    <3>1. i < Len(Seqs[m])
      BY <2>2 DEF Round
    <3> QED BY <3>1, <2>1, <2>4
  <2>3. CASE ~s.mode
    <3>1. i = 0
      BY <1>1, <2>3 DEF Round
    <3>2. 0 < Len(Seqs[m])
      <4> DEFINE n == Len(Seqs[m])
      <4>1. n \in 3..6
        BY <1>2
      <4> HIDE DEF n
      <4>2. 0 < n
        BY <4>1
      <4> QED BY <4>2 DEF n
    <3> HIDE DEF i
    <3>3. i < Len(Seqs[m])
      BY Zenon, <3>1, <3>2
    <3> QED BY <2>1, <2>4, <3>3
  <2> QED BY <2>2, <2>3
<1>4. /\ r \in RkState
      /\ Seqs[m][i + 1] # k =>
            /\ r.idx = [s.idx EXCEPT ![m] = 0]
            /\ r.mode = s.mode /\ r.cur = s.cur /\ r.timeout = s.timeout
            /\ r.ran = s.ran /\ r.pressed = s.pressed
      /\ Seqs[m][i + 1] = k /\ i + 1 = Len(Seqs[m]) =>
            /\ r.idx = [q \in Reset |-> 0]
            /\ r.mode = FALSE /\ r.cur = None
            /\ r.ran = m /\ r.pressed = None
      /\ Seqs[m][i + 1] = k /\ i + 1 # Len(Seqs[m]) =>
            /\ r.idx = [s.idx EXCEPT ![m] = i + 1]
            /\ r.mode = s.mode /\ r.ran = s.ran /\ r.pressed = s.pressed
            /\ i = 0 => r.cur = s.cur /\ r.timeout = s.timeout
            /\ i # 0 => r.cur = 0 /\ r.timeout = KeyTimeout
  <2>1. s \in RkState /\ m \in Reset /\ k \in RkKey /\ s.idx[m] < Len(Seqs[m])
    BY <1>1, <1>3
  <2>2. Sees(s, r, m, k)
    BY <2>1, OneMachine
  <2> HIDE DEF r
  <2> QED BY <2>2 DEF Sees
<1> HIDE DEF r
<1>5. ASSUME s.mode PROVE Round(r, D \union {m}, t, T, late)
  <2>1. /\ s.ran = "none" /\ s.cur >= 0 /\ s.timeout <= FirstTimeout
        /\ \A q \in Machines : /\ s.idx[q] < Len(Seqs[q])
                               /\ s.idx[q] > 1 => s.timeout <= KeyTimeout
                               /\ q \in D => Ends(T, q, s.idx[q])
                               /\ q \notin D => Ends(t, q, s.idx[q]) /\ (s.idx[q] > 0 => ~late)
    BY <1>5 DEF Round
  <2>2. Seqs[m][i + 1] = k => Ends(T, m, i + 1)
    <3>1. Ends(t, m, i) /\ (i > 0 => ~late)
      BY <1>1, <2>1
    <3>2. i \in Nat /\ i < Len(Seqs[m])
      BY <1>3
    <3> HIDE DEF i
    <3> QED BY <1>1, <3>1, <3>2 DEF Follows
  <2>3. CASE Seqs[m][i + 1] # k
    <3>1. /\ r.idx = [s.idx EXCEPT ![m] = 0]
          /\ r.mode = s.mode /\ r.cur = s.cur /\ r.timeout = s.timeout /\ r.ran = s.ran
      BY <1>4, <2>3
    <3>2. r.idx[m] = 0 /\ \A q \in Reset \ {m} : r.idx[q] = s.idx[q]
      BY <1>1, <1>2, <3>1
    <3>3. Ends(T, m, 0)
      BY <1>1, <1>2, NoKeyYet
    <3>4. 0 < Len(Seqs[m])
      <4> DEFINE n == Len(Seqs[m])
      <4>1. n \in 3..6
        BY <1>2
      <4> HIDE DEF n
      <4>2. 0 < n
        BY <4>1
      <4> QED BY <4>2 DEF n
    <3>5. ASSUME NEW q \in Machines
          PROVE  /\ r.idx[q] < Len(Seqs[q])
                 /\ r.idx[q] > 1 => r.timeout <= KeyTimeout
                 /\ q \in D \union {m} => Ends(T, q, r.idx[q])
                 /\ q \notin D \union {m} => Ends(t, q, r.idx[q]) /\ (r.idx[q] > 0 => ~late)
      <4>1. CASE q = m
        BY <3>2, <3>3, <3>4, <4>1
      <4>2. CASE q # m
        <5>1. q \in Reset /\ r.idx[q] = s.idx[q]
          BY <1>1, <3>2, <4>2
        <5> QED BY <2>1, <3>1, <4>2, <5>1
      <4> QED BY <4>1, <4>2
    <3> QED BY <1>4, <1>5, <2>1, <3>1, <3>5 DEF Round
  <2>4. CASE Seqs[m][i + 1] = k /\ i + 1 = Len(Seqs[m])
    <3>1. /\ r.idx = [q \in Reset |-> 0] /\ r.mode = FALSE /\ r.cur = None
          /\ r.ran = m /\ r.pressed = None
      BY <1>4, <2>4
    <3> QED BY <1>1, <1>4, <2>2, <2>4, <3>1 DEF Round
  <2>5. CASE Seqs[m][i + 1] = k /\ i + 1 # Len(Seqs[m])
    <3>1. /\ r.idx = [s.idx EXCEPT ![m] = i + 1]
          /\ r.mode = s.mode /\ r.ran = s.ran
          /\ i = 0 => r.cur = s.cur /\ r.timeout = s.timeout
          /\ i # 0 => r.cur = 0 /\ r.timeout = KeyTimeout
      BY <1>4, <2>5
    <3>2. r.idx[m] = i + 1 /\ \A q \in Reset \ {m} : r.idx[q] = s.idx[q]
      BY <1>1, <1>2, <3>1
    <3>3. r.cur >= 0 /\ r.timeout <= FirstTimeout /\ i + 1 < Len(Seqs[m])
      <4> HIDE DEF i
      <4>1. r.cur >= 0
        <5>1. CASE i = 0
          BY <2>1, <3>1, <5>1
        <5>2. CASE i # 0
          BY <3>1, <5>2
        <5> QED BY <5>1, <5>2
      <4>2. r.timeout <= FirstTimeout
        <5>1. CASE i = 0
          BY <2>1, <3>1, <5>1
        <5>2. CASE i # 0
          BY <1>3, <3>1, <5>2
        <5> QED BY <5>1, <5>2
      <4>3. i + 1 < Len(Seqs[m])
        <5> DEFINE n == Len(Seqs[m])
        <5>1. i \in Nat /\ n \in Nat /\ i < n /\ i + 1 # n
          BY <1>2, <1>3, <2>5
        <5> HIDE DEF n
        <5>2. i + 1 < n
          BY <5>1
        <5> QED BY <5>2 DEF n
      <4> QED BY <4>1, <4>2, <4>3
    <3>4. i + 1 > 1 => r.timeout <= KeyTimeout
      BY <1>3, <3>1
    <3>5. ASSUME NEW q \in Machines
          PROVE  /\ r.idx[q] < Len(Seqs[q])
                 /\ r.idx[q] > 1 => r.timeout <= KeyTimeout
                 /\ q \in D \union {m} => Ends(T, q, r.idx[q])
                 /\ q \notin D \union {m} => Ends(t, q, r.idx[q]) /\ (r.idx[q] > 0 => ~late)
      <4>1. CASE q = m
        BY <2>2, <2>5, <3>2, <3>3, <3>4, <4>1
      <4>2. CASE q # m
        <5>1. q \in Reset /\ r.idx[q] = s.idx[q]
          BY <1>1, <3>2, <4>2
        <5>2. r.timeout = s.timeout \/ r.timeout = KeyTimeout
          BY <3>1
        <5> QED BY <1>3, <2>1, <4>2, <5>1, <5>2
      <4> QED BY <4>1, <4>2
    <3> QED BY <1>4, <1>5, <2>1, <3>1, <3>3, <3>5 DEF Round
  <2> QED BY <2>3, <2>4, <2>5
<1>6. ASSUME ~s.mode PROVE Round(r, D \union {m}, t, T, late)
  <2>1. /\ s.cur = None /\ s.pressed = None
        /\ s.ran \in Reset /\ Ends(T, s.ran, Len(Seqs[s.ran]))
        /\ \A q \in Reset \ D : s.idx[q] = 0
    BY <1>6 DEF Round
  <2>2. i = 0 /\ i + 1 # Len(Seqs[m])
    <3> DEFINE n == Len(Seqs[m])
    <3>1. i = 0
      BY <1>1, <2>1
    <3>2. n \in 3..6
      BY <1>2
    <3> HIDE DEF i, n
    <3>3. i + 1 # n
      BY <3>1, <3>2
    <3> QED BY <3>1, <3>3 DEF n
  <2>3. PICK j \in 0..6 : r.idx = [s.idx EXCEPT ![m] = j]
    BY <1>4, <2>2
  <2>4. /\ r.mode = s.mode /\ r.cur = s.cur /\ r.ran = s.ran /\ r.pressed = s.pressed
    BY <1>4, <2>2
  <2>5. \A q \in Reset \ {m} : r.idx[q] = s.idx[q]
    BY <1>1, <1>2, <2>3
  <2> QED BY <1>4, <1>6, <2>1, <2>4, <2>5 DEF Round
<1> QED BY <1>5, <1>6 DEF r

\* The key has gone round all machines of the build.
LEMMA AllSee ==
    ASSUME ResetAssumption,
           NEW s, NEW k \in RkKey, NEW t, NEW T, NEW late \in BOOLEAN,
           Follows(t, T, k, late), Round(s, {}, t, T, late)
    PROVE  Round(SeenByAll(s, k), Machines, t, T, late)
<1> DEFINE cold == checkResetModeSequence(s, "COLD_FACTORY", k)
           factory == checkResetModeSequence(cold, "FACTORY", k)
           wareHouse == IF rkBuild.wareHouse
                        THEN checkResetModeSequence(factory, "WARE_HOUSE", k) ELSE factory
           customer == checkResetModeSequence(wareHouse, "CUSTOMER", k)
           personality == checkResetModeSequence(customer, "PERSONALITY", k)
<1>1. SeenByAll(s, k) = personality
  BY Zenon DEF SeenByAll
<1>2. Round(cold, {"COLD_FACTORY"}, t, T, late)
  <2>1. "COLD_FACTORY" \in Machines \ {} /\ {} \in SUBSET Reset
    BY DEF Machines, Reset
  <2>2. Round(cold, {} \union {"COLD_FACTORY"}, t, T, late)
    BY <2>1, OneSees
  <2>3. {} \union {"COLD_FACTORY"} = {"COLD_FACTORY"}
    OBVIOUS
  <2> HIDE DEF cold
  <2> QED BY <2>2, <2>3
<1> HIDE DEF cold
<1>3. Round(factory, {"COLD_FACTORY", "FACTORY"}, t, T, late)
  <2>1. "FACTORY" \in Machines \ {"COLD_FACTORY"} /\ {"COLD_FACTORY"} \in SUBSET Reset
    BY DEF Machines, Reset
  <2>2. Round(factory, {"COLD_FACTORY"} \union {"FACTORY"}, t, T, late)
    BY <1>2, <2>1, OneSees
  <2>3. {"COLD_FACTORY"} \union {"FACTORY"} = {"COLD_FACTORY", "FACTORY"}
    OBVIOUS
  <2> HIDE DEF factory
  <2> QED BY <2>2, <2>3
<1> HIDE DEF factory
<1> DEFINE three == IF rkBuild.wareHouse THEN {"COLD_FACTORY", "FACTORY", "WARE_HOUSE"}
                                         ELSE {"COLD_FACTORY", "FACTORY"}
<1>4. Round(wareHouse, three, t, T, late)
  <2>1. CASE rkBuild.wareHouse
    <3>1. "WARE_HOUSE" \in Machines \ {"COLD_FACTORY", "FACTORY"}
          /\ {"COLD_FACTORY", "FACTORY"} \in SUBSET Reset
      BY <2>1 DEF Machines, Reset
    <3>2. Round(checkResetModeSequence(factory, "WARE_HOUSE", k),
                {"COLD_FACTORY", "FACTORY"} \union {"WARE_HOUSE"}, t, T, late)
      BY <1>3, <3>1, OneSees
    <3>3. {"COLD_FACTORY", "FACTORY"} \union {"WARE_HOUSE"} = three
      BY <2>1
    <3>4. wareHouse = checkResetModeSequence(factory, "WARE_HOUSE", k)
      BY Zenon, <2>1
    <3> HIDE DEF wareHouse, three
    <3> QED BY Zenon, <3>2, <3>3, <3>4
  <2>2. CASE ~rkBuild.wareHouse
    <3>1. wareHouse = factory /\ three = {"COLD_FACTORY", "FACTORY"}
      BY Zenon, <2>2
    <3> HIDE DEF wareHouse, three
    <3> QED BY <1>3, <3>1
  <2> QED BY <2>1, <2>2
<1> HIDE DEF wareHouse
<1>5. Round(customer, three \union {"CUSTOMER"}, t, T, late)
  <2>1. "CUSTOMER" \in Machines \ three /\ three \in SUBSET Reset
    BY DEF Machines, Reset
  <2> HIDE DEF three
  <2> QED BY <1>4, <2>1, OneSees
<1> HIDE DEF customer
<1>6. Round(personality, (three \union {"CUSTOMER"}) \union {"PERSONALITY"}, t, T, late)
  <2> DEFINE four == three \union {"CUSTOMER"}
  <2>1. "PERSONALITY" \in Machines \ four /\ four \in SUBSET Reset
    BY DEF Machines, Reset
  <2>2. Round(customer, four, t, T, late)
    BY <1>5
  <2> HIDE DEF three, four
  <2>3. Round(personality, four \union {"PERSONALITY"}, t, T, late)
    BY <2>1, <2>2, OneSees
  <2> QED BY <2>3 DEF four
<1>7. (three \union {"CUSTOMER"}) \union {"PERSONALITY"} = Machines
  BY DEF Machines, Reset
<1> HIDE DEF personality, three
<1> QED BY <1>1, <1>6, <1>7

-----------------------------------------------------------------------------

\* What a state of the reset program owes to the history t, whose last key is g old.
Good(s, t, g) ==
    /\ s \in RkState
    /\ s.mode =>
          /\ s.cur >= 0 /\ g <= s.cur /\ s.timeout <= FirstTimeout
          /\ \A m \in Machines : /\ s.idx[m] < Len(Seqs[m])
                                 /\ Ends(t, m, s.idx[m])
                                 /\ s.idx[m] > 1 => s.timeout <= KeyTimeout
    /\ ~s.mode => s.cur = None

\* What the check of the time leaves of s.
Checked(s, n, t, g) ==
    /\ Good(n, t, g) /\ n.ran = "none"
    /\ n.mode = TimeCheck(s).mode
    /\ n.mode => s.mode /\ g <= n.timeout
    /\ ~n.mode => n.pressed = None \/ (n.pressed = s.pressed /\ ~s.mode)

\* After it a machine is in the running only if the key came in time.
LEMMA TimeChecked ==
    ASSUME NEW s, NEW t, NEW g \in Nat, Good(s, t, g)
    PROVE  Checked(s, TimeCheck([s EXCEPT !.ran = "none"]), t, g)
<1> DEFINE s0 == [s EXCEPT !.ran = "none"]
           n == TimeCheck(s0)
<1> SUFFICES Checked(s, n, t, g)
  OBVIOUS
<1>1. s \in RkState
  BY DEF Good
<1>2. /\ s0 \in RkState /\ s0.ran = "none"
      /\ s0.idx = s.idx /\ s0.mode = s.mode /\ s0.cur = s.cur /\ s0.timeout = s.timeout
      /\ s0.pressed = s.pressed
  BY <1>1, SetRan
<1>3. Good(s0, t, g)
  <2> HIDE DEF s0
  <2> QED BY <1>2 DEF Good
<1> HIDE DEF s0
<1>4. CASE s.cur = None
  <2>1. n = s0 /\ TimeCheck(s) = s
    BY <1>2, <1>4 DEF TimeCheck
  <2>2. ~s.mode
    BY <1>4 DEF Good, None
  <2> HIDE DEF n
  <2> QED BY <1>2, <1>3, <2>1, <2>2 DEF Checked
<1>5. CASE s.cur # None /\ s.cur > s.timeout
  <2>1. n = ResetResetState(s0) /\ TimeCheck(s) = ResetResetState(s)
    BY <1>2, <1>5 DEF TimeCheck
  <2>2. ResetResetState(s0) \in RkState /\ ResetResetState(s0).ran = s0.ran
        /\ ResetResetState(s0).mode = FALSE /\ ResetResetState(s0).cur = None
        /\ ResetResetState(s0).pressed = None
        /\ ResetResetState(s).mode = FALSE
    BY <1>1, <1>2, ResetFields
  <2> HIDE DEF n
  <2>3. n \in RkState /\ n.ran = "none" /\ n.mode = FALSE /\ n.cur = None
        /\ n.pressed = None /\ TimeCheck(s).mode = FALSE
    BY <1>2, <2>1, <2>2
  <2> QED BY <2>3 DEF Checked, Good
<1>6. CASE s.cur # None /\ ~(s.cur > s.timeout)
  <2>1. n = [s0 EXCEPT !.pressed = 0] /\ TimeCheck(s) = [s EXCEPT !.pressed = 0]
    BY <1>2, <1>6 DEF TimeCheck
  <2>2. /\ n \in RkState /\ n.idx = s0.idx /\ n.ran = s0.ran /\ n.mode = s0.mode
        /\ n.cur = s0.cur /\ n.timeout = s0.timeout /\ TimeCheck(s).mode = s.mode
    <3> HIDE DEF n
    <3> QED BY <1>1, <1>2, <2>1 DEF RkState
  <2> HIDE DEF n
  <2>3. Good(n, t, g)
    BY <1>3, <2>2 DEF Good
  <2>4. s.mode /\ g <= n.timeout
    <3>1. s.mode
      BY <1>6 DEF Good
    <3>2. g <= s.cur /\ s.cur \in Int /\ s.timeout \in Int
      BY <1>1, <3>1 DEF Good, RkState
    <3> QED BY <1>2, <1>6, <2>2, <3>1, <3>2
  <2> QED BY <1>2, <2>2, <2>3, <2>4 DEF Checked
<1> QED BY <1>4, <1>5, <1>6

\* The last test of checkResetSequence.
LEMMA NoneLeftGood ==
    ASSUME NEW s, NEW t, NEW g, Good(s, t, g)
    PROVE  /\ Good(NoneLeft(s), t, g)
           /\ NoneLeft(s).ran = s.ran /\ (NoneLeft(s).mode => s.mode)
           /\ NoneLeft(s) = s \/ (s.mode /\ ~NoneLeft(s).mode /\ NoneLeft(s).pressed = None)
<1>1. s \in RkState
  BY DEF Good
<1> DEFINE r == ResetResetState(s)
<1>2. /\ r \in RkState /\ r.mode = FALSE /\ r.cur = None /\ r.ran = s.ran
      /\ r.pressed = None
  BY <1>1, ResetFields
<1>3. NoneLeft(s) = s \/ (s.mode /\ NoneLeft(s) = r)
  BY Zenon DEF NoneLeft
<1> HIDE DEF r
<1>4. Good(r, t, g)
  BY <1>2 DEF Good
<1> QED BY <1>2, <1>3, <1>4

\* How long the program believes that a key was held.
Timed(s) == IF s.pressed = None THEN 0 ELSE s.pressed

\* Long enough to start a reboot or a reset.
Over(p) == IF rkBuild.factoryByHold THEN p >= HoldFactory ELSE p > HoldReboot

\* What the release of POWER outside reset mode makes of s.
PowerComesUp(s, r) ==
    /\ r \in RkState
    /\ \/ /\ r.ran = "FACTORY" /\ rkBuild.factoryByHold /\ Over(Timed(s))
          /\ ~r.mode /\ r.cur = s.cur /\ r.pressed = s.pressed
       \/ /\ r.ran = "reboot" /\ ~rkBuild.factoryByHold /\ Over(Timed(s))
          /\ ~r.mode /\ r.cur = s.cur /\ r.pressed = s.pressed
       \/ r.ran = s.ran /\ ~r.mode /\ r.cur = None /\ r.pressed = None
       \/ /\ r.ran = s.ran /\ r.mode /\ r.cur = 0 /\ r.timeout = FirstTimeout
          /\ r.idx = [m \in Reset |-> 1] /\ r.pressed = None
          /\ Timed(s) >= HoldReset /\ ~Over(Timed(s))

\* PowerUp, branch by branch.
LEMMA PowerUpIs ==
    ASSUME ResetAssumption, NEW s \in RkState, ~s.mode
    PROVE  PowerComesUp(s, PowerUp(s))
<1> DEFINE r == PowerUp(s)
           back == ResetResetState(s)
           ones == [m \in Reset |-> 1]
<1> SUFFICES PowerComesUp(s, r)
  OBVIOUS
<1>1. /\ back \in RkState /\ back.mode = FALSE /\ back.cur = None /\ back.pressed = None
      /\ back.ran = s.ran
  BY ResetFields
<1>2. r = IF rkBuild.factoryByHold /\ Timed(s) >= HoldFactory THEN [s EXCEPT !.ran = "FACTORY"]
          ELSE IF ~rkBuild.factoryByHold /\ Timed(s) > HoldReboot THEN [s EXCEPT !.ran = "reboot"]
          ELSE IF Timed(s) < HoldReset THEN back
          ELSE [back EXCEPT !.mode = TRUE, !.focus = TRUE, !.cur = 0, !.timeout = FirstTimeout,
                            !.idx = ones]
  BY Zenon DEF PowerUp, Timed
<1>3. Timed(s) \in Int /\ HoldReset \in Int /\ FirstTimeout \in Int
  BY DEF Timed, RkState, ResetAssumption
<1>4. ones \in [Reset -> 0..6]
  OBVIOUS
<1> HIDE DEF r, back, ones
<1>5. CASE rkBuild.factoryByHold /\ Timed(s) >= HoldFactory
  <2>1. r = [s EXCEPT !.ran = "FACTORY"]
    BY Zenon, <1>2, <1>5
  <2>2. "FACTORY" \in Reset
    BY DEF Reset
  <2>3. /\ r \in RkState /\ r.ran = "FACTORY" /\ r.mode = s.mode /\ r.cur = s.cur
        /\ r.pressed = s.pressed
    BY <2>1, <2>2 DEF RkState
  <2> QED BY <1>5, <2>3 DEF PowerComesUp, Over
<1>6. CASE ~rkBuild.factoryByHold /\ Timed(s) > HoldReboot
  <2>1. r = [s EXCEPT !.ran = "reboot"]
    BY Zenon, <1>2, <1>6
  <2>2. /\ r \in RkState /\ r.ran = "reboot" /\ r.mode = s.mode /\ r.cur = s.cur
        /\ r.pressed = s.pressed
    BY <2>1 DEF RkState
  <2> QED BY <1>6, <2>2 DEF PowerComesUp, Over
<1>7. CASE /\ ~(rkBuild.factoryByHold /\ Timed(s) >= HoldFactory)
           /\ ~(~rkBuild.factoryByHold /\ Timed(s) > HoldReboot)
  <2>1. CASE Timed(s) < HoldReset
    <3>1. r = back
      BY Zenon, <1>2, <1>7, <2>1
    <3> QED BY <1>1, <3>1 DEF PowerComesUp
  <2>2. CASE ~(Timed(s) < HoldReset)
    <3>1. r = [back EXCEPT !.mode = TRUE, !.focus = TRUE, !.cur = 0, !.timeout = FirstTimeout,
                           !.idx = ones]
      BY Zenon, <1>2, <1>7, <2>2
    <3>2. back \in RkState
      BY <1>1
    <3>3. r = [idx |-> ones, mode |-> TRUE, focus |-> TRUE, pressed |-> back.pressed,
               cur |-> 0, timeout |-> FirstTimeout, monitored |-> back.monitored,
               event |-> back.event, shown |-> back.shown, ran |-> back.ran]
      BY <3>1, <3>2 DEF RkState
    <3>4. /\ r \in RkState /\ r.mode = TRUE /\ r.cur = 0 /\ r.timeout = FirstTimeout
          /\ r.idx = ones /\ r.ran = back.ran /\ r.pressed = back.pressed
      BY <1>3, <1>4, <3>2, <3>3 DEF RkState
    <3>5. Timed(s) >= HoldReset
      BY <1>3, <2>2
    <3>6. ~Over(Timed(s))
      BY <1>7 DEF Over
    <3> QED BY <1>1, <3>4, <3>5, <3>6 DEF PowerComesUp, ones
  <2> QED BY <2>1, <2>2
<1> QED BY <1>5, <1>6, <1>7

\* The keys of t are those of reset m, in time.
TypedAs(t, m) ==
    /\ [i \in DOMAIN t |-> t[i].key] = Seqs[m]
    /\ \A i \in 2..Len(t) : ~t[i].late

\* In reset mode the machines see the key.
LEMMA UpInMode ==
    ASSUME ResetAssumption, rkTyped \in Seq(Entry), rkGap \in Nat,
           NEW s, NEW k \in RkKey, Good(s, rkTyped, rkGap), s.mode, s.ran = "none",
           rkGap <= s.timeout
    PROVE  LET r == SeenByAll(s, k)
               T == Beginning(Append(rkTyped, [key |-> k, late |-> rkGap > Limit]))
           IN  /\ T \in Seq(Entry) /\ Good(r, T, 0)
               /\ r.ran \in Reset => TypedAs(T, r.ran)
               /\ r.ran \in Reset \union {"none"}
               /\ ~r.mode => r.pressed = None
<1> DEFINE late == rkGap > Limit
           e == [key |-> k, late |-> late]
           T == Beginning(Append(rkTyped, e))
           r == SeenByAll(s, k)
<1>1. e \in Entry /\ late \in BOOLEAN /\ e.key = k /\ e.late = late
  BY DEF Entry
<1> HIDE DEF e
<1>2. /\ T \in Seq(Entry) /\ MayBegin(T)
      /\ \A m \in Reset, i \in Nat :
            /\ Ends(rkTyped, m, i) /\ i < Len(Seqs[m]) /\ e.key = Seqs[m][i + 1]
            /\ i > 0 => ~e.late
            => Ends(T, m, i + 1)
  BY <1>1, BeginningKeeps
<1> HIDE DEF T
<1>3. Follows(rkTyped, T, k, late)
  <2> HIDE DEF late
  <2> QED BY <1>1, <1>2 DEF Follows
<1>4. /\ s \in RkState /\ s.cur >= 0 /\ s.timeout <= FirstTimeout
      /\ \A m \in Machines : /\ s.idx[m] < Len(Seqs[m])
                             /\ Ends(rkTyped, m, s.idx[m])
                             /\ s.idx[m] > 1 => s.timeout <= KeyTimeout
  BY DEF Good
<1>5. /\ s.timeout \in Int /\ KeyTimeout \in Int /\ FirstTimeout \in Int
      /\ KeyTimeout <= FirstTimeout /\ Limit \in {KeyTimeout, FirstTimeout}
  BY <1>4 DEF RkState, ResetAssumption, Limit
<1>6. ASSUME NEW m \in Machines, s.idx[m] > 0
      PROVE  ~late
  <2>1. m \in Reset /\ s.idx[m] \in 0..6
    BY <1>4 DEF Machines, RkState
  <2>2. CASE s.idx[m] = 1
    <3>1. Ends(rkTyped, m, 1) /\ Seqs[m][1] = "POWER"
      BY <1>4, <2>1, <2>2, SeqFacts
    <3>2. 1 <= Len(rkTyped) /\ rkTyped[Len(rkTyped)].key = "POWER"
      <4>1. 1 \in 1..1
        OBVIOUS
      <4>2. 1 <= Len(rkTyped) /\ rkTyped[Len(rkTyped) - 1 + 1].key = "POWER"
        BY <3>1, <4>1 DEF Ends
      <4> QED BY <4>2
    <3>3. Limit = FirstTimeout
      BY <3>2 DEF Limit, Last
    <3> QED BY <1>4, <1>5, <3>3
  <2>3. CASE s.idx[m] # 1
    <3>1. s.timeout <= KeyTimeout
      BY <1>4, <1>6, <2>1, <2>3
    <3> QED BY <1>5, <3>1
  <2> QED BY <2>2, <2>3
<1> HIDE DEF late
<1>7. Round(s, {}, rkTyped, T, late)
  BY <1>4, <1>6 DEF Round
<1>8. Round(r, Machines, rkTyped, T, late)
  BY <1>1, <1>3, <1>7, AllSee
<1> HIDE DEF r
<1>9. Good(r, T, 0)
  BY <1>8 DEF Round, Good
<1>10. r.ran \in Reset \union {"none"} /\ (~r.mode => r.pressed = None)
  BY <1>8 DEF Round
<1>11. r.ran \in Reset => TypedAs(T, r.ran)
  <2> SUFFICES ASSUME r.ran \in Reset PROVE TypedAs(T, r.ran)
    OBVIOUS
  <2>1. "none" \notin Reset
    BY DEF Reset
  <2>2. Ends(T, r.ran, Len(Seqs[r.ran]))
    BY <1>8, <2>1 DEF Round
  <2> QED BY <1>2, <2>2, WholeIsTyped DEF TypedAs
<1> QED BY <1>2, <1>9, <1>10, <1>11 DEF r, T, e, late

\* The parts of the invariant that the keys need.
RkTypeOK ==
    /\ rkBuild \in [factoryByHold : BOOLEAN, wareHouse : BOOLEAN]
    /\ rk \in RkState
    /\ rkHeld \in [HoldKey -> Nat \union {None}]
    /\ rkTyped \in Seq(Entry) /\ rkGap \in Nat
    /\ rkDone \in BOOLEAN /\ rkLost \in Nat /\ rkHold \in Int

\* A key that comes down or repeats, and the undefined key, which is not handed over.
Passes(type, k) ==
    /\ Good(rk', rkTyped, rkGap) /\ rk'.ran = "none"
    /\ UNCHANGED <<rkTyped, rkGap>>
    /\ rk'.mode => rk.mode
    /\ ~rk'.mode => \/ rk'.pressed = None
                    \/ rk'.pressed = rk.pressed /\ ~rk.mode /\ ~(type = "down" /\ k \in HoldKey)
                    \/ rk'.pressed = 0 /\ type = "down" /\ k \in HoldKey

\* An event that is not handed over runs nothing.
LEMMA RanNone ==
    ASSUME NEW s, NEW t, NEW g, Good(s, t, g)
    PROVE  LET r == [s EXCEPT !.ran = "none"]
           IN  /\ Good(r, t, g) /\ r.ran = "none" /\ r.mode = s.mode
               /\ r.pressed = s.pressed
<1> DEFINE r == [s EXCEPT !.ran = "none"]
<1>1. s \in RkState
  BY DEF Good
<1>2. /\ r \in RkState /\ r.ran = "none"
      /\ r.idx = s.idx /\ r.mode = s.mode /\ r.cur = s.cur /\ r.timeout = s.timeout
      /\ r.pressed = s.pressed
  BY <1>1, SetRan
<1> HIDE DEF r
<1>3. Good(r, t, g)
  BY <1>2 DEF Good
<1> QED BY <1>2, <1>3 DEF r

\* A press times a hold, outside reset mode only.
LEMMA KeyDownGood ==
    ASSUME NEW s, NEW t, NEW g, NEW k, Good(s, t, g)
    PROVE  LET r == KeyDown(s, k)
           IN  /\ Good(r, t, g) /\ r.ran = s.ran /\ r.mode = s.mode
               /\ ~s.mode /\ k \in HoldKey => r.pressed = 0
               /\ ~(~s.mode /\ k \in HoldKey) => r = s
<1> DEFINE r == KeyDown(s, k)
<1>1. s \in RkState
  BY DEF Good
<1>2. CASE ~s.mode /\ k \in HoldKey
  <2>1. r = [s EXCEPT !.pressed = 0]
    BY Zenon, <1>2 DEF KeyDown
  <2>2. /\ r \in RkState /\ r.pressed = 0 /\ r.ran = s.ran /\ r.mode = s.mode
        /\ r.cur = s.cur /\ r.timeout = s.timeout /\ r.idx = s.idx
    <3> HIDE DEF r
    <3> QED BY <1>1, <2>1 DEF RkState
  <2> HIDE DEF r
  <2>3. Good(r, t, g)
    BY <2>2 DEF Good
  <2> QED BY <1>2, <2>2, <2>3 DEF r
<1>3. CASE ~(~s.mode /\ k \in HoldKey)
  <2>1. r = s
    BY Zenon, <1>3 DEF KeyDown
  <2> HIDE DEF r
  <2> QED BY <1>3, <2>1 DEF r
<1> QED BY <1>2, <1>3

\* Presses, repeats and undefined keys.
LEMMA HandlePasses ==
    ASSUME RkTypeOK, Good(rk, rkTyped, rkGap),
           NEW type \in {"down", "up", "repeat"}, NEW k \in RkKey,
           type # "up" \/ k = "UNDEFINED",
           Handle(type, k)
    PROVE  Passes(type, k)
<1>1. CASE k = "UNDEFINED"
  <2>1. rk' = [rk EXCEPT !.ran = "none"] /\ UNCHANGED <<rkTyped, rkGap>>
    BY <1>1 DEF Handle
  <2>2. /\ Good(rk', rkTyped, rkGap) /\ rk'.ran = "none" /\ rk'.mode = rk.mode
        /\ rk'.pressed = rk.pressed
    BY <2>1, RanNone
  <2>3. k \notin HoldKey
    BY <1>1 DEF HoldKey
  <2> QED BY <2>1, <2>2, <2>3 DEF Passes
<1>2. CASE k # "UNDEFINED"
  <2> DEFINE s == TimeCheck([rk EXCEPT !.ran = "none"])
             d == IF type = "down" THEN KeyDown(s, k) ELSE s
  <2>1. type = "down" \/ type = "repeat"
    BY <1>2
  <2>2. rk' = NoneLeft(d) /\ UNCHANGED <<rkTyped, rkGap>>
    BY <1>2, <2>1 DEF Handle, checkResetSequence
  <2>3. Checked(rk, s, rkTyped, rkGap)
    BY TimeChecked DEF RkTypeOK
  <2> HIDE DEF s
  <2>4. /\ Good(s, rkTyped, rkGap) /\ s.ran = "none" /\ (s.mode => rk.mode)
        /\ ~s.mode => s.pressed = None \/ (s.pressed = rk.pressed /\ ~rk.mode)
    BY <2>3 DEF Checked
  <2>5. /\ Good(d, rkTyped, rkGap) /\ d.ran = s.ran /\ d.mode = s.mode
        /\ d = s \/ (d.pressed = 0 /\ type = "down" /\ k \in HoldKey)
        /\ ~s.mode /\ type = "down" /\ k \in HoldKey => d.pressed = 0
    <3>1. CASE type = "down"
      <4>1. d = KeyDown(s, k)
        BY <3>1
      <4> HIDE DEF d
      <4> QED BY <2>4, <3>1, <4>1, KeyDownGood
    <3>2. CASE type # "down"
      <4>1. d = s
        BY <3>2
      <4> HIDE DEF d
      <4> QED BY <2>4, <3>2, <4>1
    <3> QED BY <3>1, <3>2
  <2> HIDE DEF d
  <2>6. /\ Good(NoneLeft(d), rkTyped, rkGap)
        /\ NoneLeft(d).ran = d.ran /\ (NoneLeft(d).mode => d.mode)
        /\ NoneLeft(d) = d \/ (d.mode /\ ~NoneLeft(d).mode /\ NoneLeft(d).pressed = None)
    BY <2>5, NoneLeftGood
  <2>7. ASSUME ~rk'.mode
        PROVE  \/ rk'.pressed = None
               \/ rk'.pressed = rk.pressed /\ ~rk.mode /\ ~(type = "down" /\ k \in HoldKey)
               \/ rk'.pressed = 0 /\ type = "down" /\ k \in HoldKey
    <3>1. CASE rk' = d
      BY <2>4, <2>5, <2>7, <3>1
    <3>2. CASE rk' # d
      BY <2>2, <2>6, <3>2
    <3> QED BY <3>1, <3>2
  <2> QED BY <2>2, <2>4, <2>5, <2>6, <2>7 DEF Passes
<1> QED BY <1>1, <1>2

\* A key released in reset mode.
UpSeen ==
    /\ Good(rk', rkTyped', 0) /\ rkTyped' \in Seq(Entry) /\ rkGap' = 0
    /\ rk'.ran \in Reset => TypedAs(rkTyped', rk'.ran)
    /\ rk'.ran \in Reset \union {"none"}
    /\ ~rk'.mode => rk'.pressed = None

\* Releases in reset mode.
LEMMA HandleUpInMode ==
    ASSUME ResetAssumption, RkTypeOK, Good(rk, rkTyped, rkGap),
           NEW k \in RkKey, k # "UNDEFINED", TimeCheck(rk).mode, Handle("up", k)
    PROVE  UpSeen /\ rk.mode
<1> DEFINE s == TimeCheck([rk EXCEPT !.ran = "none"])
           u == SeenByAll(s, k)
           T == Beginning(Append(rkTyped, [key |-> k, late |-> rkGap > Limit]))
<1>1. Checked(rk, s, rkTyped, rkGap)
  BY TimeChecked DEF RkTypeOK
<1>2. rk' = NoneLeft(KeyUp(s, k)) /\ Record(TimeCheck(rk).mode, k)
  BY DEF Handle, checkResetSequence
<1>3. rkTyped' = T /\ rkGap' = 0
  BY <1>2 DEF Record
<1> HIDE DEF s
<1>4. /\ Good(s, rkTyped, rkGap) /\ s.ran = "none" /\ s.mode /\ rk.mode /\ rkGap <= s.timeout
  BY <1>1 DEF Checked
<1>5. KeyUp(s, k) = u
  BY <1>4 DEF KeyUp
<1>6. /\ T \in Seq(Entry) /\ Good(u, T, 0)
      /\ u.ran \in Reset => TypedAs(T, u.ran)
      /\ u.ran \in Reset \union {"none"}
      /\ ~u.mode => u.pressed = None
  BY <1>4, UpInMode DEF RkTypeOK
<1> HIDE DEF u, T
<1>7. /\ Good(NoneLeft(u), T, 0) /\ NoneLeft(u).ran = u.ran
      /\ NoneLeft(u) = u \/ (u.mode /\ ~NoneLeft(u).mode /\ NoneLeft(u).pressed = None)
  BY <1>6, NoneLeftGood
<1>8. ASSUME ~rk'.mode PROVE rk'.pressed = None
  BY <1>2, <1>5, <1>6, <1>7, <1>8
<1> QED BY <1>2, <1>3, <1>4, <1>5, <1>6, <1>7, <1>8 DEF UpSeen

\* POWER is released outside reset mode.
UpPower(s) ==
    /\ s \in RkState /\ s.ran = "none"
    /\ s.pressed = None \/ (s.pressed = rk.pressed /\ ~rk.mode)
    /\ Good(rk', rkTyped', 0) /\ rkGap' = 0
    /\ rkTyped' = IF rk'.mode THEN <<[key |-> "POWER", late |-> FALSE]>> ELSE <<>>
    /\ PowerComesUp(s, rk')

\* POWER comes up.
LEMMA HandlePowerUp ==
    ASSUME ResetAssumption, RkTypeOK, Good(rk, rkTyped, rkGap),
           ~TimeCheck(rk).mode, Handle("up", "POWER")
    PROVE  \E s \in RkState : UpPower(s)
<1> DEFINE s == TimeCheck([rk EXCEPT !.ran = "none"])
           u == PowerUp(s)
           one == <<[key |-> "POWER", late |-> FALSE]>>
<1>1. Checked(rk, s, rkTyped, rkGap)
  BY TimeChecked DEF RkTypeOK
<1>2. rk' = NoneLeft(KeyUp(s, "POWER")) /\ Record(TimeCheck(rk).mode, "POWER")
  BY DEF Handle, checkResetSequence
<1> HIDE DEF s
<1>3. /\ s \in RkState /\ Good(s, rkTyped, rkGap) /\ s.ran = "none" /\ ~s.mode
      /\ s.cur = None
      /\ s.pressed = None \/ (s.pressed = rk.pressed /\ ~rk.mode)
  BY <1>1 DEF Checked, Good
<1>4. KeyUp(s, "POWER") = u
  BY <1>3 DEF KeyUp, HoldKey
<1>5. PowerComesUp(s, u)
  BY <1>3, PowerUpIs
<1> HIDE DEF u
<1>6. u \in RkState /\ (u.mode => u.idx = [m \in Reset |-> 1])
  BY <1>5 DEF PowerComesUp
<1>7. NoneLeft(u) = u
  <2>1. CASE u.mode
    <3>1. "FACTORY" \in Reset
      BY DEF Reset
    <3>2. u.idx["FACTORY"] = 1
      BY <1>6, <2>1, <3>1
    <3> QED BY <3>1, <3>2 DEF NoneLeft
  <2>2. CASE ~u.mode
    BY <2>2 DEF NoneLeft
  <2> QED BY <2>1, <2>2
<1>8. rk' = u
  BY <1>2, <1>4, <1>7
<1>9. rkTyped' = (IF rk'.mode THEN one ELSE <<>>) /\ rkGap' = 0
  BY <1>2 DEF Record
<1>10. Good(rk', rkTyped', 0)
  <2>1. CASE u.mode
    <3>1. /\ u.cur = 0 /\ u.timeout = FirstTimeout /\ u.idx = [m \in Reset |-> 1]
      BY <1>3, <1>5, <2>1 DEF PowerComesUp
    <3>2. rkTyped' = one
      BY <1>8, <1>9, <2>1
    <3>3. FirstTimeout \in Int /\ Machines \subseteq Reset
      BY DEF ResetAssumption, Machines
    <3>4. ASSUME NEW m \in Machines
          PROVE  u.idx[m] < Len(Seqs[m]) /\ Ends(one, m, u.idx[m]) /\ ~(u.idx[m] > 1)
      <4>1. u.idx[m] = 1 /\ Seqs[m][1] = "POWER"
        BY <3>1, <3>3, SeqFacts
      <4>2. 1 < Len(Seqs[m])
        <5> DEFINE n == Len(Seqs[m])
        <5>1. n \in 3..6
          BY <3>3, SeqFacts
        <5> HIDE DEF n
        <5>2. 1 < n
          BY <5>1
        <5> QED BY <5>2 DEF n
      <4>3. Ends(one, m, 1)
        <5>1. Len(one) = 1 /\ one[1].key = "POWER"
          OBVIOUS
        <5> HIDE DEF one
        <5> QED BY <4>1, <5>1 DEF Ends
      <4> HIDE DEF one
      <4> QED BY <4>1, <4>2, <4>3
    <3> HIDE DEF one
    <3> QED BY <1>6, <1>8, <2>1, <3>1, <3>2, <3>3, <3>4 DEF Good
  <2>2. CASE ~u.mode
    <3>1. u.cur = None
      BY <1>3, <1>5, <2>2 DEF PowerComesUp
    <3> QED BY <1>6, <1>8, <2>2, <3>1 DEF Good
  <2> QED BY <2>1, <2>2
<1> QED BY <1>3, <1>5, <1>8, <1>9, <1>10 DEF UpPower

\* Another key released outside reset mode.
UpOther(k) ==
    /\ rk' \in RkState /\ rk'.ran = "none" /\ ~rk'.mode /\ rk'.cur = None
    /\ rk'.pressed = None \/ (rk'.pressed = rk.pressed /\ ~rk.mode)
    /\ k = "FACTORY" => rk'.pressed = None
    /\ rkTyped' = <<>> /\ rkGap' = 0

\* Any other key comes up.
LEMMA HandleOtherUp ==
    ASSUME RkTypeOK, Good(rk, rkTyped, rkGap),
           NEW k \in RkKey, k # "UNDEFINED", k # "POWER", ~TimeCheck(rk).mode, Handle("up", k)
    PROVE  UpOther(k)
<1> DEFINE s == TimeCheck([rk EXCEPT !.ran = "none"])
           u == KeyUp(s, k)
           back == ResetResetState(s)
<1>1. Checked(rk, s, rkTyped, rkGap)
  BY TimeChecked DEF RkTypeOK
<1>2. rk' = NoneLeft(u) /\ Record(TimeCheck(rk).mode, k)
  BY DEF Handle, checkResetSequence
<1> HIDE DEF s
<1>3. /\ s \in RkState /\ s.ran = "none" /\ ~s.mode /\ s.cur = None
      /\ s.pressed = None \/ (s.pressed = rk.pressed /\ ~rk.mode)
  BY <1>1 DEF Checked, Good
<1>4. /\ back \in RkState /\ back.mode = FALSE /\ back.cur = None /\ back.pressed = None
      /\ back.ran = s.ran
  BY <1>3, ResetFields
<1>5. u = back \/ (u = s /\ k # "FACTORY")
  BY <1>3 DEF KeyUp, HoldKey
<1> HIDE DEF u, back
<1>6. /\ u \in RkState /\ u.ran = "none" /\ ~u.mode /\ u.cur = None
      /\ u.pressed = None \/ (u.pressed = rk.pressed /\ ~rk.mode)
      /\ k = "FACTORY" => u.pressed = None
  BY <1>3, <1>4, <1>5
<1>7. rk' = u
  BY <1>2, <1>6 DEF NoneLeft
<1>8. rkTyped' = <<>> /\ rkGap' = 0
  BY <1>2, <1>6, <1>7 DEF Record
<1> QED BY <1>6, <1>7, <1>8 DEF UpOther

\* The inductive invariant behind ResetOnlyBySequence.
RkInv == RkTypeOK /\ Good(rk, rkTyped, rkGap) /\ ResetOnlyBySequence

\* The build stays, so Good may be stated in the next state.
LEMMA GoodThen ==
    ASSUME rkBuild' = rkBuild, Good(rk', rkTyped', rkGap')
    PROVE  Good(rk, rkTyped, rkGap)'
<1>1. Machines' = Machines
  BY DEF Machines
<1> QED BY <1>1 DEF Good

\* A step that runs no reset.
LEMMA RanNothing ==
    ASSUME rk'.ran \notin Reset
    PROVE  ResetOnlyBySequence'
  BY DEF ResetOnlyBySequence

\* Every event that is handled.
LEMMA HandledOK ==
    ASSUME ResetAssumption, RkTypeOK, Good(rk, rkTyped, rkGap), rkBuild' = rkBuild,
           NEW type \in {"down", "up", "repeat"}, NEW k \in RkKey, Handle(type, k)
    PROVE  /\ Good(rk, rkTyped, rkGap)' /\ rkTyped' \in Seq(Entry) /\ rkGap' \in Nat
           /\ ResetOnlyBySequence'
<1>1. "none" \notin Reset /\ "reboot" \notin Reset
  BY DEF Reset
<1>2. CASE type # "up" \/ k = "UNDEFINED"
  <2>1. Passes(type, k)
    BY <1>2, HandlePasses
  <2>2. rkTyped' = rkTyped /\ rkGap' = rkGap /\ Good(rk', rkTyped, rkGap) /\ rk'.ran = "none"
    BY <2>1 DEF Passes
  <2>3. Good(rk', rkTyped', rkGap')
    BY <2>2
  <2>4. ResetOnlyBySequence'
    BY <1>1, <2>2, RanNothing
  <2> QED BY <2>2, <2>3, <2>4, GoodThen DEF RkTypeOK
<1>3. CASE type = "up" /\ k # "UNDEFINED" /\ TimeCheck(rk).mode
  <2>1. UpSeen
    BY <1>3, HandleUpInMode
  <2>2. /\ Good(rk', rkTyped', 0) /\ rkTyped' \in Seq(Entry) /\ rkGap' = 0
        /\ rk'.ran \in Reset => TypedAs(rkTyped', rk'.ran)
    BY <2>1 DEF UpSeen
  <2>3. Good(rk', rkTyped', rkGap')
    BY <2>2
  <2>4. ResetOnlyBySequence'
    BY <2>2 DEF ResetOnlyBySequence, Typed, TypedAs
  <2> QED BY <2>2, <2>3, <2>4, GoodThen
<1>4. CASE type = "up" /\ k = "POWER" /\ ~TimeCheck(rk).mode
  <2>1. PICK s \in RkState : UpPower(s)
    BY <1>4, HandlePowerUp
  <2>2. /\ Good(rk', rkTyped', 0) /\ rkGap' = 0 /\ PowerComesUp(s, rk') /\ s.ran = "none"
        /\ rkTyped' = IF rk'.mode THEN <<[key |-> "POWER", late |-> FALSE]>> ELSE <<>>
    BY <2>1 DEF UpPower
  <2>3. Good(rk', rkTyped', rkGap')
    BY <2>2
  <2>4. rkTyped' \in Seq(Entry)
    <3> DEFINE e == [key |-> "POWER", late |-> FALSE]
    <3>1. e \in Entry
      BY DEF Entry, RkKey, HoldKey
    <3> HIDE DEF e
    <3>2. <<e>> \in Seq(Entry) /\ <<>> \in Seq(Entry)
      BY <3>1
    <3>3. rkTyped' = <<e>> \/ rkTyped' = <<>>
      BY <2>2 DEF e
    <3> QED BY <3>2, <3>3
  <2>5. ResetOnlyBySequence'
    <3> SUFFICES ASSUME rk'.ran \in Reset
                 PROVE  rkBuild.factoryByHold /\ rk'.ran = "FACTORY" /\ rkTyped' = <<>>
      BY <1>1 DEF ResetOnlyBySequence, ByHold
    <3> QED BY <1>1, <2>2 DEF PowerComesUp
  <2> QED BY <2>2, <2>3, <2>4, <2>5, GoodThen
<1>5. CASE type = "up" /\ k \notin {"POWER", "UNDEFINED"} /\ ~TimeCheck(rk).mode
  <2>1. UpOther(k)
    BY <1>5, HandleOtherUp
  <2>2. Good(rk', rkTyped', rkGap') /\ rk'.ran = "none" /\ rkTyped' = <<>> /\ rkGap' = 0
    BY <2>1 DEF UpOther, Good
  <2>3. ResetOnlyBySequence'
    BY <1>1, <2>2, RanNothing
  <2> QED BY <2>2, <2>3, GoodThen
<1> QED BY <1>2, <1>3, <1>4, <1>5

\* Every event that is lost.
LEMMA LostOK ==
    ASSUME RkTypeOK, Good(rk, rkTyped, rkGap), rkBuild' = rkBuild, Lose
    PROVE  /\ Good(rk, rkTyped, rkGap)' /\ rkTyped' \in Seq(Entry) /\ rkGap' \in Nat
           /\ ResetOnlyBySequence' /\ rkLost' \in Nat
<1>1. "none" \notin Reset
  BY DEF Reset
<1>2. rk' = [rk EXCEPT !.ran = "none"] /\ UNCHANGED <<rkTyped, rkGap>> /\ rkLost' = rkLost + 1
  BY DEF Lose
<1>3. Good(rk', rkTyped, rkGap) /\ rk'.ran = "none"
  BY <1>2, RanNone
<1>4. Good(rk', rkTyped', rkGap')
  BY <1>2, <1>3
<1>5. ResetOnlyBySequence'
  BY <1>1, <1>3, RanNothing
<1> QED BY <1>2, <1>4, <1>5, GoodThen DEF RkTypeOK

\* The longest hold is no shorter than any.
LEMMA MaxOfHeld ==
    ASSUME rkHeld \in [HoldKey -> Nat \union {None}]
    PROVE  LET top == Max({rkHeld[h] : h \in HoldKey})
           IN  top \in Int /\ \A h \in HoldKey : rkHeld[h] <= top
<1> DEFINE S == {rkHeld[h] : h \in HoldKey}
           p == rkHeld["POWER"]
           f == rkHeld["FACTORY"]
<1>1. S = {p, f} /\ p \in Int /\ f \in Int
  BY DEF HoldKey, None
<1> HIDE DEF p, f
<1>2. \E x \in S : \A y \in S : x >= y
  <2>1. CASE p >= f
    BY <1>1, <2>1
  <2>2. CASE ~(p >= f)
    BY <1>1, <2>2
  <2> QED BY <2>1, <2>2
<1>3. \A h \in HoldKey : rkHeld[h] \in S
  OBVIOUS
<1> HIDE DEF S
<1>4. Max(S) \in S /\ \A y \in S : Max(S) >= y
  BY <1>2 DEF Max
<1>5. Max(S) \in Int /\ \A h \in HoldKey : Max(S) >= rkHeld[h]
  BY <1>1, <1>3, <1>4
<1>6. \A h \in HoldKey : rkHeld[h] \in Int
  BY DEF None
<1> QED BY <1>5, <1>6 DEF S

\* Ages grow together up to MaxAge.
LEMMA OlderIs ==
    ASSUME ResetAssumption, NEW a \in Nat \union {None}
    PROVE  /\ Older(a) \in Nat \union {None} /\ (Older(a) = None <=> a = None)
           /\ Older(a) >= a
           /\ \A b \in Nat \union {None} : a <= b => Older(a) <= Older(b)
  BY DEF ResetAssumption, Older, None

\* Time passes.
LEMMA TickOK ==
    ASSUME ResetAssumption, RkTypeOK, Good(rk, rkTyped, rkGap), RkTick
    PROVE  /\ Good(rk, rkTyped, rkGap)' /\ ResetOnlyBySequence'
           /\ rkTyped' \in Seq(Entry) /\ rkGap' \in Nat
           /\ rkHeld' \in [HoldKey -> Nat \union {None}]
           /\ UNCHANGED <<rkBuild, rkLost, rkTyped, rkHold>>
           /\ rk'.mode = rk.mode /\ rk'.ran = "none" /\ rk'.pressed = Older(rk.pressed)
           /\ rkHeld' = [k \in HoldKey |-> Older(rkHeld[k])]
<1> DEFINE p == Older(rk.pressed)
           c == Older(rk.cur)
<1>1. /\ rk' = [rk EXCEPT !.pressed = p, !.cur = c, !.ran = "none"]
      /\ rkHeld' = [k \in HoldKey |-> Older(rkHeld[k])]
      /\ rkGap' = IF rk.mode THEN Older(rkGap) ELSE rkGap
      /\ rkBuild' = rkBuild /\ rkLost' = rkLost /\ rkTyped' = rkTyped /\ rkHold' = rkHold
  BY DEF RkTick
<1>2. rk \in RkState /\ rkGap \in Nat /\ rkTyped \in Seq(Entry)
      /\ rkHeld \in [HoldKey -> Nat \union {None}]
  BY DEF RkTypeOK
<1>3. p \in Int /\ c \in Int
  BY <1>2 DEF RkState, Older, ResetAssumption, None
<1> HIDE DEF p, c
<1>4. /\ rk' \in RkState /\ rk'.ran = "none" /\ rk'.mode = rk.mode /\ rk'.idx = rk.idx
      /\ rk'.timeout = rk.timeout /\ rk'.cur = c /\ rk'.pressed = p
  <2>1. rk' = [idx |-> rk.idx, mode |-> rk.mode, focus |-> rk.focus, pressed |-> p,
               cur |-> c, timeout |-> rk.timeout, monitored |-> rk.monitored,
               event |-> rk.event, shown |-> rk.shown, ran |-> "none"]
    BY <1>1, <1>2 DEF RkState
  <2> QED BY <1>2, <1>3, <2>1 DEF RkState
<1>5. Good(rk', rkTyped', rkGap')
  <2>1. CASE rk.mode
    <3>1. rk.cur \in Nat /\ rkGap <= rk.cur
      BY <1>2, <2>1 DEF Good, RkState
    <3>2. c >= rk.cur /\ Older(rkGap) <= c /\ c \in Int
      BY <1>2, <1>3, <3>1, OlderIs DEF c
    <3>3. rkGap' <= rk'.cur /\ rk'.cur >= 0
      BY <1>1, <1>4, <2>1, <3>1, <3>2
    <3> QED BY <1>1, <1>4, <2>1, <3>3 DEF Good
  <2>2. CASE ~rk.mode
    <3>1. rk.cur = None
      BY <2>2 DEF Good
    <3>2. c = None
      BY <3>1 DEF c, Older
    <3> QED BY <1>4, <2>2, <3>2 DEF Good
  <2> QED BY <2>1, <2>2
<1>6. rkHeld' \in [HoldKey -> Nat \union {None}]
  <2>1. \A k \in HoldKey : Older(rkHeld[k]) \in Nat \union {None}
    BY <1>2, OlderIs
  <2> QED BY <1>1, <2>1
<1>7. rkGap' \in Nat
  <2>1. Older(rkGap) \in Nat
    BY <1>2 DEF Older, None, ResetAssumption
  <2> QED BY <1>1, <1>2, <2>1
<1>8. "none" \notin Reset
  BY DEF Reset
<1>9. ResetOnlyBySequence'
  BY <1>4, <1>8, RanNothing
<1> QED BY <1>1, <1>2, <1>4, <1>5, <1>6, <1>7, <1>9, GoodThen DEF p

\* Every step of the keys keeps the invariant.
LEMMA KeysStep ==
    ASSUME ResetAssumption, RkInv, [RkNext]_rkVars
    PROVE  RkInv'
<1>1. RkTypeOK /\ Good(rk, rkTyped, rkGap)
  BY DEF RkInv
<1>2. /\ rkHeld \in [HoldKey -> Nat \union {None}] /\ rkLost \in Nat /\ rkHold \in Int
      /\ rkBuild \in [factoryByHold : BOOLEAN, wareHouse : BOOLEAN] /\ rkDone \in BOOLEAN
  BY <1>1 DEF RkTypeOK
<1>3. CASE UNCHANGED rkVars
  <2>1. /\ rkBuild' = rkBuild /\ rk' = rk /\ rkHeld' = rkHeld /\ rkLost' = rkLost
        /\ rkTyped' = rkTyped /\ rkGap' = rkGap /\ rkDone' = rkDone /\ rkHold' = rkHold
    BY <1>3 DEF rkVars
  <2>2. Good(rk, rkTyped, rkGap)'
    BY <1>1, <2>1, GoodThen
  <2>3. ResetOnlyBySequence'
    BY <2>1 DEF RkInv, ResetOnlyBySequence, Typed, ByHold
  <2> QED BY <1>1, <2>1, <2>2, <2>3 DEF RkInv, RkTypeOK
<1>4. CASE RkNext
  <2>1. rkDone' \in BOOLEAN
    BY <1>4 DEF RkNext, ByHold
  <2> DEFINE Kept == /\ Good(rk, rkTyped, rkGap)' /\ rkTyped' \in Seq(Entry) /\ rkGap' \in Nat
                     /\ ResetOnlyBySequence'
             World == /\ rkBuild' = rkBuild /\ rkLost' \in Nat /\ rkHold' \in Int
                      /\ rkHeld' \in [HoldKey -> Nat \union {None}]
  <2>2. Kept /\ World => RkInv'
    BY <1>2, <2>1 DEF RkInv, RkTypeOK, Good
  <2>3. ASSUME NEW k \in HoldKey, RkPress(k) PROVE Kept /\ World
    <3>1. World
      BY <1>2, <2>3 DEF RkPress, Lose
    <3>2. Kept
      BY <1>1, <2>3, HandledOK, LostOK DEF RkPress, RkKey
    <3> QED BY <3>1, <3>2
  <2>4. ASSUME NEW k \in HoldKey, RkRepeat(k) PROVE Kept /\ World
    <3>1. World
      BY <1>2, <2>4 DEF RkRepeat
    <3>2. Kept
      BY <1>1, <2>4, HandledOK DEF RkRepeat, RkKey
    <3> QED BY <3>1, <3>2
  <2>5. ASSUME NEW k \in HoldKey, RkRelease(k) PROVE Kept /\ World
    <3>1. World
      BY <1>2, <2>5, MaxOfHeld DEF RkRelease, Lose
    <3>2. Kept
      BY <1>1, <2>5, HandledOK, LostOK DEF RkRelease, RkKey
    <3> QED BY <3>1, <3>2
  <2>6. ASSUME NEW k \in RkKey \ HoldKey, NEW type \in {"down", "up"}, RkTap(type, k)
        PROVE  Kept /\ World
    <3>1. World
      BY <1>2, <2>6 DEF RkTap
    <3>2. Kept
      BY <1>1, <2>6, HandledOK DEF RkTap
    <3> QED BY <3>1, <3>2
  <2>7. ASSUME RkTick PROVE Kept /\ World
    BY <1>1, <1>2, <2>7, TickOK
  <2> HIDE DEF Kept, World
  <2> QED BY <1>4, <2>2, <2>3, <2>4, <2>5, <2>6, <2>7 DEF RkNext
<1> QED BY <1>3, <1>4

\* The start.
LEMMA KeysInit ==
    ASSUME ResetAssumption, RkInit
    PROVE  RkInv
<1>1. "none" \notin Reset
  BY DEF Reset
<1>2. rk \in RkState /\ ~rk.mode /\ rk.cur = None /\ rk.ran = "none"
  <2>1. [m \in Reset |-> 0] \in [Reset -> 0..6]
    OBVIOUS
  <2> QED BY <2>1 DEF RkInit, RkState, None
<1>3. Good(rk, rkTyped, rkGap)
  BY <1>2 DEF Good
<1>4. RkTypeOK
  <2>1. [k \in HoldKey |-> None] \in [HoldKey -> Nat \union {None}]
    OBVIOUS
  <2>2. <<>> \in Seq(Entry)
    OBVIOUS
  <2>3. rkBuild \in [factoryByHold : BOOLEAN, wareHouse : BOOLEAN]
    BY DEF RkInit, ResetAssumption
  <2>4. /\ rkHeld = [k \in HoldKey |-> None] /\ rkTyped = <<>> /\ rkGap = 0 /\ rkDone = FALSE
        /\ rkLost = 0 /\ rkHold = 0
    BY DEF RkInit
  <2>5. rkHeld \in [HoldKey -> Nat \union {None}] /\ rkTyped \in Seq(Entry)
    BY <2>1, <2>2, <2>4
  <2>6. rkGap \in Nat /\ rkLost \in Nat /\ rkHold \in Int
    BY <2>4
  <2>7. rkDone \in BOOLEAN
    BY Zenon, <2>4
  <2> QED BY Zenon, <1>2, <2>3, <2>5, <2>6, <2>7 DEF RkTypeOK
<1> QED BY <1>1, <1>2, <1>3, <1>4 DEF RkInv, ResetOnlyBySequence

\* The keys delete the data of the box only by a sequence typed in time.
THEOREM ResetBySequence == RkSpec => []ResetOnlyBySequence
<1>1. RkInit => RkInv
  BY KeysInit, ResetAssumption
<1>2. RkInv /\ [RkNext]_rkVars => RkInv'
  BY KeysStep, ResetAssumption
<1>3. RkInv => ResetOnlyBySequence
  BY DEF RkInv
<1> QED BY <1>1, <1>2, <1>3, PTL DEF RkSpec

\* The keys held now.
Held == {h \in HoldKey : rkHeld[h] # None}

\* Where the time of a press comes from, outside reset mode: it has done its work, or all
\* keys now held are held since, or one event was lost and one key still is.
PressIsHeld ==
    ~rk.mode =>
      /\ rk.pressed \in Nat \union {None}
      /\ rk.pressed # None =>
            \/ (rkDone \/ ByHold) /\ Over(rk.pressed)
            \/ rkLost = 0 /\ Held # {} /\ \A h \in Held : rkHeld[h] >= rk.pressed
            \/ rkLost = 1 /\ (Held # {} => \E h \in Held : rkHeld[h] >= rk.pressed)

\* The last hold was long enough for what it started.
HeldEnough == IF rkBuild.factoryByHold THEN rkHold >= HoldFactory ELSE rkHold > HoldReboot

\* The invariant behind HoldWasReal: reset mode and its history come of such a press.
HoldInv ==
    /\ PressIsHeld
    /\ rkLost <= 1
    /\ rkHold >= HoldReset \/ (~rk.mode /\ rkTyped = <<>>)
    /\ ByHold /\ ~rkDone => HeldEnough

\* What all steps of the keys have in common.
KeyStep ==
    /\ RkTypeOK /\ Good(rk, rkTyped, rkGap) /\ HoldInv
    /\ rkDone' = (rkDone \/ ByHold) /\ rkBuild' = rkBuild

\* The steps of the keys, for HoldInv: a press, a repeat or another key.
LEMMA PassesHold ==
    ASSUME KeyStep, NEW type, NEW k, Passes(type, k), rkLost' = rkLost, rkHold' = rkHold,
           \/ type = "down" /\ k \in HoldKey /\ rkHeld' = [rkHeld EXCEPT ![k] = 0]
           \/ ~(type = "down" /\ k \in HoldKey) /\ rkHeld' = rkHeld
    PROVE  HoldInv'
<1>1. /\ HoldInv /\ rkBuild' = rkBuild /\ rkDone' = (rkDone \/ ByHold)
      /\ rkHeld \in [HoldKey -> Nat \union {None}] /\ rkLost \in Nat
  BY DEF KeyStep, RkTypeOK
<1>2. /\ rk'.ran = "none" /\ rkTyped' = rkTyped
      /\ rk'.mode => rk.mode
      /\ ~rk'.mode => \/ rk'.pressed = None
                      \/ rk'.pressed = rk.pressed /\ ~rk.mode /\ ~(type = "down" /\ k \in HoldKey)
                      \/ rk'.pressed = 0 /\ type = "down" /\ k \in HoldKey
  BY DEF Passes
<1>3. ~ByHold'
  BY <1>2 DEF ByHold
<1>4. PressIsHeld'
  <2>1. CASE rk'.mode
    BY <2>1 DEF PressIsHeld
  <2>2. CASE ~rk'.mode /\ rk'.pressed = None
    BY <2>2 DEF PressIsHeld
  <2>3. CASE /\ ~rk'.mode /\ rk'.pressed = rk.pressed /\ ~rk.mode
             /\ ~(type = "down" /\ k \in HoldKey)
    <3>1. rkHeld' = rkHeld /\ Held' = Held
      BY <2>3 DEF Held
    <3>2. Over(rk.pressed) => Over(rk.pressed)'
      BY <1>1, <2>3 DEF Over
    <3> QED BY <1>1, <2>3, <3>1, <3>2 DEF HoldInv, PressIsHeld
  <2>4. CASE ~rk'.mode /\ rk'.pressed = 0 /\ type = "down" /\ k \in HoldKey
    <3>1. rkHeld' = [rkHeld EXCEPT ![k] = 0]
      BY <2>4
    <3>2. rkHeld'[k] = 0 /\ k \in Held'
      BY <1>1, <2>4, <3>1 DEF Held, None
    <3>3. \A h \in Held' : rkHeld'[h] >= 0
      BY <1>1, <3>1 DEF Held
    <3>4. rkLost' = 0 \/ rkLost' = 1
      BY <1>1 DEF HoldInv
    <3> QED BY <2>4, <3>2, <3>3, <3>4 DEF PressIsHeld
  <2> QED BY <1>2, <2>1, <2>2, <2>3, <2>4
<1>5. rkHold' >= HoldReset \/ (~rk'.mode /\ rkTyped' = <<>>)
  BY <1>1, <1>2 DEF HoldInv
<1> QED BY <1>1, <1>3, <1>4, <1>5 DEF HoldInv

\* One event is lost.
LEMMA LostHold ==
    ASSUME KeyStep, Lose, MaxLost <= 1, MaxLost \in Nat, rkHold' = rkHold,
           NEW k \in HoldKey,
           \/ rkHeld[k] = None /\ rkHeld' = [rkHeld EXCEPT ![k] = 0]
           \/ rkHeld[k] # None /\ rkHeld' = [rkHeld EXCEPT ![k] = None]
    PROVE  HoldInv'
<1>1. /\ HoldInv /\ rkBuild' = rkBuild /\ rkDone' = (rkDone \/ ByHold) /\ rk \in RkState
      /\ rkHeld \in [HoldKey -> Nat \union {None}] /\ rkLost \in Nat
  BY DEF KeyStep, RkTypeOK
<1>2. /\ rk' = [rk EXCEPT !.ran = "none"] /\ rkTyped' = rkTyped /\ rkLost = 0 /\ rkLost' = 1
  BY <1>1 DEF Lose
<1>3. rk'.ran = "none" /\ rk'.mode = rk.mode /\ rk'.pressed = rk.pressed
  BY <1>1, <1>2 DEF RkState
<1>4. ~ByHold'
  BY <1>3 DEF ByHold
<1>5. PressIsHeld'
  <2> SUFFICES ASSUME ~rk.mode
               PROVE  /\ rk.pressed \in Nat \union {None}
                      /\ rk.pressed # None =>
                            \/ (rkDone' \/ ByHold') /\ Over(rk.pressed)
                            \/ Held' # {} => \E h \in Held' : rkHeld'[h] >= rk.pressed
    <3>1. Over(rk.pressed) => Over(rk.pressed)'
      BY <1>1, <1>3 DEF Over
    <3> QED BY <1>2, <1>3, <3>1 DEF PressIsHeld
  <2>1. /\ rk.pressed \in Nat \union {None}
        /\ rk.pressed # None =>
              \/ (rkDone \/ ByHold) /\ Over(rk.pressed)
              \/ Held # {} /\ \A h \in Held : rkHeld[h] >= rk.pressed
    BY <1>1, <1>2 DEF HoldInv, PressIsHeld
  <2>2. ASSUME Held # {}, \A h \in Held : rkHeld[h] >= rk.pressed, Held' # {}
        PROVE  \E h \in Held' : rkHeld'[h] >= rk.pressed
    <3>1. CASE rkHeld[k] = None
      <4>1. PICK h \in Held : TRUE
        BY <2>2
      <4>2. h # k /\ h \in HoldKey /\ rkHeld[h] # None
        BY <3>1, <4>1 DEF Held
      <4>3. rkHeld'[h] = rkHeld[h] /\ h \in Held'
        BY <1>1, <3>1, <4>2 DEF Held
      <4> QED BY <2>2, <4>1, <4>3
    <3>2. CASE rkHeld[k] # None
      <4>1. PICK h \in Held' : TRUE
        BY <2>2
      <4>2. h # k /\ h \in HoldKey /\ rkHeld'[h] = rkHeld[h] /\ h \in Held
        BY <1>1, <3>2, <4>1 DEF Held
      <4> QED BY <2>2, <4>1, <4>2
    <3> QED BY <3>1, <3>2
  <2> QED BY <1>1, <2>1, <2>2
<1> QED BY <1>1, <1>2, <1>3, <1>4, <1>5 DEF HoldInv

\* A release in reset mode.
LEMMA UpSeenHold ==
    ASSUME KeyStep, UpSeen, rk.mode, rkLost' = rkLost, rkHold' = rkHold
    PROVE  HoldInv'
<1>1. HoldInv /\ rk.mode
  BY DEF KeyStep
<1>2. /\ rk'.ran \in Reset => TypedAs(rkTyped', rk'.ran)
      /\ rk'.ran \in Reset \union {"none"} /\ (~rk'.mode => rk'.pressed = None)
      /\ rkTyped' \in Seq(Entry)
  BY DEF UpSeen
<1>3. ~ByHold'
  <2>1. rk'.ran # "reboot"
    BY <1>2 DEF Reset
  <2>2. rk'.ran \in Reset => rkTyped' # <<>>
    <3> SUFFICES ASSUME rk'.ran \in Reset, rkTyped' = <<>> PROVE FALSE
      OBVIOUS
    <3> DEFINE q == Seqs[rk'.ran]
    <3>1. [i \in DOMAIN rkTyped' |-> rkTyped'[i].key] = q
      BY <1>2 DEF TypedAs
    <3>2. DOMAIN rkTyped' = {}
      OBVIOUS
    <3>3. q \in Seq(RkKey) /\ Len(q) \in 3..6
      BY SeqFacts
    <3> HIDE DEF q
    <3>4. 1 \in DOMAIN q
      BY <3>3
    <3> QED BY <3>1, <3>2, <3>4
  <2> QED BY <1>2, <2>1, <2>2 DEF ByHold
<1>4. PressIsHeld'
  BY <1>2 DEF PressIsHeld
<1>5. rkHold' >= HoldReset
  BY <1>1 DEF HoldInv
<1> QED BY <1>1, <1>3, <1>4, <1>5 DEF HoldInv

\* Another key comes up outside it.
LEMMA UpOtherHold ==
    ASSUME KeyStep, NEW k \in RkKey, UpOther(k), rkLost' = rkLost, rkHold' = rkHold,
           k = "FACTORY" \/ rkHeld' = rkHeld
    PROVE  HoldInv'
<1>1. /\ HoldInv /\ rkBuild' = rkBuild /\ rkDone' = (rkDone \/ ByHold)
  BY DEF KeyStep
<1>2. /\ rk'.ran = "none" /\ ~rk'.mode /\ rkTyped' = <<>>
      /\ rk'.pressed = None \/ (rk'.pressed = rk.pressed /\ ~rk.mode)
      /\ k = "FACTORY" => rk'.pressed = None
  BY DEF UpOther
<1>3. ~ByHold'
  BY <1>2 DEF ByHold
<1>4. PressIsHeld'
  <2>1. CASE rk'.pressed = None
    BY <2>1 DEF PressIsHeld
  <2>2. CASE rk'.pressed # None
    <3>1. rk'.pressed = rk.pressed /\ ~rk.mode /\ rkHeld' = rkHeld
      BY <1>2, <2>2
    <3>2. Held' = Held /\ (Over(rk.pressed) => Over(rk.pressed)')
      BY <1>1, <3>1 DEF Held, Over
    <3> QED BY <1>1, <1>2, <3>1, <3>2 DEF HoldInv, PressIsHeld
  <2> QED BY <2>1, <2>2
<1> QED BY <1>1, <1>2, <1>3, <1>4 DEF HoldInv

\* POWER comes up outside it.
LEMMA UpPowerHold ==
    ASSUME ResetAssumption, KeyStep, NEW s \in RkState, UpPower(s), rkLost' = rkLost,
           rkHeld["POWER"] # None, rkHold' = Max({rkHeld[h] : h \in HoldKey})
    PROVE  HoldInv'
<1>1. /\ HoldInv /\ rkBuild' = rkBuild /\ rkDone' = (rkDone \/ ByHold)
      /\ rkHeld \in [HoldKey -> Nat \union {None}]
  BY DEF KeyStep, RkTypeOK
<1>2. /\ s.ran = "none"
      /\ s.pressed = None \/ (s.pressed = rk.pressed /\ ~rk.mode)
      /\ rkTyped' = IF rk'.mode THEN <<[key |-> "POWER", late |-> FALSE]>> ELSE <<>>
      /\ PowerComesUp(s, rk')
  BY DEF UpPower
<1>3. rkHold' \in Int /\ \A h \in HoldKey : rkHeld[h] <= rkHold'
  BY <1>1, MaxOfHeld
<1>4. /\ HoldReset \in Int /\ HoldFactory \in Int /\ HoldReboot \in Int
  BY DEF ResetAssumption
<1>5. /\ Timed(s) \in Nat /\ s.pressed \in Nat \union {None}
      /\ s.pressed # None => Timed(s) = s.pressed
      /\ s.pressed = None => Timed(s) = 0
  BY <1>1, <1>2 DEF Timed, HoldInv, PressIsHeld
<1>6. ASSUME ~((rkDone \/ ByHold) /\ Over(Timed(s))) PROVE Timed(s) <= rkHold'
  <2>1. "POWER" \in HoldKey /\ rkHeld["POWER"] \in Nat /\ "POWER" \in Held
    BY <1>1 DEF HoldKey, Held
  <2>2. CASE s.pressed = None
    BY <1>3, <1>5, <2>1, <2>2
  <2>3. CASE s.pressed # None
    <3>1. Timed(s) = rk.pressed /\ ~rk.mode /\ rk.pressed # None
      BY <1>2, <1>5, <2>3
    <3>2. \E h \in Held : rkHeld[h] >= rk.pressed
      BY <1>1, <1>6, <2>1, <3>1 DEF HoldInv, PressIsHeld
    <3>3. PICK h \in HoldKey : rkHeld[h] >= rk.pressed /\ rkHeld[h] \in Nat
      BY <1>1, <3>2 DEF Held
    <3> QED BY <1>3, <1>5, <3>1, <3>3
  <2> QED BY <2>2, <2>3
<1>7. \/ /\ rk'.ran = "FACTORY" /\ rkBuild.factoryByHold /\ Over(Timed(s))
         /\ ~rk'.mode /\ rk'.pressed = s.pressed
      \/ /\ rk'.ran = "reboot" /\ ~rkBuild.factoryByHold /\ Over(Timed(s))
         /\ ~rk'.mode /\ rk'.pressed = s.pressed
      \/ rk'.ran = "none" /\ ~rk'.mode /\ rk'.pressed = None
      \/ /\ rk'.ran = "none" /\ rk'.mode /\ rk'.pressed = None
         /\ Timed(s) >= HoldReset /\ ~Over(Timed(s))
  BY <1>2 DEF PowerComesUp
<1>8. CASE rk'.ran # "none"
  <2>1. /\ Over(Timed(s)) /\ ~rk'.mode /\ rk'.pressed = s.pressed
    BY <1>7, <1>8
  <2>2. rkTyped' = <<>> /\ ByHold'
    BY <1>2, <1>8, <2>1 DEF ByHold
  <2>3. PressIsHeld'
    <3>1. s.pressed # None => Over(s.pressed)'
      BY <1>1, <1>5, <2>1 DEF Over
    <3> QED BY <1>5, <2>1, <2>2, <3>1 DEF PressIsHeld, Over
  <2>4. ~rkDone' => HeldEnough'
    <3> SUFFICES ASSUME ~rkDone' PROVE HeldEnough'
      OBVIOUS
    <3>1. Timed(s) <= rkHold'
      BY <1>1, <1>6
    <3> QED BY <1>1, <1>3, <1>4, <1>5, <2>1, <3>1 DEF Over, HeldEnough
  <2> QED BY <1>1, <2>1, <2>2, <2>3, <2>4 DEF HoldInv
<1>9. CASE rk'.ran = "none"
  <2>1. ~ByHold'
    BY <1>9 DEF ByHold
  <2>2. rk'.pressed = None
    BY <1>7, <1>9
  <2>3. PressIsHeld'
    BY <2>2 DEF PressIsHeld
  <2>4. rkHold' >= HoldReset \/ (~rk'.mode /\ rkTyped' = <<>>)
    <3>1. CASE ~rk'.mode
      BY <1>2, <3>1
    <3>2. CASE rk'.mode
      <4>1. Timed(s) >= HoldReset /\ ~Over(Timed(s))
        BY <1>7, <1>9, <3>2
      <4>2. Timed(s) <= rkHold'
        BY <1>6, <4>1
      <4> QED BY <1>3, <1>4, <1>5, <4>1, <4>2
    <3> QED BY <3>1, <3>2
  <2> QED BY <1>1, <2>1, <2>3, <2>4 DEF HoldInv
<1> QED BY <1>8, <1>9

\* Time passes.
LEMMA TickHold ==
    ASSUME ResetAssumption, KeyStep, RkTick
    PROVE  HoldInv'
<1>1. /\ HoldInv /\ rkBuild' = rkBuild /\ rkDone' = (rkDone \/ ByHold)
      /\ rkHeld \in [HoldKey -> Nat \union {None}]
  BY DEF KeyStep, RkTypeOK
<1>2. /\ UNCHANGED <<rkLost, rkTyped, rkHold>>
      /\ rk'.mode = rk.mode /\ rk'.ran = "none" /\ rk'.pressed = Older(rk.pressed)
      /\ rkHeld' = [k \in HoldKey |-> Older(rkHeld[k])]
  BY TickOK DEF KeyStep
<1>3. ~ByHold'
  BY <1>2 DEF ByHold
<1>4. Held' = Held
  <2>1. \A h \in HoldKey : rkHeld[h] \in Nat \union {None} /\ rkHeld'[h] = Older(rkHeld[h])
    BY <1>1, <1>2
  <2>2. \A h \in HoldKey : rkHeld'[h] = None <=> rkHeld[h] = None
    BY <2>1, OlderIs
  <2> QED BY <2>2 DEF Held
<1>5. PressIsHeld'
  <2> SUFFICES ASSUME ~rk.mode
               PROVE  /\ rk'.pressed \in Nat \union {None}
                      /\ rk'.pressed # None =>
                            \/ (rkDone' \/ ByHold') /\ Over(rk.pressed)'
                            \/ rkLost' = 0 /\ Held' # {} /\ \A h \in Held' : rkHeld'[h] >= rk'.pressed
                            \/ rkLost' = 1 /\ (Held' # {} => \E h \in Held' : rkHeld'[h] >= rk'.pressed)
    BY <1>2 DEF PressIsHeld, Over
  <2>1. rk.pressed \in Nat \union {None}
    BY <1>1 DEF HoldInv, PressIsHeld
  <2>2. /\ rk'.pressed \in Nat \union {None} /\ (rk'.pressed = None <=> rk.pressed = None)
        /\ rk'.pressed >= rk.pressed
    BY <1>2, <2>1, OlderIs
  <2>3. ASSUME rk.pressed # None
        PROVE  Over(rk.pressed) => Over(rk.pressed)'
    <3>1. HoldFactory \in Int /\ HoldReboot \in Int
      BY DEF ResetAssumption
    <3>2. rk.pressed \in Nat /\ rk'.pressed \in Nat
      BY <2>1, <2>2, <2>3
    <3> QED BY <1>1, <2>2, <3>1, <3>2 DEF Over
  <2>4. ASSUME NEW h \in Held, rkHeld[h] >= rk.pressed PROVE rkHeld'[h] >= rk'.pressed
    <3>1. h \in HoldKey /\ rkHeld[h] \in Nat \union {None} /\ rkHeld'[h] = Older(rkHeld[h])
      BY <1>1, <1>2 DEF Held
    <3>2. rk.pressed <= rkHeld[h]
      BY <2>1, <2>4, <3>1 DEF None
    <3>3. Older(rk.pressed) <= Older(rkHeld[h])
      BY <2>1, <3>1, <3>2, OlderIs
    <3>4. Older(rkHeld[h]) \in Int /\ Older(rk.pressed) \in Int
      BY <2>1, <3>1, OlderIs DEF None
    <3> QED BY <1>2, <3>1, <3>3, <3>4
  <2>5. rk.pressed # None =>
          \/ (rkDone \/ ByHold) /\ Over(rk.pressed)
          \/ rkLost = 0 /\ Held # {} /\ \A h \in Held : rkHeld[h] >= rk.pressed
          \/ rkLost = 1 /\ (Held # {} => \E h \in Held : rkHeld[h] >= rk.pressed)
    BY <1>1 DEF HoldInv, PressIsHeld
  <2> QED BY <1>1, <1>2, <1>4, <2>2, <2>3, <2>4, <2>5
<1>6. rkHold' >= HoldReset \/ (~rk'.mode /\ rkTyped' = <<>>)
  BY <1>1, <1>2 DEF HoldInv
<1> QED BY <1>1, <1>2, <1>3, <1>5, <1>6 DEF HoldInv

\* Every step keeps HoldInv.
LEMMA HoldStep ==
    ASSUME ResetAssumption, MaxLost <= 1, RkInv, HoldInv, [RkNext]_rkVars
    PROVE  HoldInv'
<1>1. RkTypeOK /\ Good(rk, rkTyped, rkGap) /\ MaxLost \in Nat
  BY DEF RkInv, ResetAssumption
<1>2. CASE UNCHANGED rkVars
  <2>1. /\ rkBuild' = rkBuild /\ rk' = rk /\ rkHeld' = rkHeld /\ rkLost' = rkLost
        /\ rkTyped' = rkTyped /\ rkGap' = rkGap /\ rkDone' = rkDone /\ rkHold' = rkHold
    BY <1>2 DEF rkVars
  <2>2. /\ Held' = Held /\ (ByHold' <=> ByHold) /\ (HeldEnough' <=> HeldEnough)
        /\ Over(rk.pressed)' <=> Over(rk.pressed)
    BY <2>1 DEF Held, ByHold, HeldEnough, Over
  <2>3. PressIsHeld'
    BY <2>1, <2>2 DEF HoldInv, PressIsHeld
  <2> QED BY <2>1, <2>2, <2>3 DEF HoldInv
<1>3. ASSUME rkDone' = (rkDone \/ ByHold), NEW k \in HoldKey, RkPress(k)
      PROVE  HoldInv'
  <2>1. KeyStep
    BY <1>1, <1>3 DEF KeyStep, RkPress
  <2>2. k \in RkKey
    BY DEF RkKey
  <2>3. CASE Handle("down", k) /\ UNCHANGED rkLost
    <3>1. Passes("down", k)
      BY <1>1, <2>2, <2>3, HandlePasses
    <3> QED BY <1>3, <2>1, <2>3, <3>1, PassesHold DEF RkPress
  <2>4. CASE Lose
    BY <1>1, <1>3, <2>1, <2>4, LostHold DEF RkPress
  <2> QED BY <1>3, <2>3, <2>4 DEF RkPress
<1>4. ASSUME rkDone' = (rkDone \/ ByHold), NEW k \in HoldKey, RkRepeat(k)
      PROVE  HoldInv'
  <2>1. KeyStep
    BY <1>1, <1>4 DEF KeyStep, RkRepeat
  <2>2. k \in RkKey
    BY DEF RkKey
  <2>3. Passes("repeat", k)
    BY <1>1, <1>4, <2>2, HandlePasses DEF RkRepeat
  <2> QED BY <1>4, <2>1, <2>3, PassesHold DEF RkRepeat
<1>5. ASSUME rkDone' = (rkDone \/ ByHold), NEW k \in HoldKey, RkRelease(k)
      PROVE  HoldInv'
  <2>1. KeyStep
    BY <1>1, <1>5 DEF KeyStep, RkRelease
  <2>2. k \in RkKey /\ k # "UNDEFINED" /\ (k = "POWER" \/ k = "FACTORY")
    BY DEF RkKey, HoldKey
  <2>3. CASE /\ Handle("up", k) /\ UNCHANGED rkLost
             /\ rkHold' = IF k = "POWER" /\ ~TimeCheck(rk).mode
                          THEN Max({rkHeld[h] : h \in HoldKey}) ELSE rkHold
    <3>1. CASE TimeCheck(rk).mode
      <4>1. UpSeen /\ rk.mode
        BY <1>1, <2>2, <2>3, <3>1, HandleUpInMode
      <4>2. rkHold' = rkHold /\ rkLost' = rkLost
        BY <2>3, <3>1
      <4> QED BY <2>1, <4>1, <4>2, UpSeenHold
    <3>2. CASE ~TimeCheck(rk).mode /\ k = "POWER"
      <4>1. PICK s \in RkState : UpPower(s)
        BY <1>1, <2>3, <3>2, HandlePowerUp
      <4>2. /\ rkHold' = Max({rkHeld[h] : h \in HoldKey}) /\ rkLost' = rkLost
            /\ rkHeld["POWER"] # None
        BY <1>5, <2>3, <3>2 DEF RkRelease
      <4> QED BY <2>1, <4>1, <4>2, UpPowerHold
    <3>3. CASE ~TimeCheck(rk).mode /\ k = "FACTORY"
      <4>1. UpOther(k)
        BY <1>1, <2>2, <2>3, <3>3, HandleOtherUp
      <4>2. rkHold' = rkHold /\ rkLost' = rkLost
        BY <2>3, <3>3
      <4> QED BY <2>1, <2>2, <3>3, <4>1, <4>2, UpOtherHold
    <3> QED BY <2>2, <3>1, <3>2, <3>3
  <2>4. CASE Lose /\ UNCHANGED rkHold
    BY <1>1, <1>5, <2>1, <2>4, LostHold DEF RkRelease
  <2> QED BY <1>5, <2>3, <2>4 DEF RkRelease
<1>6. ASSUME rkDone' = (rkDone \/ ByHold), NEW k \in RkKey \ HoldKey,
             NEW type \in {"down", "up"}, RkTap(type, k)
      PROVE  HoldInv'
  <2>1. KeyStep
    BY <1>1, <1>6 DEF KeyStep, RkTap
  <2>2. Handle(type, k) /\ rkHeld' = rkHeld /\ rkLost' = rkLost /\ rkHold' = rkHold
    BY <1>6 DEF RkTap
  <2>3. k # "POWER" /\ k # "FACTORY" /\ k \in RkKey
    BY DEF HoldKey
  <2>4. CASE type = "down" \/ k = "UNDEFINED"
    <3>1. Passes(type, k)
      BY <1>1, <2>2, <2>4, HandlePasses
    <3> QED BY <2>1, <2>2, <3>1, PassesHold
  <2>5. CASE type = "up" /\ k # "UNDEFINED"
    <3>1. CASE TimeCheck(rk).mode
      <4>1. UpSeen /\ rk.mode
        BY <1>1, <2>2, <2>5, <3>1, HandleUpInMode
      <4> QED BY <2>1, <2>2, <4>1, UpSeenHold
    <3>2. CASE ~TimeCheck(rk).mode
      <4>1. UpOther(k)
        BY <1>1, <2>2, <2>3, <2>5, <3>2, HandleOtherUp
      <4> QED BY <2>1, <2>2, <4>1, UpOtherHold
    <3> QED BY <3>1, <3>2
  <2> QED BY <2>4, <2>5
<1>7. ASSUME rkDone' = (rkDone \/ ByHold), RkTick
      PROVE  HoldInv'
  <2>1. KeyStep
    BY <1>1, <1>7 DEF KeyStep, RkTick
  <2> QED BY <1>7, <2>1, TickHold
<1>8. CASE RkNext
  BY <1>3, <1>4, <1>5, <1>6, <1>7, <1>8 DEF RkNext
<1> QED BY <1>2, <1>8

\* Reset mode and reboots come of a key really held that long, when at most one event is
\* lost (with two, a press and the release before it may be counted as one).
THEOREM HoldsAreReal ==
    ASSUME MaxLost <= 1
    PROVE  RkSpec => []HoldWasReal
<1>1. RkInit => RkInv /\ HoldInv
  <2> SUFFICES ASSUME RkInit PROVE HoldInv
    BY KeysInit, ResetAssumption
  <2>1. /\ rk.pressed = None /\ rk.ran = "none" /\ ~rk.mode /\ rkTyped = <<>> /\ rkLost = 0
    BY DEF RkInit
  <2>2. PressIsHeld /\ ~ByHold
    BY <2>1 DEF PressIsHeld, ByHold
  <2> QED BY <2>1, <2>2 DEF HoldInv
<1>2. RkInv /\ HoldInv /\ [RkNext]_rkVars => (RkInv /\ HoldInv)'
  BY KeysStep, HoldStep, ResetAssumption
<1>3. HoldInv => HoldWasReal
  <2> SUFFICES ASSUME HoldInv PROVE HoldWasReal
    OBVIOUS
  <2>1. Len(rkTyped) = 1 => rkTyped # <<>>
    OBVIOUS
  <2> QED BY <2>1 DEF HoldInv, HoldWasReal, HeldEnough
<1> QED BY <1>1, <1>2, <1>3, PTL DEF RkSpec
===============================================================================
