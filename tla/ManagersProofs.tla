---------------------------- MODULE ManagersProofs ----------------------------
(***************************************************************************)
(* Proofs about the managers beside the power manager: the two halves of   *)
(* the display manager and its product traits, the keys of the infrared    *)
(* manager, the system manager and the two halves of the device update     *)
(* manager, for every value of their constants.  They share no variable    *)
(* and no lemma but the first two.                                         *)
(***************************************************************************)
EXTENDS StandbyVideo, DsHotplug, ProductTraits, IrKeys, SysMgr, DeviceScan, DeviceUpdate,
        FiniteSetTheorems, TLAPS

\* An element of a sequence.
LEMMA ElementOfSeq ==
    ASSUME NEW S, NEW q \in Seq(S), NEW i \in DOMAIN q
    PROVE  q[i] \in S
  OBVIOUS

\* Taking the first event of a queue leaves its last one where it is, unless the
\* first was the last.
LEMMA LastOfTail ==
    ASSUME NEW S, NEW q \in Seq(S), q # <<>>
    PROVE  /\ Head(q) \in S /\ Tail(q) \in Seq(S)
           /\ Tail(q) # <<>> => Tail(q)[Len(Tail(q))] = q[Len(q)]
           /\ Tail(q) = <<>> => Head(q) = q[Len(q)]
<1> DEFINE n == Len(q)
<1>1. n \in Nat /\ n > 0 /\ Len(Tail(q)) = n - 1 /\ Tail(q) \in Seq(S) /\ Head(q) = q[1]
  OBVIOUS
<1>2. Head(q) \in S
  OBVIOUS
<1>3. ASSUME Tail(q) # <<>> PROVE Tail(q)[Len(Tail(q))] = q[Len(q)]
  <2>1. \A i \in 1..(n - 1) : Tail(q)[i] = q[i + 1]
    OBVIOUS
  <2>2. Len(Tail(q)) # 0
    BY <1>1, <1>3
  <2> HIDE DEF n
  <2>3. n - 1 \in 1..(n - 1) /\ (n - 1) + 1 = n
    BY <1>1, <2>2
  <2>4. Tail(q)[n - 1] = q[n]
    BY <2>1, <2>3
  <2> QED BY <1>1, <2>4 DEF n
<1>4. ASSUME Tail(q) = <<>> PROVE Head(q) = q[Len(q)]
  <2> DEFINE r == Tail(q)
             l == Len(r)
  <2>1. Len(<<>>) = 0
    OBVIOUS
  <2>2. l = n - 1 /\ n \in Nat /\ r = <<>>
    BY <1>1, <1>4
  <2> HIDE DEF n, r
  <2>3. l = 0
    BY Zenon, <2>1, <2>2
  <2> HIDE DEF l
  <2>4. n = 1
    BY <2>2, <2>3
  <2> QED BY Zenon, <1>1, <2>4 DEF n
<1> QED BY <1>1, <1>2, <1>3, <1>4

-----------------------------------------------------------------------------
(* StandbyVideo *)

SvEntry == [port : Names, isEnabled : BOOLEAN]
SvPcs == {"init", "idle", "video", "audio", "stereo", "forcing", "restore", "restoring", "setting"}

SvTypeOK ==
    /\ power \in States /\ curState \in States /\ events \in Seq(States)
    /\ setting \in Seq(SvEntry) /\ videoOn \subseteq Ports
    /\ pc \in [Threads -> SvPcs]
    /\ target \in [Threads -> States \union {"none"}]
    /\ pos \in [Threads -> 1..Len(VideoPorts)]
    /\ lastSet \in [Names -> {"never", "on", "off"}]
    /\ initStep \in 1..3
    /\ {registered, isEAS, disturbed, overridden, easRace} \subseteq BOOLEAN

\* Where the threads can be.
SvPlacesOK ==
    /\ \A t \in Threads : pc[t] = "init" => t = "main"
    /\ \A t \in Threads : pc[t] = "setting" => t = "rpc"
    /\ registered <=> initStep > 1
    /\ ~registered => events = <<>> /\ pc["main"] = "init"

SvBaseOK == SvTypeOK /\ SvPlacesOK

LEMMA SvPortNames ==
    /\ VideoPorts \in Seq(Ports) /\ Len(VideoPorts) \in Nat /\ Len(VideoPorts) > 0
    /\ \A p \in Ports : \E i \in 1..Len(VideoPorts) : p = VideoPorts[i]
    /\ Ports \subseteq Names
<1>1. VideoPorts \in Seq(Ports) /\ VideoPorts # <<>>
  BY StandbyVideoAssumption DEF Ports
<1>2. \A p \in Ports : \E i \in DOMAIN VideoPorts : p = VideoPorts[i]
  BY DEF Ports, ToSet
<1> QED BY <1>1, <1>2 DEF Names

LEMMA SvInitBase == Init => SvBaseOK
<1> SUFFICES ASSUME Init PROVE SvBaseOK
  OBVIOUS
<1>1. /\ power \in States /\ curState \in States /\ events = <<>> /\ setting = <<>>
      /\ videoOn \subseteq Ports
  BY StandbyVideoAssumption DEF Init, States
<1>2. /\ pc \in [Threads -> SvPcs] /\ target \in [Threads -> States \union {"none"}]
      /\ pos \in [Threads -> 1..Len(VideoPorts)]
      /\ lastSet \in [Names -> {"never", "on", "off"}]
  <2>1. 1 \in 1..Len(VideoPorts)
    BY SvPortNames
  <2> QED BY <2>1 DEF Init, SvPcs
<1>3. initStep = 1 /\ ~registered /\ ~isEAS /\ ~disturbed /\ ~overridden /\ ~easRace
  BY DEF Init
<1>4. SvTypeOK
  <2>1. <<>> \in Seq(States) /\ <<>> \in Seq(SvEntry)
    OBVIOUS
  <2>2. {registered, isEAS, disturbed, overridden, easRace} \subseteq BOOLEAN
    BY DEF Init
  <2> QED BY <1>1, <1>2, <1>3, <2>1, <2>2 DEF SvTypeOK
<1>5. SvPlacesOK
  BY <1>1, <1>3 DEF Init, SvPlacesOK, Threads
<1> QED BY <1>4, <1>5 DEF SvBaseOK

\* A thread goes on to its next place.
LEMMA SvMoves ==
    ASSUME SvBaseOK, NEW t \in Threads, NEW place, pc' = [pc EXCEPT ![t] = place]
    PROVE  pc'[t] = place /\ \A u \in Threads : u # t => pc'[u] = pc[u]
  BY DEF SvBaseOK, SvTypeOK

LEMMA SvThreads == /\ "main" \in Threads /\ "event" \in Threads /\ "rpc" \in Threads
                   /\ "resn" \in Threads
  BY DEF Threads

\* The start, the events and the calls that begin to switch the ports.
LEMMA SvBeginBase ==
    ASSUME SvBaseOK,
           ApplyPowerState \/ PwrEvent \/ \E s \in AskedStates : SetAvPortState(s)
    PROVE  SvBaseOK'
<1>1. PICK t \in Threads, s \in States :
        Begin(t, s) /\ UNCHANGED <<registered, initStep, curState, setting, videoOn, isEAS,
                                   lastSet, easRace, power>>
  <2>1. CASE ApplyPowerState
    BY <2>1, SvThreads DEF ApplyPowerState, SvBaseOK, SvTypeOK, envVars, easVars
  <2>2. CASE PwrEvent
    <3>1. Head(events) \in States
      BY <2>2 DEF PwrEvent, SvBaseOK, SvTypeOK
    <3> QED BY <2>2, <3>1, SvThreads DEF PwrEvent, easVars
  <2>3. CASE \E s \in AskedStates : SetAvPortState(s)
    BY <2>3, SvThreads, StandbyVideoAssumption DEF SetAvPortState, hwVars, easVars, envVars
  <2> QED BY <2>1, <2>2, <2>3
<1>2. /\ pc' = [pc EXCEPT ![t] = "video"] /\ target' = [target EXCEPT ![t] = s]
      /\ pos' = [pos EXCEPT ![t] = 1] /\ disturbed' \in BOOLEAN
  BY <1>1 DEF Begin, SvBaseOK, SvTypeOK
<1>3. /\ pc' \in [Threads -> SvPcs] /\ target' \in [Threads -> States \union {"none"}]
      /\ pos' \in [Threads -> 1..Len(VideoPorts)]
  <2>1. 1 \in 1..Len(VideoPorts)
    BY SvPortNames
  <2> QED BY <1>2, <2>1 DEF SvBaseOK, SvTypeOK, SvPcs
<1>4. /\ events' \in Seq(States) /\ overridden' \in BOOLEAN
      /\ registered
  <2>1. CASE ApplyPowerState
    <3>1. initStep = 3
      BY <2>1 DEF ApplyPowerState, InitIs, InitSteps, SvBaseOK, SvTypeOK
    <3> QED BY <2>1, <3>1 DEF ApplyPowerState, envVars, SvBaseOK, SvTypeOK, SvPlacesOK
  <2>2. CASE PwrEvent
    <3>1. events # <<>> /\ events \in Seq(States) /\ events' = Tail(events) /\ overridden' = FALSE
      BY <2>2 DEF PwrEvent, SvBaseOK, SvTypeOK
    <3>2. registered \in BOOLEAN /\ (~registered => events = <<>>)
      BY DEF SvBaseOK, SvTypeOK, SvPlacesOK
    <3>3. Tail(events) \in Seq(States)
      BY <3>1
    <3>4. registered
      BY <3>1, <3>2
    <3> QED BY <3>1, <3>3, <3>4
  <2>3. CASE \E a \in AskedStates : SetAvPortState(a)
    BY <2>3 DEF SetAvPortState, envVars, SvBaseOK, SvTypeOK
  <2> QED BY <2>1, <2>2, <2>3
<1>5. SvTypeOK'
  BY <1>1, <1>2, <1>3, <1>4 DEF SvBaseOK, SvTypeOK
<1>6. SvPlacesOK'
  BY <1>1, <1>2, <1>4, SvMoves DEF SvBaseOK, SvPlacesOK
<1> QED BY <1>5, <1>6 DEF SvBaseOK

\* Switching the ports.
LEMMA SvSwitchBase ==
    ASSUME SvBaseOK, NEW t \in Threads,
           SwitchVideo(t) \/ VideoThrows(t) \/ SwitchAudio(t)
    PROVE  SvBaseOK'
<1>1. /\ UNCHANGED <<power, curState, events, setting, target, lastSet, initStep, registered,
                     isEAS, overridden>>
      /\ disturbed' \in BOOLEAN /\ easRace' \in BOOLEAN
    BY DEF SwitchVideo, VideoThrows, SwitchAudio, envVars, threadVars,
     historyVars,
         hwVars, easVars, SvBaseOK, SvTypeOK
<1>2. PICK place \in {"audio", "video", "stereo", "idle"} : pc' = [pc EXCEPT ![t] = place]
  <2>1. CASE SwitchVideo(t)
    BY <2>1 DEF SwitchVideo
  <2>2. CASE VideoThrows(t)
    BY <2>2 DEF VideoThrows
  <2>3. CASE SwitchAudio(t)
    BY <2>3 DEF SwitchAudio
  <2> QED BY <2>1, <2>2, <2>3
<1>3. videoOn' \subseteq Ports
  <2>1. CASE SwitchVideo(t)
    <3>1. VideoPorts[pos[t]] \in Ports
      BY SvPortNames DEF SvBaseOK, SvTypeOK
    <3> QED BY <2>1, <3>1 DEF SwitchVideo, PortAfter, SvBaseOK, SvTypeOK
  <2>2. CASE ~SwitchVideo(t)
    BY <2>2 DEF VideoThrows, SwitchAudio, hwVars, easVars, SvBaseOK, SvTypeOK
  <2> QED BY <2>1, <2>2
<1>4. pos' \in [Threads -> 1..Len(VideoPorts)]
  <2>1. \A i \in 1..Len(VideoPorts) : (IF i = Len(VideoPorts) THEN 1 ELSE i + 1) \in 1..Len(VideoPorts)
    BY SvPortNames
  <2>2. 1 \in 1..Len(VideoPorts)
    BY SvPortNames
  <2>3. CASE SwitchVideo(t)
    BY <2>1, <2>3 DEF SwitchVideo, SvBaseOK, SvTypeOK
  <2>4. CASE VideoThrows(t)
    BY <2>2, <2>4 DEF VideoThrows, SvBaseOK, SvTypeOK
  <2>5. CASE SwitchAudio(t)
    BY <2>5 DEF SwitchAudio, SvBaseOK, SvTypeOK
  <2> QED BY <2>3, <2>4, <2>5
<1>5. SvTypeOK'
  BY <1>1, <1>2, <1>3, <1>4 DEF SvBaseOK, SvTypeOK, SvPcs
<1>6. pc[t] \in {"video", "audio"}
  BY DEF SwitchVideo, VideoThrows, SwitchAudio
<1>7. SvPlacesOK'
  BY <1>1, <1>2, <1>6, SvMoves, SvThreads DEF SvBaseOK, SvPlacesOK
<1> QED BY <1>5, <1>7 DEF SvBaseOK

\* What the threads do to the audio modes.
SvModes == {"idle", "stereo", "forcing", "restore", "restoring"}
SvAudio ==
    \/ TuneReady \/ HotPlug
    \/ \E t \in Threads :
          _setAudioMode(t) \/ RestoreAudioMode(t) \/ _setEASAudioMode(t) \/ ForceStereo(t)

LEMMA SvAudioSteps ==
    SvAudio => \E t \in Threads, from \in SvModes, to \in SvModes : AudioStep(t, from, to)
<1> SUFFICES ASSUME SvAudio
             PROVE  \E t \in Threads, from \in SvModes, to \in SvModes : AudioStep(t, from, to)
  OBVIOUS
<1> USE DEF SvModes
<1>1. CASE TuneReady
  BY <1>1, SvThreads DEF TuneReady
<1>2. CASE HotPlug
  BY <1>2, SvThreads DEF HotPlug
<1>3. ASSUME NEW t \in Threads, _setAudioMode(t)
      PROVE  \E from \in SvModes, to \in SvModes : AudioStep(t, from, to)
  <2>1. (IF isEAS THEN "idle" ELSE "restoring") \in SvModes /\ "restore" \in SvModes
    OBVIOUS
  <2> QED BY <1>3, <2>1 DEF _setAudioMode
<1>4. ASSUME NEW t \in Threads, _setEASAudioMode(t)
      PROVE  \E from \in SvModes, to \in SvModes : AudioStep(t, from, to)
  <2>1. (IF isEAS THEN "forcing" ELSE "idle") \in SvModes /\ "stereo" \in SvModes
    OBVIOUS
  <2> QED BY <1>4, <2>1 DEF _setEASAudioMode
<1>5. ASSUME NEW t \in Threads, RestoreAudioMode(t) \/ ForceStereo(t)
      PROVE  \E from \in SvModes, to \in SvModes : AudioStep(t, from, to)
  <2>1. {"restoring", "forcing", "idle"} \subseteq SvModes
    OBVIOUS
  <2> QED BY <1>5, <2>1 DEF RestoreAudioMode, ForceStereo
<1> QED BY <1>1, <1>2, <1>3, <1>4, <1>5 DEF SvAudio

\* The other calls; a handler is registered, a state read or changed.
LEMMA SvOthersBase ==
    ASSUME SvBaseOK,
           \/ RegisterHandler \/ ReadPowerState \/ \E s \in States : PowerChange(s)
           \/ ApplySetting \/ SysModeChange \/ SvAudio
           \/ \E s \in AskedStates : SetLEDState(s)
    PROVE  SvBaseOK'
<1> USE DEF envVars, threadVars, historyVars, hwVars, easVars, SvBaseOK
<1>1. CASE RegisterHandler \/ ReadPowerState
  <2>1. CASE RegisterHandler
    <3>1. initStep = 1
      BY <2>1 DEF RegisterHandler, InitIs, InitSteps, SvTypeOK
    <3> QED BY <2>1, <3>1 DEF RegisterHandler, SvTypeOK, SvPlacesOK
  <2>2. CASE ReadPowerState
    <3>1. initStep = 2
      BY <2>2 DEF ReadPowerState, InitIs, InitSteps, SvTypeOK
    <3>2. /\ curState' \in States /\ overridden' \in BOOLEAN /\ initStep' = 3
          /\ UNCHANGED <<power, events, registered, setting, videoOn, pc, target, pos, lastSet,
                         isEAS, disturbed, easRace>>
      <4>1. \/ curState' = power /\ overridden' = overridden
            \/ curState' = "STANDBY" /\ overridden' = TRUE
        BY <2>2 DEF ReadPowerState
      <4>2. power \in States /\ "STANDBY" \in States /\ overridden \in BOOLEAN
        BY DEF SvTypeOK, States
      <4>3. curState' \in States /\ overridden' \in BOOLEAN
        BY <4>1, <4>2
      <4> QED BY <2>2, <3>1, <4>3 DEF ReadPowerState
    <3> QED BY <3>1, <3>2 DEF SvTypeOK, SvPlacesOK
  <2> QED BY <1>1, <2>1, <2>2
<1>2. ASSUME NEW s \in States, PowerChange(s) PROVE SvBaseOK'
  <2>1. events' \in Seq(States) /\ (~registered => events' = events)
    BY <1>2 DEF PowerChange, SvTypeOK
  <2> QED BY <1>2, <2>1 DEF PowerChange, SvTypeOK, SvPlacesOK
<1>3. CASE ApplySetting
  <2>1. videoOn' \subseteq Ports
    BY <1>3 DEF ApplySetting, SvTypeOK
  <2>2. pc' = [pc EXCEPT !["rpc"] = "idle"] /\ pc["rpc"] = "setting"
    BY <1>3 DEF ApplySetting
  <2>3. SvTypeOK'
    BY <1>3, <2>1, <2>2 DEF ApplySetting, SvTypeOK, SvPcs
  <2>4. SvPlacesOK'
    BY <1>3, <2>2, SvMoves, SvThreads DEF ApplySetting, SvPlacesOK
  <2> QED BY <2>3, <2>4
<1>6. CASE SvAudio
  <2>1. PICK t \in Threads, from \in SvModes, to \in SvModes : AudioStep(t, from, to)
    BY <1>6, SvAudioSteps
  <2>2. pc[t] = from /\ pc' = [pc EXCEPT ![t] = to] /\ from # "init" /\ to \notin {"init", "setting"}
    BY <2>1 DEF AudioStep, SvModes
  <2>3. pc' \in [Threads -> SvPcs]
    BY <2>2 DEF SvTypeOK, SvPcs, SvModes
  <2>4. SvTypeOK'
    BY <2>1, <2>3 DEF AudioStep, SvTypeOK
  <2>5. SvPlacesOK'
    BY <2>1, <2>2, SvMoves, SvThreads DEF AudioStep, SvPlacesOK
  <2> QED BY <2>4, <2>5
<1>4. CASE SysModeChange
  <2>1. PICK place \in {"restore", "stereo"} : pc' = [pc EXCEPT !["rpc"] = place]
    BY <1>4 DEF SysModeChange
  <2>2. SvTypeOK'
    BY <1>4, <2>1 DEF SysModeChange, SvTypeOK, SvPcs
  <2>3. SvPlacesOK'
    BY <1>4, <2>1, SvMoves, SvThreads DEF SysModeChange, SvPlacesOK
  <2> QED BY <2>2, <2>3
<1>5. ASSUME NEW s \in AskedStates, SetLEDState(s) PROVE SvBaseOK'
  BY <1>5 DEF SetLEDState, SvTypeOK, SvPlacesOK
<1> QED BY <1>1, <1>2, <1>3, <1>4, <1>5, <1>6

\* A caller sets what a name does in standby: the table.
SvIsSet(n) == \E i \in DOMAIN setting : setting[i].port = n

SvDistinct ==
    \A i, j \in DOMAIN setting : setting[i].port = setting[j].port => i = j

\* Looking a name up, in a table that has every name once.
LEMMA EntryFinds ==
    SvTypeOK /\ SvDistinct =>
       \A n : /\ Entry(n) # 0 => Entry(n) \in DOMAIN setting /\ setting[Entry(n)].port = n
              /\ Entry(n) = 0 <=> ~SvIsSet(n)
<1> SUFFICES ASSUME SvTypeOK, SvDistinct, NEW n
             PROVE  /\ Entry(n) # 0 => Entry(n) \in DOMAIN setting /\ setting[Entry(n)].port = n
                    /\ Entry(n) = 0 <=> ~SvIsSet(n)
  OBVIOUS
<1> DEFINE I == {i \in 1..Len(setting) : setting[i].port = n}
<1>1. Entry(n) = IF I # {} THEN Min(I) ELSE 0
  BY DEF Entry, SelectInSeq
<1>2. DOMAIN setting = 1..Len(setting) /\ Len(setting) \in Nat
  BY DEF SvTypeOK
<1>3. CASE I = {}
  BY <1>1, <1>2, <1>3 DEF SvIsSet
<1>4. CASE I # {}
  <2>1. PICK i \in I : TRUE
    BY <1>4
  <2>2. \A j \in I : j = i
    BY <1>2 DEF SvDistinct
  <2>3. i \in Nat /\ i # 0
    BY <1>2
  <2>4. Min(I) = i
    BY <2>2, <2>3 DEF Min
  <2> QED BY <1>1, <1>2, <1>4, <2>3, <2>4 DEF SvIsSet
<1> QED BY <1>3, <1>4

SvLooksUp ==
    \A n : Configured(n) <=> \E i \in DOMAIN setting : setting[i].port = n
                                                      /\ setting[i].isEnabled

LEMMA ConfiguredFinds == SvTypeOK /\ SvDistinct => SvLooksUp
  BY EntryFinds DEF SvLooksUp, Configured, SvDistinct, SvIsSet

LEMMA ConfiguredFindsNext == (SvTypeOK /\ SvDistinct)' => SvLooksUp'
  BY ConfiguredFinds, PTL

SvTableOK ==
    /\ Len(setting) <= MaxSlots
    /\ SvDistinct
    /\ \A i \in DOMAIN setting :
          lastSet[setting[i].port] = IF setting[i].isEnabled THEN "on" ELSE "off"
    /\ \A n \in Names : lastSet[n] = "never" \/ Len(setting) = MaxSlots \/ SvIsSet(n)

\* What _SetStandbyVideoState makes of the table, for the entries it has.
LEMMA SettingWithIs ==
    ASSUME SvTypeOK, SvTableOK, NEW name \in Names, NEW enabled \in BOOLEAN,
           setting' = SettingWith(name, enabled)
    PROVE  /\ setting' \in Seq(SvEntry) /\ Len(setting') <= MaxSlots
           /\ Len(setting) = MaxSlots => Len(setting') = MaxSlots
           /\ SvDistinct'
           /\ \A n \in Names : SvIsSet(n) => SvIsSet(n)'
           /\ SvIsSet(name)' \/ Len(setting') = MaxSlots
           /\ \A i \in DOMAIN setting' :
                 \/ setting'[i].port = name /\ setting'[i].isEnabled = enabled
                 \/ /\ i \in DOMAIN setting /\ setting'[i] = setting[i]
                    /\ setting[i].port # name
           /\ \A i \in DOMAIN setting : setting[i].port # name =>
                 i \in DOMAIN setting' /\ setting'[i] = setting[i]
<1> DEFINE entry == [port |-> name, isEnabled |-> enabled]
<1>1. /\ entry \in SvEntry /\ entry.port = name /\ entry.isEnabled = enabled
      /\ setting \in Seq(SvEntry) /\ MaxSlots \in Nat /\ Len(setting) \in Nat
      /\ DOMAIN setting = 1..Len(setting)
  BY StandbyVideoAssumption DEF SvTypeOK, SvEntry
<1>2. /\ Entry(name) # 0 => Entry(name) \in DOMAIN setting /\ setting[Entry(name)].port = name
      /\ Entry(name) = 0 <=> ~SvIsSet(name)
  BY EntryFinds DEF SvTableOK
<1>3. setting' = IF Entry(name) # 0 THEN [setting EXCEPT ![Entry(name)] = entry]
                 ELSE IF Len(setting) < MaxSlots THEN Append(setting, entry)
                 ELSE setting
  BY DEF SettingWith, ReplaceAt
<1> HIDE DEF entry
<1>4. CASE Entry(name) # 0
  <2> DEFINE k == Entry(name)
  <2>1. k \in DOMAIN setting /\ setting' = [setting EXCEPT ![k] = entry] /\ setting[k].port = name
    BY <1>2, <1>3, <1>4
  <2> HIDE DEF k
  <2>2. /\ setting' \in Seq(SvEntry) /\ DOMAIN setting' = DOMAIN setting
        /\ Len(setting') = Len(setting)
        /\ setting'[k] = entry /\ \A i \in DOMAIN setting : i # k => setting'[i] = setting[i]
    BY <1>1, <2>1
  <2>3. \A i \in DOMAIN setting : setting[i].port = name => i = k
    BY <2>1 DEF SvTableOK, SvDistinct
  <2>4. \A i \in DOMAIN setting : setting'[i].port = setting[i].port
    BY <1>1, <2>1, <2>2
  <2>5. SvDistinct' /\ (\A n \in Names : SvIsSet(n) => SvIsSet(n)') /\ SvIsSet(name)'
    BY <2>1, <2>2, <2>4 DEF SvTableOK, SvDistinct, SvIsSet
  <2> QED BY <1>1, <2>1, <2>2, <2>3, <2>5 DEF SvTableOK
<1>5. CASE Entry(name) = 0 /\ Len(setting) < MaxSlots
  <2>1. setting' = Append(setting, entry) /\ ~SvIsSet(name)
    BY <1>2, <1>3, <1>5
  <2>2. /\ setting' \in Seq(SvEntry) /\ Len(setting') = Len(setting) + 1
        /\ DOMAIN setting' = 1..(Len(setting) + 1) /\ setting'[Len(setting) + 1] = entry
        /\ \A i \in DOMAIN setting : setting'[i] = setting[i]
    BY <1>1, <2>1
  <2>3. /\ DOMAIN setting \subseteq DOMAIN setting'
        /\ \A i \in DOMAIN setting' : i \in DOMAIN setting \/ i = Len(setting) + 1
        /\ Len(setting) + 1 \in DOMAIN setting'
    BY <1>1, <2>2
  <2>4. \A i \in DOMAIN setting : setting[i].port # name
    BY <2>1 DEF SvIsSet
  <2>5. SvDistinct'
    <3> SUFFICES ASSUME NEW i \in DOMAIN setting', NEW j \in DOMAIN setting',
                        setting'[i].port = setting'[j].port
                 PROVE  i = j
      BY DEF SvDistinct
    <3>1. CASE i \in DOMAIN setting /\ j \in DOMAIN setting
      BY <2>2, <3>1 DEF SvTableOK, SvDistinct
    <3>2. CASE i \in DOMAIN setting /\ j = Len(setting) + 1
      BY <1>1, <2>2, <2>4, <3>2
    <3>3. CASE i = Len(setting) + 1 /\ j \in DOMAIN setting
      BY <1>1, <2>2, <2>4, <3>3
    <3> QED BY <2>3, <3>1, <3>2, <3>3
  <2>6. (\A n \in Names : SvIsSet(n) => SvIsSet(n)') /\ SvIsSet(name)'
    BY <1>1, <2>2, <2>3 DEF SvIsSet
  <2>7. Len(setting') <= MaxSlots /\ (Len(setting) = MaxSlots => Len(setting') = MaxSlots)
    <3>1. /\ Len(setting) \in Nat /\ MaxSlots \in Nat /\ Len(setting) < MaxSlots
          /\ Len(setting') = Len(setting) + 1
      BY <1>1, <1>5, <2>2
    <3> QED BY <3>1
  <2> QED BY <1>1, <2>2, <2>3, <2>4, <2>5, <2>6, <2>7
<1>6. CASE Entry(name) = 0 /\ ~(Len(setting) < MaxSlots)
  <2>1. setting' = setting /\ ~SvIsSet(name) /\ Len(setting) = MaxSlots
    BY <1>1, <1>2, <1>3, <1>6 DEF SvTableOK
  <2> QED BY <1>1, <2>1 DEF SvTableOK, SvDistinct, SvIsSet
<1> QED BY <1>4, <1>5, <1>6

LEMMA SvSetBase ==
    ASSUME SvBaseOK, SvTableOK, NEW name \in Names, NEW isEnabled \in EnabledValues,
           SetStandbyVideoState(name, isEnabled)
    PROVE  SvBaseOK' /\ SvTableOK'
<1>1. /\ setting' = SettingWith(name, isEnabled # 0)
      /\ lastSet' = [lastSet EXCEPT ![name] = IF isEnabled # 0 THEN "on" ELSE "off"]
      /\ pc' = [pc EXCEPT !["rpc"] = "setting"] /\ registered
      /\ UNCHANGED <<power, curState, events, videoOn, target, pos, initStep, registered, isEAS,
                     disturbed, overridden, easRace>>
  BY DEF SetStandbyVideoState, envVars, hwVars, easVars
<1>2. /\ setting' \in Seq(SvEntry) /\ Len(setting') <= MaxSlots
      /\ Len(setting) = MaxSlots => Len(setting') = MaxSlots
      /\ SvDistinct'
      /\ \A n \in Names : SvIsSet(n) => SvIsSet(n)'
      /\ SvIsSet(name)' \/ Len(setting') = MaxSlots
      /\ \A i \in DOMAIN setting' :
            \/ setting'[i].port = name /\ setting'[i].isEnabled = (isEnabled # 0)
            \/ /\ i \in DOMAIN setting /\ setting'[i] = setting[i]
               /\ setting[i].port # name
  <2> DEFINE enabled == isEnabled # 0
  <2>1. SvTypeOK /\ enabled \in BOOLEAN /\ setting' = SettingWith(name, enabled)
    BY <1>1 DEF SvBaseOK
  <2>2. \A i \in DOMAIN setting' :
            \/ setting'[i].port = name /\ setting'[i].isEnabled = enabled
            \/ /\ i \in DOMAIN setting /\ setting'[i] = setting[i]
               /\ setting[i].port # name
    <3> HIDE DEF enabled
    <3> QED BY <2>1, SettingWithIs
  <2>3. /\ setting' \in Seq(SvEntry) /\ Len(setting') <= MaxSlots
        /\ Len(setting) = MaxSlots => Len(setting') = MaxSlots
        /\ SvDistinct'
        /\ \A n \in Names : SvIsSet(n) => SvIsSet(n)'
        /\ SvIsSet(name)' \/ Len(setting') = MaxSlots
    <3> HIDE DEF enabled
    <3> QED BY <2>1, SettingWithIs
  <2> QED BY <2>2, <2>3
<1>3. SvTypeOK'
  BY <1>1, <1>2 DEF SvBaseOK, SvTypeOK, SvPcs
<1>4. SvPlacesOK'
  BY <1>1, SvMoves, SvThreads DEF SvBaseOK, SvPlacesOK
<1>5. \A i \in DOMAIN setting' :
         lastSet'[setting'[i].port] = IF setting'[i].isEnabled THEN "on" ELSE "off"
  <2> TAKE i \in DOMAIN setting'
  <2>1. CASE setting'[i].port = name /\ setting'[i].isEnabled = (isEnabled # 0)
    BY <1>1, <2>1 DEF SvBaseOK, SvTypeOK
  <2>2. CASE /\ i \in DOMAIN setting /\ setting'[i] = setting[i]
             /\ setting[i].port # name
    <3>1. lastSet[setting[i].port] = IF setting[i].isEnabled THEN "on" ELSE "off"
      BY <2>2 DEF SvTableOK
    <3>2. setting[i] \in SvEntry
      BY <2>2 DEF SvBaseOK, SvTypeOK
    <3>3. setting[i].port \in Names
      BY <3>2 DEF SvEntry
    <3>4. lastSet'[setting[i].port] = lastSet[setting[i].port]
      BY <1>1, <2>2, <3>3 DEF SvBaseOK, SvTypeOK
    <3> QED BY <2>2, <3>1, <3>4
  <2> QED BY <1>2, <2>1, <2>2
<1>6. \A n \in Names : lastSet'[n] = "never" \/ Len(setting') = MaxSlots \/ SvIsSet(n)'
  <2> TAKE n \in Names
  <2>1. CASE n = name
    BY <1>2, <2>1
  <2>2. CASE n # name
    <3>1. lastSet'[n] = lastSet[n]
      BY <1>1, <2>2 DEF SvBaseOK, SvTypeOK
    <3> QED BY <1>2, <3>1 DEF SvTableOK
  <2> QED BY <2>1, <2>2
<1>7. SvTableOK'
  BY <1>2, <1>5, <1>6 DEF SvTableOK
<1> QED BY <1>3, <1>4, <1>7 DEF SvBaseOK

\* Every other step leaves the table alone.
LEMMA SvSameTable ==
    ASSUME SvTableOK, UNCHANGED <<setting, lastSet>> PROVE SvTableOK'
  BY DEF SvTableOK, SvDistinct, SvIsSet

LEMMA SvNextBase ==
    ASSUME SvBaseOK, SvTableOK, [Next]_vars PROVE SvBaseOK' /\ SvTableOK'
<1> USE DEF hwVars, easVars, threadVars, envVars, historyVars
<1>1. CASE UNCHANGED vars
  <2>1. SvBaseOK'
    BY <1>1 DEF vars, SvBaseOK, SvTypeOK, SvPlacesOK
  <2> QED BY <1>1, <2>1, SvSameTable DEF vars
<1>2. CASE ApplyPowerState \/ PwrEvent \/ \E s \in AskedStates : SetAvPortState(s)
  <2>1. UNCHANGED <<setting, lastSet>>
    BY <1>2 DEF ApplyPowerState, PwrEvent, SetAvPortState
  <2> QED BY <1>2, <2>1, SvSameTable, SvBeginBase
<1>3. ASSUME NEW t \in Threads,
             SwitchVideo(t) \/ VideoThrows(t) \/ SwitchAudio(t)
      PROVE  SvBaseOK' /\ SvTableOK'
  <2>1. UNCHANGED <<setting, lastSet>>
    BY <1>3 DEF SwitchVideo, VideoThrows, SwitchAudio
  <2> QED BY <1>3, <2>1, SvSameTable, SvSwitchBase
<1>4. CASE \/ RegisterHandler \/ ReadPowerState \/ \E s \in States : PowerChange(s)
           \/ ApplySetting \/ SysModeChange \/ SvAudio
           \/ \E s \in AskedStates : SetLEDState(s)
  <2>1. UNCHANGED <<setting, lastSet>>
    BY <1>4, SvAudioSteps DEF RegisterHandler, ReadPowerState, PowerChange, ApplySetting,
                              SysModeChange, AudioStep, SetLEDState
  <2> QED BY <1>4, <2>1, SvSameTable, SvOthersBase
<1>5. CASE \E name \in Names, isEnabled \in EnabledValues : SetStandbyVideoState(name, isEnabled)
  BY <1>5, SvSetBase
<1> QED BY <1>1, <1>2, <1>3, <1>4, <1>5 DEF Next, SvAudio

\* The audio modes: a thread that has looked at the mode sets what is right for it, unless
\* the mode changed since; and whoever changes the mode sees to the audio next.
SvWork == {"stereo", "forcing", "restore", "restoring"}

SvModesAre == stereo \ Disconnected = IF isEAS THEN PassThru \ Disconnected ELSE {}

SvEasOK ==
    /\ pc["rpc"] \in {"stereo", "forcing"} => isEAS
    /\ pc["rpc"] \in {"restore", "restoring"} => ~isEAS
    /\ ~easRace =>
          /\ \A t \in Threads : pc[t] = "forcing" => isEAS
          /\ \A t \in Threads : pc[t] = "restoring" => ~isEAS
          /\ pc["rpc"] \notin SvWork => SvModesAre

\* A step that has nothing to do with the audio modes.
LEMMA SvSameEas ==
    ASSUME SvEasOK, UNCHANGED <<easRace, isEAS, stereo>>,
           \A t \in Threads : pc'[t] \in SvWork => pc'[t] = pc[t],
           pc["rpc"] \in SvWork => pc'["rpc"] \in SvWork
    PROVE  SvEasOK'
<1>1. "rpc" \in Threads
  BY SvThreads
<1> QED BY <1>1 DEF SvEasOK, SvWork, SvModesAre

\* A step of the audio modes that comes from a thread that knows the mode.
LEMMA SvAudioEas ==
    ASSUME SvBaseOK, SvEasOK, SvAudio PROVE SvEasOK'
<1> USE DEF SvWork
<1>0. easRace \in BOOLEAN /\ isEAS \in BOOLEAN /\ "rpc" \in Threads
  BY SvThreads DEF SvBaseOK, SvTypeOK
<1>1. ASSUME NEW t \in Threads, NEW from, NEW to, AudioStep(t, from, to)
      PROVE  /\ pc[t] = from /\ pc'[t] = to /\ (\A u \in Threads : u # t => pc'[u] = pc[u])
             /\ UNCHANGED <<isEAS, easRace>>
  BY <1>1, SvMoves DEF AudioStep, historyVars
<1>2. CASE TuneReady \/ HotPlug
  <2>1. PICK t \in {"event", "resn"} : AudioStep(t, "idle", "restore") /\ stereo' = stereo
    BY <1>2 DEF TuneReady, HotPlug
  <2>2. t \in Threads /\ t # "rpc"
    BY SvThreads
  <2>3. /\ pc'[t] = "restore" /\ (\A u \in Threads : u # t => pc'[u] = pc[u])
        /\ UNCHANGED <<isEAS, easRace>>
    BY <1>1, <2>1, <2>2
  <2> QED BY <1>0, <2>1, <2>2, <2>3 DEF SvEasOK, SvModesAre
<1>3. ASSUME NEW t \in Threads, _setAudioMode(t) \/ _setEASAudioMode(t) PROVE SvEasOK'
  <2>1. /\ stereo' = stereo
        /\ \/ pc[t] = "restore" /\ pc'[t] = IF isEAS THEN "idle" ELSE "restoring"
           \/ pc[t] = "stereo" /\ pc'[t] = IF isEAS THEN "forcing" ELSE "idle"
        /\ (\A u \in Threads : u # t => pc'[u] = pc[u]) /\ UNCHANGED <<isEAS, easRace>>
    <3>1. CASE _setAudioMode(t)
      BY <1>1, <3>1 DEF _setAudioMode
    <3>2. CASE _setEASAudioMode(t)
      BY <1>1, <3>2 DEF _setEASAudioMode
    <3> QED BY <1>3, <3>1, <3>2
  <2>2. t = "rpc" => pc'[t] = IF isEAS THEN "forcing" ELSE "restoring"
    BY <1>0, <2>1 DEF SvEasOK
  <2>3. pc'["rpc"] \in SvWork <=> pc["rpc"] \in SvWork
    BY <1>0, <2>1, <2>2
  <2>4. /\ pc'["rpc"] \in {"stereo", "forcing"} => isEAS
        /\ pc'["rpc"] \in {"restore", "restoring"} => ~isEAS
    BY <1>0, <2>1, <2>2 DEF SvEasOK
  <2>5. ASSUME ~easRace, NEW u \in Threads
        PROVE  (pc'[u] = "forcing" => isEAS) /\ (pc'[u] = "restoring" => ~isEAS)
    BY <1>0, <2>1, <2>5 DEF SvEasOK
  <2> QED BY <2>1, <2>3, <2>4, <2>5 DEF SvEasOK, SvModesAre
<1>4. ASSUME NEW t \in Threads, RestoreAudioMode(t) \/ ForceStereo(t) PROVE SvEasOK'
  <2>1. /\ \/ pc[t] = "restoring" /\ stereo' = stereo \cap Disconnected
           \/ pc[t] = "forcing" /\ stereo' = PassThru
        /\ pc'[t] = "idle"
        /\ (\A u \in Threads : u # t => pc'[u] = pc[u]) /\ UNCHANGED <<isEAS, easRace>>
    <3>1. CASE RestoreAudioMode(t)
      BY <1>1, <3>1 DEF RestoreAudioMode
    <3>2. CASE ForceStereo(t)
      BY <1>1, <3>2 DEF ForceStereo
    <3> QED BY <1>4, <3>1, <3>2
  <2>2. ~easRace => SvModesAre'
    <3> SUFFICES ASSUME ~easRace PROVE SvModesAre'
      OBVIOUS
    <3>1. CASE pc[t] = "restoring"
      <4>1. ~isEAS
        BY <3>1 DEF SvEasOK
      <4> QED BY <2>1, <3>1, <4>1 DEF SvModesAre
    <3>2. CASE pc[t] = "forcing"
      <4>1. isEAS
        BY <3>2 DEF SvEasOK
      <4> QED BY <2>1, <3>2, <4>1 DEF SvModesAre
    <3> QED BY <2>1, <3>1, <3>2
  <2> QED BY <1>0, <2>1, <2>2 DEF SvEasOK
<1> QED BY <1>2, <1>3, <1>4 DEF SvAudio

LEMMA SvNextEas ==
    ASSUME SvBaseOK, SvEasOK, [Next]_vars PROVE SvEasOK'
<1> USE DEF hwVars, threadVars, envVars, historyVars, easVars
<1>0. /\ easRace \in BOOLEAN /\ isEAS \in BOOLEAN /\ pc \in [Threads -> SvPcs]
      /\ "rpc" \in Threads
  BY SvThreads DEF SvBaseOK, SvTypeOK
<1>1. CASE UNCHANGED <<pc, easRace, isEAS, stereo>>
  BY <1>1, SvSameEas
<1>2. ASSUME NEW t \in Threads, NEW place, pc' = [pc EXCEPT ![t] = place], pc[t] \notin SvWork,
             place \notin SvWork, UNCHANGED <<easRace, isEAS, stereo>>
      PROVE  SvEasOK'
  <2>1. pc'[t] = place /\ \A u \in Threads : u # t => pc'[u] = pc[u]
    BY <1>2, SvMoves
  <2> QED BY <1>2, <2>1, SvSameEas, SvThreads
<1>3. ASSUME NEW t \in Threads, NEW s, Begin(t, s), pc[t] \in {"init", "idle"},
             UNCHANGED <<easRace, isEAS, stereo>>
      PROVE  SvEasOK'
  <2>1. pc' = [pc EXCEPT ![t] = "video"] /\ "video" \notin SvWork /\ pc[t] \notin SvWork
    BY <1>3 DEF Begin, SvWork
  <2> QED BY <1>2, <1>3, <2>1
<1>4. CASE ApplyPowerState \/ PwrEvent \/ \E s \in AskedStates : SetAvPortState(s)
  <2>1. CASE ApplyPowerState
    <3>1. Begin("main", curState) /\ pc["main"] = "init" /\ UNCHANGED <<easRace, isEAS, stereo>>
      BY <2>1 DEF ApplyPowerState, InitIs
    <3> QED BY <1>3, <3>1, SvThreads
  <2>2. CASE PwrEvent
    <3>1. Begin("event", Head(events)) /\ pc["event"] = "idle"
          /\ UNCHANGED <<easRace, isEAS, stereo>>
      BY <2>2 DEF PwrEvent
    <3> QED BY <1>3, <3>1, SvThreads
  <2>3. ASSUME NEW s \in AskedStates, SetAvPortState(s) PROVE SvEasOK'
    <3>1. Begin("rpc", s) /\ pc["rpc"] = "idle" /\ UNCHANGED <<easRace, isEAS, stereo>>
      BY <2>3 DEF SetAvPortState, Called
    <3> QED BY <1>3, <3>1, SvThreads
  <2> QED BY <1>4, <2>1, <2>2, <2>3
<1>5. ASSUME NEW t \in Threads, SwitchVideo(t) \/ VideoThrows(t) PROVE SvEasOK'
  <2>1. PICK place \in {"audio", "video", "idle"} : pc' = [pc EXCEPT ![t] = place]
    <3>1. CASE SwitchVideo(t)
      BY <3>1 DEF SwitchVideo
    <3>2. CASE VideoThrows(t)
      BY <3>2 DEF VideoThrows
    <3> QED BY <1>5, <3>1, <3>2
  <2>2. pc[t] = "video" /\ UNCHANGED <<easRace, isEAS, stereo>>
    BY <1>5 DEF SwitchVideo, VideoThrows
  <2>3. "video" \notin SvWork /\ place \notin SvWork
    BY DEF SvWork
  <2> QED BY <1>2, <2>1, <2>2, <2>3
<1>6. ASSUME NEW t \in Threads, SwitchAudio(t) PROVE SvEasOK'
  <2>1. /\ pc[t] = "audio" /\ UNCHANGED <<easRace, isEAS, stereo>>
        /\ pc' = [pc EXCEPT ![t] = IF target[t] = "ON" /\ isEAS THEN "stereo" ELSE "idle"]
    BY <1>6 DEF SwitchAudio
  <2>2. CASE target[t] = "ON" /\ isEAS
    <3>1. pc'[t] = "stereo" /\ (\A u \in Threads : u # t => pc'[u] = pc[u])
      BY <2>1, <2>2, SvMoves
    <3> QED BY <1>0, <2>1, <2>2, <3>1 DEF SvEasOK, SvModesAre, SvWork
  <2>3. CASE ~(target[t] = "ON" /\ isEAS)
    <3>1. pc' = [pc EXCEPT ![t] = "idle"] /\ "idle" \notin SvWork /\ "audio" \notin SvWork
      BY <2>1, <2>3 DEF SvWork
    <3> QED BY <1>2, <2>1, <3>1
  <2> QED BY <2>2, <2>3
<1>7. CASE SvAudio
  BY <1>7, SvAudioEas
<1>8. CASE SysModeChange
  <2>1. /\ pc["rpc"] = "idle" /\ isEAS' = ~isEAS
        /\ pc' = [pc EXCEPT !["rpc"] = IF isEAS THEN "restore" ELSE "stereo"]
        /\ ~easRace' => ~easRace /\ \A t \in Threads : pc[t] \notin {"forcing", "restoring"}
    BY <1>8 DEF SysModeChange, Called
  <2>2. /\ pc'["rpc"] = (IF isEAS THEN "restore" ELSE "stereo")
        /\ \A u \in Threads : u # "rpc" => pc'[u] = pc[u]
    BY <2>1, SvMoves, SvThreads
  <2> QED BY <1>0, <2>1, <2>2 DEF SvEasOK, SvWork
<1>9. CASE ApplySetting \/ \E name \in Names, isEnabled \in EnabledValues :
                              SetStandbyVideoState(name, isEnabled)
  <2>1. PICK place \in {"idle", "setting"} : pc' = [pc EXCEPT !["rpc"] = place]
    BY <1>9 DEF ApplySetting, SetStandbyVideoState
  <2>2. pc["rpc"] \in {"idle", "setting"} /\ UNCHANGED <<easRace, isEAS, stereo>>
    BY <1>9 DEF ApplySetting, SetStandbyVideoState, Called
  <2>3. pc["rpc"] \notin SvWork /\ place \notin SvWork
    BY <2>2 DEF SvWork
  <2> QED BY <1>2, <2>1, <2>2, <2>3, SvThreads
<1>10. CASE \/ RegisterHandler \/ ReadPowerState \/ \E s \in States : PowerChange(s)
            \/ (\E s \in AskedStates : SetLEDState(s)) \/ UNCHANGED vars
  BY <1>1, <1>10 DEF RegisterHandler, ReadPowerState, PowerChange, SetLEDState, vars
<1> QED BY <1>4, <1>5, <1>6, <1>7, <1>8, <1>9, <1>10 DEF Next, SvAudio

\* The power state: the last event on its way is the state, and what was asked for last, or
\* is about to be, is it too.
SvPowerOK ==
    /\ events # <<>> => events[Len(events)] = power
    /\ events = <<>> /\ ~disturbed /\ ~overridden =>
          IF pc["main"] = "init" THEN initStep = 3 => curState = power
          ELSE asked = power /\ led = LedFor(power)

LEMMA SvNextPower ==
    ASSUME SvBaseOK, SvPowerOK, [Next]_vars PROVE SvPowerOK'
<1> USE DEF hwVars, easVars, threadVars, envVars, historyVars
<1>0. /\ events \in Seq(States) /\ initStep \in 1..3 /\ pc \in [Threads -> SvPcs]
      /\ disturbed \in BOOLEAN /\ overridden \in BOOLEAN
      /\ ~registered => events = <<>> /\ pc["main"] = "init" /\ initStep = 1
      /\ \A t \in Threads : pc[t] = "init" => t = "main"
  BY DEF SvBaseOK, SvTypeOK, SvPlacesOK
<1>1. ASSUME UNCHANGED <<power, events, initStep, curState, asked, led>>,
             pc'["main"] = "init" <=> pc["main"] = "init",
             ~disturbed' => ~disturbed, ~overridden' => ~overridden
      PROVE  SvPowerOK'
  BY <1>1 DEF SvPowerOK, LedFor
<1>2. CASE RegisterHandler
  <2>1. initStep' = 2 /\ UNCHANGED <<power, events, pc>> /\ pc["main"] = "init"
    BY <1>0, <1>2 DEF RegisterHandler, InitIs, InitSteps
  <2> QED BY <2>1 DEF SvPowerOK
<1>3. CASE ReadPowerState
  <2>1. UNCHANGED <<power, events, pc>> /\ pc["main"] = "init"
    BY <1>3 DEF ReadPowerState, InitIs
  <2>2. curState' = power \/ overridden'
    BY <1>3 DEF ReadPowerState
  <2> QED BY <2>1, <2>2 DEF SvPowerOK
<1>4. CASE ApplyPowerState
  <2>1. pc["main"] = "init" /\ initStep = 3
    BY <1>0, <1>4 DEF ApplyPowerState, InitIs, InitSteps
  <2>2. /\ UNCHANGED <<power, events, overridden>> /\ led' = LedFor(curState)
        /\ asked' = curState /\ (~disturbed' => ~disturbed)
    BY <1>4 DEF ApplyPowerState, Begin
  <2>3. pc'["main"] = "video"
    BY <1>0, <1>4, SvThreads DEF ApplyPowerState, Begin
  <2> QED BY <2>1, <2>2, <2>3 DEF SvPowerOK, LedFor
<1>5. CASE PwrEvent
  <2>1. /\ events # <<>> /\ events' = Tail(events) /\ power' = power
        /\ led' = LedFor(Head(events)) /\ asked' = Head(events)
        /\ ~disturbed' => \A u \in Threads \ {"event"} : ~Switches(u)
        /\ pc' = [pc EXCEPT !["event"] = "video"] /\ initStep' = initStep
    BY <1>5 DEF PwrEvent, Begin
  <2>2. /\ Tail(events) # <<>> => Tail(events)[Len(Tail(events))] = events[Len(events)]
        /\ Tail(events) = <<>> => Head(events) = events[Len(events)]
    BY <1>0, <2>1, LastOfTail
  <2>4. ~disturbed' => (pc'["main"] = "init" => initStep' # 3)
    BY <1>0, <2>1, SvThreads DEF Switches
  <2> QED BY <2>1, <2>2, <2>4 DEF SvPowerOK, LedFor
<1>6. ASSUME NEW s \in States, PowerChange(s) PROVE SvPowerOK'
  <2>1. CASE registered
    <3>1. events' = Append(events, s) /\ power' = s
      BY <1>6, <2>1 DEF PowerChange
    <3>2. events' # <<>> /\ events'[Len(events')] = s
      BY <1>0, <1>6, <3>1
    <3> QED BY <3>1, <3>2 DEF SvPowerOK
  <2>2. CASE ~registered
    <3>1. events' = <<>> /\ pc' = pc /\ initStep' = initStep
      BY <1>0, <1>6, <2>2 DEF PowerChange
    <3> QED BY <1>0, <2>2, <3>1 DEF SvPowerOK
  <2> QED BY <2>1, <2>2
<1>7. CASE \E s \in AskedStates : SetAvPortState(s) \/ SetLEDState(s)
  <2>1. overridden' /\ UNCHANGED <<power, events>>
    BY <1>7 DEF SetAvPortState, SetLEDState
  <2> QED BY <2>1 DEF SvPowerOK
<1>8. ASSUME NEW t \in Threads, SwitchVideo(t) \/ VideoThrows(t) \/ SwitchAudio(t)
      PROVE  SvPowerOK'
  <2>1. PICK place \in {"audio", "video", "stereo", "idle"} : pc' = [pc EXCEPT ![t] = place]
    <3>1. CASE SwitchVideo(t)
      BY <3>1 DEF SwitchVideo
    <3>2. CASE VideoThrows(t)
      BY <3>2 DEF VideoThrows
    <3>3. CASE SwitchAudio(t)
      BY <3>3 DEF SwitchAudio
    <3> QED BY <1>8, <3>1, <3>2, <3>3
  <2>2. /\ UNCHANGED <<power, events, initStep, curState, asked, led, overridden>>
        /\ ~disturbed' => ~disturbed
        /\ pc[t] # "init"
    BY <1>8 DEF SwitchVideo, VideoThrows, SwitchAudio
  <2>3. pc'["main"] = "init" <=> pc["main"] = "init"
    BY <1>0, <2>1, <2>2, SvThreads
  <2> QED BY <1>1, <2>2, <2>3
<1>9. CASE \/ ApplySetting \/ SysModeChange
           \/ \E name \in Names, isEnabled \in EnabledValues : SetStandbyVideoState(name, isEnabled)
  <2>1. /\ UNCHANGED <<power, events, initStep, curState, asked, led, overridden, disturbed>>
        /\ \E place : pc' = [pc EXCEPT !["rpc"] = place]
    BY <1>9 DEF ApplySetting, SysModeChange, SetStandbyVideoState
  <2>2. pc'["main"] = pc["main"]
    BY <1>0, <2>1, SvThreads
  <2> QED BY <1>1, <2>1, <2>2
<1>11. CASE SvAudio
  <2>1. PICK t \in Threads, from \in SvModes, to \in SvModes : AudioStep(t, from, to)
    BY <1>11, SvAudioSteps
  <2>2. /\ UNCHANGED <<power, events, initStep, curState, asked, led, overridden, disturbed>>
        /\ pc[t] # "init" /\ to # "init" /\ pc' = [pc EXCEPT ![t] = to]
    BY <2>1 DEF AudioStep, SvModes
  <2>3. pc'["main"] = "init" <=> pc["main"] = "init"
    BY <1>0, <2>2, SvThreads
  <2> QED BY <1>1, <2>2, <2>3
<1>10. CASE UNCHANGED vars
  BY <1>1, <1>10 DEF vars
<1> QED BY <1>2, <1>3, <1>4, <1>5, <1>6, <1>7, <1>8, <1>9, <1>10, <1>11 DEF Next, SvAudio

\* The ports: while one thread alone switches them, those it has done are as it is asked.
SvSwitching(t) == pc[t] \in {"video", "audio"}

SvPortDone(p) ==
    \/ p \in setSince
    \/ CASE asked = "ON"  -> p \in videoOn
         [] asked = "OFF" -> p \notin videoOn
         [] OTHER         -> p \in videoOn => Configured(p)

SvAudioDone == IF asked = "ON" THEN Persisted \subseteq audioOn ELSE audioOn = {}

SvAlone(t) == \A u \in Threads : SvSwitching(u) => u = t

SvThreadOK(t) ==
    SvSwitching(t) =>
       /\ target[t] = asked /\ SvAlone(t)
       /\ pc[t] = "video" => \A i \in 1..(pos[t] - 1) : SvPortDone(VideoPorts[i])
       /\ pc[t] = "audio" => \A p \in Ports : SvPortDone(p)

SvRestOK ==
    (\A t \in Threads : ~SvSwitching(t)) /\ pc["main"] # "init" =>
       SvAudioDone /\ \A p \in Ports : SvPortDone(p)

SvPortsOK == ~disturbed => SvRestOK /\ \A t \in Threads : SvThreadOK(t)

\* What has been done of the ports stands.
SvStands ==
    /\ \A p \in Ports : SvPortDone(p) => SvPortDone(p)'
    /\ audioOn' = audioOn /\ asked' = asked

\* A step that begins no switching, goes on with none and ends none.
LEMMA SvSamePorts ==
    ASSUME SvBaseOK, SvPortsOK, SvStands, UNCHANGED <<target, pos, disturbed>>,
           \A t \in Threads : SvSwitching(t)' <=> SvSwitching(t),
           \A t \in Threads : SvSwitching(t) => pc'[t] = pc[t],
           pc'["main"] = "init" <=> pc["main"] = "init"
    PROVE  SvPortsOK'
<1>1. ASSUME ~disturbed, NEW t \in Threads PROVE SvThreadOK(t)'
  <2>1. SvThreadOK(t)
    BY <1>1 DEF SvPortsOK
  <2>2. \A i \in 1..(pos[t] - 1) : VideoPorts[i] \in Ports
    BY <1>1, SvPortNames DEF SvBaseOK, SvTypeOK
  <2>3. SvAlone(t) => SvAlone(t)'
    BY DEF SvAlone
  <2> QED BY <1>1, <2>1, <2>2, <2>3 DEF SvThreadOK, SvStands
<1>2. ~disturbed => SvRestOK'
  BY DEF SvPortsOK, SvRestOK, SvStands, SvAudioDone
<1> QED BY <1>1, <1>2 DEF SvPortsOK

LEMMA SvPortsLookAlike ==
    ASSUME UNCHANGED <<setSince, asked, setting, videoOn>>, NEW p
    PROVE  SvPortDone(p)' = SvPortDone(p)
  BY DEF SvPortDone, Configured, Entry, SelectInSeq

\* A port is switched.
LEMMA SvSwitchPort ==
    ASSUME SvBaseOK, SvPortsOK, NEW t \in Threads, SwitchVideo(t)
    PROVE  SvPortsOK'
<1>0. PICK now \in Ports : now = VideoPorts[pos[t]]
  BY SvPortNames DEF SvBaseOK, SvTypeOK
<1>1. /\ pc[t] = "video" /\ videoOn' = PortAfter(target[t], now)
      /\ pos' = [pos EXCEPT ![t] = IF @ = Len(VideoPorts) THEN 1 ELSE @ + 1]
      /\ pc' = [pc EXCEPT ![t] = IF pos[t] = Len(VideoPorts) THEN "audio" ELSE @]
      /\ UNCHANGED <<setSince, asked, setting, target, disturbed, audioOn>>
  BY <1>0 DEF SwitchVideo, hwVars, easVars, envVars, historyVars
<1>2. /\ pc \in [Threads -> SvPcs] /\ pos[t] \in 1..Len(VideoPorts)
      /\ pos \in [Threads -> 1..Len(VideoPorts)] /\ Len(VideoPorts) \in Nat
  BY SvPortNames DEF SvBaseOK, SvTypeOK
<1>3. SUFFICES ASSUME ~disturbed PROVE SvRestOK' /\ \A u \in Threads : SvThreadOK(u)'
  BY <1>1 DEF SvPortsOK
<1>4. /\ target[t] = asked /\ SvAlone(t)
      /\ \A i \in 1..(pos[t] - 1) : SvPortDone(VideoPorts[i])
  BY <1>1, <1>3 DEF SvPortsOK, SvThreadOK, SvSwitching
<1>5. \A p : Configured(p)' = Configured(p)
  BY <1>1 DEF Configured, Entry, SelectInSeq
<1>6. SvPortDone(now)'
  <2>1. CASE asked = "ON"
    BY <1>1, <1>4, <2>1 DEF SvPortDone, PortAfter
  <2>2. CASE asked = "OFF"
    BY <1>1, <1>4, <2>2 DEF SvPortDone, PortAfter
  <2>3. CASE asked \notin {"ON", "OFF"}
    <3>1. now \in videoOn' => Configured(now)
      BY <1>1, <1>4, <2>3 DEF PortAfter
    <3> QED BY <1>1, <1>5, <2>3, <3>1 DEF SvPortDone
  <2> QED BY <2>1, <2>2, <2>3
<1>7. \A p : p # now => (p \in videoOn' <=> p \in videoOn)
  BY <1>1 DEF PortAfter
<1>8. \A p : SvPortDone(p) => SvPortDone(p)'
  <2> TAKE p
  <2>1. CASE p = now
    BY <1>6, <2>1
  <2>2. CASE p # now
    BY <1>1, <1>5, <1>7, <2>2 DEF SvPortDone
  <2> QED BY <2>1, <2>2
<1>9. \A i \in 1..pos[t] : SvPortDone(VideoPorts[i])'
  <2> TAKE i \in 1..pos[t]
  <2>1. i \in 1..(pos[t] - 1) \/ i = pos[t]
    BY <1>2
  <2> QED BY <1>0, <1>4, <1>6, <1>8, <2>1
<1>10. pc'[t] \in {"video", "audio"} /\ \A u \in Threads : u # t => pc'[u] = pc[u]
  BY <1>1, <1>2
<1>11. SvAlone(t)' /\ SvRestOK'
  BY <1>4, <1>10 DEF SvAlone, SvSwitching, SvRestOK
<1>12. SvThreadOK(t)'
  <2>1. CASE pos[t] = Len(VideoPorts)
    <3>1. \A p \in Ports : SvPortDone(p)'
      BY <1>9, <2>1, SvPortNames
    <3>2. pc'[t] = "audio"
      BY <1>1, <1>2, <2>1
    <3> QED BY <1>1, <1>4, <1>10, <1>11, <3>1, <3>2 DEF SvThreadOK
  <2>2. CASE pos[t] # Len(VideoPorts)
    <3>1. pc'[t] = "video" /\ pos'[t] = pos[t] + 1
      BY <1>1, <1>2, <2>2
    <3>2. \A i \in 1..(pos'[t] - 1) : SvPortDone(VideoPorts[i])'
      BY <1>2, <1>9, <3>1
    <3> QED BY <1>1, <1>4, <1>10, <1>11, <3>1, <3>2 DEF SvThreadOK
  <2> QED BY <2>1, <2>2
<1>13. ASSUME NEW u \in Threads, u # t PROVE SvThreadOK(u)'
  BY <1>11, <1>13 DEF SvAlone, SvThreadOK
<1> QED BY <1>11, <1>12, <1>13

\* The audio ports, with which the switching ends.
LEMMA SvSwitchRest ==
    ASSUME SvBaseOK, SvPortsOK, NEW t \in Threads, SwitchAudio(t)
    PROVE  SvPortsOK'
<1>1. /\ pc[t] = "audio"
      /\ audioOn' = IF target[t] = "ON" THEN audioOn \cup Persisted ELSE {}
      /\ UNCHANGED <<setSince, asked, setting, videoOn, target, pos, disturbed>>
      /\ \E place \in {"stereo", "idle"} : pc' = [pc EXCEPT ![t] = place]
  BY DEF SwitchAudio, envVars, historyVars
<1>2. pc'[t] \in {"stereo", "idle"} /\ \A u \in Threads : u # t => pc'[u] = pc[u]
  BY <1>1, SvMoves
<1>3. SUFFICES ASSUME ~disturbed PROVE SvRestOK' /\ \A u \in Threads : SvThreadOK(u)'
  BY <1>1 DEF SvPortsOK
<1>4. target[t] = asked /\ SvAlone(t) /\ \A p \in Ports : SvPortDone(p)
  BY <1>1, <1>3 DEF SvPortsOK, SvThreadOK, SvSwitching
<1>5. \A u \in Threads : ~SvSwitching(u)'
  BY <1>2, <1>4 DEF SvAlone, SvSwitching
<1>6. \A p \in Ports : SvPortDone(p)'
  BY <1>1, <1>4, SvPortsLookAlike
<1>7. SvAudioDone'
  BY <1>1, <1>4 DEF SvAudioDone
<1> QED BY <1>5, <1>6, <1>7 DEF SvRestOK, SvThreadOK

\* A thread begins, alone or not.
LEMMA SvBeginPorts ==
    ASSUME SvBaseOK, NEW t \in Threads, NEW s, Begin(t, s)
    PROVE  SvPortsOK'
<1>1. /\ pc' = [pc EXCEPT ![t] = "video"] /\ target' = [target EXCEPT ![t] = s]
      /\ pos' = [pos EXCEPT ![t] = 1] /\ asked' = s
      /\ ~disturbed' => \A u \in Threads \ {t} : ~Switches(u)
  BY DEF Begin
<1>2. SUFFICES ASSUME ~disturbed' PROVE SvRestOK' /\ \A u \in Threads : SvThreadOK(u)'
  BY DEF SvPortsOK
<1>3. /\ pc'[t] = "video" /\ \A u \in Threads : u # t => ~SvSwitching(u)'
      /\ target'[t] = s /\ pos'[t] = 1
  <2>1. \A u \in Threads : u # t => pc'[u] = pc[u] /\ ~Switches(u)
    BY <1>1, <1>2 DEF SvBaseOK, SvTypeOK
  <2> QED BY <1>1, <2>1 DEF SvBaseOK, SvTypeOK, Switches, SvSwitching
<1>4. SvAlone(t)' /\ SvRestOK'
  BY <1>3 DEF SvAlone, SvSwitching, SvRestOK
<1>5. SvThreadOK(t)'
  <2>1. 1..(1 - 1) = {}
    OBVIOUS
  <2> QED BY <1>1, <1>3, <1>4, <2>1 DEF SvThreadOK
<1>6. ASSUME NEW u \in Threads, u # t PROVE SvThreadOK(u)'
  BY <1>3, <1>6 DEF SvThreadOK, SvSwitching
<1> QED BY <1>4, <1>5, <1>6

\* A caller sets what a port does, in the table and then at the port.
LEMMA SvCallPorts ==
    ASSUME SvBaseOK, SvBaseOK', SvTableOK, SvTableOK', SvPortsOK,
           \/ ApplySetting
           \/ \E name \in Names, isEnabled \in EnabledValues : SetStandbyVideoState(name, isEnabled)
    PROVE  SvPortsOK'
<1>1. PICK place \in {"idle", "setting"} : pc' = [pc EXCEPT !["rpc"] = place]
  BY DEF ApplySetting, SetStandbyVideoState
<1>2. /\ pc["rpc"] \in {"idle", "setting"}
      /\ UNCHANGED <<target, pos, disturbed, asked, audioOn>>
  BY DEF ApplySetting, SetStandbyVideoState, Called, hwVars, easVars, envVars
<1>3. pc'["rpc"] = place /\ \A u \in Threads : u # "rpc" => pc'[u] = pc[u]
  BY <1>1, SvMoves, SvThreads
<1>4. SvStands
  <2>1. CASE ApplySetting
    <3>1. /\ setSince' = setSince \cup {call.port} /\ setting' = setting
          /\ \A p : p # call.port => (p \in videoOn' <=> p \in videoOn)
      BY <2>1 DEF ApplySetting
    <3>2. \A p : Configured(p)' = Configured(p)
      BY <3>1 DEF Configured, Entry, SelectInSeq
    <3> QED BY <1>2, <3>1, <3>2 DEF SvStands, SvPortDone
  <2>2. ASSUME NEW name \in Names, NEW isEnabled \in EnabledValues,
               SetStandbyVideoState(name, isEnabled)
        PROVE  SvStands
    <3> DEFINE enabled == isEnabled # 0
    <3>1. /\ setSince' = setSince \cup {name} /\ videoOn' = videoOn
          /\ setting' = SettingWith(name, enabled) /\ enabled \in BOOLEAN
      BY <2>2 DEF SetStandbyVideoState, hwVars, easVars
    <3>2. /\ \A i \in DOMAIN setting' :
                \/ setting'[i].port = name
                \/ /\ i \in DOMAIN setting /\ setting'[i] = setting[i]
          /\ \A i \in DOMAIN setting : setting[i].port # name =>
                i \in DOMAIN setting' /\ setting'[i] = setting[i]
      <4> HIDE DEF enabled
      <4> QED BY <3>1, SettingWithIs DEF SvBaseOK
    <3>3. \A p : Configured(p) <=> \E i \in DOMAIN setting : setting[i].port = p
                                                            /\ setting[i].isEnabled
      BY ConfiguredFinds DEF SvBaseOK, SvTableOK, SvLooksUp
    <3>4. \A p : Configured(p)' <=> \E i \in DOMAIN setting' : setting'[i].port = p
                                                              /\ setting'[i].isEnabled
      BY ConfiguredFindsNext DEF SvBaseOK, SvTableOK, SvLooksUp
    <3>5. \A p : p # name => (Configured(p)' <=> Configured(p))
      BY <3>2, <3>3, <3>4
    <3> QED BY <1>2, <3>1, <3>5 DEF SvStands, SvPortDone
  <2> QED BY <2>1, <2>2
<1>5. \A t \in Threads : (SvSwitching(t)' <=> SvSwitching(t)) /\ (SvSwitching(t) => pc'[t] = pc[t])
  BY <1>2, <1>3 DEF SvSwitching
<1> QED BY <1>2, <1>3, <1>4, <1>5, SvSamePorts, SvThreads

LEMMA SvNextPorts ==
    ASSUME SvBaseOK, SvTableOK, SvPortsOK, [Next]_vars PROVE SvPortsOK'
<1> USE DEF hwVars, easVars, threadVars, envVars, historyVars
<1>0. SvBaseOK' /\ SvTableOK'
  BY SvNextBase
<1>1. CASE ApplyPowerState \/ PwrEvent \/ \E s \in AskedStates : SetAvPortState(s)
  <2>1. \E t \in Threads : \E s : Begin(t, s)
    BY <1>1, SvThreads DEF ApplyPowerState, PwrEvent, SetAvPortState
  <2> QED BY <2>1, SvBeginPorts
<1>2. ASSUME NEW t \in Threads, SwitchVideo(t) \/ SwitchAudio(t) PROVE SvPortsOK'
  BY <1>2, SvSwitchPort, SvSwitchRest
<1>3. ASSUME NEW t \in Threads, VideoThrows(t) PROVE SvPortsOK'
  BY <1>3 DEF VideoThrows, SvPortsOK
<1>4. CASE ApplySetting \/ \E name \in Names, isEnabled \in EnabledValues :
                              SetStandbyVideoState(name, isEnabled)
  BY <1>0, <1>4, SvCallPorts
<1>5. ASSUME UNCHANGED <<pc, target, pos, disturbed, asked, setSince, setting, videoOn, audioOn>>
      PROVE  SvPortsOK'
  BY <1>5, SvPortsLookAlike, SvSamePorts DEF SvStands, SvSwitching
<1>6. ASSUME NEW t \in Threads, NEW place \in SvModes,
             pc' = [pc EXCEPT ![t] = place], pc[t] \in SvModes,
             UNCHANGED <<target, pos, disturbed, asked, setSince, setting, videoOn, audioOn>>
      PROVE  SvPortsOK'
  <2>1. pc'[t] = place /\ \A u \in Threads : u # t => pc'[u] = pc[u]
    BY <1>6, SvMoves
  <2>2. SvStands
    BY <1>6, SvPortsLookAlike DEF SvStands
  <2>3. /\ \A u \in Threads : (SvSwitching(u)' <=> SvSwitching(u))
                              /\ (SvSwitching(u) => pc'[u] = pc[u])
        /\ pc'["main"] = "init" <=> pc["main"] = "init"
    BY <1>6, <2>1, SvThreads DEF SvSwitching, SvModes
  <2> QED BY <1>6, <2>2, <2>3, SvSamePorts
<1>7. CASE SvAudio
  <2>1. PICK t \in Threads, from \in SvModes, to \in SvModes : AudioStep(t, from, to)
    BY <1>7, SvAudioSteps
  <2>2. /\ pc[t] = from /\ pc' = [pc EXCEPT ![t] = to]
        /\ UNCHANGED <<target, pos, disturbed, asked, setSince, setting, videoOn, audioOn>>
    BY <2>1 DEF AudioStep
  <2> QED BY <1>6, <2>2
<1>8. CASE SysModeChange
  <2>1. PICK place \in {"restore", "stereo"} : pc' = [pc EXCEPT !["rpc"] = place]
    BY <1>8 DEF SysModeChange
  <2>2. /\ pc["rpc"] = "idle" /\ place \in SvModes /\ "idle" \in SvModes
        /\ UNCHANGED <<target, pos, disturbed, asked, setSince, setting, videoOn, audioOn>>
    BY <1>8 DEF SysModeChange, Called, SvModes
  <2>3. "rpc" \in Threads
    BY SvThreads
  <2> QED BY <1>6, <2>1, <2>2, <2>3
<1>9. CASE \/ RegisterHandler \/ ReadPowerState \/ \E s \in States : PowerChange(s)
           \/ (\E s \in AskedStates : SetLEDState(s)) \/ UNCHANGED vars
  BY <1>5, <1>9 DEF RegisterHandler, ReadPowerState, PowerChange, SetLEDState, vars
<1> QED BY <1>1, <1>2, <1>3, <1>4, <1>7, <1>8, <1>9 DEF Next, SvAudio

SvInv == SvBaseOK /\ SvTableOK /\ SvEasOK /\ SvPowerOK /\ SvPortsOK

LEMMA SvInitInv == Init => SvInv
<1> SUFFICES ASSUME Init PROVE SvInv
  OBVIOUS
<1>1. SvBaseOK
  BY SvInitBase
<1>2. /\ pc = [t \in Threads |-> IF t = "main" THEN "init" ELSE "idle"]
      /\ setting = <<>> /\ events = <<>> /\ initStep = 1 /\ ~isEAS /\ stereo = {}
      /\ lastSet = [n \in Names |-> "never"]
  BY DEF Init
<1>3. SvTableOK
  <2>1. Len(setting) = 0 /\ DOMAIN setting = {} /\ MaxSlots \in Nat
    BY <1>2, StandbyVideoAssumption
  <2> QED BY <1>2, <2>1 DEF SvTableOK, SvDistinct
<1>4. SvEasOK
  <2>1. \A t \in Threads : pc[t] \in {"init", "idle"}
    BY <1>2
  <2> QED BY <1>2, <2>1, SvThreads DEF SvEasOK, SvWork, SvModesAre
<1>5. SvPowerOK
  BY <1>2, SvThreads DEF SvPowerOK
<1>6. SvPortsOK
  BY <1>2, SvThreads DEF SvPortsOK, SvRestOK, SvThreadOK, SvSwitching
<1> QED BY <1>1, <1>3, <1>4, <1>5, <1>6 DEF SvInv

LEMMA SvNextInv == SvInv /\ [Next]_vars => SvInv'
  BY SvNextBase, SvNextEas, SvNextPower, SvNextPorts DEF SvInv

LEMMA SvInductive == Spec => []SvInv
  BY SvInitInv, SvNextInv, PTL DEF Spec

\* Whoever switched the ports last, they are as he asked once all is quiet, for any number
\* of ports, names, calls and changes.
THEOREM PortsObey == Spec => []PortsAsAsked
<1>1. SvInv => PortsAsAsked
  <2> SUFFICES ASSUME SvInv, Quiet, ~disturbed PROVE PortsAsAsked
    BY DEF PortsAsAsked
  <2>1. \A t \in Threads : ~SvSwitching(t)
    BY DEF Quiet, AtWork, SvSwitching
  <2>2. pc["main"] # "init"
    BY SvThreads DEF Quiet, AtWork
  <2>3. SvAudioDone /\ (\A p \in Ports : SvPortDone(p)) /\ videoOn \subseteq Ports
    BY <2>1, <2>2 DEF SvInv, SvPortsOK, SvRestOK, SvBaseOK, SvTypeOK
  <2>4. CASE asked = "ON"
    BY <2>3, <2>4 DEF PortsAsAsked, SvAudioDone, SvPortDone
  <2>5. CASE asked = "OFF"
    BY <2>3, <2>5 DEF PortsAsAsked, SvAudioDone, SvPortDone
  <2>6. CASE asked \notin {"ON", "OFF"}
    <3>1. (\A p \in videoOn \ setSince : Configured(p)) /\ audioOn = {}
      BY <2>3, <2>6 DEF SvAudioDone, SvPortDone
    <3> QED BY <2>6, <3>1 DEF PortsAsAsked
  <2> QED BY <2>4, <2>5, <2>6
<1> QED BY <1>1, SvInductive, PTL

\* No change of the power state is missed, whenever it comes while the manager starts; the
\* exception is a switching that another one broke into, such as an event that is handled
\* after start-up has its answer and before it switches the ports for it.
THEOREM PowerArrives == Spec => []PowerIsAsked
<1>1. SvInv => PowerIsAsked
  BY SvThreads DEF SvInv, SvPowerOK, PowerIsAsked, Quiet, AtWork
<1> QED BY <1>1, SvInductive, PTL

\* Every name keeps its own last value, for a table of any size.
THEOREM TableKeeps == Spec => []SettingsAreKept
<1>1. SvInv => SettingsAreKept
  <2> SUFFICES ASSUME SvInv, NEW n \in Names
               PROVE  /\ Entry(n) # 0 => lastSet[n] = (IF Configured(n) THEN "on" ELSE "off")
                      /\ (Entry(n) = 0 /\ lastSet[n] # "never") => Len(setting) = MaxSlots
    BY DEF SettingsAreKept
  <2>1. /\ Entry(n) # 0 => Entry(n) \in DOMAIN setting /\ setting[Entry(n)].port = n
        /\ Entry(n) = 0 <=> ~SvIsSet(n)
    BY EntryFinds DEF SvInv, SvBaseOK, SvTableOK
  <2>2. CASE Entry(n) # 0
    BY <2>1, <2>2 DEF SvInv, SvTableOK, Configured
  <2>3. CASE Entry(n) = 0
    BY <2>1, <2>3 DEF SvInv, SvTableOK
  <2> QED BY <2>2, <2>3
<1> QED BY <1>1, SvInductive, PTL

\* Passthrough is replaced by stereo during an emergency message and only then, whatever
\* switches ports or sets the stored modes meanwhile, if the mode does not change between a
\* thread's last look at it and its setting of the ports.
THEOREM StereoInEas == Spec => []StereoOnlyInEas
<1>1. SvInv => StereoOnlyInEas
  BY SvThreads DEF SvInv, SvEasOK, SvWork, SvModesAre, StereoOnlyInEas, Quiet, AtWork
<1> QED BY <1>1, SvInductive, PTL

-----------------------------------------------------------------------------
(* DsHotplug *)

DhTypeOK ==
    /\ DOMAIN dhPort = {"hdmi", "other"}
    /\ dhSetter \in [Setter -> {"idle", "sleep", "ddc", "set", "done"}]
    /\ DOMAIN dhRead = Setter

\* A list that was read is that of the TV that is there, or of one that was unplugged.
DhReadOK ==
    \A s \in Setter : dhSetter[s] = "set" /\ s \notin dhPast => dhRead[s] = dhTV.list /\ dhTV.on

\* The TV that was authenticated is there, and has its resolution, or the bus thread is
\* about to set it.  What another thread sets meanwhile is the same, if it has the list of
\* the TV that is there.
DhSetOK ==
    dhAuth =>
       /\ dhTV.on
       /\ ~dhBox.ignoreEdid /\ dhTV.list # <<>> =>
            \/ dhLate \/ dhPort.hdmi = HdmiResolution(dhTV.list)
            \/ dhSetter["bus"] \in {"sleep", "ddc", "set"}

\* Only a TV that is there has a list.
DhOnOK == dhTV.list # <<>> => dhTV.on

DhInv == DhTypeOK /\ DhOnOK /\ DhReadOK /\ DhSetOK

LEMMA DhInitInv == DhInit => DhInv
<1> SUFFICES ASSUME DhInit PROVE DhInv
  OBVIOUS
<1>1. /\ dhSetter \in [Setter -> {"idle", "sleep", "ddc", "set", "done"}]
      /\ \A s \in Setter : dhSetter[s] # "set"
  BY DEF DhInit
<1>2. DOMAIN dhPort = {"hdmi", "other"} /\ DOMAIN dhRead = Setter /\ ~dhAuth
  BY DEF DhInit
<1>3. DhOnOK
  <2>1. CASE dhTV = [on |-> FALSE, list |-> <<>>]
    BY <2>1 DEF DhOnOK
  <2>2. CASE dhTV \in [on : {TRUE}, list : TVs]
    BY <2>2 DEF DhOnOK
  <2> QED BY <2>1, <2>2 DEF DhInit, NoTV
<1> QED BY <1>1, <1>2, <1>3 DEF DhInv, DhTypeOK, DhReadOK, DhSetOK

\* A thread goes on to its next place.
LEMMA DhMoves ==
    ASSUME DhTypeOK, NEW s \in Setter, NEW place \in {"idle", "sleep", "ddc", "set", "done"},
           dhSetter' = [dhSetter EXCEPT ![s] = place]
    PROVE  /\ dhSetter' \in [Setter -> {"idle", "sleep", "ddc", "set", "done"}]
           /\ dhSetter'[s] = place /\ \A u \in Setter : u # s => dhSetter'[u] = dhSetter[u]
  BY DEF DhTypeOK

\* The resolution chosen by a list depends on nothing that changes.
LEMMA DhSameChoice ==
    ASSUME UNCHANGED dhBox, NEW list
    PROVE  HdmiResolution(list)' = HdmiResolution(list)
  BY DEF HdmiResolution, No4K, BestFor

\* A thread looks at the cable.
LEMMA DhLooksInv ==
    ASSUME DhInv, NEW s \in Setter, SetterLooks(s)
    PROVE  DhInv'
<1>1. /\ UNCHANGED <<dhBox, dhTV, dhRead, dhAuth, dhPast, dhLate>> /\ dhSetter[s] = "sleep"
      /\ DOMAIN dhPort' = {"hdmi", "other"} /\ dhPort'.hdmi = dhPort.hdmi
  <2>1. CASE dhTV.on
    BY <2>1 DEF SetterLooks, DhInv, DhTypeOK, dhHistory
  <2>2. CASE ~dhTV.on
    BY <2>2 DEF SetterLooks, DhInv, DhTypeOK, dhHistory
  <2> QED BY <2>1, <2>2
<1>2. PICK place \in {"ddc", "done"} :
        dhSetter' = [dhSetter EXCEPT ![s] = place] /\ (dhTV.on => place = "ddc")
  <2>1. CASE dhTV.on
    BY <2>1 DEF SetterLooks
  <2>2. CASE ~dhTV.on
    BY <2>2 DEF SetterLooks
  <2> QED BY <2>1, <2>2
<1>3. /\ dhSetter' \in [Setter -> {"idle", "sleep", "ddc", "set", "done"}]
      /\ dhSetter'[s] = place /\ \A u \in Setter : u # s => dhSetter'[u] = dhSetter[u]
  BY <1>2, DhMoves DEF DhInv
<1>4. DhTypeOK' /\ DhReadOK'
  BY <1>1, <1>2, <1>3 DEF DhInv, DhTypeOK, DhReadOK
<1>5. dhTV.on /\ dhSetter["bus"] \in {"sleep", "ddc", "set"}
        => dhSetter'["bus"] \in {"sleep", "ddc", "set"}
  BY <1>1, <1>2, <1>3 DEF Setter
<1>6. DhSetOK'
  BY <1>1, <1>5, DhSameChoice DEF DhInv, DhSetOK
<1> QED BY <1>1, <1>4, <1>6 DEF DhInv, DhOnOK

\* A thread reads the list of the TV.
LEMMA DhReadsInv ==
    ASSUME DhInv, NEW s \in Setter, SetterReads(s)
    PROVE  DhInv'
<1>1. /\ UNCHANGED <<dhBox, dhTV, dhPort, dhAuth, dhPast, dhLate>> /\ dhSetter[s] = "ddc"
      /\ dhRead' = [dhRead EXCEPT ![s] = dhTV.list]
  BY DEF SetterReads, dhHistory
<1>2. PICK place \in {"set", "done"} :
        /\ dhSetter' = [dhSetter EXCEPT ![s] = place]
        /\ place = "done" <=> dhTV.list = <<>>
  <2>1. CASE dhTV.list = <<>>
    BY <2>1 DEF SetterReads
  <2>2. CASE dhTV.list # <<>>
    BY <2>2 DEF SetterReads
  <2> QED BY <2>1, <2>2
<1>3. /\ dhSetter' \in [Setter -> {"idle", "sleep", "ddc", "set", "done"}]
      /\ dhSetter'[s] = place /\ \A u \in Setter : u # s => dhSetter'[u] = dhSetter[u]
  BY <1>2, DhMoves DEF DhInv
<1>4. DhTypeOK'
  BY <1>1, <1>3 DEF DhInv, DhTypeOK
<1>5. DhReadOK'
  <2> SUFFICES ASSUME NEW u \in Setter, dhSetter'[u] = "set", u \notin dhPast
               PROVE  dhRead'[u] = dhTV.list /\ dhTV.on
    BY <1>1 DEF DhReadOK
  <2>1. CASE u = s
    BY <1>1, <1>2, <1>3, <2>1 DEF DhInv, DhTypeOK, DhOnOK
  <2>2. CASE u # s
    BY <1>1, <1>3, <2>2 DEF DhInv, DhTypeOK, DhReadOK
  <2> QED BY <2>1, <2>2
<1>6. DhSetOK'
  BY <1>1, <1>2, <1>3, DhSameChoice DEF DhInv, DhSetOK, Setter
<1> QED BY <1>1, <1>4, <1>5, <1>6 DEF DhInv, DhOnOK

\* A thread sets the resolution: by the list of the TV that is there, or dhLate says not.
LEMMA DhSetsInv ==
    ASSUME DhInv, NEW s \in Setter, SetterSets(s)
    PROVE  DhInv'
<1>1. /\ UNCHANGED <<dhBox, dhTV, dhAuth>> /\ dhSetter[s] = "set"
      /\ dhPort' = [dhPort EXCEPT !.hdmi = HdmiResolution(dhRead[s])]
      /\ dhRead' = [dhRead EXCEPT ![s] = NoTV]
      /\ dhSetter' = [dhSetter EXCEPT ![s] = "done"]
      /\ dhPast' = dhPast \ {s} /\ dhLate' = (s \in dhPast)
  BY Zenon DEF SetterSets
<1>2. /\ dhSetter' \in [Setter -> {"idle", "sleep", "ddc", "set", "done"}]
      /\ dhSetter'[s] = "done" /\ \A u \in Setter : u # s => dhSetter'[u] = dhSetter[u]
  BY <1>1, DhMoves DEF DhInv
<1>3. DhTypeOK'
  BY <1>1, <1>2 DEF DhInv, DhTypeOK
<1>4. DhReadOK'
  BY <1>1, <1>2 DEF DhInv, DhTypeOK, DhReadOK
<1>5. dhLate' \/ dhPort'.hdmi = HdmiResolution(dhTV.list)
  <2>1. s \in dhPast \/ dhRead[s] = dhTV.list
    BY <1>1 DEF DhInv, DhReadOK
  <2>2. dhPort'.hdmi = HdmiResolution(dhRead[s])
    BY <1>1 DEF DhInv, DhTypeOK
  <2>3. CASE s \in dhPast
    BY <1>1, <2>3, Zenon
  <2>4. CASE dhRead[s] = dhTV.list
    BY <2>2, <2>4
  <2> QED BY <2>1, <2>3, <2>4
<1>6. DhSetOK'
  BY <1>1, <1>5, DhSameChoice DEF DhInv, DhSetOK
<1> QED BY <1>1, <1>3, <1>4, <1>6 DEF DhInv, DhOnOK

\* A TV is plugged in or unplugged: what was read of the earlier one is no list of this.
LEMMA DhCableInv ==
    ASSUME DhInv, Plug \/ Unplug
    PROVE  DhInv'
<1>1. ~dhAuth' /\ UNCHANGED <<dhSetter, dhRead, dhPort>>
  BY Zenon DEF Plug, Unplug
<1>2. DhOnOK'
  BY DEF Plug, Unplug, DhOnOK, NoTV
<1>3. DhReadOK'
  <2>1. CASE Plug
    <3>1. ~dhTV.on /\ dhPast' = dhPast
      BY <2>1 DEF Plug
    <3> QED BY <1>1, <3>1 DEF DhInv, DhReadOK
  <2>2. CASE Unplug
    <3>1. dhPast' = {s \in Setter : dhSetter[s] = "set"}
      BY <2>2 DEF Unplug
    <3> QED BY <1>1, <3>1 DEF DhReadOK
  <2> QED BY <2>1, <2>2
<1> QED BY <1>1, <1>2, <1>3 DEF DhInv, DhTypeOK, DhSetOK

\* Any other step leaves what is set alone; the bus thread takes an event only when it
\* sets none.
LEMMA DhOthersInv ==
    ASSUME DhInv,
           \/ HdcpResult
           \/ BusHotplug \/ BusTuneReady \/ BusAuthenticated \/ BusFailure \/ BusDone
           \/ ResnRemoves \/ ResnConnect \/ ResnOther \/ ResnAgain \/ ResnDelay \/ ResnDone
           \/ StartDone \/ _SetResolutionHandler \/ MainDone
    PROVE  DhInv'
<1> DEFINE Same == UNCHANGED <<dhBox, dhTV, dhRead, dhPort, dhPast, dhLate>>
           Moves(s, places) ==
               \E place \in places : dhSetter' = [dhSetter EXCEPT ![s] = place]
<1>1. Same
  <2>1. CASE HdcpResult \/ BusHotplug \/ BusTuneReady \/ BusAuthenticated \/ BusFailure
    BY <2>1 DEF HdcpResult, BusHotplug, BusTuneReady, BusAuthenticated, BusFailure, dhHistory
  <2>2. CASE BusDone \/ ResnRemoves \/ ResnConnect \/ ResnOther \/ ResnAgain \/ ResnDelay
    BY <2>2 DEF BusDone, ResnRemoves, ResnConnect, ResnOther, ResnAgain, ResnDelay, dhHistory
  <2>3. CASE ResnDone \/ StartDone \/ _SetResolutionHandler \/ MainDone
    BY <2>3 DEF ResnDone, StartDone, _SetResolutionHandler, MainDone, dhHistory
  <2> QED BY <2>1, <2>2, <2>3
<1>2. ASSUME NEW s \in Setter, NEW places \in SUBSET {"idle", "sleep", "done"}, Moves(s, places)
      PROVE  /\ DhTypeOK' /\ DhOnOK' /\ DhReadOK' /\ dhSetter'[s] \in places
             /\ \A u \in Setter : u # s => dhSetter'[u] = dhSetter[u]
  <2>1. PICK place \in places : dhSetter' = [dhSetter EXCEPT ![s] = place]
    BY <1>2
  <2>2. /\ dhSetter' \in [Setter -> {"idle", "sleep", "ddc", "set", "done"}]
        /\ dhSetter'[s] = place /\ \A u \in Setter : u # s => dhSetter'[u] = dhSetter[u]
    BY <1>2, <2>1, DhMoves DEF DhInv
  <2>3. \A u \in Setter : dhSetter'[u] = "set" => dhSetter[u] = "set"
    BY <1>2, <2>1, <2>2
  <2>4. DhTypeOK' /\ DhOnOK'
    BY <1>1, <2>2 DEF DhInv, DhTypeOK, DhOnOK
  <2>5. DhReadOK'
    BY <1>1, <2>3 DEF DhInv, DhReadOK
  <2> QED BY <2>1, <2>2, <2>4, <2>5
<1>3. CASE BusAuthenticated
  <2>1. Moves("bus", {IF dhBox.ignoreEdid THEN "done" ELSE "sleep"})
    BY <1>3 DEF BusAuthenticated
  <2>2. DhTypeOK' /\ DhOnOK' /\ DhReadOK' /\ (~dhBox.ignoreEdid => dhSetter'["bus"] = "sleep")
    <3>1. CASE dhBox.ignoreEdid
      <4>1. Moves("bus", {"done"})
        BY <2>1, <3>1
      <4> QED BY <1>2, <3>1, <4>1 DEF Setter
    <3>2. CASE ~dhBox.ignoreEdid
      <4>1. Moves("bus", {"sleep"})
        BY <2>1, <3>2
      <4>2. DhTypeOK' /\ DhOnOK' /\ DhReadOK' /\ dhSetter'["bus"] \in {"sleep"}
        BY <1>2, <4>1 DEF Setter
      <4> QED BY <4>2
    <3> QED BY <3>1, <3>2
  <2>3. dhAuth' => dhTV.on
    BY <1>3 DEF BusAuthenticated
  <2> QED BY <1>1, <2>2, <2>3 DEF DhInv, DhSetOK
<1>4. CASE HdcpResult \/ BusHotplug \/ BusTuneReady \/ ResnRemoves \/ ResnOther \/ ResnAgain
           \/ ResnDelay
  <2>1. UNCHANGED <<dhSetter, dhAuth>>
    BY <1>4 DEF HdcpResult, BusHotplug, BusTuneReady, ResnRemoves, ResnOther,
       ResnAgain, ResnDelay, dhHistory
  <2> QED BY <1>1, <2>1, DhSameChoice DEF DhInv, DhTypeOK, DhOnOK, DhReadOK, DhSetOK
<1>5. CASE BusFailure \/ BusDone
  <2>1. UNCHANGED dhAuth /\ dhSetter["bus"] \in {"idle", "done"}
    BY <1>5 DEF BusFailure, BusDone, BusEvent, dhHistory
  <2>2. Moves("bus", {"idle", "sleep", "done"})
    BY <1>5 DEF BusFailure, BusDone
  <2>3. DhTypeOK' /\ DhOnOK' /\ DhReadOK'
    BY <1>2, <2>2 DEF Setter
  <2> QED BY <1>1, <2>1, <2>3, DhSameChoice DEF DhInv, DhSetOK
<1>6. CASE ResnConnect \/ ResnDone \/ StartDone \/ _SetResolutionHandler \/ MainDone
  <2>1. UNCHANGED dhAuth
    BY <1>6 DEF ResnConnect, ResnDone, StartDone, _SetResolutionHandler, MainDone, dhHistory
  <2>2. \E s \in {"resn", "start", "main"} : Moves(s, {"idle", "sleep", "done"})
    BY <1>6 DEF ResnConnect, ResnDone, StartDone, _SetResolutionHandler, MainDone
  <2>3. DhTypeOK' /\ DhOnOK' /\ DhReadOK' /\ dhSetter'["bus"] = dhSetter["bus"]
    BY <1>2, <2>2 DEF Setter
  <2> QED BY <1>1, <2>1, <2>3, DhSameChoice DEF DhInv, DhSetOK
<1> QED BY <1>3, <1>4, <1>5, <1>6

LEMMA DhNextInv == DhInv /\ [DhNext]_dhVars => DhInv'
<1> SUFFICES ASSUME DhInv, [DhNext]_dhVars PROVE DhInv'
  OBVIOUS
<1>1. CASE UNCHANGED dhVars
  BY <1>1, DhSameChoice DEF dhVars, dhHistory, DhInv, DhTypeOK, DhOnOK, DhReadOK, DhSetOK
<1> QED BY <1>1, DhLooksInv, DhReadsInv, DhSetsInv, DhCableInv, DhOthersInv DEF DhNext

\* Once all is quiet a TV that was authenticated has the resolution chosen for it, for
\* any TV, platform and user, and any number of plugs and results, unless the last setting
\* was chosen by the list of a TV that was unplugged meanwhile.
THEOREM TVGetsItsResolution == DhSpec => []AuthenticatedIsSet
<1>1. DhInv => AuthenticatedIsSet
  BY DEF DhInv, DhSetOK, AuthenticatedIsSet, AllQuiet, Setter
<1> QED BY <1>1, DhInitInv, DhNextInv, PTL DEF DhSpec

-----------------------------------------------------------------------------
(* ProductTraits *)

\* The flag that ends the retries is up before a pattern is set and stays up after, or
\* the start has spoilt it.
TrPatternOK ==
    /\ trEvent.at = "pattern" \/ trCall # "none" \/ trMust # "none" => trInvalid \/ trSpoilt
    /\ PatternStands

\* Only a TV waits for the reboot reason.
TrWaitOK == trMain \in {"pattern_timer", "retry_timer", "timer", "switch"} => trProfile = "tv"

TrLastOK ==
    /\ trEvents \in Seq(State)
    /\ trEvents # <<>> => trEvents[Len(trEvents)] = trPower.cur
    /\ trEvents = <<>> /\ (trHandled \/ trEvent.at # "idle") => trEvent.to = trPower.cur

\* Once a change is applied, main switches the ports no more: the start has done so
\* before, and the timer looks at the flag that the change has set.
TrPortsOK ==
    /\ trProfile = "tv" /\ (trHandled \/ trEvent.at # "idle") => trFirst
    /\ trHandled /\ ~trRace => trMain \notin {"display", "switch"}
    /\ trHandled /\ ~trRace /\ trEvent.at # "ports" => trPorts = trEvent.to

TrTypeOK ==
    /\ trEvent \in [at : {"idle", "ports", "led", "flag", "pattern"}, to : State]
    /\ {trHandled, trFirst, trRace, trInvalid, trSpoilt} \subseteq BOOLEAN
    /\ trPower.cur \in State /\ trRead.cur \in State

TrInv == TrTypeOK /\ TrPatternOK /\ TrWaitOK /\ TrLastOK /\ TrPortsOK

LEMMA TrInitInv == TrInit => TrInv
<1> SUFFICES ASSUME TrInit PROVE TrInv
  OBVIOUS
<1>1. TrTypeOK
  BY DEF TrInit, TrTypeOK, State
<1>2. TrPatternOK /\ TrWaitOK /\ TrLastOK /\ TrPortsOK
  BY DEF TrInit, TrPatternOK, TrWaitOK, TrLastOK, TrPortsOK, PatternStands
<1> QED BY <1>1, <1>2 DEF TrInv

\* The main thread.
LEMMA TrMainInv ==
    ASSUME TrInv,
           \/ Register \/ ReadState \/ PostReboot \/ PostPattern \/ StartRetry
           \/ reboot_reason_cb \/ SwitchPorts
    PROVE  TrInv'
<1> USE DEF TrInv, TrTypeOK, TrPatternOK, TrWaitOK, TrLastOK, TrPortsOK, PatternStands,
            trEnv, trFlags, trHw, trHistory, trMains
<1>1. CASE Register
  BY <1>1 DEF Register
<1>2. CASE ReadState
  <2>1. /\ trMain = "read" /\ trMain' = "display" /\ trHandled' = FALSE
        /\ UNCHANGED <<trProfile, trPower, trEvents, trEvent, trCall, trInvalid, trFirst,
                       trPorts, trBoot, trRace, trMust, trSpoilt>>
    BY <1>2 DEF ReadState
  <2>2. trRead'.cur \in State
    BY <1>2 DEF ReadState, State
  <2> QED BY <2>1, <2>2
<1>3. CASE PostReboot
  <2>1. PortsAfterBoot = "none" => trProfile = "tv"
    BY DEF PortsAfterBoot, State
  <2> QED BY <1>3, <2>1 DEF PostReboot
<1>4. CASE PostPattern
  BY <1>4 DEF PostPattern, AfterPattern, Sets
<1>5. CASE StartRetry
  BY <1>5 DEF StartRetry, AfterPattern
<1>6. CASE reboot_reason_cb
  BY <1>6 DEF reboot_reason_cb, StillFirst
<1>7. CASE SwitchPorts
  BY <1>7 DEF SwitchPorts
<1> QED BY <1>1, <1>2, <1>3, <1>4, <1>5, <1>6, <1>7

\* The other threads, and the power manager.
LEMMA TrOthersInv ==
    ASSUME TrInv,
           \/ RetryPattern
           \/ TakeChange \/ ChangePorts \/ ChangeLed \/ ChangeFlag \/ ChangeBoot
           \/ RebootFlag \/ RebootPattern
           \/ \E s \in {"ON", "STANDBY", "DEEP_SLEEP"} : PowerChanges(s)
           \/ ReasonFound
    PROVE  TrInv'
<1> USE DEF TrInv, TrTypeOK, TrPatternOK, TrWaitOK, TrLastOK, TrPortsOK, PatternStands,
            trEnv, trFlags, trHw, trHistory, trMains
<1>1. CASE RetryPattern
  BY <1>1 DEF RetryPattern, Sets
<1>2. CASE TakeChange
  <2>1. /\ trEvents # <<>> /\ trEvent.at = "idle" /\ trEvents' = Tail(trEvents)
        /\ trEvent' = [at |-> "ports", to |-> Head(trEvents)]
        /\ trFirst' = (trFirst \/ trProfile = "tv")
        /\ UNCHANGED <<trProfile, trPower, trMain, trCall, trInvalid, trPorts, trBoot,
                       trHandled, trRace, trMust, trSpoilt, trRead>>
    BY <1>2 DEF TakeChange
  <2>2. Head(trEvents) \in State /\ Tail(trEvents) \in Seq(State)
    BY <2>1
  <2>3. TrTypeOK'
    BY <2>1, <2>2
  <2>4. /\ Tail(trEvents) # <<>> => Tail(trEvents)[Len(Tail(trEvents))] = trEvents[Len(trEvents)]
        /\ Tail(trEvents) = <<>> => Head(trEvents) = trEvents[Len(trEvents)]
    BY <2>1, LastOfTail
  <2>6. TrLastOK'
    BY <2>1, <2>2, <2>4
  <2> QED BY <2>1, <2>3, <2>6
<1>3. CASE ChangePorts
  <2>1. /\ trEvent.at = "ports" /\ trPorts' = trEvent.to /\ trHandled' = TRUE
        /\ trRace' = (trMain \in {"display", "switch"})
        /\ trEvent'.at \in {"flag", "led"} /\ trEvent'.to = trEvent.to
        /\ trEvent' \in [at : {"idle", "ports", "led", "flag", "pattern"}, to : State]
        /\ UNCHANGED <<trProfile, trPower, trEvents, trMain, trRead, trCall, trInvalid, trFirst,
                       trBoot, trMust, trSpoilt>>
    BY <1>3 DEF ChangePorts
  <2>2. TrTypeOK'
    BY <2>1
  <2>3. TrPatternOK' /\ TrWaitOK' /\ TrLastOK'
    BY <2>1
  <2>4. TrPortsOK'
    BY <2>1
  <2> QED BY <2>2, <2>3, <2>4
<1>4. CASE ChangeLed
  BY <1>4 DEF ChangeLed
<1>5. CASE ChangeFlag
  BY <1>5 DEF ChangeFlag, Invalidated
<1>6. CASE ChangeBoot
  BY <1>6 DEF ChangeBoot, MustSet, Sets
<1>7. CASE RebootFlag
  BY <1>7 DEF RebootFlag, Invalidated
<1>8. CASE RebootPattern
  BY <1>8 DEF RebootPattern, MustSet, Sets
<1>9. ASSUME NEW s \in {"ON", "STANDBY", "DEEP_SLEEP"}, PowerChanges(s) PROVE TrInv'
  <2>1. /\ trPower'.cur = s /\ trEvents' = Append(trEvents, s)
        /\ UNCHANGED <<trProfile, trMain, trEvent, trCall, trInvalid, trFirst, trPorts, trBoot,
                       trHandled, trRace, trMust, trSpoilt, trRead>>
    BY <1>9 DEF PowerChanges
  <2>2. s \in State
    BY DEF State
  <2>3. trEvents' \in Seq(State) /\ trEvents' # <<>> /\ trEvents'[Len(trEvents')] = s
    BY <2>1, <2>2
  <2> QED BY <2>1, <2>2, <2>3
<1>10. CASE ReasonFound
  BY <1>10 DEF ReasonFound
<1> QED BY <1>1, <1>2, <1>3, <1>4, <1>5, <1>6, <1>7, <1>8, <1>9, <1>10

LEMMA TrNextInv == TrInv /\ [TrNext]_trVars => TrInv'
<1> SUFFICES ASSUME TrInv, [TrNext]_trVars PROVE TrInv'
  OBVIOUS
<1>1. CASE UNCHANGED trVars
    BY <1>1 DEF trVars, trEnv, trMains, trFlags, trHw, trHistory, TrInv, TrTypeOK,
     TrPatternOK,
              TrWaitOK, TrLastOK, TrPortsOK, PatternStands
<1> QED BY <1>1, TrMainInv, TrOthersInv DEF TrNext

\* Once a change has been applied the ports are switched for the power manager's state,
\* for every profile, unless the start switches them for what it saw before.
THEOREM TraitsFollowPower == TrSpec => []PortsFollowPower
<1>1. TrInv => PortsFollowPower
  BY DEF TrInv, TrLastOK, TrPortsOK, PortsFollowPower
<1> QED BY <1>1, TrInitInv, TrNextInv, PTL DEF TrSpec

\* No retry replaces a pattern that a change or a reboot call has set, however many
\* retries there are.
THEOREM SetPatternStands == TrSpec => []PatternStands
<1>1. TrInv => PatternStands
  BY DEF TrInv, TrPatternOK
<1> QED BY <1>1, TrInitInv, TrNextInv, PTL DEF TrSpec

-----------------------------------------------------------------------------
(* IrKeys *)

IrKey == IrPressed \union RfPressed \union Control
         \union {"LAST", "EXIT", "SELECT", "XR11_NOTIFY", "XR15V1_NOTIFY", UNDEF}
IrType == {"DOWN", "UP", "REPEAT"}
Handler == [cur : IrKey, prev : [type : IrType, key : IrKey], prevType : IrType,
            newer : BOOLEAN, control : SUBSET IrKey, down : SUBSET IrKey,
            dev : SUBSET IrKey, open : BOOLEAN]

\* What a key is for the listeners, and whether it goes the way of most keys.
Meant(key) == IF key \in DOMAIN Newer THEN Newer[key] ELSE key
IsNormal(key) == key \notin Control \union {"LAST", UNDEF}

\* The one key that can be down is the last that was handled.
KeyOK(h) ==
    /\ h.down \subseteq {h.prev.key}
    /\ h.prev.type = "UP" => h.down = {}
    /\ FpOnce /\ "FP_POWER" \in h.down => h.prevType = "DOWN"

\* What the steps of the handler change, a field at a time.
LEMMA HandlerFields ==
    ASSUME NEW h \in Handler
    PROVE  /\ h.cur \in IrKey /\ h.prev \in [type : IrType, key : IrKey] /\ h.prevType \in IrType
           /\ h.control \in SUBSET IrKey /\ h.down \in SUBSET IrKey /\ h.dev \in SUBSET IrKey
           /\ h.prev.type \in IrType /\ h.prev.key \in IrKey
  BY DEF Handler

LEMMA EditDev ==
    ASSUME NEW h \in Handler, NEW x \in SUBSET IrKey
    PROVE  LET g == [h EXCEPT !.dev = x]
           IN  /\ g \in Handler /\ g.down = h.down /\ g.prev = h.prev /\ g.prevType = h.prevType
               /\ g.cur = h.cur
  BY DEF Handler

LEMMA EditDown ==
    ASSUME NEW h \in Handler, NEW x \in SUBSET IrKey
    PROVE  LET g == [h EXCEPT !.down = x]
           IN  /\ g \in Handler /\ g.down = x /\ g.prev = h.prev /\ g.prevType = h.prevType
               /\ g.cur = h.cur
  BY DEF Handler

LEMMA EditControl ==
    ASSUME NEW h \in Handler, NEW x \in SUBSET IrKey
    PROVE  LET g == [h EXCEPT !.control = x]
           IN  /\ g \in Handler /\ g.down = h.down /\ g.prev = h.prev /\ g.prevType = h.prevType
               /\ g.cur = h.cur
  BY DEF Handler

LEMMA EditCur ==
    ASSUME NEW h \in Handler, NEW x \in IrKey
    PROVE  LET g == [h EXCEPT !.cur = x]
           IN  /\ g \in Handler /\ g.down = h.down /\ g.prev = h.prev /\ g.prevType = h.prevType
               /\ g.cur = x
  BY DEF Handler

LEMMA EditNewer ==
    ASSUME NEW h \in Handler, NEW x \in BOOLEAN, NEW y \in IrKey
    PROVE  LET g == [h EXCEPT !.newer = x, !.cur = y]
           IN  /\ g \in Handler /\ g.down = h.down /\ g.prev = h.prev /\ g.prevType = h.prevType
               /\ g.cur = y
<1> DEFINE m == [h EXCEPT !.newer = x]
<1>1. m \in Handler /\ m.down = h.down /\ m.prev = h.prev /\ m.prevType = h.prevType
  BY DEF Handler
<1>2. [h EXCEPT !.newer = x, !.cur = y] = [m EXCEPT !.cur = y]
  BY DEF Handler
<1> HIDE DEF m
<1> QED BY <1>1, <1>2, EditCur

Remember(h, e, p) == [h EXCEPT !.prev = e, !.prevType = p]

LEMMA EditPrev ==
    ASSUME NEW h \in Handler, NEW e \in [type : IrType, key : IrKey], NEW p \in IrType
    PROVE  LET g == Remember(h, e, p)
           IN  /\ g \in Handler /\ g.down = h.down /\ g.prev = e /\ g.prevType = p
               /\ g.cur = h.cur
<1> DEFINE m == [h EXCEPT !.prev = e]
<1>1. m \in Handler /\ m.down = h.down /\ m.prev = e /\ m.cur = h.cur
  BY DEF Handler
<1>2. Remember(h, e, p) = [m EXCEPT !.prevType = p]
  BY DEF Handler, Remember
<1> HIDE DEF m
<1>3. LET g == [m EXCEPT !.prevType = p]
      IN  /\ g \in Handler /\ g.down = m.down /\ g.prev = m.prev /\ g.prevType = p
          /\ g.cur = m.cur
  BY <1>1 DEF Handler
<1> QED BY <1>1, <1>2, <1>3

\* Where the listeners are told of a key.
LEMMA OutFields ==
    ASSUME NEW h \in Handler, NEW type, NEW key \in IrKey
    PROVE  /\ LET g == Dispatch(h, type, key)
              IN  /\ g \in Handler /\ g.down = h.down /\ g.prev = h.prev
                  /\ g.prevType = h.prevType /\ g.cur = h.cur
           /\ LET g == Broadcast(h, type, key)
              IN  /\ g \in Handler /\ g.down = After(h.down, type, key) /\ g.prev = h.prev
                  /\ g.prevType = h.prevType /\ g.cur = h.cur
           /\ LET g == Out(h, type, key)
              IN  /\ g \in Handler /\ g.down = After(h.down, type, key) /\ g.prev = h.prev
                  /\ g.prevType = h.prevType /\ g.cur = h.cur
<1>1. ASSUME NEW x \in SUBSET IrKey PROVE After(x, type, key) \in SUBSET IrKey
  BY DEF After
<1>2. LET g == Dispatch(h, type, key)
      IN  /\ g \in Handler /\ g.down = h.down /\ g.prev = h.prev
          /\ g.prevType = h.prevType /\ g.cur = h.cur
  <2>1. After(h.dev, type, key) \in SUBSET IrKey
    BY <1>1, HandlerFields
  <2>2. CASE h.open
    BY <2>1, <2>2, EditDev DEF Dispatch
  <2>3. CASE ~h.open
    BY <2>3 DEF Dispatch
  <2> QED BY <2>2, <2>3
<1>3. ASSUME NEW i \in Handler
      PROVE  LET g == Broadcast(i, type, key)
             IN  /\ g \in Handler /\ g.down = After(i.down, type, key) /\ g.prev = i.prev
                 /\ g.prevType = i.prevType /\ g.cur = i.cur
  <2>1. After(i.down, type, key) \in SUBSET IrKey
    BY <1>1, HandlerFields
  <2> QED BY <2>1, EditDown DEF Broadcast
<1> QED BY <1>2, <1>3 DEF Out

\* The handler as it is once the key that the manager makes up is released again.
Settled(h, made) == IF made = UNDEF THEN h ELSE Broadcast(h, "UP", made)

\* A key is pressed that is released by the next broadcast: LAST, and EXIT.
LEMMA MakeKeeps ==
    ASSUME NEW h \in Handler, KeyOK(h), NEW key \in IrKey, key # UNDEF
    PROVE  LET g == Out(h, "DOWN", key)
           IN  g \in Handler /\ KeyOK(Settled(g, key)) /\ g.prev = h.prev /\ g.cur = h.cur
<1> DEFINE i == Out(h, "DOWN", key)
           g == Broadcast(i, "UP", key)
<1>1. /\ i \in Handler /\ i.down = After(h.down, "DOWN", key) /\ i.prev = h.prev
      /\ i.prevType = h.prevType /\ i.cur = h.cur
  BY OutFields
<1>2. /\ g \in Handler /\ g.down = After(i.down, "UP", key) /\ g.prev = i.prev
      /\ g.prevType = i.prevType /\ g.cur = i.cur
  <2> HIDE DEF i
  <2> QED BY <1>1, OutFields
<1>3. Settled(i, key) = g
  BY DEF Settled
<1> HIDE DEF i, g
<1>4. g.down \subseteq h.down
  BY <1>1, <1>2 DEF After
<1>5. KeyOK(g)
  BY <1>1, <1>2, <1>4 DEF KeyOK
<1> QED BY <1>1, <1>3, <1>5 DEF i

\* Its release.
LEMMA ReleaseKeeps ==
    ASSUME NEW h \in Handler, NEW key \in IrKey, key # UNDEF, KeyOK(Settled(h, key))
    PROVE  LET g == Out(Fresh(h), "UP", key)
           IN  g \in Handler /\ KeyOK(g) /\ g.prev = h.prev /\ g.cur = h.cur
<1> DEFINE f == Fresh(h)
           b == Broadcast(h, "UP", key)
           g == Out(f, "UP", key)
<1>1. /\ f \in Handler /\ f.down = h.down /\ f.prev = h.prev /\ f.prevType = h.prevType
      /\ f.cur = h.cur
  BY EditControl DEF Fresh
<1>2. /\ b.down = After(h.down, "UP", key) /\ b.prev = h.prev /\ b.prevType = h.prevType
  BY OutFields
<1>3. KeyOK(b)
  BY DEF Settled
<1>4. /\ g \in Handler /\ g.down = After(f.down, "UP", key) /\ g.prev = f.prev
      /\ g.prevType = f.prevType /\ g.cur = f.cur
  <2> HIDE DEF f
  <2> QED BY <1>1, OutFields
<1> HIDE DEF f, b, g
<1>5. KeyOK(g)
  BY <1>1, <1>2, <1>3, <1>4 DEF KeyOK
<1> QED BY <1>1, <1>4, <1>5 DEF f, g

\* A press makes up the release that is missing; a repeat and a release are those of the
\* last key.
LEMMA NormalKeeps ==
    ASSUME NEW h \in Handler, KeyOK(h), NEW type \in IrType, NEW key \in IrKey,
           type # "DOWN" => key = h.prev.key \/ key = UNDEF
    PROVE  LET g == Normal(h, type, key)
           IN  /\ g \in Handler /\ KeyOK(g) /\ g.cur = h.cur
               /\ g.prev.key = IF key = UNDEF THEN h.prev.key ELSE key
<1>1. CASE key = UNDEF
  BY <1>1 DEF Normal
<1>2. CASE key # UNDEF
  <2> DEFINE gap == key # h.prev.key /\ type = "DOWN" /\ h.prev.type # "UP"
             h1 == IF gap THEN Broadcast(Dispatch(h, type, key), "UP", h.prev.key) ELSE h
             sent == FpType(h, type, key)
             p == IF sent = "discard" THEN type ELSE sent
             h2 == [h1 EXCEPT !.prev = [type |-> type, key |-> key], !.prevType = p]
             g == IF sent = "discard" THEN h2 ELSE Out(h2, sent, key)
  <2>1. Normal(h, type, key) = g
    BY <1>2 DEF Normal
  <2>2. /\ h1 \in Handler /\ h1.prev = h.prev /\ h1.cur = h.cur
        /\ h1.down = IF gap THEN h.down \ {h.prev.key} ELSE h.down
    <3>1. CASE gap
      <4> DEFINE d == Dispatch(h, type, key)
      <4>1. d \in Handler /\ d.down = h.down /\ d.prev = h.prev /\ d.cur = h.cur
        BY OutFields
      <4>2. h1 = Broadcast(d, "UP", h.prev.key)
        BY <3>1
      <4>3. h.prev.key \in IrKey
        BY HandlerFields
      <4> HIDE DEF d
      <4>4. LET b == Broadcast(d, "UP", h.prev.key)
            IN  /\ b \in Handler /\ b.prev = d.prev /\ b.cur = d.cur
                /\ b.down = After(d.down, "UP", h.prev.key)
        BY <4>1, <4>3, OutFields
      <4>5. h1 \in Handler /\ h1.prev = h.prev /\ h1.cur = h.cur
            /\ h1.down = h.down \ {h.prev.key}
        BY <4>1, <4>2, <4>4 DEF After
      <4> HIDE DEF h1
      <4> QED BY <3>1, <4>5
    <3>2. CASE ~gap
      BY <3>2
    <3> QED BY <3>1, <3>2
  <2>3. /\ sent \in IrType \union {"discard"}
        /\ key # "FP_POWER" \/ ~FpOnce => sent = type
        /\ type = "DOWN" => sent = "DOWN"
        /\ key = "FP_POWER" /\ FpOnce /\ type # "DOWN" =>
              IF h.prevType # "DOWN" THEN sent = "discard" ELSE sent = "UP"
    BY DEF FpType, IrType
  <2>4. p \in IrType
    BY <2>3
  <2> HIDE DEF h1, sent, p
  <2>5. /\ h2 \in Handler /\ h2.down = h1.down /\ h2.prev.type = type /\ h2.prev.key = key
        /\ h2.prevType = p /\ h2.cur = h.cur
    <3>1. h1 \in Handler /\ h1.cur = h.cur
      BY <2>2
    <3> DEFINE e == [type |-> type, key |-> key]
    <3>2. e \in [type : IrType, key : IrKey] /\ e.type = type /\ e.key = key
      OBVIOUS
    <3> HIDE DEF gap, g, e
    <3>3. LET o == Remember(h1, e, p)
          IN  /\ o \in Handler /\ o.down = h1.down /\ o.prev = e /\ o.prevType = p
              /\ o.cur = h1.cur
      BY <2>4, <3>1, <3>2, EditPrev
    <3>4. h2 = Remember(h1, e, p)
      BY DEF e, Remember
    <3> QED BY <3>1, <3>2, <3>3, <3>4
  <2> HIDE DEF h2
  <2>6. /\ g \in Handler /\ g.prev.type = type /\ g.prev.key = key /\ g.prevType = p
        /\ g.cur = h.cur
        /\ g.down = IF sent = "discard" THEN h1.down ELSE After(h1.down, sent, key)
    <3>1. CASE sent = "discard"
      BY <2>5, <3>1
    <3>2. CASE sent # "discard"
      <4>1. LET o == Out(h2, sent, key)
            IN  /\ o \in Handler /\ o.down = After(h2.down, sent, key) /\ o.prev = h2.prev
                /\ o.prevType = h2.prevType /\ o.cur = h2.cur
        BY <2>5, OutFields
      <4> QED BY <2>5, <3>2, <4>1
    <3> QED BY <3>1, <3>2
  <2> HIDE DEF g
  <2>7. h1.down \subseteq {key}
    <3>1. h.down \subseteq {h.prev.key} /\ (h.prev.type = "UP" => h.down = {})
      BY DEF KeyOK
    <3> QED BY <1>2, <2>2, <3>1
  <2>8. g.down \subseteq {key}
    BY <2>6, <2>7 DEF After
  <2>9. type = "UP" => g.down = {}
    <3> SUFFICES ASSUME type = "UP" PROVE g.down = {}
      OBVIOUS
    <3>1. CASE sent = "UP"
      BY <2>6, <2>7, <3>1 DEF After
    <3>2. CASE sent # "UP"
      <4>1. key = "FP_POWER" /\ FpOnce /\ h.prevType # "DOWN" /\ sent = "discard"
        BY <2>3, <3>2
      <4>2. h1.down = {}
        BY <2>2, <2>7, <4>1 DEF KeyOK
      <4> QED BY <2>6, <4>1, <4>2
    <3> QED BY <3>1, <3>2
  <2>10. FpOnce /\ "FP_POWER" \in g.down => p = "DOWN"
    <3> SUFFICES ASSUME FpOnce, "FP_POWER" \in g.down PROVE p = "DOWN"
      OBVIOUS
    <3>1. key = "FP_POWER"
      BY <2>8
    <3>2. CASE type = "DOWN"
      BY <2>3, <3>2 DEF p
    <3>3. CASE type # "DOWN" /\ h.prevType = "DOWN"
      <4>1. sent = "UP"
        BY <2>3, <3>1, <3>3
      <4> QED BY <2>6, <3>1, <4>1 DEF After
    <3>4. CASE type # "DOWN" /\ h.prevType # "DOWN"
      <4>1. sent = "discard" /\ "FP_POWER" \in h1.down
        BY <2>3, <2>6, <3>1, <3>4
      <4>2. "FP_POWER" \in h.down
        BY <2>2, <4>1
      <4> QED BY <3>4, <4>2 DEF KeyOK
    <3> QED BY <3>2, <3>3, <3>4
  <2>11. KeyOK(g)
    BY <2>6, <2>8, <2>9, <2>10 DEF KeyOK
  <2> QED BY <1>2, <2>1, <2>6, <2>11
<1> QED BY <1>1, <1>2

\* Every key but LAST.
LEMMA PlainKeeps ==
    ASSUME NEW h \in Handler, KeyOK(h), NEW type \in IrType, NEW key \in IrKey, NEW src,
           type # "DOWN" /\ IsNormal(key) => key = h.prev.key
    PROVE  LET g == Plain(h, type, key, src)
           IN  /\ g \in Handler /\ KeyOK(g) /\ g.cur = h.cur
               /\ g.prev.key = IF IsNormal(key) THEN key ELSE h.prev.key
<1> DEFINE g == Plain(h, type, key, src)
           Good(i) == /\ i \in Handler /\ KeyOK(i) /\ i.cur = h.cur
                      /\ i.prev.key = IF IsNormal(key) THEN key ELSE h.prev.key
<1>1. ASSUME NEW names \in SUBSET IrKey
      PROVE  LET n == Notify(h, names)
             IN  n \in Handler /\ KeyOK(n) /\ n.cur = h.cur /\ n.prev = h.prev
  <2>1. h.control \union names \in SUBSET IrKey
    BY HandlerFields
  <2>2. LET n == [h EXCEPT !.control = h.control \union names]
        IN  /\ n \in Handler /\ n.down = h.down /\ n.prev = h.prev
            /\ n.prevType = h.prevType /\ n.cur = h.cur
    BY <2>1, EditControl
  <2>3. Notify(h, names) = [h EXCEPT !.control = h.control \union names]
    BY DEF Notify
  <2> DEFINE n == Notify(h, names)
  <2>4. /\ n \in Handler /\ n.down = h.down /\ n.prev = h.prev
        /\ n.prevType = h.prevType /\ n.cur = h.cur
    BY <2>2, <2>3
  <2> HIDE DEF n
  <2>5. KeyOK(n)
    BY <2>4 DEF KeyOK
  <2> QED BY <2>4, <2>5 DEF n
<1>2. CASE key \in Control
  <2> DEFINE names == {key} \union IF key = "PUSH_TO_TALK" /\ ~h.newer
                                   THEN {"XR11_NOTIFY"} ELSE {}
  <2>1. names \in SUBSET IrKey
    BY DEF IrKey
  <2>2. g = IF type # "DOWN" THEN h ELSE Notify(h, names)
    BY <1>2 DEF Plain
  <2>3. ~IsNormal(key)
    BY <1>2 DEF IsNormal
  <2> HIDE DEF names, g
  <2> QED BY <1>1, <2>1, <2>2, <2>3 DEF g
<1>3. CASE key = "LAST"
  BY <1>3 DEF Plain, IsNormal, Control
<1>4. CASE key \notin Control /\ key # "LAST"
  <2>1. IsNormal(key) <=> key # UNDEF
    BY <1>4 DEF IsNormal
  <2>2. ASSUME NEW i \in Handler, KeyOK(i), i.cur = h.cur, i.prev = h.prev
        PROVE  Good(Normal(i, type, key))
    <3>1. type # "DOWN" => key = i.prev.key \/ key = UNDEF
      BY <2>1, <2>2
    <3>2. LET n == Normal(i, type, key)
          IN  /\ n \in Handler /\ KeyOK(n) /\ n.cur = i.cur
              /\ n.prev.key = IF key = UNDEF THEN i.prev.key ELSE key
      BY <2>2, <3>1, NormalKeeps
    <3> QED BY <2>1, <2>2, <3>2
  <2>3. CASE key = "SELECT" /\ type = "DOWN" /\ ~h.newer /\ src = "IR"
    <3>1. g = Normal(Notify(h, {"XR11_NOTIFY"}), type, key)
      BY <1>4, <2>3 DEF Plain
    <3>2. {"XR11_NOTIFY"} \in SUBSET IrKey
      BY DEF IrKey
    <3> DEFINE i == Notify(h, {"XR11_NOTIFY"})
    <3>3. i \in Handler /\ KeyOK(i) /\ i.cur = h.cur /\ i.prev = h.prev
      BY <1>1, <3>2
    <3> HIDE DEF i, g
    <3>4. Good(Normal(i, type, key))
      <4> HIDE DEF Good
      <4> QED BY <2>2, <3>3
    <3> QED BY <3>1, <3>4 DEF i, g
  <2>4. CASE ~(key = "SELECT" /\ type = "DOWN" /\ ~h.newer /\ src = "IR")
    <3>1. g = Normal(h, type, key)
      BY <1>4, <2>4 DEF Plain
    <3>2. Good(Normal(h, type, key))
      <4> HIDE DEF Good
      <4> QED BY <2>2
    <3> HIDE DEF g
    <3> QED BY <3>1, <3>2 DEF g
  <2> QED BY <2>3, <2>4
<1> QED BY <1>2, <1>3, <1>4

\* The handler: a key of a newer remote is handled as the key it stands for.
LEMMA HandlerKeeps ==
    ASSUME NEW h \in Handler, KeyOK(h), NEW type \in IrType, NEW key \in IrKey, NEW src,
           type # "DOWN" /\ IsNormal(Meant(key)) => Meant(key) = h.prev.key
    PROVE  LET g == _IrInputKeyEventHandler(h, type, key, src)
           IN  /\ g \in Handler /\ KeyOK(g)
               /\ g.cur = IF key \notin DOMAIN Newer THEN h.cur
                          ELSE IF type = "DOWN" THEN Newer[key] ELSE UNDEF
               /\ g.prev.key = IF IsNormal(Meant(key)) THEN Meant(key) ELSE h.prev.key
<1> DEFINE g == _IrInputKeyEventHandler(h, type, key, src)
<1>1. CASE key \notin DOMAIN Newer
  <2>1. Meant(key) = key
    BY <1>1 DEF Meant
  <2>2. g = Plain(h, type, key, src)
    BY <1>1 DEF _IrInputKeyEventHandler
  <2>3. LET i == Plain(h, type, key, src)
        IN  /\ i \in Handler /\ KeyOK(i) /\ i.cur = h.cur
            /\ i.prev.key = IF IsNormal(key) THEN key ELSE h.prev.key
    BY <2>1, PlainKeeps
  <2> HIDE DEF g
  <2> QED BY <1>1, <2>1, <2>2, <2>3 DEF g
<1>2. CASE key \in DOMAIN Newer
  <2> DEFINE m == Newer[key]
             n == Notify(h, {"XR15V1_NOTIFY"})
             i == IF type = "DOWN" THEN [n EXCEPT !.newer = TRUE, !.cur = m]
                  ELSE [h EXCEPT !.newer = FALSE, !.cur = UNDEF]
  <2>1. Meant(key) = m
    BY <1>2 DEF Meant
  <2>2. m \in IrKey /\ UNDEF \in IrKey /\ "XR15V1_NOTIFY" \in IrKey
    BY <1>2 DEF Newer, IrKey, Control
  <2>3. g = Plain(i, type, m, src)
    BY <1>2 DEF _IrInputKeyEventHandler
  <2>4. n \in Handler /\ n.down = h.down /\ n.prev = h.prev /\ n.prevType = h.prevType
    <3>1. h.control \union {"XR15V1_NOTIFY"} \in SUBSET IrKey
      BY <2>2, HandlerFields
    <3>2. LET o == [h EXCEPT !.control = h.control \union {"XR15V1_NOTIFY"}]
          IN  /\ o \in Handler /\ o.down = h.down /\ o.prev = h.prev
              /\ o.prevType = h.prevType /\ o.cur = h.cur
      BY <3>1, EditControl
    <3> QED BY <3>2 DEF Notify
  <2> HIDE DEF m, n
  <2>5. /\ i \in Handler /\ i.down = h.down /\ i.prev = h.prev /\ i.prevType = h.prevType
        /\ i.cur = IF type = "DOWN" THEN m ELSE UNDEF
    <3>1. CASE type = "DOWN"
      <4>1. LET o == [n EXCEPT !.newer = TRUE, !.cur = m]
            IN  /\ o \in Handler /\ o.down = n.down /\ o.prev = n.prev
                /\ o.prevType = n.prevType /\ o.cur = m
        <5>1. TRUE \in BOOLEAN /\ m \in IrKey /\ n \in Handler
          BY <2>2, <2>4
        <5> HIDE DEF i, g
        <5> QED BY <5>1, EditNewer, Zenon
      <4> QED BY <2>4, <3>1, <4>1
    <3>2. CASE type # "DOWN"
      <4>1. LET o == [h EXCEPT !.newer = FALSE, !.cur = UNDEF]
            IN  /\ o \in Handler /\ o.down = h.down /\ o.prev = h.prev
                /\ o.prevType = h.prevType /\ o.cur = UNDEF
        <5>1. FALSE \in BOOLEAN /\ UNDEF \in IrKey /\ h \in Handler
          BY <2>2
        <5> HIDE DEF i, g
        <5> QED BY <5>1, EditNewer, Zenon
      <4> QED BY <3>2, <4>1
    <3> QED BY <3>1, <3>2
  <2> HIDE DEF i, g
  <2>6. KeyOK(i)
    BY <2>5 DEF KeyOK
  <2>7. LET o == Plain(i, type, m, src)
        IN  /\ o \in Handler /\ KeyOK(o) /\ o.cur = i.cur
            /\ o.prev.key = IF IsNormal(m) THEN m ELSE i.prev.key
    <3>1. type # "DOWN" /\ IsNormal(m) => m = i.prev.key
      BY <2>1, <2>5
    <3> QED BY <2>2, <2>5, <2>6, <3>1, PlainKeeps
  <2> QED BY <1>2, <2>1, <2>3, <2>5, <2>7 DEF g, m
<1> QED BY <1>1, <1>2

-----------------------------------------------------------------------------
\* The inductive invariant: a key that is held and handled is the last one handled, so its
\* repeats and its release are those of the key that may be down.
Follows(key) == IsNormal(Meant(key)) => Meant(key) = irH.prev.key

IrHandlerOK ==
    /\ irH \in Handler
    /\ irMade \in {UNDEF, "LAST", "EXIT"}
    /\ KeyOK(Settled(irH, irMade))
    /\ irH.cur \notin DOMAIN Newer
    /\ Follows(irH.cur)

IrFingersOK ==
    /\ irFinger \in [Source -> IrKey]
    /\ irRf \in [type : IrType \union {"idle"}, key : IrKey]
    /\ Follows(irFinger["IR"])
    /\ irRf.type # "DOWN" => Follows(irFinger["RF"])
    /\ irRf.type \in {"UP", "REPEAT"} => Follows(irRf.key)
    /\ irRf.type \in {"DOWN", "REPEAT"} => irFinger["RF"] = irRf.key
    /\ irRf.type = "UP" => irFinger["RF"] = UNDEF
    /\ irFinger["IR"] # UNDEF => irFinger["RF"] = UNDEF /\ irRf.type = "idle"

IrInv == ~irMixed => IrHandlerOK /\ IrFingersOK

LEMMA MeantFields ==
    ASSUME NEW key \in IrKey
    PROVE  /\ Meant(key) \in IrKey /\ Meant(key) \notin DOMAIN Newer
           /\ ~IsNormal(Meant(UNDEF)) /\ ~IsNormal(Meant("LAST"))
           /\ UNDEF \in IrKey /\ UNDEF \notin DOMAIN Newer
           /\ "LAST" \in IrKey /\ "LAST" \notin DOMAIN Newer /\ "EXIT" \in IrKey
<1>1. DOMAIN Newer = {"XR15_SELECT", "XR15_PUSH_TO_TALK"}
  BY DEF Newer
<1>2. Newer["XR15_SELECT"] = "SELECT" /\ Newer["XR15_PUSH_TO_TALK"] = "PUSH_TO_TALK"
  BY DEF Newer
<1>3. {"SELECT", "PUSH_TO_TALK", "LAST", "EXIT", UNDEF} \subseteq IrKey
  BY DEF IrKey, Control
<1>4. UNDEF \notin DOMAIN Newer /\ "LAST" \notin DOMAIN Newer
  BY <1>1 DEF UNDEF
<1>5. CASE key \in DOMAIN Newer
  BY <1>1, <1>2, <1>3, <1>4, <1>5 DEF Meant, IsNormal
<1>6. CASE key \notin DOMAIN Newer
  BY <1>1, <1>3, <1>4, <1>6 DEF Meant, IsNormal
<1> QED BY <1>5, <1>6

LEMMA FreshFields ==
    ASSUME NEW h \in Handler, KeyOK(h)
    PROVE  LET g == Fresh(h)
           IN  g \in Handler /\ KeyOK(g) /\ g.prev = h.prev /\ g.cur = h.cur
<1> DEFINE g == Fresh(h)
<1>1. LET o == [h EXCEPT !.control = {}]
      IN  /\ o \in Handler /\ o.down = h.down /\ o.prev = h.prev /\ o.prevType = h.prevType
          /\ o.cur = h.cur
  BY EditControl
<1>2. /\ g \in Handler /\ g.down = h.down /\ g.prev = h.prev /\ g.prevType = h.prevType
      /\ g.cur = h.cur
  BY <1>1 DEF Fresh
<1> HIDE DEF g
<1>3. KeyOK(g)
  BY <1>2 DEF KeyOK
<1> QED BY <1>2, <1>3 DEF g

LEMMA CurFields ==
    ASSUME NEW h \in Handler, KeyOK(h), NEW key \in IrKey
    PROVE  LET g == [h EXCEPT !.cur = key]
           IN  g \in Handler /\ KeyOK(g) /\ g.prev = h.prev /\ g.cur = key
<1> DEFINE g == [h EXCEPT !.cur = key]
<1>1. /\ g \in Handler /\ g.down = h.down /\ g.prev = h.prev /\ g.prevType = h.prevType
      /\ g.cur = key
  BY EditCur
<1> HIDE DEF g
<1>2. KeyOK(g)
  BY <1>1 DEF KeyOK
<1> QED BY <1>1, <1>2 DEF g

\* A press or a release handled by a callback.
LEMMA CallbackKeeps ==
    ASSUME IrHandlerOK, NEW type \in IrType, NEW key \in IrKey, NEW src,
           type = "UP" => Follows(key), _IrKeyCallbackFrom(type, key, src)
    PROVE  /\ IrHandlerOK'
           /\ irH'.prev.key = IF type = "DOWN" /\ IsNormal(Meant(key)) THEN Meant(key)
                              ELSE irH.prev.key
<1> DEFINE f == Fresh(irH)
<1>1. irH \in Handler
  BY DEF IrHandlerOK
<1>2. CASE type = "REPEAT"
  BY <1>2 DEF _IrKeyCallbackFrom, IrHandlerOK, Follows
<1>3. ASSUME type # "REPEAT"
      PROVE  /\ irMade = UNDEF
             /\ f \in Handler /\ KeyOK(f) /\ f.prev = irH.prev /\ f.cur = irH.cur
  <2>1. irMade = UNDEF
    BY <1>3 DEF _IrKeyCallbackFrom
  <2>2. KeyOK(irH)
    BY <2>1 DEF IrHandlerOK, Settled
  <2> QED BY <1>1, <2>1, <2>2, FreshFields
<1> USE <1>1
<1>4. CASE type # "REPEAT" /\ key = "LAST"
  <2>1. LastKey(type) /\ irMade = UNDEF
    BY <1>3, <1>4 DEF _IrKeyCallbackFrom
  <2>2. ~IsNormal(Meant(key))
    BY <1>4, MeantFields
  <2>3. CASE type = "DOWN"
    <3> HIDE DEF f
    <3>1. irH' = [f EXCEPT !.cur = "LAST"] /\ irMade' = UNDEF
      BY <2>1, <2>3 DEF LastKey, f
    <3>2. irH' \in Handler /\ KeyOK(irH') /\ irH'.prev = irH.prev /\ irH'.cur = "LAST"
      BY <1>3, <1>4, <3>1, CurFields, MeantFields
    <3>3. KeyOK(Settled(irH', irMade'))
      BY <3>1, <3>2 DEF Settled
    <3> QED BY <2>2, <2>3, <3>1, <3>2, <3>3, MeantFields DEF IrHandlerOK, Follows
  <2>4. CASE type # "DOWN"
    <3> DEFINE u == [f EXCEPT !.cur = UNDEF]
    <3>1. u \in Handler /\ KeyOK(u) /\ u.prev = irH.prev /\ u.cur = UNDEF
      <4> HIDE DEF f
      <4> QED BY <1>3, <1>4, CurFields, MeantFields
    <3>2. IF irLast.ignore THEN irH' = u /\ irMade' = UNDEF
          ELSE irH' = Out(u, "DOWN", "LAST") /\ irMade' = "LAST"
      BY <2>1, <2>4 DEF LastKey, Make
    <3> HIDE DEF u
    <3>3. "LAST" # UNDEF
      BY DEF UNDEF
    <3>4. /\ irH' \in Handler /\ KeyOK(Settled(irH', irMade')) /\ irH'.prev = irH.prev
          /\ irH'.cur = UNDEF /\ irMade' \in {UNDEF, "LAST", "EXIT"}
      <4>1. CASE irLast.ignore
        BY <3>1, <3>2, <4>1 DEF Settled
      <4>2. CASE ~irLast.ignore
        <5>1. irH' = Out(u, "DOWN", "LAST") /\ irMade' = "LAST"
          BY <3>2, <4>2
        <5>2. LET g == Out(u, "DOWN", "LAST")
              IN  /\ g \in Handler /\ KeyOK(Settled(g, "LAST")) /\ g.prev = u.prev
                  /\ g.cur = u.cur
          BY <3>1, <3>3, MakeKeeps, MeantFields
        <5> QED BY <3>1, <5>1, <5>2
      <4> QED BY <4>1, <4>2
    <3> QED BY <2>2, <2>4, <3>4, MeantFields DEF IrHandlerOK, Follows
  <2> QED BY <2>3, <2>4
<1>5. CASE type # "REPEAT" /\ key # "LAST"
  <2> DEFINE c == IF type = "DOWN" THEN key ELSE UNDEF
             u == [f EXCEPT !.cur = c]
             w == _IrInputKeyEventHandler(u, type, key, src)
  <2>1. irH' = w /\ irMade' = UNDEF
    BY <1>3, <1>5 DEF _IrKeyCallbackFrom, HandleKey
  <2>2. c \in IrKey
    BY MeantFields
  <2>3. u \in Handler /\ KeyOK(u) /\ u.prev = irH.prev /\ u.cur = c
    <3> HIDE DEF f, c
    <3> QED BY <1>3, <1>5, <2>2, CurFields
  <2> HIDE DEF u
  <2>4. type # "DOWN" /\ IsNormal(Meant(key)) => Meant(key) = u.prev.key
    BY <1>5, <2>3 DEF IrType, Follows
  <2>5. /\ w \in Handler /\ KeyOK(w)
        /\ w.cur = IF key \notin DOMAIN Newer THEN u.cur
                   ELSE IF type = "DOWN" THEN Newer[key] ELSE UNDEF
        /\ w.prev.key = IF IsNormal(Meant(key)) THEN Meant(key) ELSE u.prev.key
    BY <2>3, <2>4, HandlerKeeps
  <2> HIDE DEF w
  <2>6. w.cur = IF type = "DOWN" THEN Meant(key) ELSE UNDEF
    BY <2>3, <2>5 DEF Meant
  <2>7. Meant(w.cur) = w.cur /\ w.cur \notin DOMAIN Newer
    BY <2>6, MeantFields DEF Meant
  <2>8. IsNormal(w.cur) => w.cur = w.prev.key
    <3>1. ~IsNormal(UNDEF)
      BY DEF IsNormal
    <3> QED BY <2>5, <2>6, <3>1
  <2>9. w.prev.key = IF type = "DOWN" /\ IsNormal(Meant(key)) THEN Meant(key)
                     ELSE irH.prev.key
    BY <2>3, <2>4, <2>5
  <2>10. KeyOK(Settled(irH', irMade'))
    BY <2>1, <2>5 DEF Settled
  <2> QED BY <2>1, <2>5, <2>7, <2>8, <2>9, <2>10 DEF IrHandlerOK, Follows
<1> QED BY <1>2, <1>4, <1>5

\* What the repeat thread sends: a repeat or the release of the current key.
LEMMA RepeatKeeps ==
    ASSUME IrHandlerOK, irMade = UNDEF, NEW type \in {"REPEAT", "UP"}
    PROVE  LET g == _IrInputKeyEventHandler(Fresh(irH), type, irH.cur, "IR")
           IN  /\ g \in Handler /\ KeyOK(g) /\ g.cur = irH.cur /\ g.prev.key = irH.prev.key
<1> DEFINE f == Fresh(irH)
           k == irH.cur
           g == _IrInputKeyEventHandler(f, type, k, "IR")
<1>1. /\ irH \in Handler /\ KeyOK(irH) /\ k \notin DOMAIN Newer /\ k \in IrKey
      /\ Meant(k) = k /\ (IsNormal(k) => k = irH.prev.key)
  BY HandlerFields DEF IrHandlerOK, Follows, Meant, Settled
<1>2. f \in Handler /\ KeyOK(f) /\ f.prev = irH.prev /\ f.cur = k
  BY <1>1, FreshFields
<1>3. type \in IrType
  BY DEF IrType
<1> HIDE DEF f, k
<1>4. /\ g \in Handler /\ KeyOK(g)
      /\ g.cur = IF k \notin DOMAIN Newer THEN f.cur
                 ELSE IF type = "DOWN" THEN Newer[k] ELSE UNDEF
      /\ g.prev.key = IF IsNormal(Meant(k)) THEN Meant(k) ELSE f.prev.key
  BY <1>1, <1>2, <1>3, HandlerKeeps
<1> HIDE DEF g
<1>5. g \in Handler /\ KeyOK(g) /\ g.cur = k /\ g.prev.key = irH.prev.key
  BY <1>1, <1>2, <1>4
<1> QED BY <1>5 DEF f, k, g

\* Nothing is pressed or released.
LEMMA IrStillOK ==
    ASSUME IrHandlerOK, IrFingersOK, UNCHANGED <<irFinger, irRf>>,
           irH' \in Handler, irMade' \in {UNDEF, "LAST", "EXIT"},
           KeyOK(Settled(irH', irMade')), irH'.prev.key = irH.prev.key,
           irH'.cur \in {irH.cur, UNDEF}
    PROVE  IrHandlerOK' /\ IrFingersOK'
<1>1. irH'.cur \notin DOMAIN Newer /\ (IsNormal(Meant(irH'.cur)) => Meant(irH'.cur) = irH.prev.key)
  <2>1. CASE irH'.cur = irH.cur
    BY <2>1 DEF IrHandlerOK, Follows
  <2>2. CASE irH'.cur = UNDEF
    <3>1. UNDEF \notin DOMAIN Newer /\ ~IsNormal(Meant(UNDEF))
      <4>1. UNDEF \in IrKey
        BY DEF IrKey
      <4> QED BY <4>1, MeantFields
    <3> QED BY <2>2, <3>1
  <2> QED BY <2>1, <2>2
<1>3. IrHandlerOK'
  BY <1>1 DEF IrHandlerOK, Follows
<1>2. IrFingersOK'
  BY DEF IrFingersOK, Follows
<1> QED BY <1>2, <1>3


LEMMA IrStartsOK == IrInit => IrInv
<1> SUFFICES ASSUME IrInit PROVE IrHandlerOK /\ IrFingersOK
  BY DEF IrInv
<1>1. UNDEF \in IrKey /\ UNDEF \notin DOMAIN Newer /\ ~IsNormal(Meant(UNDEF))
  <2>1. UNDEF \in IrKey
    BY DEF IrKey
  <2> QED BY <2>1, MeantFields
<1>2. irH \in Handler /\ irH.down = {} /\ irH.cur = UNDEF
  <2>1. HInit \in Handler
    <3>1. [type |-> "UP", key |-> UNDEF] \in [type : IrType, key : IrKey]
      BY <1>1 DEF IrType
    <3>2. "UP" \in IrType /\ {} \in SUBSET IrKey
      BY DEF IrType
    <3> QED BY <1>1, <3>1, <3>2 DEF HInit, Handler
  <2>2. HInit.down = {} /\ HInit.cur = UNDEF
    BY DEF HInit
  <2> QED BY <2>1, <2>2 DEF IrInit
<1>3. IrHandlerOK
  <2>1. irMade = UNDEF
    BY DEF IrInit
  <2> QED BY <1>1, <1>2, <2>1 DEF IrHandlerOK, KeyOK, Follows, Settled
<1>4. /\ irFinger \in [Source -> IrKey] /\ irFinger["IR"] = UNDEF /\ irFinger["RF"] = UNDEF
      /\ irRf \in [type : IrType \union {"idle"}, key : IrKey] /\ irRf.type = "idle"
  BY <1>1 DEF IrInit, Source
<1>5. IrFingersOK
  BY <1>1, <1>4 DEF IrFingersOK, Follows
<1> QED BY <1>3, <1>5

\* A step of the infrared receiver.
LEMMA IrReceiverKeeps ==
    ASSUME IrHandlerOK, IrFingersOK, ~irMixed', IrKeyDown \/ IrKeyUp
    PROVE  IrHandlerOK' /\ IrFingersOK'
<1>1. /\ irFinger \in [Source -> IrKey] /\ irFinger["IR"] \in IrKey
      /\ irRf' = irRf
  BY DEF IrFingersOK, Source, IrKeyDown, IrKeyUp
<1>2. UNDEF \in IrKey /\ ~IsNormal(Meant(UNDEF))
  <2>1. UNDEF \in IrKey
    BY DEF IrKey
  <2> QED BY <2>1, MeantFields
<1>3. CASE IrKeyDown
  <2>1. irRf.type = "idle" /\ irFinger["RF"] = UNDEF
    BY <1>3 DEF IrKeyDown, Press, Source
  <2>2. PICK key \in IrPressed : /\ irFinger' = [irFinger EXCEPT !["IR"] = key]
                                 /\ _IrKeyCallbackFrom("DOWN", key, "IR")
    BY <1>3 DEF IrKeyDown
  <2>3. key \in IrKey /\ "DOWN" \in IrType
    BY DEF IrKey, IrType
  <2>4. /\ IrHandlerOK'
        /\ irH'.prev.key = IF IsNormal(Meant(key)) THEN Meant(key) ELSE irH.prev.key
    BY <2>2, <2>3, CallbackKeeps
  <2>5. /\ irFinger' \in [Source -> IrKey] /\ irFinger'["IR"] = key /\ irFinger'["RF"] = UNDEF
    BY <1>1, <2>1, <2>2, <2>3 DEF Source
  <2>6. IrFingersOK'
    BY <1>1, <1>2, <2>1, <2>4, <2>5 DEF IrFingersOK, Follows
  <2> QED BY <2>4, <2>6
<1>4. CASE IrKeyUp
  <2>1. irRf.type = "idle" /\ irFinger["RF"] = UNDEF
    BY <1>4 DEF IrKeyUp, IrFingersOK
  <2>2. /\ irFinger' = [irFinger EXCEPT !["IR"] = UNDEF]
        /\ _IrKeyCallbackFrom("UP", irFinger["IR"], "IR")
    BY <1>4 DEF IrKeyUp
  <2>3. Follows(irFinger["IR"]) /\ "UP" \in IrType
    BY DEF IrFingersOK, IrType
  <2>4. IrHandlerOK' /\ irH'.prev.key = irH.prev.key
    BY <1>1, <2>2, <2>3, CallbackKeeps
  <2>5. /\ irFinger' \in [Source -> IrKey] /\ irFinger'["IR"] = UNDEF
        /\ irFinger'["RF"] = UNDEF
    BY <1>1, <1>2, <2>1, <2>2 DEF Source
  <2>6. IrFingersOK'
    BY <1>1, <1>2, <2>1, <2>5 DEF IrFingersOK, Follows
  <2> QED BY <2>4, <2>6
<1> QED BY <1>3, <1>4

\* A step of the RF remotes.
LEMMA IrRemoteKeeps ==
    ASSUME IrHandlerOK, IrFingersOK, ~irMixed', RfDown \/ RfUp \/ RfRepeat \/ RfCallback
    PROVE  IrHandlerOK' /\ IrFingersOK'
<1>1. /\ irFinger \in [Source -> IrKey] /\ irFinger["IR"] \in IrKey /\ irFinger["RF"] \in IrKey
      /\ irRf \in [type : IrType \union {"idle"}, key : IrKey]
      /\ irRf.type \in IrType \union {"idle"} /\ irRf.key \in IrKey
  BY DEF IrFingersOK, Source
<1>2. UNDEF \in IrKey /\ ~IsNormal(Meant(UNDEF))
  <2>1. UNDEF \in IrKey
    BY DEF IrKey
  <2> QED BY <2>1, MeantFields
<1>3. CASE RfDown
  <2>1. irFinger["IR"] = UNDEF
    BY <1>3 DEF RfDown, Press, Source
  <2>2. PICK key \in RfPressed : /\ irFinger' = [irFinger EXCEPT !["RF"] = key]
                                 /\ RfFlags("DOWN", key)
    BY <1>3 DEF RfDown
  <2>3. key \in IrKey
    BY DEF IrKey
  <2>4. irRf' = [type |-> "DOWN", key |-> key] /\ UNCHANGED <<irMade, irH>>
    BY <2>2 DEF RfFlags
  <2>5. /\ irRf' \in [type : IrType \union {"idle"}, key : IrKey]
        /\ irRf'.type = "DOWN" /\ irRf'.key = key
    BY <2>3, <2>4 DEF IrType
  <2>6. /\ irFinger' \in [Source -> IrKey] /\ irFinger'["IR"] = UNDEF /\ irFinger'["RF"] = key
    BY <1>1, <2>1, <2>2, <2>3 DEF Source
  <2>7. IrFingersOK'
    BY <1>2, <2>5, <2>6 DEF IrFingersOK, Follows
  <2> QED BY <2>4, <2>7 DEF IrHandlerOK, Follows
<1>4. CASE RfUp
  <2>1. /\ irFinger' = [irFinger EXCEPT !["RF"] = UNDEF] /\ irRf.type = "idle"
        /\ irRf' = [type |-> "UP", key |-> irFinger["RF"]] /\ UNCHANGED <<irMade, irH>>
        /\ irFinger["RF"] # UNDEF
    BY <1>4 DEF RfUp, RfFlags
  <2>2. irFinger["IR"] = UNDEF /\ Follows(irFinger["RF"])
    BY <2>1 DEF IrFingersOK
  <2>3. /\ irRf' \in [type : IrType \union {"idle"}, key : IrKey]
        /\ irRf'.type = "UP" /\ irRf'.key = irFinger["RF"]
    BY <1>1, <2>1 DEF IrType
  <2>4. /\ irFinger' \in [Source -> IrKey] /\ irFinger'["IR"] = UNDEF
        /\ irFinger'["RF"] = UNDEF
    BY <1>1, <1>2, <2>1, <2>2 DEF Source
  <2>5. IrFingersOK'
    BY <1>2, <2>1, <2>2, <2>3, <2>4 DEF IrFingersOK, Follows
  <2> QED BY <2>1, <2>5 DEF IrHandlerOK, Follows
<1>5. CASE RfRepeat
  <2>1. /\ irRf.type = "idle" /\ irFinger["RF"] # UNDEF
        /\ irRf' = [type |-> "REPEAT", key |-> irFinger["RF"]] /\ UNCHANGED <<irMade, irH, irFinger>>
    BY <1>5 DEF RfRepeat, RfFlags
  <2>2. irFinger["IR"] = UNDEF /\ Follows(irFinger["RF"])
    BY <2>1 DEF IrFingersOK
  <2>3. /\ irRf' \in [type : IrType \union {"idle"}, key : IrKey]
        /\ irRf'.type = "REPEAT" /\ irRf'.key = irFinger["RF"]
    BY <1>1, <2>1 DEF IrType
  <2>4. IrFingersOK'
    BY <1>1, <1>2, <2>1, <2>2, <2>3 DEF IrFingersOK, Follows
  <2> QED BY <2>1, <2>4 DEF IrHandlerOK, Follows
<1>6. CASE RfCallback
  <2>1. /\ irRf.type # "idle" /\ irRf' = [type |-> "idle", key |-> UNDEF]
        /\ _IrKeyCallbackFrom(irRf.type, irRf.key, "RF") /\ UNCHANGED irFinger
    BY <1>6 DEF RfCallback
  <2>2. irRf.type \in IrType /\ (irRf.type = "UP" => Follows(irRf.key))
    BY <1>1, <2>1 DEF IrFingersOK
  <2>3. /\ IrHandlerOK'
        /\ irH'.prev.key = IF irRf.type = "DOWN" /\ IsNormal(Meant(irRf.key))
                           THEN Meant(irRf.key) ELSE irH.prev.key
    BY <1>1, <2>1, <2>2, CallbackKeeps
  <2>4. /\ irRf' \in [type : IrType \union {"idle"}, key : IrKey] /\ irRf'.type = "idle"
    BY <1>2, <2>1
  <2>5. irFinger["IR"] = UNDEF
    BY <2>1 DEF IrFingersOK
  <2>6. IsNormal(Meant(irFinger["RF"])) => Meant(irFinger["RF"]) = irH'.prev.key
    <3>1. CASE irRf.type = "DOWN"
      <4>1. irFinger["RF"] = irRf.key
        BY <3>1 DEF IrFingersOK
      <4> QED BY <2>3, <3>1, <4>1
    <3>2. CASE irRf.type # "DOWN"
      <4>1. Follows(irFinger["RF"])
        BY <3>2 DEF IrFingersOK
      <4> QED BY <2>3, <3>2, <4>1 DEF Follows
    <3> QED BY <3>1, <3>2
  <2>7. IrFingersOK'
    BY <1>1, <1>2, <2>1, <2>4, <2>5, <2>6 DEF IrFingersOK, Follows
  <2> QED BY <2>3, <2>7
<1> QED BY <1>3, <1>4, <1>5, <1>6

\* A step of the threads, and of the device.
LEMMA IrThreadKeeps ==
    ASSUME IrHandlerOK, IrFingersOK,
           RepFirst \/ RepAgain \/ IrTimers \/ UINPUT_term \/ ReleaseMade
    PROVE  IrHandlerOK' /\ IrFingersOK'
<1>1. /\ irH \in Handler /\ irMade \in {UNDEF, "LAST", "EXIT"} /\ KeyOK(Settled(irH, irMade))
      /\ (irMade = UNDEF => KeyOK(irH))
  BY DEF IrHandlerOK, Settled
<1>2. UNCHANGED <<irFinger, irRf>>
  <2>1. CASE RepFirst
    BY <2>1 DEF RepFirst, RepUnchanged
  <2>2. CASE RepAgain
    BY <2>2 DEF RepAgain, RepUnchanged
  <2>3. CASE IrTimers
    BY <2>3 DEF IrTimers, TimerStart, TimerPolls, TimerEnds, TimerUnchanged
  <2>4. CASE UINPUT_term
    BY <2>4 DEF UINPUT_term, TimerUnchanged
  <2>5. CASE ReleaseMade
    BY <2>5 DEF ReleaseMade
  <2> QED BY <2>1, <2>2, <2>3, <2>4, <2>5
<1> DEFINE f == Fresh(irH)
           Kept(g, made) == /\ g \in Handler /\ made \in {UNDEF, "LAST", "EXIT"}
                            /\ KeyOK(Settled(g, made)) /\ g.prev.key = irH.prev.key
                            /\ g.cur \in {irH.cur, UNDEF}
<1>3. ASSUME irMade = UNDEF
      PROVE  f \in Handler /\ KeyOK(f) /\ f.prev = irH.prev /\ f.cur = irH.cur
  BY <1>1, <1>3, FreshFields
<1>4. UNDEF \in IrKey /\ "EXIT" \in IrKey /\ "LAST" \in IrKey /\ "EXIT" # UNDEF /\ "LAST" # UNDEF
  BY DEF IrKey, UNDEF
<1>5. ASSUME NEW g \in Handler, KeyOK(g), g.prev.key = irH.prev.key, g.cur \in {irH.cur, UNDEF}
      PROVE  Kept(g, UNDEF)
  BY <1>5 DEF Settled
<1>6. Kept(irH', irMade')
  <2> DEFINE rep == _IrInputKeyEventHandler(f, "REPEAT", irH.cur, "IR")
             up == _IrInputKeyEventHandler(f, "UP", irH.cur, "IR")
  <2>1. ASSUME irMade = UNDEF
        PROVE  rep \in Handler /\ KeyOK(rep) /\ rep.cur = irH.cur /\ rep.prev.key = irH.prev.key
    BY <2>1, RepeatKeeps
  <2>2. ASSUME irMade = UNDEF
        PROVE  up \in Handler /\ KeyOK(up) /\ up.cur = irH.cur /\ up.prev.key = irH.prev.key
    BY <2>2, RepeatKeeps
  <2>3. CASE RepFirst
    <3>1. irH' = rep /\ irMade = UNDEF /\ irMade' = UNDEF
      BY <2>3 DEF RepFirst, RepUnchanged
    <3> HIDE DEF rep, Kept
    <3> QED BY <1>5, <2>1, <3>1
  <2>4. CASE RepAgain
    <3> DEFINE end == [up EXCEPT !.cur = UNDEF]
    <3>1. irMade = UNDEF /\ irMade' = UNDEF
      BY <2>4 DEF RepAgain, RepUnchanged
    <3>2. irH' = irH \/ irH' = end \/ irH' = rep
      <4> HIDE DEF Kept
      <4>1. CASE irH.cur = UNDEF
        BY <2>4, <4>1 DEF RepAgain
      <4>2. CASE irH.cur # UNDEF /\ irNeedUp /\ irRepeats >= MaxRepeats
        BY <2>4, <4>2 DEF RepAgain
      <4>3. CASE irH.cur # UNDEF /\ ~(irNeedUp /\ irRepeats >= MaxRepeats)
        BY <2>4, <4>3 DEF RepAgain
      <4> QED BY <4>1, <4>2, <4>3
    <3> HIDE DEF rep, up, Kept
    <3>3. end \in Handler /\ KeyOK(end) /\ end.prev = up.prev /\ end.cur = UNDEF
      BY <1>4, <2>2, <3>1, CurFields
    <3> HIDE DEF end
    <3> QED BY <1>1, <1>5, <2>1, <2>2, <3>1, <3>2, <3>3
  <2>5. CASE IrTimers
    <3> DEFINE exit == Out(f, "DOWN", "EXIT")
    <3>1. \/ irH' = irH /\ irMade' = irMade
          \/ irMade = UNDEF /\ irH' = exit /\ irMade' = "EXIT"
      <4> HIDE DEF Kept, rep, up
      <4>1. PICK t \in DOMAIN irTimer : TimerStart(t) \/ TimerPolls(t) \/ TimerEnds(t)
        BY <2>5 DEF IrTimers
      <4>2. CASE TimerStart(t) \/ TimerPolls(t)
        BY <4>2 DEF TimerStart, TimerPolls
      <4>3. CASE TimerEnds(t)
        BY <4>3 DEF TimerEnds, Make
      <4> QED BY <4>1, <4>2, <4>3
    <3>2. CASE irH' = irH /\ irMade' = irMade
      BY <1>1, <3>2
    <3>3. CASE irMade = UNDEF /\ irH' = exit /\ irMade' = "EXIT"
      <4> HIDE DEF f
      <4>1. LET g == Out(f, "DOWN", "EXIT")
            IN  g \in Handler /\ KeyOK(Settled(g, "EXIT")) /\ g.prev = f.prev /\ g.cur = f.cur
        BY <1>3, <1>4, <3>3, MakeKeeps
      <4> QED BY <1>3, <3>3, <4>1
    <3> QED BY <3>1, <3>2, <3>3
  <2>6. CASE UINPUT_term
    <3> DEFINE m == [f EXCEPT !.open = FALSE]
    <3>1. /\ f \in Handler /\ f.down = irH.down /\ f.prev = irH.prev
          /\ f.prevType = irH.prevType /\ f.cur = irH.cur
      BY <1>1, EditControl DEF Fresh
    <3>2. irH' = [m EXCEPT !.dev = {}] /\ irMade' = irMade
      <4> HIDE DEF f, Kept
      <4> QED BY <2>6, <3>1 DEF UINPUT_term, f, Handler
    <3> HIDE DEF f
    <3>3. /\ m \in Handler /\ m.down = f.down /\ m.prev = f.prev /\ m.prevType = f.prevType
          /\ m.cur = f.cur
      BY <3>1 DEF Handler
    <3> HIDE DEF m
    <3>4. /\ irH' \in Handler /\ irH'.down = m.down /\ irH'.prev = m.prev
          /\ irH'.prevType = m.prevType /\ irH'.cur = m.cur
      BY <3>2, <3>3, EditDev
    <3>5. KeyOK(Settled(irH', irMade'))
      <4>1. CASE irMade = UNDEF
        BY <1>1, <3>1, <3>2, <3>3, <3>4, <4>1 DEF KeyOK, Settled
      <4>2. CASE irMade # UNDEF
        <5> DEFINE b == Broadcast(irH, "UP", irMade)
                   c == Broadcast(irH', "UP", irMade)
        <5>1. /\ b.down = After(irH.down, "UP", irMade) /\ b.prev = irH.prev
              /\ b.prevType = irH.prevType
          BY <1>1, <1>4, OutFields
        <5>2. /\ c.down = After(irH'.down, "UP", irMade) /\ c.prev = irH'.prev
              /\ c.prevType = irH'.prevType
          BY <1>1, <1>4, <3>4, OutFields
        <5>3. Settled(irH, irMade) = b /\ Settled(irH', irMade') = c
          BY <3>2, <4>2 DEF Settled
        <5> HIDE DEF b, c
        <5> QED BY <1>1, <3>1, <3>3, <3>4, <5>1, <5>2, <5>3 DEF KeyOK
      <4> QED BY <4>1, <4>2
    <3> QED BY <1>1, <3>1, <3>2, <3>3, <3>4, <3>5
  <2>7. CASE ReleaseMade
    <3>1. irMade # UNDEF /\ irH' = Out(f, "UP", irMade) /\ irMade' = UNDEF
      BY <2>7 DEF ReleaseMade
    <3>2. irMade \in IrKey
      BY <1>1, <1>4
    <3>3. LET g == Out(f, "UP", irMade)
          IN  g \in Handler /\ KeyOK(g) /\ g.prev = irH.prev /\ g.cur = irH.cur
      BY <1>1, <3>1, <3>2, ReleaseKeeps
    <3> HIDE DEF Kept, f
    <3> QED BY <1>5, <3>1, <3>3
  <2> HIDE DEF Kept
  <2> QED BY <2>3, <2>4, <2>5, <2>6, <2>7
<1> QED BY <1>2, <1>6, IrStillOK

LEMMA IrStepOK == IrInv /\ [IrNext]_irVars => IrInv'
<1> SUFFICES ASSUME IrInv, [IrNext]_irVars, ~irMixed' PROVE IrHandlerOK' /\ IrFingersOK'
  BY DEF IrInv
<1>1. ~irMixed
  <2>1. CASE IrKeyDown \/ RfDown
    BY <2>1 DEF IrKeyDown, RfDown, Press
  <2>2. CASE UNCHANGED irMixed
    BY <2>2
  <2>3. CASE IrTimers
    BY <2>3 DEF IrTimers, TimerStart, TimerPolls, TimerEnds, TimerUnchanged
  <2>4. CASE RepTop \/ RepTimeout \/ RepSignalled \/ RepFirst \/ RepAgain
    BY <2>4 DEF RepTop, RepTimeout, RepSignalled, RepFirst, RepAgain, RepUnchanged
  <2>5. CASE IrKeyUp \/ RfUp \/ RfRepeat \/ RfCallback \/ RfLost \/ IrSetRepeatInterval
             \/ UINPUT_term \/ ReleaseMade
        BY <2>5 DEF IrKeyUp, RfUp, RfRepeat, RfCallback, RfLost, IrSetRepeatInterval,
       UINPUT_term,
                TimerUnchanged, ReleaseMade
  <2> QED BY <2>1, <2>2, <2>3, <2>4, <2>5 DEF IrNext, irVars
<1>2. IrHandlerOK /\ IrFingersOK
  BY <1>1 DEF IrInv
<1>3. CASE IrKeyDown \/ IrKeyUp
  BY <1>2, <1>3, IrReceiverKeeps
<1>4. CASE RfDown \/ RfUp \/ RfRepeat \/ RfCallback
  BY <1>2, <1>4, IrRemoteKeeps
<1>5. CASE RepFirst \/ RepAgain \/ IrTimers \/ UINPUT_term \/ ReleaseMade
  BY <1>2, <1>5, IrThreadKeeps
<1>6. CASE RfLost \/ RepTop \/ RepTimeout \/ RepSignalled \/ IrSetRepeatInterval
           \/ UNCHANGED irVars
  <2>1. UNCHANGED <<irMade, irH, irFinger, irRf>>
        BY <1>6 DEF RfLost, RepTop, RepTimeout, RepSignalled, IrSetRepeatInterval,
       RepUnchanged,
                irVars
  <2> QED BY <1>2, <2>1 DEF IrHandlerOK, IrFingersOK, Follows
<1> QED BY <1>3, <1>4, <1>5, <1>6 DEF IrNext

\* With one remote in use at a time at most one key of that remote is down for the
\* listeners, however many releases are lost, whatever the repeat thread makes up, and with
\* a LAST timer running.  The LAST or EXIT that the manager itself is pressing at the moment
\* is not counted: it goes by the release that is made up for a lost one.
THEOREM OneKeyAtATime == IrSpec => []OneKeyDown
<1>1. IrInv => OneKeyDown
  <2> SUFFICES ASSUME IrInv, ~irMixed PROVE Cardinality(irH.down \ {irMade}) <= 1
    BY DEF OneKeyDown
  <2>1. /\ irH \in Handler /\ irMade \in {UNDEF, "LAST", "EXIT"}
        /\ KeyOK(Settled(irH, irMade))
    BY DEF IrInv, IrHandlerOK
  <2>2. irH.down \ {irMade} \subseteq {irH.prev.key}
    <3>1. CASE irMade = UNDEF
      BY <2>1, <3>1 DEF Settled, KeyOK
    <3>2. CASE irMade # UNDEF
      <4> DEFINE b == Broadcast(irH, "UP", irMade)
      <4>1. irMade \in IrKey
        BY <2>1 DEF IrKey
      <4>2. b.down = After(irH.down, "UP", irMade) /\ b.prev = irH.prev
        BY <2>1, <4>1, OutFields
      <4>3. KeyOK(b)
        BY <2>1, <3>2 DEF Settled
      <4> HIDE DEF b
      <4> QED BY <4>2, <4>3 DEF KeyOK, After
    <3> QED BY <3>1, <3>2
  <2>3. irH.down \ {irMade} = {} \/ irH.down \ {irMade} = {irH.prev.key}
    BY <2>2
  <2>4. Cardinality({}) = 0
    BY FS_EmptySet
  <2>5. Cardinality({irH.prev.key}) = 1
    BY FS_Singleton
  <2> QED BY <2>3, <2>4, <2>5
<1> QED BY <1>1, IrStartsOK, IrStepOK, PTL DEF IrSpec

-----------------------------------------------------------------------------
(* SysMgr *)

SmState == [state : 0..2, error : 0..1, payload : {"", "text"}]

SmTypeOK == smStates \in [Field -> SmState] /\ smLast \in [Field -> SmState]

SmInv == SmTypeOK /\ StatesAsPublished

LEMMA SmEdits ==
    ASSUME NEW s \in SmState
    PROVE  /\ s.state \in 0..2
           /\ \A k \in 0..2 : [s EXCEPT !.state = k] \in SmState
           /\ \A k \in 0..1 : [s EXCEPT !.error = k] \in SmState
           /\ [s EXCEPT !.payload = "text"] \in SmState
<1>1. \A k \in 0..2 : [s EXCEPT !.state = k] \in SmState
  BY DEF SmState
<1>2. \A k \in 0..1 : [s EXCEPT !.error = k] \in SmState
  BY DEF SmState
<1>3. [s EXCEPT !.payload = "text"] \in SmState
  BY DEF SmState
<1>4. s.state \in 0..2
  BY DEF SmState
<1> QED BY <1>1, <1>2, <1>3, <1>4

LEMMA SmFields ==
    /\ "stb_serial_no" \in NoState \ (StateAndError \union WithPayload)
    /\ {"TuneReadyStatus", "time_source", "hdcp_enabled"} \subseteq StateAndError
    /\ {"channel_map", "dac_init_timestamp"} \subseteq WithPayload
    /\ Data \subseteq SmState /\ None \in SmState /\ Started \in [Field -> SmState]
    /\ StateAndError \intersect WithPayload = {}
<1>1. Data \subseteq SmState /\ None \in SmState
  BY DEF Data, SmState, None
<1>2. Started \in [Field -> SmState]
  <2>1. [None EXCEPT !.state = 1] \in SmState
    <3>1. 1 \in 0..2
      OBVIOUS
    <3> QED BY <1>1, <3>1, SmEdits
  <2> QED BY <1>1, <2>1 DEF Started
<1> QED BY <1>1, <1>2 DEF NoState, StateAndError, WithPayload

\* The three ways of storing exclude each other.
LEMMA StoredCases ==
    ASSUME NEW f, NEW old, NEW e
    PROVE  /\ f \in StateAndError => Stored(f, old, e) = [e EXCEPT !.payload = old.payload]
           /\ f \in WithPayload => Stored(f, old, e) = e
           /\ f \in NoState => Stored(f, old, e) = [e EXCEPT !.state = old.state]
<1>1. /\ StateAndError \intersect WithPayload = {}
      /\ StateAndError \intersect NoState = {}
      /\ WithPayload \intersect NoState = {}
  BY DEF StateAndError, WithPayload, NoState
<1>2. CASE f \in StateAndError
  <2>1. f \notin WithPayload /\ f \notin NoState
    BY <1>1, <1>2
  <2> QED BY <1>2, <2>1 DEF Stored
<1>3. CASE f \in WithPayload
  <2>1. f \notin StateAndError /\ f \notin NoState
    BY <1>1, <1>3
  <2> QED BY <1>3, <2>1 DEF Stored
<1>4. CASE f \in NoState
  <2>1. f \notin StateAndError /\ f \notin WithPayload
    BY <1>1, <1>4
  <2> QED BY <1>4, <2>1 DEF Stored
<1> QED BY <1>2, <1>3, <1>4

\* Storing an event keeps its type, and storing it in what it gave changes nothing.
LEMMA StoredIsStored ==
    ASSUME NEW f \in Field, NEW old \in SmState, NEW e \in SmState
    PROVE  /\ Stored(f, old, e) \in SmState
           /\ f \in StateAndError \union WithPayload =>
                 Stored(f, Stored(f, old, e), e) = Stored(f, old, e)
<1>1. CASE f \in StateAndError
  <2>1. Stored(f, old, e) = [e EXCEPT !.payload = old.payload]
    BY <1>1, StoredCases
  <2>2. Stored(f, old, e) \in SmState /\ Stored(f, old, e).payload = old.payload
    BY <2>1 DEF SmState
  <2>3. Stored(f, Stored(f, old, e), e) = [e EXCEPT !.payload = Stored(f, old, e).payload]
    BY <1>1, StoredCases
  <2> QED BY <2>1, <2>2, <2>3
<1>2. CASE f \in WithPayload
  <2>1. Stored(f, old, e) = e /\ Stored(f, Stored(f, old, e), e) = e
    BY <1>2, StoredCases
  <2> QED BY <2>1
<1>3. CASE f \in NoState /\ f \notin StateAndError /\ f \notin WithPayload
  <2>1. Stored(f, old, e) = [e EXCEPT !.state = old.state]
    BY <1>3, StoredCases
  <2> QED BY <1>3, <2>1 DEF SmState
<1> QED BY <1>1, <1>2, <1>3 DEF Field

LEMMA StartedIsStored ==
    ASSUME NEW f \in StateAndError \union WithPayload
    PROVE  Started[f] = Stored(f, Started[f], Started[f])
<1>1. Started[f] \in SmState /\ f \in Field
  BY SmFields DEF Field
<1>2. CASE f \in WithPayload
  BY <1>2, StoredCases
<1>3. CASE f \in StateAndError
  <2>1. Stored(f, Started[f], Started[f]) = [Started[f] EXCEPT !.payload = Started[f].payload]
    BY <1>3, StoredCases
  <2> QED BY <1>1, <2>1 DEF SmState
<1> QED BY <1>2, <1>3

LEMMA SmInitInv == SmInit => SmInv
<1> SUFFICES ASSUME SmInit PROVE SmInv
  OBVIOUS
<1>1. SmTypeOK
  BY SmFields DEF SmInit, SmTypeOK
<1>2. StatesAsPublished
  BY StartedIsStored DEF SmInit, StatesAsPublished
<1> QED BY <1>1, <1>2 DEF SmInv

\* Of what StatesAsPublished speaks, a step may change only what it makes true.
LEMMA SmEventInv == SmInv /\ _sysEventHandler => SmInv'
<1> SUFFICES ASSUME SmInv, _sysEventHandler PROVE SmInv'
  OBVIOUS
<1>1. PICK f \in Field, e \in Data :
        /\ smStates' = [g \in Field |-> IF g \in Takes(f) THEN Stored(g, smStates[g], e)
                                                           ELSE smStates[g]]
        /\ smLast' = [smLast EXCEPT ![f] = e]
  BY DEF _sysEventHandler
<1>2. e \in SmState /\ smStates \in [Field -> SmState] /\ smLast \in [Field -> SmState]
  BY SmFields DEF SmInv, SmTypeOK
<1>3. SmTypeOK'
  <2>1. ASSUME NEW g \in Field PROVE smStates'[g] \in SmState
    <3>1. Stored(g, smStates[g], e) \in SmState
      BY <1>2, StoredIsStored
    <3> QED BY <1>1, <1>2, <3>1
  <2>2. smStates' \in [Field -> SmState]
    BY <1>1, <2>1
  <2>3. smLast' \in [Field -> SmState]
    BY <1>1, <1>2
  <2> QED BY <2>2, <2>3 DEF SmTypeOK
<1>4. ASSUME NEW g \in StateAndError \union WithPayload, g # "dac_init_timestamp",
             ~(MediaClient /\ g \in {"channel_map", "TuneReadyStatus", "time_source"})
      PROVE  smStates'[g] = Stored(g, smStates'[g], smLast'[g])
  <2>1. g \in Field
    BY DEF Field
  <2>2. CASE g = f
    <3>1. smStates'[g] = Stored(g, smStates[g], e) /\ smLast'[g] = e
      BY <1>1, <1>2, <2>1, <2>2 DEF Takes
    <3>2. Stored(g, Stored(g, smStates[g], e), e) = Stored(g, smStates[g], e)
      BY <1>2, <2>1, StoredIsStored
    <3> QED BY <3>1, <3>2
  <2>3. CASE g # f
    <3>1. smStates'[g] = smStates[g] /\ smLast'[g] = smLast[g]
      BY <1>1, <1>2, <1>4, <2>1, <2>3 DEF Takes
    <3>2. smStates[g] = Stored(g, smStates[g], smLast[g])
      BY <1>4 DEF SmInv, StatesAsPublished
    <3> QED BY <3>1, <3>2
  <2> QED BY <2>2, <2>3
<1>5. StatesAsPublished'
  BY <1>4 DEF StatesAsPublished
<1> QED BY <1>3, <1>5 DEF SmInv

LEMMA SmEdited ==
    ASSUME NEW s \in SmState
    PROVE  /\ [s EXCEPT !.payload = "text", !.error = 0] \in SmState
           /\ [s EXCEPT !.error = 1] \in SmState
<1>1. 0 \in 0..1 /\ 1 \in 0..1
  OBVIOUS
<1>2. [s EXCEPT !.payload = "text"] \in SmState /\ [s EXCEPT !.error = 1] \in SmState
  BY <1>1, SmEdits
<1>3. [[s EXCEPT !.payload = "text"] EXCEPT !.error = 0] \in SmState
  BY <1>1, <1>2, SmEdits
<1> QED BY <1>2, <1>3

LEMMA SmCallInv == SmInv /\ (GetSerialNumber \/ _GetSystemStates) => SmInv'
<1> SUFFICES ASSUME SmInv, GetSerialNumber \/ _GetSystemStates PROVE SmInv'
  OBVIOUS
<1>1. smStates \in [Field -> SmState] /\ smLast \in [Field -> SmState] /\ smLast' = smLast
  BY DEF SmInv, SmTypeOK, GetSerialNumber, _GetSystemStates
<1>2. smStates' \in [Field -> SmState]
  <2>1. CASE GetSerialNumber
    <3> DEFINE s == smStates["stb_serial_no"]
               v == IF smGet = "got" THEN [s EXCEPT !.payload = "text", !.error = 0]
                                     ELSE [s EXCEPT !.error = 1]
    <3>1. "stb_serial_no" \in Field
      BY DEF Field, NoState
    <3>2. s \in SmState
      BY <1>1, <3>1
    <3>3. v \in SmState
      <4> HIDE DEF s
      <4>1. [s EXCEPT !.payload = "text", !.error = 0] \in SmState
        BY <3>2, SmEdited
      <4>2. [s EXCEPT !.error = 1] \in SmState
        BY <3>2, SmEdited
      <4> QED BY <4>1, <4>2
    <3>4. smStates' = [smStates EXCEPT !["stb_serial_no"] = v]
      BY <2>1 DEF GetSerialNumber
    <3> HIDE DEF s, v
    <3> QED BY <1>1, <3>1, <3>3, <3>4
  <2>2. CASE _GetSystemStates
    <3>1. CASE ~MediaClient
      BY <1>1, <2>2, <3>1 DEF _GetSystemStates
    <3>2. CASE MediaClient
      <4> DEFINE a == smStates["channel_map"]
                 b == smStates["TuneReadyStatus"]
                 c == smStates["time_source"]
                 m == [smStates EXCEPT !["channel_map"] = [a EXCEPT !.state = 2]]
                 n == [m EXCEPT !["TuneReadyStatus"] = [b EXCEPT !.state = 1]]
                 t == IF c.state = 0 /\ smTime THEN 1 ELSE c.state
      <4>1. "channel_map" \in Field /\ "TuneReadyStatus" \in Field /\ "time_source" \in Field
        BY DEF Field, StateAndError, WithPayload
      <4>2. a \in SmState /\ b \in SmState /\ c \in SmState
        BY <1>1, <4>1
      <4>3. /\ [a EXCEPT !.state = 2] \in SmState /\ [b EXCEPT !.state = 1] \in SmState
            /\ [c EXCEPT !.state = t] \in SmState
        <5>1. c.state \in 0..2 /\ 1 \in 0..2 /\ 2 \in 0..2
          <6> HIDE DEF a, b, c, t
          <6>1. c \in SmState
            BY <4>2
          <6>2. c.state \in 0..2
            BY <6>1, SmEdits
          <6> QED BY <6>2
        <5>2. t \in 0..2
          BY <5>1
        <5> HIDE DEF a, b, c, t
        <5> QED BY <4>2, <5>1, <5>2, SmEdits
      <4>4. smStates' = [n EXCEPT !["time_source"] = [c EXCEPT !.state = t]]
        BY <2>2, <3>2, <1>1, <4>1 DEF _GetSystemStates
      <4>5. m \in [Field -> SmState]
        BY <1>1, <4>1, <4>3
      <4>6. n \in [Field -> SmState]
        BY <4>5, <4>1, <4>3
      <4> HIDE DEF m, n, a, b, c, t
      <4> QED BY <4>6, <4>4, <4>1, <4>3
    <3> QED BY <3>1, <3>2
  <2> QED BY <2>1, <2>2
<1>3. ASSUME NEW g \in StateAndError \union WithPayload, g # "dac_init_timestamp",
             ~(MediaClient /\ g \in {"channel_map", "TuneReadyStatus", "time_source"})
      PROVE  smStates'[g] = smStates[g]
  <2>1. g # "stb_serial_no" /\ g \in Field
    BY SmFields DEF Field
  <2>2. CASE GetSerialNumber
    BY <1>1, <2>1, <2>2 DEF GetSerialNumber
  <2>3. CASE _GetSystemStates
    BY <1>1, <1>3, <2>1, <2>3 DEF _GetSystemStates
  <2> QED BY <2>2, <2>3
<1>4. StatesAsPublished'
  BY <1>1, <1>3 DEF SmInv, StatesAsPublished
<1> QED BY <1>1, <1>2, <1>4 DEF SmInv, SmTypeOK

LEMMA SmNextInv == SmInv /\ [SmNext]_smVars => SmInv'
<1> SUFFICES ASSUME SmInv, [SmNext]_smVars PROVE SmInv'
  OBVIOUS
<1>1. CASE UNCHANGED <<smStates, smLast>>
  BY <1>1 DEF SmInv, SmTypeOK, StatesAsPublished
<1>2. CASE SmRestart
  <2>2. smStates' = Started /\ smLast' = Started
    BY <1>2 DEF SmRestart
  <2>3. SmTypeOK'
    BY <2>2, SmFields DEF SmTypeOK
  <2>4. \A f \in StateAndError \union WithPayload : Started[f] = Stored(f, Started[f], Started[f])
    BY StartedIsStored
  <2> QED BY <2>2, <2>3, <2>4 DEF SmInv, StatesAsPublished
<1>3. CASE \/ GetAsks \/ MfrAnswers \/ TimeReceived \/ SetHDCPProfile \/ setKeyCodeLoggingPref
           \/ UNCHANGED smVars
    BY <1>1, <1>3 DEF GetAsks, MfrAnswers, TimeReceived, SetHDCPProfile,
     setKeyCodeLoggingPref,
     Call, smVars
<1> QED BY <1>2, <1>3, SmEventInv, SmCallInv DEF SmNext

\* What the board says of a state is what was published of it last, for any number of
\* events, calls and restarts, on every platform.
THEOREM BoardIsTrue == SmSpec => []StatesAsPublished
<1>1. SmInv => StatesAsPublished
  BY DEF SmInv
<1> QED BY <1>1, SmInitInv, SmNextInv, PTL DEF SmSpec

-----------------------------------------------------------------------------
(* DeviceScan *)

\* Division with remainder, and that the remainder is the only one.
LEMMA Division ==
    ASSUME NEW n \in Nat, n > 0, NEW d \in Nat
    PROVE  d \div n \in Nat /\ d % n \in 0..(n - 1) /\ d = n * (d \div n) + (d % n)
<1>1. d = n * (d \div n) + (d % n)
  BY Z3
<1>2. d \div n \in Nat /\ d % n \in 0..(n - 1)
  OBVIOUS
<1> QED BY <1>1, <1>2

LEMMA Remainder ==
    ASSUME NEW n \in Nat \ {0}, NEW q \in Nat, NEW r \in 0..(n - 1)
    PROVE  (n * q + r) % n = r
  BY Z3T(30)

\* Among n days in a row there is one for every remainder.
LEMMA EveryRemainder ==
    ASSUME NEW n \in Nat, n > 0, NEW d \in Nat, d >= n, NEW f \in 0..(n - 1)
    PROVE  \E k \in 0..(n - 1) : (d - k) % n = f
<1> DEFINE q == d \div n
           r == d % n
<1>1. q \in Nat /\ r \in 0..(n - 1) /\ d = n * q + r
  BY Division
<1> HIDE DEF q, r
<1>2. CASE r >= f
  <2>1. r - f \in 0..(n - 1) /\ d - (r - f) = n * q + f
    BY <1>1, <1>2
  <2>2. (n * q + f) % n = f
    BY <1>1, Remainder
  <2> QED BY <2>1, <2>2
<1>3. CASE r < f
  <2>1. q # 0
    BY <1>1
  <2>2. q - 1 \in Nat
    BY <1>1, <2>1
  <2>3. n * q = n * (q - 1) + n
    BY <1>1
  <2>4. n * (q - 1) \in Nat
    BY <2>2
  <2>5. r - f + n \in 0..(n - 1) /\ d - (r - f + n) = n * (q - 1) + f
    BY <1>1, <1>3, <2>3, <2>4
  <2>6. (n * (q - 1) + f) % n = f
    BY <2>2, Remainder
  <2> QED BY <2>5, <2>6
<1> QED BY <1>1, <1>2, <1>3

ScTypeOK ==
    /\ scConf.folders \in 1..MaxFolders /\ scConf.delay \in Nat
    /\ scCounter \in Nat
    /\ scDay \in [day : Nat, days : MonthLengths] /\ scDay.day \in 1..scDay.days
    /\ scSince \in [Folder -> Nat]

\* What the scan of today is about.
ScTarget == IF scConf.one THEN Selected(scDay.day) ELSE Folder

ScScanOK ==
    /\ scCounter <= scConf.delay => scLeft = {} /\ scChecked = {}
    /\ scCounter > scConf.delay => scChecked \union scLeft = ScTarget

\* The days a folder has waited for were not its own; and none of those before this month
\* were many.
ScDaysOK ==
    \A f \in Folder :
       /\ \A j \in 1..(scDay.day - 1) : j <= scSince[f] => (scDay.day - j) % scConf.folders # f
       /\ scSince[f] <= scConf.folders + scDay.day - 2

ScInv == ScTypeOK /\ (scConf.delay >= StartCount => ScScanOK /\ ScDaysOK)

LEMMA ScMonths ==
    ASSUME NEW m \in MonthLengths PROVE m \in Nat /\ m >= 2 * MaxFolders /\ MaxFolders \in Nat \ {0}
  BY ScanAssumption

LEMMA ScInitInv == ScInit => ScInv
<1> SUFFICES ASSUME ScInit PROVE ScInv
  OBVIOUS
<1>1. PICK n \in 1..MaxFolders :
         scConf \in [folders : {n}, delay : Delays, one : BOOLEAN, shown : SUBSET (0..(n - 1))]
  BY DEF ScInit
<1>2. scConf.folders \in 1..MaxFolders /\ scConf.delay \in Nat
  BY <1>1, ScanAssumption
<1>3. /\ scDay \in [day : {1}, days : MonthLengths] /\ scCounter = StartCount
      /\ scSince = [f \in Folder |-> 0] /\ scLeft = {} /\ scChecked = {}
  BY DEF ScInit
<1>4. scDay.day = 1 /\ scDay.days \in Nat /\ scDay.days >= 1
  <2>1. scDay.day = 1 /\ scDay.days \in MonthLengths
    BY <1>3
  <2> QED BY <2>1, ScMonths
<1>5. ScTypeOK
  BY <1>2, <1>3, <1>4, ScanAssumption DEF ScTypeOK
<1>6. scConf.delay >= StartCount => ScScanOK
  BY <1>2, <1>3, ScanAssumption DEF ScScanOK
<1>7. ScDaysOK
  BY <1>2, <1>3, <1>4, ScanAssumption DEF ScDaysOK
<1> QED BY <1>5, <1>6, <1>7 DEF ScInv

\* A minute passes, a folder is looked through.
LEMMA ScScanInv == ASSUME ScInv, Tick \/ processDeviceFolder PROVE ScInv'
<1>1. UNCHANGED <<scConf, scDay, scSince>> /\ scCounter' \in Nat
  BY DEF Tick, processDeviceFolder, ScInv, ScTypeOK
<1>2. ScTypeOK'
  BY <1>1 DEF ScInv, ScTypeOK, Folder
<1>3. ScDaysOK => ScDaysOK'
  BY <1>1 DEF ScDaysOK, Folder
<1>4. ScTarget' = ScTarget
  BY <1>1 DEF ScTarget, Selected, Folder
<1>5. ASSUME ScScanOK, Tick PROVE ScScanOK'
  <2>1. /\ scLeft = {} /\ scCounter' = scCounter + 1 /\ scChecked' = scChecked
        /\ scLeft' = IF scCounter # scConf.delay THEN {} ELSE ScTarget
    BY <1>5 DEF Tick, ScTarget
  <2>2. scCounter \in Nat /\ scConf.delay \in Nat
    BY DEF ScInv, ScTypeOK
  <2>3. CASE scCounter < scConf.delay
    BY <1>1, <1>5, <2>1, <2>2, <2>3 DEF ScScanOK
  <2>4. CASE scCounter = scConf.delay
    BY <1>1, <1>4, <1>5, <2>1, <2>2, <2>4 DEF ScScanOK
  <2>5. CASE scCounter > scConf.delay
    BY <1>1, <1>4, <1>5, <2>1, <2>2, <2>5 DEF ScScanOK
  <2> QED BY <2>2, <2>3, <2>4, <2>5
<1>6. ASSUME ScScanOK, processDeviceFolder PROVE ScScanOK'
  <2>1. PICK f \in scLeft : scLeft' = scLeft \ {f} /\ scChecked' = scChecked \union {f}
                            /\ scCounter' = scCounter
    BY <1>6 DEF processDeviceFolder
  <2> QED BY <1>1, <1>4, <1>6, <2>1 DEF ScScanOK
<1> QED BY <1>1, <1>2, <1>3, <1>5, <1>6 DEF ScInv

\* Today's scan missed only folders whose day it is not.
LEMMA ScMissed ==
    ASSUME ScTypeOK, ScScanOK, NEW f \in Folder, Missed(f)
    PROVE  scDay.day % scConf.folders # f
<1>1. f \notin ScTarget
  BY DEF ScTypeOK, ScScanOK, Missed
<1> QED BY <1>1 DEF ScTarget, Selected

\* The count of a folder, at the end of a day: the days it stands for, and fewer of them
\* than there are folders once the month has had as many days.
LEMMA ScWaits ==
    ASSUME ScTypeOK, ScScanOK, ScDaysOK, NEW f \in Folder, NEW since \in Nat,
           since <= IF Missed(f) THEN scSince[f] + 1 ELSE 0
    PROVE  /\ \A j \in 0..(scDay.day - 1) : j < since => (scDay.day - j) % scConf.folders # f
           /\ since <= scConf.folders + scDay.day - 1
           /\ scDay.day >= scConf.folders => since <= scConf.folders - 1
<1>1. /\ scDay.day \in Nat /\ scConf.folders \in Nat /\ scConf.folders > 0 /\ scSince[f] \in Nat
      /\ scDay.day > 0 /\ f \in 0..(scConf.folders - 1)
  BY DEF ScTypeOK, Folder
<1>2. ASSUME NEW j \in 0..(scDay.day - 1), j < since
      PROVE  (scDay.day - j) % scConf.folders # f
  <2>1. Missed(f) /\ j <= scSince[f]
    BY <1>1, <1>2
  <2>2. CASE j = 0
    BY <1>1, <2>1, <2>2, ScMissed
  <2>3. CASE j # 0
    <3>1. j \in 1..(scDay.day - 1)
      BY <1>1, <2>3
    <3> QED BY <2>1, <3>1 DEF ScDaysOK
  <2> QED BY <2>2, <2>3
<1>3. since <= scConf.folders + scDay.day - 1
  <2>1. scSince[f] <= scConf.folders + scDay.day - 2
    BY DEF ScDaysOK
  <2>2. CASE Missed(f)
    BY <1>1, <2>1, <2>2
  <2>3. CASE ~Missed(f)
    BY <1>1, <2>3
  <2> QED BY <2>2, <2>3
<1>4. ASSUME scDay.day >= scConf.folders PROVE since <= scConf.folders - 1
  <2>1. PICK k \in 0..(scConf.folders - 1) : (scDay.day - k) % scConf.folders = f
    BY <1>1, <1>4, EveryRemainder
  <2>2. k \in 0..(scDay.day - 1)
    BY <1>1, <1>4
  <2>3. ~(k < since)
    BY <1>2, <2>1, <2>2
  <2> QED BY <1>1, <2>2, <2>3
<1> QED BY <1>2, <1>3, <1>4

LEMMA ScRestartInv == ASSUME ScInv, ScRestart PROVE ScInv'
<1>1. /\ scCounter' = StartCount /\ scLeft' = {} /\ scChecked' = {} /\ scConf' = scConf
  BY DEF ScRestart
<1>2. /\ scConf.folders \in 1..MaxFolders /\ scConf.delay \in Nat /\ MaxFolders \in Nat
      /\ scDay \in [day : Nat, days : MonthLengths] /\ scDay.day \in 1..scDay.days
      /\ scDay.days \in Nat /\ scDay.days >= 2 * MaxFolders
      /\ scSince \in [Folder -> Nat] /\ Folder' = Folder
  <2>1. scDay.days \in MonthLengths
    BY DEF ScInv, ScTypeOK
  <2> QED BY <1>1, <2>1, ScMonths DEF ScInv, ScTypeOK, Folder
<1>3. scConf.delay >= StartCount => ScScanOK'
  BY <1>1, <1>2, ScanAssumption DEF ScScanOK
<1>4. CASE UNCHANGED <<scDay, scSince>>
  <2>1. ScTypeOK'
    BY <1>1, <1>2, <1>4, ScanAssumption DEF ScTypeOK
  <2>2. ScDaysOK => ScDaysOK'
    BY <1>1, <1>2, <1>4 DEF ScDaysOK
  <2> QED BY <1>1, <1>3, <2>1, <2>2 DEF ScInv
<1>5. ASSUME /\ IF scDay.day < scDay.days THEN scDay' = [scDay EXCEPT !.day = @ + 1]
                                         ELSE scDay' \in [day : {1}, days : MonthLengths]
             /\ scSince' = [f \in Folder |-> IF Missed(f) THEN Least(scSince[f] + 1, 2 * MaxFolders)
                                                         ELSE 0]
      PROVE  ScInv'
  <2>1. \A f \in Folder : scSince'[f] \in Nat
                          /\ scSince'[f] <= IF Missed(f) THEN scSince[f] + 1 ELSE 0
    <3> TAKE f \in Folder
    <3>1. scSince[f] \in Nat
      BY <1>2
    <3>2. CASE Missed(f)
      <4>1. scSince'[f] = Least(scSince[f] + 1, 2 * MaxFolders)
        BY <1>5, <3>2
      <4> QED BY <1>2, <3>1, <3>2, <4>1 DEF Least
    <3>3. CASE ~Missed(f)
      BY <1>5, <3>3
    <3> QED BY <3>2, <3>3
  <2>2. scSince' \in [Folder -> Nat]
    BY <1>5, <2>1
  <2>3. CASE scDay.day < scDay.days
    <3>1. scDay' = [scDay EXCEPT !.day = scDay.day + 1]
      BY <1>5, <2>3
    <3>2. /\ scDay'.day = scDay.day + 1 /\ scDay'.days = scDay.days
          /\ scDay' \in [day : Nat, days : MonthLengths]
      BY <1>2, <3>1
    <3>3. ScTypeOK'
      BY <1>1, <1>2, <2>2, <2>3, <3>2, ScanAssumption DEF ScTypeOK
    <3>4. ASSUME ScScanOK, ScDaysOK PROVE ScDaysOK'
      <4> SUFFICES ASSUME NEW f \in Folder
                   PROVE  /\ \A j \in 1..scDay.day : j <= scSince'[f] =>
                                (scDay.day + 1 - j) % scConf.folders # f
                          /\ scSince'[f] <= scConf.folders + (scDay.day + 1) - 2
        BY <1>1, <1>2, <3>2 DEF ScDaysOK
      <4>1. /\ \A j \in 0..(scDay.day - 1) : j < scSince'[f] =>
                  (scDay.day - j) % scConf.folders # f
            /\ scSince'[f] <= scConf.folders + scDay.day - 1
        BY <2>1, <3>4, ScWaits DEF ScInv
      <4>2. ASSUME NEW j \in 1..scDay.day, j <= scSince'[f]
            PROVE  (scDay.day + 1 - j) % scConf.folders # f
        <5>1. j - 1 \in 0..(scDay.day - 1) /\ j - 1 < scSince'[f]
              /\ scDay.day - (j - 1) = scDay.day + 1 - j
          BY <1>2, <2>1, <4>2
        <5> QED BY <4>1, <5>1
      <4>3. scSince'[f] <= scConf.folders + (scDay.day + 1) - 2
        BY <1>2, <2>1, <4>1
      <4> QED BY <4>2, <4>3
    <3> QED BY <1>1, <1>3, <3>3, <3>4 DEF ScInv
  <2>4. CASE ~(scDay.day < scDay.days)
    <3>1. scDay' \in [day : {1}, days : MonthLengths]
      BY <1>5, <2>4
    <3>2. scDay'.day = 1 /\ scDay'.days \in MonthLengths
      BY <3>1
    <3>3. scDay'.days \in Nat /\ scDay'.days >= 1
      BY <1>2, <3>2, ScMonths
    <3>4. ScTypeOK'
      BY <1>1, <1>2, <2>2, <3>1, <3>2, <3>3, ScanAssumption DEF ScTypeOK
    <3>5. scDay.day >= scConf.folders
      BY <1>2, <2>4
    <3>6. ASSUME ScScanOK, ScDaysOK PROVE ScDaysOK'
      <4>1. \A f \in Folder : scSince'[f] <= scConf.folders - 1
        BY <2>1, <3>5, <3>6, ScWaits DEF ScInv
      <4>2. 1..(1 - 1) = {} /\ scConf.folders + 1 - 2 = scConf.folders - 1
        BY <1>2
      <4> QED BY <1>1, <1>2, <3>2, <4>1, <4>2 DEF ScDaysOK
    <3> QED BY <1>1, <1>3, <3>4, <3>6 DEF ScInv
  <2> QED BY <2>3, <2>4
<1> QED BY <1>4, <1>5 DEF ScRestart

LEMMA ScNextInv == ScInv /\ [ScNext]_scVars => ScInv'
<1> SUFFICES ASSUME ScInv, [ScNext]_scVars PROVE ScInv'
  OBVIOUS
<1>1. CASE UNCHANGED scVars
  <2>1. ScTypeOK' /\ (ScDaysOK => ScDaysOK')
    BY <1>1 DEF scVars, ScInv, ScTypeOK, ScDaysOK, Folder
  <2>2. ScScanOK => ScScanOK'
    BY <1>1 DEF scVars, ScScanOK, ScTarget, Selected, Folder
  <2> QED BY <1>1, <2>1, <2>2 DEF scVars, ScInv
<1> QED BY <1>1, ScScanInv, ScRestartInv DEF ScNext

\* No folder waits for twice as many days as there are folders, for any number of folders
\* up to half the days of the shortest month (14 with a February of 28 days: ScanAssumption),
\* any delay that is met and months of any lengths from there on.
THEOREM FoldersHaveTheirDays == ScSpec => []EveryFolderHasItsDay
<1>1. ScInv => EveryFolderHasItsDay
  <2> SUFFICES ASSUME ScInv, scConf.delay >= StartCount, NEW f \in Folder
               PROVE  scSince[f] < 2 * scConf.folders
    BY DEF EveryFolderHasItsDay
  <2>1. /\ scDay.day \in Nat /\ scConf.folders \in Nat /\ scConf.folders > 0
        /\ scSince[f] \in Nat /\ scDay.day > 0 /\ f \in 0..(scConf.folders - 1)
    BY DEF ScInv, ScTypeOK, Folder
  <2>2. /\ \A j \in 1..(scDay.day - 1) : j <= scSince[f] => (scDay.day - j) % scConf.folders # f
        /\ scSince[f] <= scConf.folders + scDay.day - 2
    BY DEF ScInv, ScDaysOK
  <2>3. CASE scDay.day <= scConf.folders
    BY <2>1, <2>2, <2>3
  <2>4. CASE scDay.day > scConf.folders
    <3>1. scDay.day - 1 \in Nat /\ scDay.day - 1 >= scConf.folders
      BY <2>1, <2>4
    <3>2. PICK k \in 0..(scConf.folders - 1) : (scDay.day - 1 - k) % scConf.folders = f
      BY <2>1, <3>1, EveryRemainder
    <3>3. /\ k + 1 \in 1..(scDay.day - 1) /\ scDay.day - (k + 1) = scDay.day - 1 - k
      BY <2>1, <3>1
    <3>4. ~(k + 1 <= scSince[f])
      BY <2>2, <3>2, <3>3
    <3> QED BY <2>1, <3>2, <3>4
  <2> QED BY <2>1, <2>3, <2>4
<1> QED BY <1>1, ScInitInv, ScNextInv, PTL DEF ScSpec

-----------------------------------------------------------------------------
(* DeviceUpdate *)

DuEvent == [kind : {"READY_TO_DOWNLOAD", "DOWNLOAD_STATUS", "LOAD_STATUS", "ERROR"}, id : Nat,
            value : Nat]
DuSession == [device : Device, told : BOOLEAN, percent : Nat, loaded : BOOLEAN,
              error : BOOLEAN]

DuPc == {"idle", "accepted", "ready", "half", "full", "failed", "loading", "loaded"}
DuProxy == [pc : DuPc, id : Nat, told : BOOLEAN]

DuTypeOK ==
    /\ duConf \in [download : BOOLEAN, load : BOOLEAN] /\ duLoaded \in BOOLEAN
    /\ duNext \in Nat /\ duStarts \in Nat
    /\ duUpdates \in Seq(DuSession)
    /\ duEvents \in Seq(DuEvent)
    /\ duProxy \in [Device -> DuProxy]

\* In the first life of the manager every number in use is that of a session, and the
\* proxies that were told that the user decides were told so by what the configuration says.
DuLifeOK ==
    FirstLife =>
       /\ duNext = Len(duUpdates) + 1
       /\ \A id \in DOMAIN duUpdates : duUpdates[id].told => interactiveDownload
       /\ \A i \in DOMAIN duEvents : duEvents[i].id \in DOMAIN duUpdates
       /\ \A d \in Device : duProxy[d].pc # "idle" => duProxy[d].id \in DOMAIN duUpdates
       /\ \A e \in duSent : e.id \in DOMAIN duUpdates

DuInv == DuTypeOK /\ DuLifeOK /\ UiDecides

LEMMA DuInitInv == DuInit => DuInv
<1> SUFFICES ASSUME DuInit PROVE DuInv
  OBVIOUS
<1>1. DuTypeOK
  <2>1. NoProxy \in DuProxy
    BY DEF NoProxy, DuProxy, DuPc
  <2>2. <<>> \in Seq(DuSession) /\ <<>> \in Seq(DuEvent)
    OBVIOUS
  <2>3. duProxy \in [Device -> DuProxy]
    BY <2>1 DEF DuInit
  <2>4. duConf \in [download : BOOLEAN, load : BOOLEAN]
    BY DEF DuInit
  <2> QED BY <2>2, <2>3, <2>4 DEF DuInit, DuTypeOK
<1>2. DuLifeOK /\ UiDecides
  BY DEF DuInit, DuLifeOK, UiDecides, NoProxy
<1> QED BY <1>1, <1>2 DEF DuInv

\* The configuration is read; the manager starts again, and its second life begins.
LEMMA DuProcessInv == DuInv /\ (loadConfig \/ DuRestart) => DuInv'
<1>1. ASSUME DuInv, loadConfig PROVE DuInv'
    BY <1>1 DEF DuInv, DuTypeOK, DuLifeOK, UiDecides, FirstLife, interactiveDownload,
     loadConfig
<1>2. ASSUME DuInv, DuRestart PROVE DuInv'
  <2>1. duStarts' \in Nat /\ duStarts' # 0
    BY <1>2 DEF DuInv, DuTypeOK, DuRestart
  <2>2. DuTypeOK'
    <3>1. <<>> \in Seq(DuSession) /\ <<>> \in Seq(DuEvent)
      OBVIOUS
    <3> QED BY <1>2, <2>1, <3>1 DEF DuInv, DuTypeOK, DuRestart
  <2> QED BY <2>1, <2>2 DEF DuInv, DuLifeOK, UiDecides, FirstLife
<1> QED BY <1>1, <1>2

\* A new session is told what the configuration says as far as it is read.
LEMMA DuAcceptInv == ASSUME DuInv, NEW d \in Device, AcceptUpdate(d) PROVE DuInv'
<1> DEFINE new == [device |-> d, told |-> interactiveDownload, percent |-> 0,
                   loaded |-> FALSE, error |-> FALSE]
<1>1. interactiveDownload \in BOOLEAN /\ UNCHANGED interactiveDownload
  BY DEF interactiveDownload, DuInv, DuTypeOK, AcceptUpdate
<1>2. new \in DuSession
  BY <1>1 DEF DuSession
<1>3. /\ duUpdates' = Append(duUpdates, new) /\ duNext' = duNext + 1
      /\ duProxy' = [duProxy EXCEPT ![d] = [pc |-> "accepted", id |-> duNext,
                                            told |-> interactiveDownload]]
      /\ UNCHANGED <<duConf, duLoaded, duEvents, duStarts, duSent>>
  BY DEF AcceptUpdate
<1>4. DuTypeOK'
  <2>1. duUpdates' \in Seq(DuSession)
    BY <1>2, <1>3 DEF DuInv, DuTypeOK
  <2>2. duProxy' \in [Device -> DuProxy]
    BY <1>1, <1>3 DEF DuInv, DuTypeOK, DuProxy, DuPc
  <2> QED BY <1>3, <2>1, <2>2 DEF DuInv, DuTypeOK
<1>5. ASSUME FirstLife PROVE DuLifeOK' /\ UiDecides'
  <2>1. /\ duNext = Len(duUpdates) + 1
        /\ \A id \in DOMAIN duUpdates : duUpdates[id].told => interactiveDownload
        /\ \A i \in DOMAIN duEvents : duEvents[i].id \in DOMAIN duUpdates
        /\ \A p \in Device : duProxy[p].pc # "idle" => duProxy[p].id \in DOMAIN duUpdates
        /\ \A e \in duSent : e.id \in DOMAIN duUpdates
        /\ \A e \in duSent : e.kind = "DOWNLOAD_INITIATE" => ~duUpdates[e.id].told
    BY <1>5 DEF DuInv, DuLifeOK, UiDecides
  <2> HIDE DEF new
  <2>2. /\ DOMAIN duUpdates' = 1..duNext /\ DOMAIN duUpdates = 1..(duNext - 1)
        /\ Len(duUpdates') = duNext
        /\ duUpdates'[duNext] = new
        /\ \A id \in DOMAIN duUpdates : duUpdates'[id] = duUpdates[id]
    BY <1>2, <1>3, <2>1 DEF DuInv, DuTypeOK
  <2>3. duNext \in 1..duNext /\ duNext \in Nat
    BY <2>1 DEF DuInv, DuTypeOK
  <2>4. DOMAIN duUpdates \subseteq DOMAIN duUpdates'
    BY <2>2, <2>3
  <2>5. \A id \in DOMAIN duUpdates' : duUpdates'[id].told => interactiveDownload'
    <3>1. new.told = interactiveDownload
      BY DEF new
    <3>2. \A id \in DOMAIN duUpdates' : id = duNext \/ id \in DOMAIN duUpdates
      BY <2>2, <2>3
    <3> QED BY <1>1, <2>1, <2>2, <3>1, <3>2
  <2>6. \A p \in Device : duProxy'[p].pc # "idle" => duProxy'[p].id \in DOMAIN duUpdates'
    <3>1. \A p \in Device : p # d => duProxy'[p] = duProxy[p]
      BY <1>3 DEF DuInv, DuTypeOK, DuProxy
    <3>2. duProxy'[d].id = duNext
      BY <1>3 DEF DuInv, DuTypeOK, DuProxy
    <3> QED BY <2>1, <2>2, <2>3, <2>4, <3>1, <3>2
  <2>7. DuLifeOK'
    <3>1. duNext' = Len(duUpdates') + 1
      BY <1>3, <2>2
    <3> QED BY <1>3, <2>1, <2>4, <2>5, <2>6, <3>1 DEF DuLifeOK
  <2>8. UiDecides'
    BY <1>3, <2>1, <2>2 DEF UiDecides
  <2> QED BY <2>7, <2>8
<1>6. ASSUME ~FirstLife PROVE DuLifeOK' /\ UiDecides'
  BY <1>3, <1>6 DEF DuLifeOK, UiDecides, FirstLife
<1> QED BY <1>4, <1>5, <1>6 DEF DuInv

\* What every handler of an event does.
LEMMA DuHandled ==
    ASSUME DuInv, NEW kind, NEW id, Handle(kind, id)
    PROVE  /\ duEvents' \in Seq(DuEvent) /\ duEvents # <<>>
           /\ \A i \in DOMAIN duEvents' : \E j \in DOMAIN duEvents : duEvents'[i] = duEvents[j]
           /\ Head(duEvents).value \in Nat
           /\ FirstLife => id \in DOMAIN duUpdates
           /\ UNCHANGED <<duConf, duLoaded, duNext, duProxy, duStarts>>
<1>1. duEvents \in Seq(DuEvent) /\ duEvents # <<>> /\ duEvents' = Tail(duEvents)
  BY DEF DuInv, DuTypeOK, Handle
<1>2. /\ 1 \in DOMAIN duEvents /\ Head(duEvents) = duEvents[1] /\ Head(duEvents) \in DuEvent
      /\ Head(duEvents).id = id
  BY <1>1 DEF Handle
<1>3. \A i \in DOMAIN duEvents' : i + 1 \in DOMAIN duEvents /\ duEvents'[i] = duEvents[i + 1]
  BY <1>1
<1>4. Head(duEvents).value \in Nat
  BY <1>2 DEF DuEvent
<1>5. FirstLife => id \in DOMAIN duUpdates
  BY <1>2 DEF DuInv, DuLifeOK
<1> QED BY <1>1, <1>3, <1>4, <1>5 DEF Handle

\* Handlers that change a session leave alone who decides about it.
LEMMA DuChangesInv ==
    ASSUME DuInv, NEW id, id \in DOMAIN duUpdates,
           HandleStatus(id) \/ HandleLoad(id) \/ HandleError(id)
    PROVE  DuInv'
<1>1. PICK kind : Handle(kind, id)
  BY DEF HandleStatus, HandleLoad, HandleError
<1>2. /\ duEvents' \in Seq(DuEvent)
      /\ \A i \in DOMAIN duEvents' : \E j \in DOMAIN duEvents : duEvents'[i] = duEvents[j]
      /\ Head(duEvents).value \in Nat
      /\ UNCHANGED <<duConf, duLoaded, duNext, duProxy, duStarts>>
  BY <1>1, DuHandled
<1>3. /\ duUpdates \in Seq(DuSession)
      /\ duUpdates[id] \in DuSession
  BY ElementOfSeq DEF DuInv, DuTypeOK
<1>4. \E s \in DuSession : s.told = duUpdates[id].told
                           /\ duUpdates' = [duUpdates EXCEPT ![id] = s]
  <2>1. CASE HandleStatus(id)
    <3> DEFINE s == [duUpdates[id] EXCEPT !.percent = Head(duEvents).value]
    <3>1. s \in DuSession /\ s.told = duUpdates[id].told
      BY <1>2, <1>3 DEF DuSession
    <3>2. duUpdates' = [duUpdates EXCEPT ![id] = s]
      BY <2>1 DEF HandleStatus
    <3> QED BY <3>1, <3>2
  <2>2. CASE HandleLoad(id)
    <3> DEFINE s == [duUpdates[id] EXCEPT !.loaded = (Head(duEvents).value = 1)]
    <3>1. s \in DuSession /\ s.told = duUpdates[id].told
      BY <1>2, <1>3 DEF DuSession
    <3>2. duUpdates' = [duUpdates EXCEPT ![id] = s]
      BY <2>2 DEF HandleLoad
    <3> QED BY <3>1, <3>2
  <2>3. CASE HandleError(id)
    <3> DEFINE s == [duUpdates[id] EXCEPT !.error = TRUE]
    <3>1. s \in DuSession /\ s.told = duUpdates[id].told
      BY <1>2, <1>3 DEF DuSession
    <3>2. duUpdates' = [duUpdates EXCEPT ![id] = s]
      BY <2>3 DEF HandleError
    <3> QED BY <3>1, <3>2
  <2> QED BY <2>1, <2>2, <2>3
<1>5. /\ duUpdates' \in Seq(DuSession)
      /\ DOMAIN duUpdates' = DOMAIN duUpdates /\ Len(duUpdates') = Len(duUpdates)
      /\ \A i \in DOMAIN duUpdates : duUpdates'[i].told = duUpdates[i].told
  BY <1>3, <1>4
<1>6. /\ duSent \subseteq duSent'
      /\ \A e \in duSent' : e \in duSent \/ (e.kind = "LOAD_INITIATE" /\ e.id = id)
  BY DEF HandleStatus, HandleLoad, HandleError, SendLoadInit, Send
<1>7. DuTypeOK'
  BY <1>2, <1>5 DEF DuInv, DuTypeOK
<1>8. DuLifeOK'
  BY <1>2, <1>5, <1>6 DEF DuInv, DuLifeOK, FirstLife, interactiveDownload
<1>9. UiDecides'
  <2> SUFFICES ASSUME FirstLife', NEW e \in duSent', e.kind = "DOWNLOAD_INITIATE"
               PROVE  ~duUpdates'[e.id].told
    BY DEF UiDecides
  <2>1. FirstLife /\ e \in duSent
    BY <1>2, <1>6 DEF FirstLife
  <2> QED BY <1>5, <2>1 DEF DuInv, DuLifeOK, UiDecides
<1> QED BY <1>7, <1>8, <1>9 DEF DuInv

\* The manager starts a download only if no session is told that the user does.
LEMMA DuReadyInv == ASSUME DuInv, NEW id, HandleReady(id) PROVE DuInv'
<1>1. Handle("READY_TO_DOWNLOAD", id) /\ UNCHANGED duUpdates
  BY DEF HandleReady
<1>2. /\ duEvents' \in Seq(DuEvent)
      /\ \A i \in DOMAIN duEvents' : \E j \in DOMAIN duEvents : duEvents'[i] = duEvents[j]
      /\ FirstLife => id \in DOMAIN duUpdates
      /\ UNCHANGED <<duConf, duLoaded, duNext, duProxy, duStarts>>
  BY <1>1, DuHandled
<1>3. \/ UNCHANGED duSent
      \/ ~interactiveDownload /\ duSent' = duSent \union {[kind |-> "DOWNLOAD_INITIATE", id |-> id]}
  BY DEF HandleReady, Send
<1>4. \A e \in duSent' : e \in duSent \/ (~interactiveDownload /\ e.id = id)
  BY <1>3
<1>5. DuTypeOK' /\ DuLifeOK'
  BY <1>1, <1>2, <1>4 DEF DuInv, DuTypeOK, DuLifeOK, FirstLife, interactiveDownload
<1>6. UiDecides'
  <2> SUFFICES ASSUME FirstLife', NEW e \in duSent', e.kind = "DOWNLOAD_INITIATE"
               PROVE  ~duUpdates'[e.id].told
    BY DEF UiDecides
  <2>1. FirstLife /\ UNCHANGED duUpdates
    BY <1>1, <1>2 DEF FirstLife
  <2>2. CASE e \in duSent
    BY <2>1, <2>2 DEF DuInv, UiDecides
  <2>3. CASE ~interactiveDownload /\ e.id = id
    BY <1>2, <2>1, <2>3 DEF DuInv, DuLifeOK
  <2> QED BY <1>4, <2>2, <2>3
<1> QED BY <1>5, <1>6 DEF DuInv

\* An event of no session, which the first life has none of.
LEMMA DuUnknownInv == ASSUME DuInv, NEW id, HandleUnknown(id) PROVE DuInv'
<1>1. PICK kind : Handle(kind, id)
  BY DEF HandleUnknown
<1>2. /\ duEvents' \in Seq(DuEvent)
      /\ \A i \in DOMAIN duEvents' : \E j \in DOMAIN duEvents : duEvents'[i] = duEvents[j]
      /\ UNCHANGED <<duConf, duLoaded, duNext, duProxy, duStarts>>
  BY <1>1, DuHandled
<1>3. UNCHANGED <<duUpdates, duSent>>
  BY DEF HandleUnknown
<1> QED BY <1>2, <1>3 DEF DuInv, DuTypeOK, DuLifeOK, UiDecides, FirstLife,
   interactiveDownload

\* The proxies and the user.
LEMMA DuProxyInv ==
    ASSUME DuInv, NEW d \in Device, Proxy(d) \/ ProxyAgain(d) \/ UserStarts(d)
    PROVE  DuInv'
<1> USE DEF DuInv, DuTypeOK, DuLifeOK, UiDecides, FirstLife, interactiveDownload
<1>1. CASE Proxy(d)
  <2>1. PICK to \in DuPc, value \in Nat,
             kind \in {"READY_TO_DOWNLOAD", "DOWNLOAD_STATUS", "LOAD_STATUS", "ERROR"} :
               ProxySends(d, to, kind, value) /\ duProxy[d].pc # "idle"
    <3> USE DEF Proxy, DuPc
    <3>1. CASE duProxy[d].pc = "accepted" /\ ProxySends(d, "ready", "READY_TO_DOWNLOAD", 0)
      BY <3>1
    <3>2. CASE duProxy[d].pc = "ready" /\ ProxySends(d, "half", "DOWNLOAD_STATUS", 50)
      BY <3>2
    <3>3. CASE duProxy[d].pc = "half" /\ ProxySends(d, "full", "DOWNLOAD_STATUS", 100)
      BY <3>3
    <3>4. CASE duProxy[d].pc = "half" /\ ProxySends(d, "failed", "ERROR", 0)
      BY <3>4
    <3>5. CASE duProxy[d].pc = "full" /\ ProxySends(d, "loading", "LOAD_STATUS", 0)
      BY <3>5
    <3>6. CASE duProxy[d].pc = "loading" /\ ProxySends(d, "loaded", "LOAD_STATUS", 1)
      BY <3>6
    <3> QED BY <1>1, <3>1, <3>2, <3>3, <3>4, <3>5, <3>6
  <2> DEFINE e == [kind |-> kind, id |-> duProxy[d].id, value |-> value]
  <2>2. /\ duEvents' = Append(duEvents, e)
        /\ duProxy' = [duProxy EXCEPT ![d].pc = to]
        /\ UNCHANGED <<duConf, duLoaded, duNext, duUpdates, duStarts, duSent>>
    BY <2>1 DEF ProxySends
  <2>3. e \in DuEvent /\ e.id = duProxy[d].id
    <3>1. duProxy[d].id \in Nat
      BY DEF DuProxy
    <3> QED BY <3>1 DEF DuEvent
  <2>4. /\ duProxy' \in [Device -> DuProxy]
        /\ \A p \in Device : duProxy'[p].id = duProxy[p].id
        /\ \A p \in Device : p # d => duProxy'[p] = duProxy[p]
    BY <2>2 DEF DuProxy
  <2> HIDE DEF e
  <2>5. /\ duEvents' \in Seq(DuEvent)
        /\ \A i \in DOMAIN duEvents' : duEvents'[i] = e \/ \E j \in DOMAIN duEvents :
                                                              duEvents'[i] = duEvents[j]
    <3>1. Len(duEvents') = Len(duEvents) + 1
      BY <2>2, <2>3
    <3>2. \A i \in DOMAIN duEvents' : i = Len(duEvents) + 1 \/ i \in DOMAIN duEvents
      BY <2>2, <2>3, <3>1
    <3> QED BY <2>2, <2>3, <3>2
  <2>6. DuTypeOK'
    BY <2>2, <2>4, <2>5
  <2>7. DuLifeOK'
    <3> SUFFICES ASSUME FirstLife' PROVE DuLifeOK'
      OBVIOUS
    <3>1. duProxy[d].id \in DOMAIN duUpdates /\ FirstLife
      BY <2>1, <2>2
    <3>2. \A i \in DOMAIN duEvents' : duEvents'[i].id \in DOMAIN duUpdates
      BY <2>3, <2>5, <3>1
    <3>3. \A p \in Device : duProxy'[p].pc # "idle" => duProxy'[p].id \in DOMAIN duUpdates
      BY <2>4, <3>1
    <3> QED BY <2>2, <3>1, <3>2, <3>3
  <2>8. UiDecides'
    BY <2>2
  <2> QED BY <2>6, <2>7, <2>8
<1>2. CASE ProxyAgain(d)
  <2>1. NoProxy \in DuProxy /\ NoProxy.pc = "idle"
    BY DEF NoProxy, DuProxy, DuPc
  <2>2. duProxy' = [duProxy EXCEPT ![d] = NoProxy]
        /\ UNCHANGED <<duConf, duLoaded, duNext, duUpdates, duEvents, duStarts, duSent>>
    BY <1>2 DEF ProxyAgain
  <2>3. duProxy' \in [Device -> DuProxy]
        /\ \A p \in Device : duProxy'[p].pc # "idle" => duProxy'[p] = duProxy[p]
    BY <2>1, <2>2
  <2> QED BY <2>2, <2>3
<1>3. CASE UserStarts(d)
  BY <1>3 DEF UserStarts
<1> QED BY <1>1, <1>2, <1>3

LEMMA DuNextInv == DuInv /\ [DuNext]_duVars => DuInv'
<1> SUFFICES ASSUME DuInv, [DuNext]_duVars PROVE DuInv'
  OBVIOUS
<1>1. CASE UNCHANGED duVars
    BY <1>1 DEF duVars, DuInv, DuTypeOK, DuLifeOK, UiDecides, FirstLife,
     interactiveDownload
<1>2. CASE loadConfig \/ DuRestart
  BY <1>2, DuProcessInv
<1>3. CASE \E d \in Device : AcceptUpdate(d) \/ Proxy(d) \/ ProxyAgain(d) \/ UserStarts(d)
  BY <1>3, DuAcceptInv, DuProxyInv
<1>4. CASE \E id \in Id : HandleReady(id) \/ HandleStatus(id) \/ HandleLoad(id)
                          \/ HandleError(id) \/ HandleUnknown(id)
  <2>1. PICK id \in Id : HandleReady(id) \/ HandleStatus(id) \/ HandleLoad(id)
                          \/ HandleError(id) \/ HandleUnknown(id)
    BY <1>4
  <2>2. HandleStatus(id) \/ HandleLoad(id) \/ HandleError(id) => id \in DOMAIN duUpdates
    BY DEF HandleStatus, HandleLoad, HandleError, Known
  <2> QED BY <2>1, <2>2, DuReadyInv, DuChangesInv, DuUnknownInv
<1> QED BY <1>1, <1>2, <1>3, <1>4 DEF DuNext

\* In its first life the manager never starts the download of a proxy that was told that
\* the user decides, for any number of devices, sessions and events, and wherever in it
\* the configuration is read.
THEOREM UserDecides == DuSpec => []UiDecides
<1>1. DuInv => UiDecides
  BY DEF DuInv
<1> QED BY <1>1, DuInitInv, DuNextInv, PTL DEF DuSpec
===============================================================================
