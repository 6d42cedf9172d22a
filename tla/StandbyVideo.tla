---------------------------- MODULE StandbyVideo ----------------------------
(***************************************************************************)
(* How the display manager switches ports when the power state changes:    *)
(* dsmgr/dsMgrPwrEventListener.c, with the system mode change of dsMgr.c   *)
(* that shares the audio ports with it; no product traits (ux is null).    *)
(*                                                                         *)
(* Four threads meet: "main" starts the listener, "event" handles mode     *)
(* changes and the tuner's first readiness, "rpc" the calls, and "resn"    *)
(* sets the audio modes after a hot plug.  No lock is taken (dsLock is     *)
(* never used).  Switching one video port is a step, since it is a call to *)
(* the HAL that blocks; the audio ports, all treated alike, are one step.  *)
(* Looking at isEAS and setting the modes are two.                         *)
(***************************************************************************)
EXTENDS Naturals, SequencesExt

CONSTANTS
    VideoPorts,     \* the host's video ports, a sequence of names
    UnknownNames,   \* names a caller may use that are no video port
    MaxSlots,       \* MAX_NUM_VIDEO_PORTS: entries of the table of settings
    AudioPersist,   \* what the store says of each audio port: is it enabled?
    PassThru,       \* audio ports whose stored mode is passthrough
    Disconnected,   \* audio ports that have a display, which is not connected
    LedInLowPower,  \* FP_POWER_LED_ON_IN_LOW_POWER_MODE is defined
    MayThrow,       \* enabling or disabling a video port may throw
    MayLoseRead,    \* the power manager may not answer at start-up
    BootStates,     \* the power state at start-up
    AskedStates,    \* what SetAvPortState calls ask for
    EnabledValues,  \* what callers pass as isEnabled, an int
    MaxChanges,     \* bound: changes of the power state
    MaxCalls        \* bound: calls of the manager

States == {"ON", "OFF", "STANDBY"}
Ports == ToSet(VideoPorts)
Names == Ports \cup UnknownNames
AudioPorts == DOMAIN AudioPersist
Threads == {"main", "event", "rpc", "resn"}

ASSUME StandbyVideoAssumption ==
    /\ VideoPorts \in Seq(Ports) /\ IsInjective(VideoPorts) /\ VideoPorts # <<>>
    /\ UnknownNames \cap Ports = {}
    /\ MaxSlots \in Nat \ {0}
    /\ AudioPersist \in [AudioPorts -> BOOLEAN]
    /\ PassThru \subseteq AudioPorts /\ Disconnected \subseteq AudioPorts
    /\ {LedInLowPower, MayThrow, MayLoseRead} \subseteq BOOLEAN
    /\ BootStates \subseteq States /\ AskedStates \subseteq States
    /\ EnabledValues \subseteq Nat
    /\ MaxChanges \in Nat /\ MaxCalls \in Nat

VARIABLES
    power,          \* the power manager's state
    events,         \* MODECHANGED events on their way to the listener
    registered,     \* _PwrEventHandler is registered
    initStep,       \* the next step of initPwrEventListner
    curState,       \* the file's variable of that name
    setting,        \* g_standby_video_port_setting, the entries in use
    videoOn,        \* enabled video ports
    audioOn,        \* enabled audio ports
    led,            \* the power LED is lit
    isEAS,          \* the system mode is EAS
    tuned,          \* iTuneReady: the tuner has been ready
    stereo,         \* audio ports forced from passthrough to stereo
    pc,             \* what each thread does next, or "idle"
    target,         \* the state its call switches the ports for
    pos,            \* the video port it switches next
    call,           \* arguments of the SetStandbyVideoState call
    asked,          \* history: the state of the last switching of ports
    setSince,       \* history: ports set by SetStandbyVideoState since then
    lastSet,        \* history: what callers set last for each name
    disturbed,      \* history: another thread or an exception broke into it
    overridden,     \* history: a call, not the power state, chose ports or LED
    easRace,        \* history: the mode changed after a thread had looked at it to set the audio
    changes, calls  \* history: how many so far

hwVars == <<videoOn, audioOn, led, stereo>>
threadVars == <<pc, target, pos, call>>
envVars == <<power, events, changes>>
historyVars == <<asked, setSince, lastSet, disturbed, overridden, easRace>>
easVars == <<isEAS, tuned>>
vars == <<envVars, registered, initStep, curState, setting, hwVars, easVars,
          threadVars, historyVars, calls>>

Init ==
    /\ power \in BootStates
    /\ events = <<>>
    /\ registered = FALSE
    /\ initStep = 1
    /\ curState = "ON"              \* zero-initialised, never read before it is set
    /\ setting = <<>>
    /\ videoOn \in {{}, Ports}      \* as the boot loader left them
    /\ audioOn = {}
    /\ led = FALSE
    /\ isEAS = FALSE
    /\ tuned = FALSE
    /\ stereo = {}
    /\ pc = [t \in Threads |-> IF t = "main" THEN "init" ELSE "idle"]
    /\ target = [t \in Threads |-> "none"]
    /\ pos = [t \in Threads |-> 1]
    /\ call = [port |-> "none", isEnabled |-> 0]
    /\ asked = "none"
    /\ setSince = {}
    /\ lastSet = [n \in Names |-> "never"]
    /\ disturbed = FALSE
    /\ overridden = FALSE
    /\ easRace = FALSE
    /\ changes = 0
    /\ calls = 0

-----------------------------------------------------------------------------
(* The table of settings *)

\* The entry for a name, or 0.
Entry(name) == SelectInSeq(setting, LAMBDA e : e.port = name)

\* get_video_port_standby_setting: disabled by default.
Configured(name) == Entry(name) # 0 /\ setting[Entry(name)].isEnabled

\* Mutant (SettingsAreKept): the table is not searched for the name first.
Mut_SettingWith_Appends(name, enabled) ==
    IF Len(setting) < MaxSlots
      THEN Append(setting, [port |-> name, isEnabled |-> enabled])
      ELSE setting

\* What _SetStandbyVideoState makes of the table: it updates the entry, or adds
\* one, or has no room and drops the setting.
SettingWith(name, enabled) ==
    LET entry == [port |-> name, isEnabled |-> enabled]
    IN  IF Entry(name) # 0 THEN ReplaceAt(setting, Entry(name), entry)
        ELSE IF Len(setting) < MaxSlots THEN Append(setting, entry)
        ELSE setting

-----------------------------------------------------------------------------
(* _SetAVPortsPowerState, on any thread *)

LedFor(s) == s = "ON" \/ LedInLowPower

AtWork(t) == pc[t] # "idle"

\* A thread that switches ports, or start-up that has read the state it will switch them for.
Switches(t) == pc[t] \in {"video", "audio"} \/ (pc[t] = "init" /\ initStep = 3)

\* A thread starts to switch the ports for state s.
Begin(t, s) ==
    /\ pc' = [pc EXCEPT ![t] = "video"]
    /\ target' = [target EXCEPT ![t] = s]
    /\ pos' = [pos EXCEPT ![t] = 1]
    /\ asked' = s
    /\ setSince' = {}
    /\ disturbed' = (\/ \E u \in Threads \ {t} : Switches(u)
                     \/ t = "main" /\ disturbed)

\* Mutant (PortsAsAsked): in standby a port is switched off only if it has an
\* entry that says so.
Mut_PortAfter_NeedsEntry(s, p) ==
    CASE s = "ON"  -> videoOn \cup {p}
      [] s = "OFF" -> videoOn \ {p}
      [] OTHER     -> IF Entry(p) = 0 \/ Configured(p) THEN videoOn ELSE videoOn \ {p}

\* The enabled ports after port p has been switched for state s.  A port that is
\* to stay on in standby is left as it is.
PortAfter(s, p) ==
    CASE s = "ON"  -> videoOn \cup {p}
      [] s = "OFF" -> videoOn \ {p}
      [] OTHER     -> IF Configured(p) THEN videoOn ELSE videoOn \ {p}

SwitchVideo(t) ==
    /\ pc[t] = "video"
    /\ videoOn' = PortAfter(target[t], VideoPorts[pos[t]])
    /\ pos' = [pos EXCEPT ![t] = IF @ = Len(VideoPorts) THEN 1 ELSE @ + 1]
    /\ pc' = [pc EXCEPT ![t] = IF pos[t] = Len(VideoPorts) THEN "audio" ELSE @]
    /\ UNCHANGED <<envVars, registered, initStep, curState, setting, audioOn, led,
                   stereo, easVars, target, call, historyVars, calls>>

\* A port throws: the other video ports are skipped, and the audio ports too
\* if the box is being switched on.
VideoThrows(t) ==
    /\ MayThrow /\ pc[t] = "video"
    /\ pc' = [pc EXCEPT ![t] = IF target[t] = "ON" THEN "idle" ELSE "audio"]
    /\ pos' = [pos EXCEPT ![t] = 1]
    /\ disturbed' = TRUE
    /\ UNCHANGED <<envVars, registered, initStep, curState, setting, hwVars, easVars,
                   target, call, asked, setSince, lastSet, overridden, easRace,
                   calls>>

Persisted == {a \in AudioPorts : AudioPersist[a]}

\* The audio ports: off, or on as far as the store has them on; and stereo is
\* forced if an emergency message is being played.
SwitchAudio(t) ==
    /\ pc[t] = "audio"
    /\ audioOn' = IF target[t] = "ON" THEN audioOn \cup Persisted ELSE {}
    /\ pc' = [pc EXCEPT ![t] = IF target[t] = "ON" /\ isEAS THEN "stereo" ELSE "idle"]
    /\ UNCHANGED <<envVars, registered, initStep, curState, setting, videoOn, led,
                   stereo, easVars, target, pos, call, historyVars, calls>>

-----------------------------------------------------------------------------
(* initPwrEventListner *)

\* Mutant (PowerIsAsked): the state is read before the handler is registered.
Mut_InitSteps_ReadFirst == <<"read", "register", "apply">>

InitSteps == <<"register", "read", "apply">>

InitIs(step) == pc["main"] = "init" /\ InitSteps[initStep] = step

RegisterHandler ==
    /\ InitIs("register")
    /\ registered' = TRUE
    /\ initStep' = initStep + 1
    /\ UNCHANGED <<envVars, curState, setting, hwVars, easVars, threadVars,
                   historyVars, calls>>

\* The power manager is asked for its state; without an answer it is STANDBY.
ReadPowerState ==
    /\ InitIs("read")
    /\ \/ curState' = power /\ UNCHANGED overridden
       \/ MayLoseRead /\ curState' = "STANDBY" /\ overridden' = TRUE
    /\ initStep' = initStep + 1
    /\ UNCHANGED <<envVars, registered, setting, hwVars, easVars, threadVars,
                   asked, setSince, lastSet, disturbed, easRace, calls>>

ApplyPowerState ==
    /\ InitIs("apply")
    /\ led' = LedFor(curState)
    /\ Begin("main", curState)
    /\ UNCHANGED <<envVars, registered, initStep, curState, setting, videoOn, audioOn,
                   stereo, easVars, call, lastSet, overridden, easRace, calls>>

-----------------------------------------------------------------------------
(* Mode changes *)

\* The power manager changes its state and broadcasts MODECHANGED.
PowerChange(s) ==
    /\ changes < MaxChanges
    /\ s # power
    /\ power' = s
    /\ events' = IF registered THEN Append(events, s) ELSE events
    /\ changes' = changes + 1
    /\ UNCHANGED <<registered, initStep, curState, setting, hwVars, easVars,
                   threadVars, historyVars, calls>>

\* _PwrEventHandler.  Its own variable curState hides the one of the file.
PwrEvent ==
    /\ pc["event"] = "idle" /\ events # <<>>
    /\ events' = Tail(events)
    /\ led' = LedFor(Head(events))
    /\ Begin("event", Head(events))
    /\ overridden' = FALSE
    /\ UNCHANGED <<power, changes, registered, initStep, curState, setting, videoOn,
                   audioOn, stereo, easVars, call, lastSet, easRace, calls>>

-----------------------------------------------------------------------------
(* Calls *)

Called == pc["rpc"] = "idle" /\ calls < MaxCalls /\ calls' = calls + 1

\* _SetStandbyVideoState, the table.  Any value but 0 is stored as enabled.
SetStandbyVideoState(name, isEnabled) ==
    /\ registered /\ Called
    /\ setting' = SettingWith(name, isEnabled # 0)
    /\ lastSet' = [lastSet EXCEPT ![name] = IF isEnabled # 0 THEN "on" ELSE "off"]
    /\ setSince' = setSince \cup {name}
    /\ call' = [port |-> name, isEnabled |-> isEnabled]
    /\ pc' = [pc EXCEPT !["rpc"] = "setting"]
    /\ UNCHANGED <<envVars, registered, initStep, curState, hwVars, easVars, target,
                   pos, asked, disturbed, overridden, easRace>>

\* The port: an unknown one throws; only 1 enables it.
ApplySetting ==
    /\ pc["rpc"] = "setting"
    /\ videoOn' =
         IF call.port \notin Ports \/ curState \in {"ON", "OFF"} THEN videoOn
         ELSE IF call.isEnabled = 1 THEN videoOn \cup {call.port}
         ELSE videoOn \ {call.port}
    /\ setSince' = setSince \cup {call.port}
    /\ pc' = [pc EXCEPT !["rpc"] = "idle"]
    /\ UNCHANGED <<envVars, registered, initStep, curState, setting, audioOn, led,
                   stereo, easVars, target, pos, call, asked, lastSet, disturbed,
                   overridden, easRace, calls>>

SetAvPortState(s) ==
    /\ registered /\ Called
    /\ Begin("rpc", s)
    /\ overridden' = TRUE
    /\ UNCHANGED <<envVars, registered, initStep, curState, setting, hwVars, easVars,
                   call, lastSet, easRace>>

SetLEDState(s) ==
    /\ registered /\ Called
    /\ led' = LedFor(s)
    /\ overridden' = TRUE
    /\ UNCHANGED <<envVars, registered, initStep, curState, setting, videoOn, audioOn,
                   stereo, easVars, threadVars, asked, setSince, lastSet, disturbed,
                   easRace>>

-----------------------------------------------------------------------------
(* The audio modes *)

\* _SysModeChange to or from EAS, registered before the listener starts: the
\* audio modes are changed next.
SysModeChange ==
    /\ Called
    /\ isEAS' = ~isEAS
    /\ pc' = [pc EXCEPT !["rpc"] = IF isEAS THEN "restore" ELSE "stereo"]
    /\ easRace' = (easRace \/ \E t \in Threads : pc[t] \in {"forcing", "restoring"})
    /\ UNCHANGED <<envVars, registered, initStep, curState, setting, hwVars, tuned, target,
                   pos, call, asked, setSince, lastSet, disturbed, overridden>>

\* What a thread does to the audio modes, and to nothing else.
AudioStep(t, from, to) ==
    /\ pc[t] = from
    /\ pc' = [pc EXCEPT ![t] = to]
    /\ UNCHANGED <<envVars, registered, initStep, curState, setting, videoOn, audioOn,
                   led, isEAS, target, pos, call, historyVars>>

\* The tuner is ready for the first time: the bus's thread sets the stored modes.
TuneReady ==
    /\ ~tuned
    /\ tuned' = TRUE
    /\ AudioStep("event", "idle", "restore")
    /\ UNCHANGED <<stereo, calls>>

\* A display of another port is plugged in, or its thread, which starts last, hears of the
\* tuner.
HotPlug ==
    /\ tuned /\ pc["main"] = "idle"
    /\ calls < MaxCalls
    /\ calls' = calls + 1
    /\ AudioStep("resn", "idle", "restore")
    /\ UNCHANGED <<stereo, tuned>>

\* _setAudioMode looks whether a message is played, and sets the stored modes, except for
\* a port without its display.
_setAudioMode(t) ==
    /\ AudioStep(t, "restore", IF isEAS THEN "idle" ELSE "restoring")
    /\ UNCHANGED <<stereo, tuned, calls>>

RestoreAudioMode(t) ==
    /\ AudioStep(t, "restoring", "idle")
    /\ stereo' = stereo \cap Disconnected
    /\ UNCHANGED <<tuned, calls>>

\* Mutant (StereoOnlyInEas): stereo is forced without looking again at the mode.
Mut_setEASAudioMode_NoTest(t) ==
    /\ AudioStep(t, "stereo", "forcing")
    /\ UNCHANGED <<stereo, tuned, calls>>

\* _setEASAudioMode looks whether a message is still played; passthrough falls back to stereo.
_setEASAudioMode(t) ==
    /\ AudioStep(t, "stereo", IF isEAS THEN "forcing" ELSE "idle")
    /\ UNCHANGED <<stereo, tuned, calls>>

ForceStereo(t) ==
    /\ AudioStep(t, "forcing", "idle")
    /\ stereo' = PassThru
    /\ UNCHANGED <<tuned, calls>>

-----------------------------------------------------------------------------
Next ==
    \/ RegisterHandler
    \/ ReadPowerState
    \/ ApplyPowerState
    \/ \E t \in Threads : SwitchVideo(t)
    \/ \E t \in Threads : VideoThrows(t)
    \/ \E t \in Threads : SwitchAudio(t)
    \/ \E s \in States : PowerChange(s)
    \/ PwrEvent
    \/ \E name \in Names, isEnabled \in EnabledValues : SetStandbyVideoState(name, isEnabled)
    \/ ApplySetting
    \/ \E s \in AskedStates : SetAvPortState(s)
    \/ \E s \in AskedStates : SetLEDState(s)
    \/ SysModeChange
    \/ TuneReady
    \/ HotPlug
    \/ \E t \in Threads : _setAudioMode(t)
    \/ \E t \in Threads : RestoreAudioMode(t)
    \/ \E t \in Threads : _setEASAudioMode(t)
    \/ \E t \in Threads : ForceStereo(t)

Spec == Init /\ [][Next]_vars

-----------------------------------------------------------------------------
(* Properties *)

\* No thread is switching ports.
Quiet == \A t \in Threads : ~AtWork(t)

\* Whoever switched the ports last, if nothing broke into it they are as he
\* asked: all on and the audio ports as stored; or all off; or, in standby, on
\* only where configured and all audio off.  Ports a caller has set since then
\* are left out.
PortsAsAsked ==
    (Quiet /\ ~disturbed) =>
        CASE asked = "ON"  -> Ports \ setSince \subseteq videoOn /\ Persisted \subseteq audioOn
          [] asked = "OFF" -> videoOn \subseteq setSince /\ audioOn = {}
          [] OTHER -> /\ \A p \in videoOn \ setSince : Configured(p)
                      /\ audioOn = {}

\* A change of the power state is not missed while the manager starts: when all is done the
\* ports and the LED were last switched for the state the power manager is in, unless a call
\* chose otherwise.  Left out are switchings that broke into one another or threw; among
\* them is an event that is handled between the answer start-up gets and the moment it
\* begins to switch for it: there the older state wins, and the change is missed.
PowerIsAsked ==
    (Quiet /\ events = <<>> /\ ~disturbed /\ ~overridden) =>
        asked = power /\ led = LedFor(power)

\* What a caller sets for a name is what the next standby finds, also when the
\* table is full: every name keeps its own last value, and only names that came
\* when there was no room have none.
SettingsAreKept ==
    \A n \in Names :
        /\ Entry(n) # 0 => lastSet[n] = (IF Configured(n) THEN "on" ELSE "off")
        /\ (Entry(n) = 0 /\ lastSet[n] # "never") => Len(setting) = MaxSlots

\* Passthrough is replaced by stereo during an emergency message and only then, whether the
\* message begins, ends, or finds the box being switched on, the tuner getting ready or a
\* display plugged in: a thread that was about to change the modes when the message began or
\* ended looks again.  Left out are ports without their display, which keep stereo until it
\* is connected, and runs in which the mode changed between that last look and the setting
\* of the ports, where the older mode wins.
StereoOnlyInEas ==
    (Quiet /\ ~easRace) =>
        stereo \ Disconnected = (IF isEAS THEN PassThru \ Disconnected ELSE {})

\* dsMgrPwrEventListener.c:412 says "We're currently in one of the standby
\* states. This new setting needs to be applied right away": in standby a port
\* that a caller has set is on exactly if it is configured so.
SettingApplied ==
    (Quiet /\ events = <<>> /\ power = "STANDBY" /\ ~disturbed /\ ~overridden) =>
        \A p \in Ports \cap setSince :
            Len(setting) < MaxSlots => (p \in videoOn <=> Configured(p))
=============================================================================
