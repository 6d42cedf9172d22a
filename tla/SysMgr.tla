-------------------------------- MODULE SysMgr --------------------------------
(***************************************************************************)
(* The system manager (sysmgr/sysMgr.c): the board on which the other      *)
(* managers publish their states.  Events come on one bus thread, calls on *)
(* another; the two meet at tMutexLock.  The HDCP profile is a file, the   *)
(* key code logging preference a variable; both are changed by calls, and  *)
(* listeners are told of it.                                               *)
(*                                                                         *)
(* Of the states one of each way of storing stands for all of its kind:    *)
(* rf_connected for those with a state and an error, dac_id for those with *)
(* a payload as well (the channel map, which a media client makes up, is   *)
(* one of them), ecm_mac for those whose state is not stored.              *)
(***************************************************************************)
EXTENDS Naturals

CONSTANTS
    MediaClient,  \* MEDIA_CLIENT
    MfrSerial,    \* USE_MFR_FOR_SERIAL
    MaxEvents,    \* bound: events
    MaxSysCalls,  \* bound: calls that change something
    MaxSysRestarts \* bound: restarts after a crash

ASSUME SysMgrAssumption ==
    /\ {MediaClient, MfrSerial} \subseteq BOOLEAN
    /\ {MaxEvents, MaxSysCalls, MaxSysRestarts} \subseteq Nat

StateAndError == {"rf_connected", "hdcp_enabled", "TuneReadyStatus",
                  "time_source", "card_moto_hrv_rx"}
WithPayload == {"channel_map", "dac_id", "dac_init_timestamp"}
NoState == {"ecm_mac", "stb_serial_no"}
Field == StateAndError \union WithPayload \union NoState

\* What an event may say, none of it the default.
Data == {[state |-> 1, error |-> 0, payload |-> "text"],
         [state |-> 1, error |-> 1, payload |-> ""]}

VARIABLES
    smStates,  \* systemStates: [state, error, payload] of each field
    smGet,     \* the call of GetSystemStates: "idle", "ask", "got", "failed" or "answer"
    smTime,    \* /tmp/stt_received exists
    smProfile, \* /opt/.hdcp_profile_1 exists, 1, or not, 0
    smKeyLog,  \* keyLogStatus
    smTold,    \* what listeners were told last: [profile, keyLog]
    smBounds,  \* events, calls and restarts so far
    smLast     \* history: the last event of each field since the start, as it was published

smVars == <<smStates, smGet, smTime, smProfile, smKeyLog, smTold, smBounds, smLast>>

None == [state |-> 0, error |-> 0, payload |-> ""]

\* SYSMgr_Start, under the lock; the HDCP state is enabled.
Started == [f \in Field |-> IF f = "hdcp_enabled" THEN [None EXCEPT !.state = 1] ELSE None]

SmInit ==
    /\ smStates = Started
    /\ smGet = "idle"
    /\ smTime \in BOOLEAN
    /\ smProfile \in {0, 1}
    /\ smKeyLog = 1
    /\ smTold = [profile |-> smProfile, keyLog |-> 1]
    /\ smBounds = [events |-> 0, calls |-> 0, restarts |-> 0]
    /\ smLast = Started

------------------------------------------------------------------------------
(* _sysEventHandler *)

\* What an event for field f makes of what is stored of it.
Stored(f, old, e) ==
    CASE f \in StateAndError       -> [e EXCEPT !.payload = old.payload]
      [] f \in WithPayload -> e
      [] f \in NoState     -> [e EXCEPT !.state = old.state]

\* Mutant (StatesAsPublished): a break is missing after the RF state, too.
Mut_Takes_AlsoRf(f) ==
    CASE f = "card_moto_hrv_rx"       -> {"card_moto_hrv_rx", "dac_init_timestamp"}
      [] f = "rf_connected" -> {"rf_connected", "hdcp_enabled"}
      [] OTHER              -> {f}

\* The case of the HRV status has no break: it runs into that of the time stamp.
Takes(f) == IF f = "card_moto_hrv_rx" THEN {"card_moto_hrv_rx", "dac_init_timestamp"} ELSE {f}

_sysEventHandler ==
    /\ smBounds.events < MaxEvents
    /\ smBounds' = [smBounds EXCEPT !.events = @ + 1]
    /\ \E f \in Field : \E e \in Data :
         /\ smStates' = [g \in Field |-> IF g \in Takes(f) THEN Stored(g, smStates[g], e)
                                                            ELSE smStates[g]]
         /\ smLast' = [smLast EXCEPT ![f] = e]
    /\ UNCHANGED <<smGet, smTime, smProfile, smKeyLog, smTold>>

------------------------------------------------------------------------------
(* _GetSystemStates *)

\* GetSerialNumber looks at the payload without the lock.
GetAsks ==
    /\ smGet = "idle"
    /\ smGet' = IF MfrSerial /\ smStates["stb_serial_no"].payload = "" THEN "ask" ELSE "answer"
    /\ UNCHANGED <<smStates, smTime, smProfile, smKeyLog, smTold, smBounds, smLast>>

\* The manufacturer library answers.
MfrAnswers ==
    /\ smGet = "ask"
    /\ smGet' \in {"got", "failed"}
    /\ UNCHANGED <<smStates, smTime, smProfile, smKeyLog, smTold, smBounds, smLast>>

GetSerialNumber ==
    /\ smGet \in {"got", "failed"}
    /\ smStates' = [smStates EXCEPT !["stb_serial_no"] =
                      IF smGet = "got" THEN [@ EXCEPT !.payload = "text", !.error = 0]
                                       ELSE [@ EXCEPT !.error = 1]]
    /\ smGet' = "answer"
    /\ UNCHANGED <<smTime, smProfile, smKeyLog, smTold, smBounds, smLast>>

\* A media client has no channel map and no tuner: the answer also sets them.
_GetSystemStates ==
    /\ smGet = "answer"
    /\ smStates' =
         IF ~MediaClient THEN smStates
         ELSE [smStates EXCEPT
                !["channel_map"].state = 2,
                !["TuneReadyStatus"].state = 1,
                !["time_source"].state = IF @ = 0 /\ smTime THEN 1 ELSE @]
    /\ smGet' = "idle"
    /\ UNCHANGED <<smTime, smProfile, smKeyLog, smTold, smBounds, smLast>>

\* Another process makes the file.
TimeReceived ==
    /\ ~smTime
    /\ smTime' = TRUE
    /\ UNCHANGED <<smStates, smGet, smProfile, smKeyLog, smTold, smBounds, smLast>>

------------------------------------------------------------------------------
(* HDCP profile and key code logging *)

\* A call between two calls of GetSystemStates: they come on one thread.
Call ==
    /\ smGet = "idle"
    /\ smBounds.calls < MaxSysCalls
    /\ smBounds' = [smBounds EXCEPT !.calls = @ + 1]

\* _SetHDCPProfile announces the profile whether or not its file could be made.
SetHDCPProfile ==
    /\ Call
    /\ \E p \in {0, 1, 2} : \E made \in BOOLEAN :
         IF p # smProfile /\ p \in {0, 1}
         THEN /\ smProfile' = IF p = 1 /\ ~made THEN smProfile ELSE p
              /\ smTold' = [smTold EXCEPT !.profile = p]
         ELSE UNCHANGED <<smProfile, smTold>>
    /\ UNCHANGED <<smStates, smGet, smTime, smKeyLog, smLast>>

setKeyCodeLoggingPref ==
    /\ Call
    /\ \E s \in {0, 1, 2} :
         /\ smKeyLog' = IF s \in {0, 1} THEN s ELSE smKeyLog
         /\ smTold' = IF smKeyLog' # smKeyLog THEN [smTold EXCEPT !.keyLog = smKeyLog']
                                              ELSE smTold
    /\ UNCHANGED <<smStates, smGet, smTime, smProfile, smLast>>

\* The process is started again: what was published is gone, and so is the preference,
\* of which no one is told.
SmRestart ==
    /\ smBounds.restarts < MaxSysRestarts
    /\ smBounds' = [smBounds EXCEPT !.restarts = @ + 1]
    /\ smStates' = Started /\ smLast' = Started
    /\ smGet' = "idle"
    /\ smKeyLog' = 1
    /\ UNCHANGED <<smTime, smProfile, smTold>>

SmNext ==
    \/ _sysEventHandler
    \/ GetAsks \/ MfrAnswers \/ GetSerialNumber \/ _GetSystemStates \/ TimeReceived
    \/ SetHDCPProfile \/ setKeyCodeLoggingPref
    \/ SmRestart

SmSpec == SmInit /\ [][SmNext]_smVars

------------------------------------------------------------------------------
(* Properties *)

\* What the board says of a state is what was published of it last, but for the time stamp
\* (the HRV status overwrites it) and the three states a media client makes up.
StatesAsPublished ==
    \A f \in StateAndError \union WithPayload :
       \/ f = "dac_init_timestamp"
       \/ MediaClient /\ f \in {"channel_map", "TuneReadyStatus", "time_source"}
       \/ smStates[f] = Stored(f, smStates[f], smLast[f])

==============================================================================
