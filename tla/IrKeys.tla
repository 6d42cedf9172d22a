-------------------------------- MODULE IrKeys --------------------------------
(***************************************************************************)
(* The infrared manager (ir/irMgr.c, ir/uinput.c): presses and releases    *)
(* come from the infrared receiver and, over the bus, from the RF remotes; *)
(* the manager adds repeats, turns a long LAST into EXIT, and passes every *)
(* key on to the bus and to the uinput device.                             *)
(*                                                                         *)
(* A callback runs under tMutexLock from its first assignment to the       *)
(* signal.  The repeat thread holds the same mutex except while it waits   *)
(* and between two rounds; a LAST timer thread has only tKeySeqMutex.      *)
(* Whatever is broadcast is broadcast under tKeySeqMutex.  The two halves  *)
(* of a key that the manager makes up itself are two steps: irMade says    *)
(* which key, and so which thread, has the mutex between them.             *)
(***************************************************************************)
EXTENDS Naturals, FiniteSets

CONSTANTS
    IrPressed,      \* keys of the infrared receiver
    RfPressed,      \* keys of the RF remotes
    FpOnce,         \* built with _DISABLE_KEY_POWEROFF
    Intervals,      \* what SetRepeatInterval may be given: 0 and any other
    MaxRepeats,     \* 6, MAX_KEY_REPEATS
    MaxPresses,     \* bound: presses of keys
    MaxSettings,    \* bound: calls of SetRepeatInterval
    MaxTimers       \* bound: LAST timer threads at one time

UNDEF == "UNDEFINEDKEY"
Control == {"VOLUME", "PUSH_TO_TALK"}
Newer == [XR15_SELECT |-> "SELECT", XR15_PUSH_TO_TALK |-> "PUSH_TO_TALK"]
Source == {"IR", "RF"}
Pressed == [IR |-> IrPressed, RF |-> RfPressed]

ASSUME IrAssumption ==
    /\ FpOnce \in BOOLEAN
    /\ Intervals \subseteq Nat
    /\ {MaxRepeats, MaxPresses, MaxSettings, MaxTimers} \subseteq Nat

VARIABLES
    irMade,     \* LAST or EXIT, pressed by the manager itself and not released yet, or UNDEF
    irH,        \* what the key handler works on and gives out, see HInit
    irRep,      \* the repeat thread: [pc, sig, timedout]; sig: what ended its wait
    irInterval, \* gRepeatKeyInterval
    irRf,       \* RF events under way: "idle", or the [type, key] between flags and lock
    irNeedUp,   \* bNeedRFKeyUp
    irRepeats,  \* numKeyRepeats
    irLast,     \* [up, ignore, running]: bLastKeyUpReceived, bIgnoreLastKeyup, bLastTimerRunning
    irTimer,    \* the LAST timer threads
    irFinger,   \* per source, the key that is held, or UNDEF
    irLost,     \* the RF remote is out of reach for good
    irBounds,   \* presses and calls so far
    irMixed     \* history: a key of one remote met a key of the other

irVars == <<irMade, irH, irRep, irInterval, irRf, irNeedUp, irRepeats, irLast, irTimer,
            irFinger, irLost, irBounds, irMixed>>

HInit == [
    cur |-> UNDEF,                        \* gCurrentKeyCode
    prev |-> [type |-> "UP", key |-> UNDEF], \* prevEventData
    prevType |-> "UP",                    \* prevKeyType
    newer |-> FALSE,                      \* xr15_or_newer_notify_call
    control |-> {},                       \* CONTROL events of the last step
    down |-> {},                          \* keys that are down for the listeners on the bus
    dev |-> {},                           \* keys that are down on the uinput device
    open |-> TRUE]                        \* devFd >= 0

IrInit ==
    /\ irMade = UNDEF
    /\ irH = HInit
    /\ irRep = [pc |-> "top", sig |-> "none", timedout |-> FALSE]
    /\ irInterval = 1
    /\ irRf = [type |-> "idle", key |-> UNDEF]
    /\ irNeedUp = FALSE
    /\ irRepeats = 0
    /\ irLast = [up |-> FALSE, ignore |-> FALSE, running |-> FALSE]
    /\ irTimer = [t \in 1..MaxTimers |-> "none"]
    /\ irFinger = [s \in Source |-> UNDEF]
    /\ irLost = FALSE
    /\ irBounds = [presses |-> 0, settings |-> 0]
    /\ irMixed = FALSE

------------------------------------------------------------------------------
(* The key handler *)

After(set, type, key) == IF type = "UP" THEN set \ {key} ELSE set \union {key}

\* udispatcher: nothing once the device is closed.
Dispatch(h, type, key) == IF h.open THEN [h EXCEPT !.dev = After(@, type, key)] ELSE h

Broadcast(h, type, key) ==
    [h EXCEPT !.down = After(@, type, key)]

Out(h, type, key) == Broadcast(Dispatch(h, type, key), type, key)

\* A held front panel power key: its first repeat is sent as the release, and what
\* comes after is not sent.
FpType(h, type, key) ==
    IF ~FpOnce \/ key # "FP_POWER" \/ type = "DOWN" THEN type
    ELSE IF h.prevType # "DOWN" THEN "discard"
    ELSE "UP"

\* Mutant (OneKeyDown): a release is made up only after a press, not after a repeat.
Mut_Normal_NotAfterRepeat(h, type, key) ==
    LET gap == key # h.prev.key /\ type = "DOWN" /\ h.prev.type = "DOWN"
        h1 == IF gap THEN Broadcast(Dispatch(h, type, key), "UP", h.prev.key) ELSE h
        sent == FpType(h, type, key)
        h2 == [h1 EXCEPT !.prev = [type |-> type, key |-> key],
                         !.prevType = IF sent = "discard" THEN type ELSE sent]
    IN  IF key = UNDEF THEN h ELSE IF sent = "discard" THEN h2 ELSE Out(h2, sent, key)

\* A press after which the release of another key is missing: the bus gets that release,
\* the device gets the press, and then both get the press.
Normal(h, type, key) ==
    LET gap == key # h.prev.key /\ type = "DOWN" /\ h.prev.type # "UP"
        h1 == IF gap THEN Broadcast(Dispatch(h, type, key), "UP", h.prev.key) ELSE h
        sent == FpType(h, type, key)
        h2 == [h1 EXCEPT !.prev = [type |-> type, key |-> key],
                         !.prevType = IF sent = "discard" THEN type ELSE sent]
    IN  IF key = UNDEF THEN h ELSE IF sent = "discard" THEN h2 ELSE Out(h2, sent, key)

Notify(h, names) == [h EXCEPT !.control = @ \union names]

\* All keys but LAST; keys of newer remotes are translated, with a note for the listeners.
Plain(h, type, key, src) ==
    IF key \in Control
    THEN IF type # "DOWN" THEN h
         ELSE Notify(h, {key} \union IF key = "PUSH_TO_TALK" /\ ~h.newer
                                     THEN {"XR11_NOTIFY"} ELSE {})
    ELSE IF key = "SELECT" /\ type = "DOWN" /\ ~h.newer /\ src = "IR"
    THEN Normal(Notify(h, {"XR11_NOTIFY"}), type, key)
    ELSE IF key = "LAST" THEN h
    ELSE Normal(h, type, key)

_IrInputKeyEventHandler(h, type, key, src) ==
    IF key \in DOMAIN Newer
    THEN IF type = "DOWN"
         THEN Plain([Notify(h, {"XR15V1_NOTIFY"}) EXCEPT !.newer = TRUE, !.cur = Newer[key]],
                    type, Newer[key], src)
         ELSE Plain([h EXCEPT !.newer = FALSE, !.cur = UNDEF], type, Newer[key], src)
    ELSE Plain(h, type, key, src)

Fresh(h) == [h EXCEPT !.control = {}]

------------------------------------------------------------------------------
(* Callbacks *)

HandleKey(type, key, src) ==
    _IrInputKeyEventHandler([Fresh(irH) EXCEPT !.cur = IF type = "DOWN" THEN key ELSE UNDEF],
                            type, key, src)

FreeTimer == {t \in DOMAIN irTimer : irTimer[t] = "none"}

\* The manager presses a key of its own; whichever key is down for the listeners stays so.
Make(h, key) ==
    /\ irH' = Out(h, "DOWN", key)
    /\ irMade' = key

\* pthread_cond_signal: nobody hears it unless the repeat thread waits.
Signal == irRep' = IF irRep.pc # "top" /\ irRep.sig = "none"
                   THEN [irRep EXCEPT !.sig = "signal"] ELSE irRep

\* LAST: a press starts a timer unless one runs; a release sends LAST unless it is ignored,
\* and then the signal waits for its second half.
LastKey(type) ==
    IF type = "DOWN"
    THEN /\ irLast' = [irLast EXCEPT !.up = FALSE, !.ignore = FALSE]
         /\ IF irLast.running THEN UNCHANGED irTimer
            ELSE \E t \in FreeTimer : irTimer' = [irTimer EXCEPT ![t] = "start"]
         /\ irH' = [Fresh(irH) EXCEPT !.cur = "LAST"]
         /\ Signal
         /\ UNCHANGED irMade
    ELSE /\ irLast' = [irLast EXCEPT !.up = TRUE]
         /\ LET h == [Fresh(irH) EXCEPT !.cur = UNDEF]
            IN  IF irLast.ignore THEN irH' = h /\ Signal /\ UNCHANGED irMade
                ELSE Make(h, "LAST") /\ UNCHANGED irRep
         /\ UNCHANGED irTimer

\* The second half of a key that the manager makes up.  After LAST the callback signals.
ReleaseMade ==
    /\ irMade # UNDEF
    /\ irH' = Out(Fresh(irH), "UP", irMade)
    /\ irMade' = UNDEF
    /\ IF irMade = "LAST" THEN Signal ELSE UNCHANGED irRep
    /\ UNCHANGED <<irInterval, irRf, irNeedUp, irRepeats, irLast, irTimer, irFinger, irLost,
                   irBounds, irMixed>>

_IrKeyCallbackFrom(type, key, src) ==
    IF type = "REPEAT"
    THEN UNCHANGED <<irMade, irH, irRep, irLast, irTimer>>
    ELSE /\ irMade = UNDEF
         /\ IF key = "LAST"
            THEN LastKey(type)
            ELSE /\ irH' = HandleKey(type, key, src)
                 /\ Signal
                 /\ UNCHANGED <<irMade, irLast, irTimer>>

------------------------------------------------------------------------------
(* The keys *)

\* A press of a key of the source; the release of the one before may have been lost.
Press(src) ==
    /\ irBounds.presses < MaxPresses
    /\ irBounds' = [irBounds EXCEPT !.presses = @ + 1]
    /\ irMixed' = (irMixed \/ irRf.type # "idle" \/ \E s \in Source \ {src} : irFinger[s] # UNDEF)

IrKeyDown ==
    /\ Press("IR")
    /\ \E key \in IrPressed :
         /\ irFinger' = [irFinger EXCEPT !["IR"] = key]
         /\ _IrKeyCallbackFrom("DOWN", key, "IR")
    /\ UNCHANGED <<irInterval, irRf, irNeedUp, irRepeats, irLost>>

IrKeyUp ==
    /\ irFinger["IR"] # UNDEF
    /\ irFinger' = [irFinger EXCEPT !["IR"] = UNDEF]
    /\ _IrKeyCallbackFrom("UP", irFinger["IR"], "IR")
    /\ UNCHANGED <<irInterval, irRf, irNeedUp, irRepeats, irLost, irBounds, irMixed>>

\* The event of an RF key: two flags are written with no lock, which a repeat thread
\* that counts at the same time may undo.
RfFlags(type, key) ==
    /\ irRf.type = "idle"
    /\ ~irLost
    /\ irRf' = [type |-> type, key |-> key]
    /\ irNeedUp' = (type # "UP")
    /\ irRepeats' \in IF irRep.pc = "again" /\ irRep.sig = "timeout" THEN {0, irRepeats} ELSE {0}
    /\ UNCHANGED <<irMade, irH, irRep, irInterval, irLast, irTimer, irLost>>

RfDown ==
    /\ Press("RF")
    /\ \E key \in RfPressed :
         /\ irFinger' = [irFinger EXCEPT !["RF"] = key]
         /\ RfFlags("DOWN", key)

RfUp ==
    /\ irFinger["RF"] # UNDEF
    /\ irFinger' = [irFinger EXCEPT !["RF"] = UNDEF]
    /\ RfFlags("UP", irFinger["RF"])
    /\ UNCHANGED <<irBounds, irMixed>>

RfRepeat ==
    /\ irFinger["RF"] # UNDEF
    /\ RfFlags("REPEAT", irFinger["RF"])
    /\ UNCHANGED <<irFinger, irBounds, irMixed>>

RfCallback ==
    /\ irRf.type # "idle"
    /\ irRf' = [type |-> "idle", key |-> UNDEF]
    /\ _IrKeyCallbackFrom(irRf.type, irRf.key, "RF")
    /\ UNCHANGED <<irInterval, irNeedUp, irRepeats, irFinger, irLost, irBounds, irMixed>>

\* The RF remote, or the manager of the remotes, is gone with a key held.
RfLost ==
    /\ ~irLost
    /\ irLost' = TRUE
    /\ UNCHANGED <<irMade, irH, irRep, irInterval, irRf, irNeedUp, irRepeats, irLast, irTimer,
                   irFinger, irBounds, irMixed>>

------------------------------------------------------------------------------
(* The repeat thread *)

RepUnchanged == UNCHANGED <<irMade, irInterval, irRf, irLast, irTimer, irFinger, irLost,
                            irBounds, irMixed>>

Waits(pc) == [pc |-> pc, sig |-> "none", timedout |-> irRep.timedout]

\* A round begins, or, with a repeat interval of 0 set while a key repeats, goes round again.
RepTop ==
    /\ irRep.pc = "top"
    /\ irMade # "LAST"
    /\ irRep' = IF ~irRep.timedout THEN Waits("wait")
                ELSE IF irInterval # 0 THEN Waits("again") ELSE irRep
    /\ UNCHANGED <<irH, irNeedUp, irRepeats>>
    /\ RepUnchanged

RepTimeout ==
    /\ irRep.pc \in {"first", "again"}
    /\ irRep.sig = "none"
    /\ irRep' = [irRep EXCEPT !.sig = "timeout"]
    /\ UNCHANGED <<irH, irNeedUp, irRepeats>>
    /\ RepUnchanged

\* Any signal of the first wait is a press, and any signal of the others a release.
RepSignalled ==
    /\ irRep.sig = "signal"
    /\ irMade # "LAST"
    /\ irRep' = IF irRep.pc = "wait" THEN Waits("first")
                ELSE [pc |-> "top", sig |-> "none", timedout |-> FALSE]
    /\ UNCHANGED <<irH, irNeedUp, irRepeats>>
    /\ RepUnchanged

RepFirst ==
    /\ irRep.pc = "first"
    /\ irMade = UNDEF
    /\ irRep.sig = "timeout"
    /\ irH' = _IrInputKeyEventHandler(Fresh(irH), "REPEAT", irH.cur, "IR")
    /\ irRep' = Waits(IF irInterval = 0 THEN "top" ELSE "again")
    /\ UNCHANGED <<irNeedUp, irRepeats>>
    /\ RepUnchanged

\* A repeat; after too many of an RF key, its release.
RepAgain ==
    /\ irRep.pc = "again"
    /\ irMade = UNDEF
    /\ irRep.sig = "timeout"
    /\ irRep' = [pc |-> "top", sig |-> "none", timedout |-> irH.cur # UNDEF]
    /\ IF irH.cur = UNDEF
       THEN UNCHANGED <<irH, irNeedUp, irRepeats>>
       ELSE IF irNeedUp /\ irRepeats >= MaxRepeats
       THEN /\ irH' = [_IrInputKeyEventHandler(Fresh(irH), "UP", irH.cur, "IR")
                         EXCEPT !.cur = UNDEF]
            /\ irRepeats' = 0
            /\ irNeedUp' = FALSE
       ELSE /\ irH' = _IrInputKeyEventHandler(Fresh(irH), "REPEAT", irH.cur, "IR")
            /\ irRepeats' = IF irNeedUp THEN irRepeats + 1 ELSE irRepeats
            /\ UNCHANGED irNeedUp
    /\ RepUnchanged

IrSetRepeatInterval ==
    /\ irBounds.settings < MaxSettings
    /\ irBounds' = [irBounds EXCEPT !.settings = @ + 1]
    /\ irInterval' \in Intervals
    /\ UNCHANGED <<irMade, irH, irRep, irRf, irNeedUp, irRepeats, irLast, irTimer, irFinger,
                   irLost, irMixed>>

------------------------------------------------------------------------------
(* _LASTKeyTimerThreadFunc *)

TimerUnchanged == UNCHANGED <<irRep, irInterval, irRf, irNeedUp, irRepeats, irFinger, irLost,
                              irBounds, irMixed>>

TimerStep(t, from, to) == irTimer[t] = from /\ irTimer' = [irTimer EXCEPT ![t] = to]

TimerStart(t) ==
    /\ TimerStep(t, "start", "poll")
    /\ irMade = UNDEF
    /\ irLast' = [irLast EXCEPT !.running = TRUE]
    /\ UNCHANGED <<irMade, irH>>
    /\ TimerUnchanged

\* The polls, with no lock: a release is seen, or 1.5 seconds have passed without one.
TimerPolls(t) ==
    /\ TimerStep(t, "poll", IF irLast.up THEN "seen" ELSE "expired")
    /\ UNCHANGED <<irMade, irH, irLast>>
    /\ TimerUnchanged

\* EXIT is made up after the time has passed; nobody without the mutex reads what the thread
\* sets before it gives the mutex back.
TimerEnds(t) ==
    /\ irTimer[t] \in {"seen", "expired"}
    /\ irMade = UNDEF
    /\ irTimer' = [irTimer EXCEPT ![t] = "none"]
    /\ irLast' = [irLast EXCEPT !.ignore = TRUE, !.running = FALSE]
    /\ IF irTimer[t] = "seen"
       THEN UNCHANGED <<irMade, irH>>
       ELSE Make(Fresh(irH), "EXIT")
    /\ TimerUnchanged

\* A write to the uinput device fails: it is closed, and the kernel releases its keys.
UINPUT_term ==
    /\ irH.open
    /\ irH' = [Fresh(irH) EXCEPT !.open = FALSE, !.dev = {}]
    /\ UNCHANGED <<irMade, irLast, irTimer>>
    /\ TimerUnchanged

IrTimers == \E t \in DOMAIN irTimer : TimerStart(t) \/ TimerPolls(t) \/ TimerEnds(t)

IrNext ==
    \/ IrKeyDown \/ IrKeyUp \/ RfDown \/ RfUp \/ RfRepeat \/ RfCallback \/ RfLost
    \/ RepTop \/ RepTimeout \/ RepSignalled \/ RepFirst \/ RepAgain
    \/ ReleaseMade \/ IrSetRepeatInterval \/ IrTimers \/ UINPUT_term

IrSpec == IrInit /\ [][IrNext]_irVars

------------------------------------------------------------------------------
(* Properties *)

\* With one remote in use at a time, at most one key of that remote is down for the
\* listeners, even if releases are lost: the release that is missing is sent before the
\* next press.  LAST and EXIT, which the manager presses and releases itself, are left out
\* between their two halves: no release is made up before them, so a key whose own release
\* was lost, or that is still held when EXIT comes, is down together with them.
OneKeyDown == ~irMixed => Cardinality(irH.down \ {irMade}) <= 1

==============================================================================
