------------------------------ MODULE ResetKeys ------------------------------
(***************************************************************************)
(* Resets and reboots by front panel keys (pwrmgr2/reset.c).               *)
(*                                                                         *)
(* Holding POWER reboots the box or enters reset mode; in reset mode five  *)
(* machines, one for each kind of reset, follow the keys released.  The    *)
(* events come from the infrared manager over the bus and are handled one  *)
(* after the other by _irEventHandler; one may be lost.  KED_RF_POWER and  *)
(* KED_SELECT are the variants the code maps to POWER and OK.              *)
(***************************************************************************)
EXTENDS Integers, Sequences, SequencesExt, FiniteSetsExt

CONSTANTS
    RkBuilds,         \* builds: [factoryByHold, wareHouse : BOOLEAN]
    KeyTimeout,     \* KEY_COMBINATION_TIMEOUT, validTime of every key but POWER
    FirstTimeout,   \* INITIAL_TIME_OUT_VALUE
    HoldReset,      \* POWER_KEY_HOLD_TIME_FOR_RESET
    HoldReboot,     \* POWER_KEY_HOLD_TIME_FOR_REBOOT
    HoldFactory,    \* POWER_KEY_HOLD_TIME_FOR_FACTORY_RESET
    MaxAge,         \* bound: ages are told apart up to here
    MaxLost         \* bound: key events lost

ASSUME ResetAssumption ==
    /\ RkBuilds \subseteq [factoryByHold : BOOLEAN, wareHouse : BOOLEAN]
    /\ {KeyTimeout, FirstTimeout, HoldReset, HoldReboot, HoldFactory} \subseteq 0..(MaxAge - 1)
    /\ 0 < KeyTimeout /\ KeyTimeout <= FirstTimeout
    /\ MaxAge \in Nat /\ MaxLost \in Nat

None == -1

HoldKey == {"POWER", "FACTORY"}
RkKey == HoldKey \union {"OK", "RIGHT", "LEFT", "MENU", "DOWN", "UNDEFINED"}

\* The sequences; the index of a machine counts the keys it has seen.
Reset == {"COLD_FACTORY", "FACTORY", "WARE_HOUSE", "CUSTOMER", "PERSONALITY"}

Seqs ==
    [COLD_FACTORY |-> <<"POWER", "OK", "RIGHT", "MENU", "RIGHT", "POWER">>,
     FACTORY      |-> <<"POWER", "OK", "RIGHT", "MENU", "LEFT", "POWER">>,
     WARE_HOUSE   |-> <<"POWER", "OK", "RIGHT", "DOWN", "POWER">>,
     CUSTOMER     |-> <<"POWER", "OK", "UNDEFINED">>,
     PERSONALITY  |-> <<"POWER", "OK", "LEFT", "DOWN", "POWER">>]

VARIABLES
    rkBuild,    \* the build
    rk,         \* the variables of reset.c, times as ages, and what ran
    rkHeld,     \* the world: for how long POWER and FACTORY are really held
    rkLost,     \* number of events lost
    rkTyped,    \* history: the keys released that may begin a sequence, and which were late
    rkGap,      \* history: age of the last of them
    rkDone,     \* history: a hold had already started a reboot or a reset
    rkHold      \* history: how long one was held when POWER came up outside reset mode

rkVars == <<rkBuild, rk, rkHeld, rkLost, rkTyped, rkGap, rkDone, rkHold>>

\* "shown" is the progress that listeners were told last, "ran" the reset the last
\* event caused.
RkInit ==
    /\ rkBuild \in RkBuilds
    /\ rk = [idx |-> [m \in Reset |-> 0], mode |-> FALSE, focus |-> FALSE,
             pressed |-> None, cur |-> None, timeout |-> 0,
             monitored |-> FALSE, event |-> 0, shown |-> -1, ran |-> "none"]
    /\ rkHeld = [k \in HoldKey |-> None]
    /\ rkLost = 0
    /\ rkTyped = <<>>
    /\ rkGap = 0
    /\ rkDone = FALSE
    /\ rkHold = 0

ResetResetState(s) ==
    [s EXCEPT !.idx = [m \in Reset |-> 0], !.mode = FALSE, !.focus = FALSE,
              !.pressed = None, !.cur = None, !.timeout = 0,
              !.monitored = FALSE,
              !.event = IF s.monitored THEN 0 ELSE @,
              !.shown = IF s.monitored THEN -1 ELSE @]

\* The wait until the next key that a match starts; 0 where it starts none.
validTime(k) == IF k \in {"POWER", "UNDEFINED"} THEN 0 ELSE KeyTimeout

\* The keys seen before this one are told to the bus, unless they were told already.
Tell(s, i) ==
    IF i > 0 /\ s.event # i THEN [s EXCEPT !.monitored = TRUE, !.event = i, !.shown = i] ELSE s

\* A machine saw the key it expects: it expects the next, or runs its reset.
Advance(s, m) ==
    LET told == Tell(s, s.idx[m])
    IN  IF s.idx[m] + 1 = Len(Seqs[m]) THEN [ResetResetState(told) EXCEPT !.ran = m]
                                       ELSE [told EXCEPT !.idx[m] = s.idx[m] + 1]

StartWait(s, k) ==
    IF validTime(k) = 0 THEN s ELSE [s EXCEPT !.cur = 0, !.timeout = validTime(k)]

\* One machine sees that key k was released.
checkResetModeSequence(s, m, k) ==
    IF Seqs[m][s.idx[m] + 1] = k THEN StartWait(Advance(s, m), k) ELSE [s EXCEPT !.idx[m] = 0]

\* They see it in this order; a build may leave out WARE_HOUSE.
SeenByAll(s, k) ==
    LET cold == checkResetModeSequence(s, "COLD_FACTORY", k)
        factory == checkResetModeSequence(cold, "FACTORY", k)
        wareHouse == IF rkBuild.wareHouse THEN checkResetModeSequence(factory, "WARE_HOUSE", k)
                     ELSE factory
        customer == checkResetModeSequence(wareHouse, "CUSTOMER", k)
    IN  checkResetModeSequence(customer, "PERSONALITY", k)

\* Mutant (ResetOnlyBySequence): a late key is not noticed.
Mut_TimeCheck_Never(s) ==
    IF s.cur = None THEN s ELSE [s EXCEPT !.pressed = 0]

\* First, on any event: the key comes too late, or its time is taken.
TimeCheck(s) ==
    IF s.cur = None THEN s
    ELSE IF s.cur > s.timeout THEN ResetResetState(s)
    ELSE [s EXCEPT !.pressed = 0]

\* Mutant (HoldWasReal): only the first press is timed.
Mut_KeyDown_First(s, k) ==
    IF ~s.mode /\ k \in HoldKey /\ s.pressed = None THEN [s EXCEPT !.pressed = 0] ELSE s

KeyDown(s, k) ==
    IF ~s.mode /\ k \in HoldKey THEN [s EXCEPT !.pressed = 0] ELSE s

\* POWER is released outside reset mode.  Without a press nothing was held.  A hold
\* long enough to reboot or reset returns at once.
PowerUp(s) ==
    LET held == IF s.pressed = None THEN 0 ELSE s.pressed
    IN  IF rkBuild.factoryByHold /\ held >= HoldFactory THEN [s EXCEPT !.ran = "FACTORY"]
        ELSE IF ~rkBuild.factoryByHold /\ held > HoldReboot THEN [s EXCEPT !.ran = "reboot"]
        ELSE IF held < HoldReset THEN ResetResetState(s)
        ELSE [ResetResetState(s) EXCEPT
                !.mode = TRUE, !.focus = TRUE, !.cur = 0, !.timeout = FirstTimeout,
                !.idx = [m \in Reset |-> 1]]

KeyUp(s, k) ==
    CASE ~s.mode /\ k = "POWER"   -> PowerUp(s)
      [] ~s.mode /\ k = "FACTORY" -> ResetResetState(s)
      [] ~s.mode /\ k \notin HoldKey -> s
      [] OTHER -> SeenByAll(s, k)

\* Last: no machine is left in the running.
NoneLeft(s) ==
    IF s.mode /\ \A m \in Reset : s.idx[m] = 0 THEN ResetResetState(s) ELSE s

checkResetSequence(type, k) ==
    LET s == TimeCheck([rk EXCEPT !.ran = "none"])
    IN  CASE type = "down"   -> NoneLeft(KeyDown(s, k))
          [] type = "up"     -> NoneLeft(KeyUp(s, k))
          [] type = "repeat" -> NoneLeft(s)

\* Of the keys t, the longest part at the end that may begin a sequence.
MayBegin(t) == \E m \in Reset : IsPrefix([i \in DOMAIN t |-> t[i].key], Seqs[m])
Beginning(t) ==
    LET n == Min({i \in 1..(Len(t) + 1) : MayBegin(SubSeq(t, i, Len(t)))})
    IN  SubSeq(t, n, Len(t))

\* The time allowed for the next key; the history says of a key released if it was late.
Limit == IF rkTyped # <<>> /\ Last(rkTyped).key # "POWER" THEN KeyTimeout ELSE FirstTimeout

Record(mode, k) ==
    /\ rkTyped' = CASE mode -> Beginning(Append(rkTyped, [key |-> k, late |-> rkGap > Limit]))
                    [] ~mode /\ rk'.mode -> <<[key |-> k, late |-> FALSE]>>
                    [] OTHER -> <<>>
    /\ rkGap' = 0

\* _irEventHandler hands over every key but the undefined one.
Handle(type, k) ==
    IF k = "UNDEFINED"
    THEN rk' = [rk EXCEPT !.ran = "none"] /\ UNCHANGED <<rkTyped, rkGap>>
    ELSE /\ rk' = checkResetSequence(type, k)
         /\ IF type = "up" THEN Record(TimeCheck(rk).mode, k)
                           ELSE UNCHANGED <<rkTyped, rkGap>>

Lose ==
    /\ rkLost < MaxLost
    /\ rkLost' = rkLost + 1
    /\ rk' = [rk EXCEPT !.ran = "none"]
    /\ UNCHANGED <<rkTyped, rkGap>>

\* The user presses, keeps and releases POWER or FACTORY.
RkPress(k) ==
    /\ rkHeld[k] = None
    /\ rkHeld' = [rkHeld EXCEPT ![k] = 0]
    /\ \/ Handle("down", k) /\ UNCHANGED rkLost
       \/ Lose
    /\ UNCHANGED <<rkBuild, rkHold>>

RkRepeat(k) ==
    /\ rkHeld[k] # None
    /\ Handle("repeat", k)
    /\ UNCHANGED <<rkBuild, rkHeld, rkLost, rkHold>>

RkRelease(k) ==
    /\ rkHeld[k] # None
    /\ rkHeld' = [rkHeld EXCEPT ![k] = None]
    /\ \/ /\ Handle("up", k)
          /\ rkHold' = IF k = "POWER" /\ ~TimeCheck(rk).mode
                       THEN Max({rkHeld[h] : h \in HoldKey}) ELSE rkHold
          /\ UNCHANGED rkLost
       \/ Lose /\ UNCHANGED rkHold
    /\ UNCHANGED rkBuild

\* Other keys matter when they come down (their time is taken) and go up.
RkTap(type, k) ==
    /\ Handle(type, k)
    /\ UNCHANGED <<rkBuild, rkHeld, rkLost, rkHold>>

Older(age) == IF age = None THEN None ELSE IF age < MaxAge THEN age + 1 ELSE age

RkTick ==
    /\ rk' = [rk EXCEPT !.pressed = Older(@), !.cur = Older(@), !.ran = "none"]
    /\ rkHeld' = [k \in HoldKey |-> Older(rkHeld[k])]
    /\ rkGap' = IF rk.mode THEN Older(rkGap) ELSE rkGap
    /\ UNCHANGED <<rkBuild, rkLost, rkTyped, rkHold>>

\* A hold has started a reboot or a reset, which takes seconds to end the process.
ByHold == rk.ran = "reboot" \/ (rk.ran # "none" /\ rkTyped = <<>>)

RkNext ==
    /\ rkDone' = (rkDone \/ ByHold)
    /\ \/ \E k \in HoldKey : RkPress(k) \/ RkRepeat(k) \/ RkRelease(k)
       \/ \E k \in RkKey \ HoldKey, type \in {"down", "up"} : RkTap(type, k)
       \/ RkTick

RkSpec == RkInit /\ [][RkNext]_rkVars

------------------------------------------------------------------------------
(* Properties *)

\* The keys of a reset have been released one after the other, the last of them just
\* now, none after the time allowed since the one before.
Typed(m) ==
    /\ [i \in DOMAIN rkTyped |-> rkTyped[i].key] = Seqs[m]
    /\ \A i \in 2..Len(rkTyped) : ~rkTyped[i].late

\* The data of the box are deleted only by the full sequence of a reset, typed in
\* time after POWER was held, whatever was typed before it (checkResetSequence).
ResetOnlyBySequence ==
    rk.ran \in Reset => Typed(rk.ran) \/ (rkBuild.factoryByHold /\ rk.ran = "FACTORY" /\ ByHold)

\* Reset mode, a reboot and a reset by hold come only of a key that was really held
\* that long, although an event may have been lost.  (The press is not forgotten
\* when it has done its work, so a stray release repeats it; the box is then on its
\* way down.)
HoldWasReal ==
    /\ Len(rkTyped) = 1 => rkHold >= HoldReset
    /\ ByHold /\ ~rkDone => IF rkBuild.factoryByHold THEN rkHold >= HoldFactory
                                                      ELSE rkHold > HoldReboot

==============================================================================
