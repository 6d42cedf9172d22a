------------------------------- MODULE DsHotplug -------------------------------
(***************************************************************************)
(* Hot plug, HDCP and the resolution of the video ports (dsmgr/dsMgr.c).   *)
(* Three threads set resolutions with no lock between them: the bus thread *)
(* (HDCP events), the resolution thread (hot plug and tune ready events)   *)
(* and the main loop (start-up, and five seconds after a disconnect).      *)
(*                                                                         *)
(* _setAudioMode, which tune ready and a connect call too, is in           *)
(* StandbyVideo.                                                           *)
(***************************************************************************)
EXTENDS Naturals, Sequences

CONSTANTS
    TVs,        \* resolution lists of the TVs, the best last; empty: low power or DVI
    Platform,   \* kResolutions
    Default,    \* kResolutions[kDefaultResIndex]
    UserResolutions,  \* resolutions the user may have chosen
    MaxPlugs,   \* bound: plugs of a TV
    MaxHdcp     \* bound: HDCP results

Res4K == {"2160p"}

ASSUME HotplugAssumption ==
    /\ Default \in Platform
    /\ {MaxPlugs, MaxHdcp} \subseteq Nat

\* "start" is the call DSMgr_Start makes on the main thread before its loop runs.
Setter == {"bus", "resn", "start", "main"}
NoTV == <<>>

VARIABLES
    dhBox,      \* what does not change: [user, disable4K, ignoreEdid, component]
    dhTV,       \* the TV at the cable, by its list; [on, list]
    dhQueue,    \* events that wait for the bus thread
    dhTune,     \* iTuneReady
    dhStatus,   \* edisplayEventStatus
    dhHdcp,     \* bHDCPAuthenticated
    dhSrc,      \* hotplug_event_src, 0 if none
    dhTimers,   \* sources of the main loop that wait
    dhThread,   \* the resolution thread: "wait", "woken", "act", "again", "delay" or "set"
    dhSetter,   \* where each thread is in _SetVideoPortResolution
    dhRead,     \* the TV's list each thread has read there, to choose from
    dhPort,     \* resolutions set: of HDMI, and of the first other port
    dhBounds,   \* plugs and HDCP results so far
    dhAuth,     \* history: the TV at the cable was authenticated, and the event handled
    dhPast,     \* history: threads that have the list of a TV that was unplugged meanwhile
    dhLate      \* history: the last setting of HDMI was chosen by such a list

dhHistory == <<dhAuth, dhPast, dhLate>>
dhVars == <<dhBox, dhTV, dhQueue, dhTune, dhStatus, dhHdcp, dhSrc, dhTimers, dhThread,
            dhSetter, dhRead, dhPort, dhBounds, dhHistory>>

DhInit ==
    /\ dhBox \in [user : UserResolutions, disable4K : BOOLEAN, ignoreEdid : BOOLEAN,
                  component : BOOLEAN]
    /\ dhTV \in {[on |-> FALSE, list |-> NoTV]} \union [on : {TRUE}, list : TVs]
    /\ dhQueue = <<>>
    /\ dhTune \in BOOLEAN
    /\ dhStatus = "MAX"
    /\ dhHdcp = FALSE
    /\ dhSrc = 0
    /\ dhTimers = {}
    /\ dhThread = "wait"
    /\ dhSetter = [s \in Setter |-> IF s = "start" /\ ~dhTV.on THEN "sleep" ELSE "idle"]
    /\ dhRead = [s \in Setter |-> NoTV]
    /\ dhPort = [hdmi |-> "none", other |-> "none"]
    /\ dhBounds = [plugs |-> 0, hdcp |-> 0]
    /\ dhAuth = FALSE
    /\ dhPast = {}
    /\ dhLate = FALSE

------------------------------------------------------------------------------
(* The cable *)

Plug ==
    /\ ~dhTV.on
    /\ dhBounds.plugs < MaxPlugs
    /\ dhBounds' = [dhBounds EXCEPT !.plugs = @ + 1]
    /\ \E tv \in TVs : dhTV' = [on |-> TRUE, list |-> tv]
    /\ dhQueue' = Append(dhQueue, "connect")
    /\ dhAuth' = FALSE
    /\ UNCHANGED <<dhBox, dhTune, dhStatus, dhHdcp, dhSrc, dhTimers, dhThread, dhSetter,
                   dhRead, dhPort, dhPast, dhLate>>

Unplug ==
    /\ dhTV.on
    /\ dhTV' = [on |-> FALSE, list |-> NoTV]
    /\ dhQueue' = Append(dhQueue, "disconnect")
    /\ dhAuth' = FALSE
    /\ dhPast' = {s \in Setter : dhSetter[s] = "set"}
    /\ UNCHANGED <<dhBox, dhTune, dhStatus, dhHdcp, dhSrc, dhTimers, dhThread, dhSetter,
                   dhRead, dhPort, dhBounds, dhLate>>

HdcpResult ==
    /\ dhTV.on
    /\ dhBounds.hdcp < MaxHdcp
    /\ dhBounds' = [dhBounds EXCEPT !.hdcp = @ + 1]
    /\ \E r \in {"authenticated", "failure"} : dhQueue' = Append(dhQueue, r)
    /\ UNCHANGED <<dhBox, dhTV, dhTune, dhStatus, dhHdcp, dhSrc, dhTimers, dhThread, dhSetter,
                   dhRead, dhPort, dhHistory>>

------------------------------------------------------------------------------
(* _SetResolution: which resolution a port gets *)

In(r, list) == \E i \in DOMAIN list : list[i] = r
Common(list) == {i \in DOMAIN list : list[i] \in Platform}
LastOf(s) == CHOOSE i \in s : \A j \in s : j <= i

\* The user's, if the TV lists it; else the last of the TV's that the platform has; else
\* 480p, if the TV lists that; else the platform's default.
BestFor(user, list) ==
    IF In(user, list) THEN user
    ELSE IF Common(list) # {} THEN list[LastOf(Common(list))]
    ELSE IF In("480p", list) THEN "480p"
    ELSE Default

No4K(r) == IF dhBox.disable4K /\ dhBox.user \in Res4K THEN Default ELSE r

HdmiResolution(list) == No4K(BestFor(dhBox.user, list))

OtherResolution == No4K(IF dhBox.user \in Platform THEN dhBox.user ELSE Default)

------------------------------------------------------------------------------
(* _SetVideoPortResolution, on thread s *)

\* After 100 milliseconds the cable is looked at; with a TV the thread waits for the
\* DDC line, for up to iResnCount seconds.
SetterLooks(s) ==
    /\ dhSetter[s] = "sleep"
    /\ IF dhTV.on
       THEN dhSetter' = [dhSetter EXCEPT ![s] = "ddc"] /\ UNCHANGED dhPort
       ELSE /\ dhSetter' = [dhSetter EXCEPT ![s] = "done"]
            /\ dhPort' = [dhPort EXCEPT !.other = OtherResolution]
    /\ UNCHANGED <<dhBox, dhTV, dhQueue, dhTune, dhStatus, dhHdcp, dhSrc, dhTimers, dhThread,
                   dhRead, dhBounds, dhHistory>>

\* _dsGetEDID: nothing is set while the TV gives no list.
SetterReads(s) ==
    /\ dhSetter[s] = "ddc"
    /\ dhRead' = [dhRead EXCEPT ![s] = dhTV.list]
    /\ dhSetter' = [dhSetter EXCEPT ![s] = IF dhTV.list = <<>> THEN "done" ELSE "set"]
    /\ UNCHANGED <<dhBox, dhTV, dhQueue, dhTune, dhStatus, dhHdcp, dhSrc, dhTimers, dhThread,
                   dhPort, dhBounds, dhHistory>>

\* _dsSetResolution, chosen by the list that was read, whatever is plugged in by now.
SetterSets(s) ==
    /\ dhSetter[s] = "set"
    /\ dhPort' = [dhPort EXCEPT !.hdmi = HdmiResolution(dhRead[s])]
    /\ dhRead' = [dhRead EXCEPT ![s] = NoTV]
    /\ dhSetter' = [dhSetter EXCEPT ![s] = "done"]
    /\ dhPast' = dhPast \ {s}
    /\ dhLate' = (s \in dhPast)
    /\ UNCHANGED <<dhBox, dhTV, dhQueue, dhTune, dhStatus, dhHdcp, dhSrc, dhTimers, dhThread,
                   dhBounds, dhAuth>>

------------------------------------------------------------------------------
(* _EventHandler, on the bus thread *)

\* pthread_cond_signal with no predicate: only a thread that waits hears it.
DhSignal == dhThread' = IF dhThread = "wait" THEN "woken" ELSE dhThread

BusEvent(e) ==
    /\ dhSetter["bus"] = "idle"
    /\ dhQueue # <<>>
    /\ Head(dhQueue) = e
    /\ dhQueue' = Tail(dhQueue)

BusHotplug ==
    /\ \/ BusEvent("connect") /\ dhStatus' = "CONNECTED"
       \/ BusEvent("disconnect") /\ dhStatus' = "DISCONNECTED"
    /\ DhSignal
    /\ UNCHANGED <<dhBox, dhTV, dhTune, dhHdcp, dhSrc, dhTimers, dhSetter, dhRead, dhPort,
                   dhBounds, dhHistory>>

BusTuneReady ==
    /\ dhSetter["bus"] = "idle"
    /\ ~dhTune
    /\ dhTune' = TRUE
    /\ DhSignal
    /\ UNCHANGED <<dhBox, dhTV, dhQueue, dhStatus, dhHdcp, dhSrc, dhTimers, dhSetter, dhRead,
                   dhPort, dhBounds, dhHistory>>

\* g_source_remove of the source hotplug_event_src names.
RemoveSource == dhTimers' = dhTimers \ {dhSrc} /\ dhSrc' = 0

\* Mutant (AuthenticatedIsSet): the resolution is set only in place of the delayed one.
Mut_BusAuthenticated_OnlyIfDelayed ==
    /\ BusEvent("authenticated")
    /\ dhHdcp' = TRUE
    /\ RemoveSource
    /\ dhSetter' = [dhSetter EXCEPT !["bus"] = IF dhBox.ignoreEdid \/ dhSrc = 0 THEN "done"
                                               ELSE "sleep"]
    /\ dhAuth' = (dhTV.on /\ \A i \in DOMAIN dhQueue' :
                              dhQueue'[i] \in {"authenticated", "failure"})
    /\ UNCHANGED <<dhBox, dhTV, dhTune, dhStatus, dhThread, dhRead, dhPort, dhBounds, dhPast,
                   dhLate>>

BusAuthenticated ==
    /\ BusEvent("authenticated")
    /\ dhHdcp' = TRUE
    /\ RemoveSource
    /\ dhSetter' = [dhSetter EXCEPT !["bus"] = IF dhBox.ignoreEdid THEN "done" ELSE "sleep"]
    /\ dhAuth' = (dhTV.on /\ \A i \in DOMAIN dhQueue' :
                              dhQueue'[i] \in {"authenticated", "failure"})
    /\ UNCHANGED <<dhBox, dhTV, dhTune, dhStatus, dhThread, dhRead, dhPort, dhBounds, dhPast,
                   dhLate>>

BusFailure ==
    /\ BusEvent("failure")
    /\ dhHdcp' = FALSE
    /\ dhSetter' = [dhSetter EXCEPT !["bus"] = IF dhBox.ignoreEdid THEN "done" ELSE "sleep"]
    /\ UNCHANGED <<dhBox, dhTV, dhTune, dhStatus, dhSrc, dhTimers, dhThread, dhRead, dhPort,
                   dhBounds, dhHistory>>

BusDone ==
    /\ dhSetter["bus"] = "done"
    /\ dhSetter' = [dhSetter EXCEPT !["bus"] = "idle"]
    /\ UNCHANGED <<dhBox, dhTV, dhQueue, dhTune, dhStatus, dhHdcp, dhSrc, dhTimers, dhThread,
                   dhRead, dhPort, dhBounds, dhHistory>>

------------------------------------------------------------------------------
(* _DSMgrResnThreadFunc *)

ResnRemoves ==
    /\ dhThread = "woken"
    /\ RemoveSource
    /\ dhThread' = "act"
    /\ UNCHANGED <<dhBox, dhTV, dhQueue, dhTune, dhStatus, dhHdcp, dhSetter, dhRead, dhPort,
                   dhBounds, dhHistory>>

ResnConnect ==
    /\ dhThread = "act"
    /\ dhTune /\ dhStatus = "CONNECTED"
    /\ dhSetter' = [dhSetter EXCEPT !["resn"] = IF dhHdcp THEN "sleep" ELSE "done"]
    /\ dhThread' = "set"
    /\ UNCHANGED <<dhBox, dhTV, dhQueue, dhTune, dhStatus, dhHdcp, dhSrc, dhTimers, dhRead,
                   dhPort, dhBounds, dhHistory>>

\* dhStatus is read again; then the HDCP flag is reset, whatever came meanwhile.
ResnOther ==
    /\ dhThread = "act"
    /\ ~(dhTune /\ dhStatus = "CONNECTED")
    /\ dhThread' = IF dhTune THEN "again" ELSE "wait"
    /\ UNCHANGED <<dhBox, dhTV, dhQueue, dhTune, dhStatus, dhHdcp, dhSrc, dhTimers, dhSetter,
                   dhRead, dhPort, dhBounds, dhHistory>>

ResnAgain ==
    /\ dhThread = "again"
    /\ dhThread' = IF dhStatus = "DISCONNECTED" THEN "delay" ELSE "wait"
    /\ UNCHANGED <<dhBox, dhTV, dhQueue, dhTune, dhStatus, dhHdcp, dhSrc, dhTimers, dhSetter,
                   dhRead, dhPort, dhBounds, dhHistory>>

\* g_timeout_add_seconds, on boxes with a component port; the id is a new one.
ResnDelay ==
    /\ dhThread = "delay"
    /\ dhHdcp' = FALSE
    /\ LET new == CHOOSE n \in 1..(MaxPlugs + 3) : n \notin dhTimers /\ n # dhSrc
       IN  IF dhBox.component THEN dhTimers' = dhTimers \union {new} /\ dhSrc' = new
                              ELSE UNCHANGED <<dhTimers, dhSrc>>
    /\ dhThread' = "wait"
    /\ UNCHANGED <<dhBox, dhTV, dhQueue, dhTune, dhStatus, dhSetter, dhRead, dhPort, dhBounds,
                   dhHistory>>

ResnDone ==
    /\ dhThread = "set"
    /\ dhSetter["resn"] = "done"
    /\ dhSetter' = [dhSetter EXCEPT !["resn"] = "idle"]
    /\ dhThread' = "wait"
    /\ UNCHANGED <<dhBox, dhTV, dhQueue, dhTune, dhStatus, dhHdcp, dhSrc, dhTimers, dhRead,
                   dhPort, dhBounds, dhHistory>>

------------------------------------------------------------------------------
(* The main loop *)

StartDone ==
    /\ dhSetter["start"] = "done"
    /\ dhSetter' = [dhSetter EXCEPT !["start"] = "idle"]
    /\ UNCHANGED <<dhBox, dhTV, dhQueue, dhTune, dhStatus, dhHdcp, dhSrc, dhTimers, dhThread,
                   dhRead, dhPort, dhBounds, dhHistory>>

_SetResolutionHandler ==
    /\ dhSetter["start"] = "idle" /\ dhSetter["main"] = "idle"
    /\ \E t \in dhTimers : dhTimers' = dhTimers \ {t}
    /\ dhSetter' = [dhSetter EXCEPT !["main"] = "sleep"]
    /\ UNCHANGED <<dhBox, dhTV, dhQueue, dhTune, dhStatus, dhHdcp, dhSrc, dhThread, dhRead,
                   dhPort, dhBounds, dhHistory>>

\* The handler ends by clearing the id, though it may be that of a newer source by now.
MainDone ==
    /\ dhSetter["main"] = "done"
    /\ dhSetter' = [dhSetter EXCEPT !["main"] = "idle"]
    /\ dhSrc' = 0
    /\ UNCHANGED <<dhBox, dhTV, dhQueue, dhTune, dhStatus, dhHdcp, dhTimers, dhThread, dhRead,
                   dhPort, dhBounds, dhHistory>>

DhNext ==
    \/ Plug \/ Unplug \/ HdcpResult
    \/ \E s \in Setter : SetterLooks(s) \/ SetterReads(s) \/ SetterSets(s)
    \/ BusHotplug \/ BusTuneReady \/ BusAuthenticated \/ BusFailure \/ BusDone
    \/ ResnRemoves \/ ResnConnect \/ ResnOther \/ ResnAgain \/ ResnDelay \/ ResnDone
    \/ StartDone \/ _SetResolutionHandler \/ MainDone

DhSpec == DhInit /\ [][DhNext]_dhVars

------------------------------------------------------------------------------
(* Properties *)

AllQuiet == dhQueue = <<>> /\ \A s \in Setter : dhSetter[s] = "idle"

\* Once all is quiet, a TV that was authenticated has the resolution chosen for it,
\* whichever hot plug signals were lost and whichever threads set resolutions meanwhile.
\* Left out are runs in which the last setting was chosen by the list of an earlier TV,
\* read before that was unplugged (dsMgr.c:577) and used after (:756): the new TV then has
\* the resolution of the old one.
AuthenticatedIsSet ==
    AllQuiet /\ dhAuth /\ ~dhBox.ignoreEdid /\ dhTV.list # <<>> /\ ~dhLate
        => dhPort.hdmi = HdmiResolution(dhTV.list)

==============================================================================
