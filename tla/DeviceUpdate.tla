----------------------------- MODULE DeviceUpdate -----------------------------
(***************************************************************************)
(* The update sessions of the device update manager                        *)
(* (deviceUpdateMgr/deviceUpdateMgrMain.cpp).  The proxy of a device       *)
(* accepts an announced image with a call and gets the number of a         *)
(* session; from there on manager and proxy send each other events.  With  *)
(* an interactive download or load a user interface takes the manager's    *)
(* part.                                                                   *)
(*                                                                         *)
(* Calls are served on one bus thread and events, in the order they were   *)
(* sent, on another.  The configuration is read after both can come.  The  *)
(* manager may be started again: its sessions are forgotten then, and      *)
(* their numbers are used again.                                           *)
(***************************************************************************)
EXTENDS Naturals, Sequences, FiniteSets

CONSTANTS
    Device,       \* devices with a proxy
    MaxSessions,  \* bound: sessions one process of the manager gives
    MaxSent,      \* bound: events that wait
    MaxRestarts   \* bound: restarts of the manager

ASSUME DeviceUpdateAssumption ==
    {MaxSessions, MaxSent, MaxRestarts} \subseteq Nat

VARIABLES
    duConf,    \* the configuration file: [download, load]: whether the user starts them
    duLoaded,  \* loadConfig has read it
    duNext,    \* nextID
    duUpdates, \* updatesInProgress: sessions by their number
    duEvents,  \* events to the manager: [kind, id, value]
    duProxy,   \* external: the proxy of each device: [pc, id, told]
    duInit,    \* external: events of the manager or the UI to the proxies
    duCrashed, \* the process is down
    duStarts,  \* restarts so far
    duSent     \* history: what the manager sent in this life of it

duVars == <<duConf, duLoaded, duNext, duUpdates, duEvents, duProxy, duInit, duCrashed,
            duStarts, duSent>>

Session == [device : Device, told : BOOLEAN, percent : {0, 50, 100}, loaded : BOOLEAN,
            error : BOOLEAN]

NoProxy == [pc |-> "idle", id |-> 0, told |-> FALSE]

DuInit ==
    /\ duConf \in [download : BOOLEAN, load : BOOLEAN]
    /\ duLoaded = FALSE
    /\ duNext = 1
    /\ duUpdates = <<>>
    /\ duEvents = <<>>
    /\ duProxy = [d \in Device |-> NoProxy]
    /\ duInit = {}
    /\ duCrashed = FALSE
    /\ duStarts = 0
    /\ duSent = {}

interactiveDownload == duLoaded /\ duConf.download
interactiveLoad == duLoaded /\ duConf.load

------------------------------------------------------------------------------
(* The process *)

loadConfig ==
    /\ ~duCrashed /\ ~duLoaded
    /\ duLoaded' = TRUE
    /\ UNCHANGED <<duConf, duNext, duUpdates, duEvents, duProxy, duInit, duCrashed, duStarts,
                   duSent>>

DuRestart ==
    /\ duStarts < MaxRestarts
    /\ duStarts' = duStarts + 1
    /\ duLoaded' = FALSE
    /\ duNext' = 1
    /\ duUpdates' = <<>>
    /\ duEvents' = <<>>
    /\ duCrashed' = FALSE
    /\ duSent' = {}
    /\ UNCHANGED <<duConf, duProxy, duInit>>

\* AcceptUpdate, for device d.
AcceptUpdate(d) ==
    /\ ~duCrashed
    /\ duNext <= MaxSessions
    /\ duProxy[d].pc = "idle"
    /\ duUpdates' = Append(duUpdates, [device |-> d, told |-> interactiveDownload,
                                       percent |-> 0, loaded |-> FALSE, error |-> FALSE])
    /\ duProxy' = [duProxy EXCEPT ![d] = [pc |-> "accepted", id |-> duNext,
                                          told |-> interactiveDownload]]
    /\ duNext' = duNext + 1
    /\ UNCHANGED <<duConf, duLoaded, duEvents, duInit, duCrashed, duStarts, duSent>>

------------------------------------------------------------------------------
(* _deviceUpdateEventHandler *)

Handle(kind, id) ==
    /\ ~duCrashed
    /\ duEvents # <<>>
    /\ Head(duEvents).kind = kind
    /\ Head(duEvents).id = id
    /\ duEvents' = Tail(duEvents)
    /\ UNCHANGED <<duConf, duLoaded, duNext, duProxy, duStarts>>

Known(id) == id \in DOMAIN duUpdates

\* A broadcast of the manager.
Send(kind, id) ==
    /\ duInit' = duInit \union {[kind |-> kind, id |-> id]}
    /\ duSent' = duSent \union {[kind |-> kind, id |-> id]}

\* getUpdateInProgress reads past the end of the map for a number it does not have: what it
\* finds there is NULL or not.
NotNull(id) == IF Known(id) THEN {TRUE} ELSE BOOLEAN

\* Mutant (UiDecides): the manager starts every download.
Mut_HandleReady_Always(id) ==
    /\ Handle("READY_TO_DOWNLOAD", id)
    /\ \E found \in NotNull(id) :
         IF found THEN Send("DOWNLOAD_INITIATE", id)
                  ELSE UNCHANGED <<duInit, duSent>>
    /\ UNCHANGED <<duUpdates, duCrashed>>

HandleReady(id) ==
    /\ Handle("READY_TO_DOWNLOAD", id)
    /\ \E found \in NotNull(id) :
         IF found /\ ~interactiveDownload THEN Send("DOWNLOAD_INITIATE", id)
                                          ELSE UNCHANGED <<duInit, duSent>>
    /\ UNCHANGED <<duUpdates, duCrashed>>

\* sendLoadInit; in how many hours the device is to load, which the event names too, is left
\* out.
SendLoadInit(id) == Send("LOAD_INITIATE", id)

HandleStatus(id) ==
    /\ Handle("DOWNLOAD_STATUS", id)
    /\ Known(id)
    /\ duUpdates' = [duUpdates EXCEPT ![id].percent = Head(duEvents).value]
    /\ IF Head(duEvents).value >= 100 /\ ~interactiveLoad
       THEN SendLoadInit(id)
       ELSE UNCHANGED <<duInit, duSent>>
    /\ UNCHANGED duCrashed

\* The session stays in the map.
HandleLoad(id) ==
    /\ Handle("LOAD_STATUS", id)
    /\ Known(id)
    /\ duUpdates' = [duUpdates EXCEPT ![id].loaded = (Head(duEvents).value = 1)]
    /\ UNCHANGED <<duInit, duSent, duCrashed>>

HandleError(id) ==
    /\ Handle("ERROR", id)
    /\ Known(id)
    /\ duUpdates' = [duUpdates EXCEPT ![id].error = TRUE]
    /\ UNCHANGED <<duInit, duSent, duCrashed>>

\* What is not NULL is written to: the process does not survive that.
HandleUnknown(id) ==
    /\ \E kind \in {"DOWNLOAD_STATUS", "LOAD_STATUS", "ERROR"} : Handle(kind, id)
    /\ ~Known(id)
    /\ duCrashed' \in BOOLEAN
    /\ UNCHANGED <<duUpdates, duInit, duSent>>

------------------------------------------------------------------------------
(* The proxies and the user interface: external, as deviceUpdateMgr.h describes them *)

ProxySends(d, pc, kind, value) ==
    /\ Len(duEvents) < MaxSent
    /\ duEvents' = Append(duEvents, [kind |-> kind, id |-> duProxy[d].id, value |-> value])
    /\ duProxy' = [duProxy EXCEPT ![d].pc = pc]
    /\ UNCHANGED <<duConf, duLoaded, duNext, duUpdates, duInit, duCrashed, duStarts, duSent>>

Ordered(d, kind) == \E e \in duInit : e.kind = kind /\ e.id = duProxy[d].id

Proxy(d) ==
    \/ duProxy[d].pc = "accepted" /\ ProxySends(d, "ready", "READY_TO_DOWNLOAD", 0)
    \/ /\ duProxy[d].pc = "ready" /\ Ordered(d, "DOWNLOAD_INITIATE")
       /\ ProxySends(d, "half", "DOWNLOAD_STATUS", 50)
    \/ duProxy[d].pc = "half" /\ ProxySends(d, "full", "DOWNLOAD_STATUS", 100)
    \/ duProxy[d].pc = "half" /\ ProxySends(d, "failed", "ERROR", 0)
    \/ /\ duProxy[d].pc = "full" /\ Ordered(d, "LOAD_INITIATE")
       /\ ProxySends(d, "loading", "LOAD_STATUS", 0)
    \/ duProxy[d].pc = "loading" /\ ProxySends(d, "loaded", "LOAD_STATUS", 1)

\* Once it is done, or has failed, the proxy may accept another image.
ProxyAgain(d) ==
    /\ duProxy[d].pc \in {"failed", "loaded"}
    /\ duProxy' = [duProxy EXCEPT ![d] = NoProxy]
    /\ UNCHANGED <<duConf, duLoaded, duNext, duUpdates, duEvents, duInit, duCrashed, duStarts,
                   duSent>>

\* The UI hears what the proxies send, and starts what it is told to start.
UserStarts(d) ==
    /\ \/ /\ duConf.download /\ duProxy[d].pc = "ready"
          /\ duInit' = duInit \union {[kind |-> "DOWNLOAD_INITIATE", id |-> duProxy[d].id]}
       \/ /\ duConf.load /\ duProxy[d].pc = "full"
          /\ duInit' = duInit \union {[kind |-> "LOAD_INITIATE", id |-> duProxy[d].id]}
    /\ UNCHANGED <<duConf, duLoaded, duNext, duUpdates, duEvents, duProxy, duCrashed, duStarts,
                   duSent>>

Id == 1..MaxSessions

DuNext ==
    \/ loadConfig \/ DuRestart
    \/ \E d \in Device : AcceptUpdate(d) \/ Proxy(d) \/ ProxyAgain(d) \/ UserStarts(d)
    \/ \E id \in Id : HandleReady(id) \/ HandleStatus(id) \/ HandleLoad(id) \/ HandleError(id)
                      \/ HandleUnknown(id)

DuSpec == DuInit /\ [][DuNext]_duVars

------------------------------------------------------------------------------
(* Properties *)

\* The first life of the manager: later ones may take an event of an old session for one
\* of the new session with its number.
FirstLife == duStarts = 0

\* A proxy that was told, when it accepted, that the user decides about the download is
\* never told by the manager to start it.
UiDecides ==
    FirstLife =>
       \A e \in duSent : e.kind = "DOWNLOAD_INITIATE" => ~duUpdates[e.id].told

==============================================================================
