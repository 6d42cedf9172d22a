------------------------------ MODULE VrexSession ------------------------------
(***************************************************************************)
(* The voice remote manager, for one remote (vrexmgr/vrexMgr.cpp and       *)
(* vrexSession.cpp).  One bus thread handles every event: speech, motion,  *)
(* keys, settings and pairing.  At the begin of a recording it starts a    *)
(* transfer thread and waits until that thread listens at a socket; the    *)
(* audio goes through the socket to the server.  Conversations are gained  *)
(* with a "knock knock" and run out.                                       *)
(*                                                                         *)
(* A connection has the number of the thread whose socket it leads to.     *)
(***************************************************************************)
EXTENDS Naturals, FiniteSets

CONSTANTS
    MaxThreads,   \* bound: transfer threads
    MaxMoves,     \* bound: motions, keys, settings, pairings and changes of power
    MaxFails,     \* bound: failures of the sockets and of pthread_create
    MaxLost       \* bound: ends of a recording that get lost

ASSUME VrexAssumption == {MaxThreads, MaxMoves, MaxFails, MaxLost} \subseteq Nat

Thread == 1..MaxThreads
Bad == MaxThreads + 1    \* a client socket that is connected to nothing

VARIABLES
    vxPower,    \* currentPowerMode
    vxVoice,    \* bVoiceControl
    vxBus,      \* the bus thread: [pc, next], where it goes on after a knock knock
    vxExpires,  \* m_conversationExpires: "zero", "past", "soon" or "later"
    vxCid,      \* m_parameters has a cid
    vxClient,   \* m_clientSocket, 0 if none
    vxServer,   \* m_serverSocket
    vxName,     \* the thread that listens at the name of the socket, 0 if none
    vxReader,   \* m_dataReadThread
    vxThread,   \* where each transfer thread is
    vxCrashed,  \* the process is down
    vxBounds,   \* bounds, so far
    vxTalks,    \* external: the remote is recording
    vxCalled,   \* the threads at whose socket a client waits
    vxOdd       \* history: what went wrong: a "fault", a "late" broadcast, an end of a
                \* recording "lost" or "unheard", a recording while a thread is still "busy"

vxVars == <<vxPower, vxVoice, vxBus, vxExpires, vxCid, vxClient, vxServer, vxName, vxReader,
            vxThread, vxCrashed, vxBounds, vxTalks, vxCalled, vxOdd>>
vxBox == <<vxPower, vxVoice>>
vxConversation == <<vxExpires, vxCid>>
vxSockets == <<vxClient, vxServer, vxName, vxReader, vxCalled>>

VxInit ==
    /\ vxPower \in {"unknown", "OFF", "STANDBY", "ON"}
    /\ vxVoice = TRUE
    /\ vxBus = [pc |-> "idle", next |-> "idle"]
    /\ vxExpires = "past" /\ vxCid = FALSE
    /\ vxClient = 0 /\ vxServer = 0 /\ vxName = 0 /\ vxReader = 0
    /\ vxThread = [t \in Thread |-> "none"]
    /\ vxCrashed = FALSE
    /\ vxBounds = [moves |-> 0, fails |-> 0, lost |-> 0]
    /\ vxTalks = FALSE
    /\ vxCalled = {} /\ vxOdd = {}

Live == {t \in Thread : vxThread[t] \notin {"none", "ended"}}
Goto(pc) == vxBus' = [vxBus EXCEPT !.pc = pc]
Count(what, most) == vxBounds[what] < most /\ vxBounds' = [vxBounds EXCEPT ![what] = @ + 1]

\* is_powered_on returns the mode itself: anything but OFF is "on".
is_powered_on == vxPower # "OFF"
Heard == is_powered_on /\ vxVoice

------------------------------------------------------------------------------
(* Knock knock *)

\* onMotion, up to the request; not after a failure.
onMotion(then) ==
    IF vxExpires = "zero" THEN vxBus' = [pc |-> then, next |-> "idle"] /\ vxExpires' = vxExpires
    ELSE vxBus' = [pc |-> "knock", next |-> then] /\ vxExpires' = "zero"

\* Where the bus thread goes when a knock knock for then has failed.
Failed(then) == IF then = "create" THEN "sendErrors" ELSE "idle"

\* The server answers: nothing, a conversation, an error code (which onMotion takes for a
\* success), or something without a code, which is read through NULL.
Knocked ==
    /\ vxBus.pc = "knock"
    /\ \/ /\ vxBus' = [pc |-> Failed(vxBus.next), next |-> "idle"]
          /\ UNCHANGED <<vxExpires, vxCid, vxCrashed>>
       \/ /\ vxBus' = [pc |-> vxBus.next, next |-> "idle"]
          /\ vxExpires' = "later" /\ vxCid' = TRUE
          /\ UNCHANGED vxCrashed
       \/ /\ vxBus' = [pc |-> vxBus.next, next |-> "idle"]
          /\ vxCid' = FALSE
          /\ UNCHANGED <<vxExpires, vxCrashed>>
       \/ /\ vxCrashed' = TRUE
          /\ UNCHANGED <<vxBus, vxExpires, vxCid>>
    /\ UNCHANGED <<vxBox, vxSockets, vxThread, vxBounds, vxTalks, vxOdd>>

------------------------------------------------------------------------------
(* Events that only knock, or do not *)

MotionEvent ==
    /\ vxBus.pc = "idle" /\ Heard
    /\ Count("moves", MaxMoves)
    /\ onMotion("idle")
    /\ UNCHANGED <<vxBox, vxCid, vxSockets, vxThread, vxCrashed, vxTalks, vxOdd>>

\* _keyEventHandler, at the release of a key: updateExpiration, whatever the power mode.
KeyEvent ==
    /\ vxBus.pc = "idle"
    /\ Count("moves", MaxMoves)
    /\ vxExpires \in {"past", "soon"}
    /\ onMotion("idle")
    /\ UNCHANGED <<vxBox, vxCid, vxSockets, vxThread, vxCrashed, vxTalks, vxOdd>>

SettingsEvent ==
    /\ vxBus.pc = "idle" /\ is_powered_on
    /\ Count("moves", MaxMoves)
    /\ vxVoice' = ~vxVoice
    /\ UNCHANGED <<vxPower, vxBus, vxConversation, vxSockets, vxThread, vxCrashed, vxTalks,
                   vxOdd>>

\* _configureRemotesToWatch clears the map and makes new sessions; a transfer thread that
\* is at work then works on a session that is no more.
PairEvent ==
    /\ vxBus.pc = "idle"
    /\ Count("moves", MaxMoves)
    /\ vxExpires' = "past" /\ vxCid' = FALSE
    /\ vxClient' = 0 /\ vxServer' = 0 /\ vxReader' = 0
    /\ vxCrashed' = (Live # {})
    /\ UNCHANGED <<vxBox, vxBus, vxName, vxCalled, vxThread, vxTalks, vxOdd>>

\* _PowerPreChange comes on another thread.
_PowerPreChange ==
    /\ Count("moves", MaxMoves)
    /\ vxPower' \in {"OFF", "STANDBY", "ON"} \ {vxPower}
    /\ UNCHANGED <<vxVoice, vxBus, vxConversation, vxSockets, vxThread, vxCrashed, vxTalks,
                   vxOdd>>

\* A conversation grows old.
Ages ==
    /\ vxExpires \in {"later", "soon"}
    /\ vxExpires' = IF vxExpires = "later" THEN "soon" ELSE "past"
    /\ UNCHANGED <<vxBox, vxBus, vxCid, vxSockets, vxThread, vxCrashed, vxBounds,
                   vxTalks,
                   vxOdd>>

------------------------------------------------------------------------------
(* The begin of a recording: onStreamStart *)

\* A begin is only heard in its turn unless an end was lost.
BeginEvent ==
    /\ vxBus.pc = "idle" /\ Heard
    /\ \E t \in Thread : vxThread[t] = "none"
    /\ IF vxTalks THEN Count("lost", MaxLost) ELSE UNCHANGED vxBounds
    /\ vxTalks' = TRUE
    /\ vxOdd' = vxOdd \cup {o \in {"busy", "lost"} : IF o = "busy" THEN Live # {} ELSE vxTalks}
    /\ IF vxExpires \in {"zero", "past"}
       THEN vxBus' = [pc |-> "knock", next |-> "create"] /\ vxExpires' = "zero"
       ELSE vxBus' = [pc |-> "create", next |-> "idle"] /\ UNCHANGED vxExpires
    /\ UNCHANGED <<vxBox, vxCid, vxSockets, vxThread, vxCrashed>>

Create ==
    /\ vxBus.pc = "create"
    /\ LET t == CHOOSE t \in Thread : /\ vxThread[t] = "none"
                                       /\ \A u \in Thread : u < t => vxThread[u] # "none"
       IN  \/ /\ vxThread' = [vxThread EXCEPT ![t] = "new"]
              /\ vxReader' = t
              /\ Goto("created")
              /\ UNCHANGED <<vxBounds, vxOdd>>
           \/ /\ Count("fails", MaxFails)
              /\ Goto("sendErrors")
              /\ vxOdd' = vxOdd \cup {"fault"}
              /\ UNCHANGED <<vxThread, vxReader>>
    /\ UNCHANGED <<vxBox, vxConversation, vxClient, vxServer, vxName, vxCalled, vxCrashed,
                   vxTalks>>

\* pthread_cond_wait, with no predicate.
Waits ==
    /\ vxBus.pc = "created"
    /\ Goto("wait")
    /\ UNCHANGED <<vxBox, vxConversation, vxSockets, vxThread, vxCrashed, vxBounds, vxTalks,
                   vxOdd>>

\* A socket that cannot be connected stays open.
Connect ==
    /\ vxBus.pc = "woken"
    /\ IF vxName # 0
       THEN vxClient' = vxName /\ vxCalled' = vxCalled \cup {vxName} /\ Goto("sendBegin")
       ELSE vxClient' = Bad /\ UNCHANGED vxCalled /\ Goto("sendErrors")
    /\ UNCHANGED <<vxBox, vxConversation, vxServer, vxName, vxReader, vxThread, vxCrashed,
                   vxBounds,
                   vxTalks, vxOdd>>

------------------------------------------------------------------------------
(* sendState *)

Sending == vxBus.pc \in {"sendBegin", "sendErrors", "sendFinished"}

\* Without a conversation nothing is sent.
SendNothing ==
    /\ Sending /\ ~vxCid
    /\ Goto("idle")
    /\ UNCHANGED <<vxBox, vxConversation, vxSockets, vxThread, vxCrashed, vxBounds, vxTalks,
                   vxOdd>>

\* Any answer makes the conversation last longer.
SendState ==
    /\ Sending /\ vxCid
    /\ Goto("idle")
    /\ vxExpires' \in {vxExpires, "later"}
    /\ UNCHANGED <<vxBox, vxCid, vxSockets, vxThread, vxCrashed, vxBounds, vxTalks, vxOdd>>

\* goto redoSendState: code 213 says that the conversation is over, and the state is sent
\* again after a knock knock, as often as the server says so.
RedoSendState ==
    /\ Sending /\ vxCid
    /\ vxBus' = [pc |-> "knock", next |-> vxBus.pc]
    /\ vxExpires' = "zero"
    /\ UNCHANGED <<vxBox, vxCid, vxSockets, vxThread, vxCrashed, vxBounds, vxTalks, vxOdd>>

------------------------------------------------------------------------------
(* The end of a recording: onStreamEnd *)

\* The client's end is closed, and the thread is waited for unless it has closed it itself.
EndEvent ==
    /\ vxBus.pc = "idle" /\ vxTalks /\ Heard
    /\ vxTalks' = FALSE
    /\ vxClient' = 0
    /\ Goto(IF vxClient = 0 THEN "sendFinished" ELSE "join")
    /\ UNCHANGED <<vxBox, vxConversation, vxServer, vxName, vxReader, vxThread, vxCrashed,
                   vxBounds, vxCalled, vxOdd>>

\* Voice control or power was switched off meanwhile: the end is not heard.
EndUnheard ==
    /\ vxBus.pc = "idle" /\ vxTalks /\ ~Heard
    /\ vxTalks' = FALSE
    /\ vxOdd' = vxOdd \cup {"unheard"}
    /\ UNCHANGED <<vxBox, vxBus, vxConversation, vxSockets, vxThread, vxCrashed, vxBounds>>

\* There is no thread to wait for if a pairing made the session new.
Join ==
    /\ vxBus.pc = "join"
    /\ vxReader = 0 \/ vxThread[vxReader] = "ended"
    /\ Goto("sendFinished")
    /\ UNCHANGED <<vxBox, vxConversation, vxSockets, vxThread, vxCrashed, vxBounds, vxTalks,
                   vxOdd>>

------------------------------------------------------------------------------
(* startTransferServer, on thread t *)

Step(t, from, to) == vxThread[t] = from /\ vxThread' = [vxThread EXCEPT ![t] = to]

\* The name is unlinked and bound anew.
Listen(t) ==
    /\ Step(t, "new", "listens")
    /\ vxName' = t
    /\ UNCHANGED <<vxBox, vxBus, vxConversation, vxClient, vxServer, vxReader, vxCrashed,
                   vxBounds, vxTalks, vxCalled, vxOdd>>

\* socket, bind or listen fails: nobody is woken.
ListenFails(t) ==
    /\ Step(t, "new", "ended")
    /\ Count("fails", MaxFails)
    /\ vxOdd' = vxOdd \cup {"fault"}
    /\ UNCHANGED <<vxBox, vxBus, vxConversation, vxSockets, vxCrashed, vxTalks>>

\* Mutant (BusReturns): the broadcast was forgotten.
Mut_Broadcast_Nobody(t) ==
    /\ Step(t, "listens", "accepts")
    /\ UNCHANGED <<vxBox, vxBus, vxConversation, vxSockets, vxCrashed, vxBounds, vxTalks,
                   vxOdd>>

\* After five milliseconds whoever waits is woken; too late a waiter sleeps on.
Broadcast(t) ==
    /\ Step(t, "listens", "accepts")
    /\ IF vxBus.pc = "wait" THEN Goto("woken") /\ UNCHANGED vxOdd
                            ELSE UNCHANGED vxBus /\ vxOdd' = vxOdd \cup {"late"}
    /\ UNCHANGED <<vxBox, vxConversation, vxSockets, vxCrashed, vxBounds, vxTalks>>

\* accept returns once a client has connected to this thread's socket.  The URL is made
\* of the conversation, through NULL if there is none.
Accept(t) ==
    /\ t \in vxCalled
    /\ Step(t, "accepts", "transfers")
    /\ vxServer' = t
    /\ vxCrashed' = ~vxCid
    /\ UNCHANGED <<vxBox, vxBus, vxConversation, vxClient, vxName, vxReader, vxBounds,
                   vxTalks, vxCalled, vxOdd>>

\* curl_easy_perform ends: the audio ends, the server has answered early, or the time is up.
Transferred(t) ==
    /\ Step(t, "transfers", "answered")
    /\ vxClient' = 0
    /\ UNCHANGED <<vxBox, vxBus, vxConversation, vxServer, vxName, vxReader, vxCrashed,
                   vxBounds, vxTalks, vxCalled, vxOdd>>

\* The outcome is announced, and the name removed, whoever's it is by now.
Done(t) ==
    /\ Step(t, "answered", "ended")
    /\ vxServer' = 0 /\ vxName' = 0
    /\ UNCHANGED <<vxBox, vxBus, vxConversation, vxClient, vxReader, vxCrashed, vxBounds,
                   vxTalks, vxCalled, vxOdd>>

BusStep ==
    \/ Knocked \/ Create \/ Waits \/ Connect \/ SendNothing \/ SendState
    \/ RedoSendState \/ Join

ThreadStep(t) == Listen(t) \/ Broadcast(t) \/ Accept(t) \/ Transferred(t) \/ Done(t)

VxNext ==
    /\ ~vxCrashed
    /\ \/ BusStep
       \/ MotionEvent \/ KeyEvent \/ SettingsEvent \/ PairEvent \/ _PowerPreChange \/ Ages
       \/ BeginEvent \/ EndEvent \/ EndUnheard
       \/ \E t \in Thread : ThreadStep(t) \/ ListenFails(t)

VxSafe == VxInit /\ [][VxNext]_vxVars

VxSpec ==
    /\ VxSafe
    /\ WF_vxVars(~vxCrashed /\ BusStep)
    /\ \A t \in Thread : WF_vxVars(~vxCrashed /\ ThreadStep(t))

------------------------------------------------------------------------------
(* Properties *)

\* The bus thread gets done with every event, as long as no socket fails, threads are as
\* prompt as the code expects, no recording follows too soon on another, and the server
\* does not go on for ever calling each conversation it has just begun over (code 213):
\* the code puts no limit on that, and such a server keeps the bus thread.
BusReturns ==
    \/ vxBus.pc # "idle" ~> vxBus.pc = "idle" \/ vxCrashed \/ vxOdd # {}
    \/ []<><<RedoSendState>>_vxVars

==============================================================================
