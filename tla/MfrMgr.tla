-------------------------------- MODULE MfrMgr --------------------------------
(***************************************************************************)
(* The manufacturer library manager (mfr/mfrMgr.c): it offers the library   *)
(* of the box's maker on the bus.  Most calls look a symbol up and call it; *)
(* writing an image takes minutes, which the library reports on a thread of *)
(* its own while the bus thread that serves the call polls what the last    *)
(* report said.  The library follows the protocol of                        *)
(* mfr/include/mfrTypes.h 141-145.                                          *)
(***************************************************************************)
EXTENDS Naturals, Sequences

CONSTANTS
    Client,      \* the modules that call
    Wifi,        \* ENABLE_MFR_WIFI
    MaxMfrCalls, \* bound: calls served
    MaxReports   \* bound: reports of progress of one write

\* The calls that only look a symbol up and call it, each time anew until it is found.
Simple == {"DeletePDRI", "ScrubAllBanks"} \union (IF Wifi THEN {"WIFI_EraseAllData"} ELSE {})
\* The calls in the order they are registered.
ApiOrder == <<"GetSerializedData", "DeletePDRI", "ScrubAllBanks", "WriteImage",
              "SetBootLoaderPattern">>
         \o (IF Wifi THEN <<"WIFI_EraseAllData", "WIFI_Credentials">> ELSE <<>>)
Api == {ApiOrder[i] : i \in DOMAIN ApiOrder}
Looked == Simple \union {"WriteImage", "SetBootLoaderPattern"}
Result == {"SUCCESS", "IPCCORE_FAIL", "INVALID_STATE", "INVALID_PARAM"}

ASSUME MfrMgrAssumption == Wifi \in BOOLEAN /\ {MaxMfrCalls, MaxReports} \subseteq Nat

VARIABLES
    mfStart,   \* how many calls MFRLib_Start has registered
    mfOnBus,   \* whether it is connected: "not_yet", "on" or "given_up"
    mfThere,   \* the library can be opened
    mfDefines, \* the symbols it has
    mfFound,   \* the calls whose func is known
    mfTried,   \* symbol_lookup_complete of setBootloaderPattern_
    mfModule,  \* writeImageCbModule
    mfLast,    \* lastStatus.progress
    mfCall,    \* the write that is served: [by, at], at "idle", "write" or "poll"
    mfLib,     \* the library's write: [by, at, reports], at "none" or its progress
    mfReport,  \* a report on its way: [of, status], "none" or a progress; not yet stored
    mfTold,    \* history: the module called with that report
    mfAnswer,  \* the last answer: [api, by, result]
    mfCalls    \* calls so far

mfLooks == <<mfFound, mfTried>>
mfWriting == <<mfModule, mfLast, mfCall, mfLib, mfReport, mfTold>>
mfServer == <<mfStart, mfOnBus, mfThere, mfDefines>>
mfVars == <<mfServer, mfLooks, mfWriting, mfAnswer, mfCalls>>

MfInit ==
    /\ mfStart = 0
    /\ mfOnBus = "not_yet"
    /\ mfThere \in BOOLEAN
    /\ mfDefines \in {Looked, {"WriteImage"}}
    /\ mfFound = {}
    /\ mfTried = FALSE
    /\ mfModule = "none"
    /\ mfLast = "NOT_STARTED"
    /\ mfCall = [by |-> "none", at |-> "idle"]
    /\ mfLib = [by |-> "none", at |-> "none", reports |-> 0]
    /\ mfReport = [of |-> "none", status |-> "none"]
    /\ mfTold = "none"
    /\ mfAnswer = [api |-> "none", by |-> "none", result |-> "SUCCESS"]
    /\ mfCalls = 0

------------------------------------------------------------------------------
(* MFRLib_Start *)

\* The library and the bus come up, or the start is given up.
ConnectBus ==
    /\ mfOnBus = "not_yet"
    /\ mfOnBus' \in {"on", "given_up"}
    /\ UNCHANGED <<mfStart, mfThere, mfDefines, mfLooks, mfWriting, mfAnswer, mfCalls>>

\* One call after the other is registered; the first that fails takes the
\* manager off the bus.  Its main goes on all the same and reports it ready.
RegisterNext ==
    /\ mfOnBus = "on" /\ mfStart < Len(ApiOrder)
    /\ \/ mfStart' = mfStart + 1 /\ UNCHANGED mfOnBus
       \/ mfOnBus' = "given_up" /\ UNCHANGED mfStart
    /\ UNCHANGED <<mfThere, mfDefines, mfLooks, mfWriting, mfAnswer, mfCalls>>

Served(api) == mfOnBus = "on" /\ \E i \in 1..mfStart : ApiOrder[i] = api

------------------------------------------------------------------------------
(* The calls; the bus thread serves one at a time *)

Free(api) == Served(api) /\ mfCall.at = "idle" /\ mfCalls < MaxMfrCalls

Answers(api, by, result) == mfAnswer' = [api |-> api, by |-> by, result |-> result]

\* getSerializedData_: the library has no answer, or one too long for the
\* caller's buffer, or fills it.
GetSerializedData(c) ==
    /\ Free("GetSerializedData")
    /\ \E r \in {"IPCCORE_FAIL", "INVALID_PARAM", "SUCCESS"} : Answers("GetSerializedData", c, r)
    /\ mfCalls' = mfCalls + 1
    /\ UNCHANGED <<mfServer, mfLooks, mfWriting>>

\* A function of the library is known already, or can be looked up.
CanFind(api) == api \in mfFound \/ (mfThere /\ api \in mfDefines)

\* A call without parameters: the function is looked up and called.
SimpleCall(c, api) ==
    /\ Free(api)
    /\ IF CanFind(api)
         THEN /\ mfFound' = mfFound \union {api}
              /\ \E r \in {"SUCCESS", "INVALID_STATE"} : Answers(api, c, r)
         ELSE Answers(api, c, "INVALID_STATE") /\ UNCHANGED mfFound
    /\ mfCalls' = mfCalls + 1
    /\ UNCHANGED <<mfServer, mfTried, mfWriting>>

deletePDRI(c) == SimpleCall(c, "DeletePDRI")
scrubAllBanks(c) == SimpleCall(c, "ScrubAllBanks")
mfrWifiEraseAllData(c) == Wifi /\ SimpleCall(c, "WIFI_EraseAllData")

\* mfrWifiCredentials_: names that are too long are refused.
WifiCredentials(c) ==
    /\ Wifi /\ Free("WIFI_Credentials")
    /\ \E r \in {"SUCCESS", "IPCCORE_FAIL", "INVALID_PARAM"} : Answers("WIFI_Credentials", c, r)
    /\ mfCalls' = mfCalls + 1
    /\ UNCHANGED <<mfServer, mfLooks, mfWriting>>

\* setBootloaderPattern_ looks its function up once; what was not there then is
\* never found.
SetBootLoaderPattern(c) ==
    LET api == "SetBootLoaderPattern"
        found == api \in mfFound \/ (~mfTried /\ CanFind(api))
    IN  /\ Free(api)
        /\ mfTried' = TRUE
        /\ IF found
             THEN /\ mfFound' = mfFound \union {api}
                  /\ \E r \in {"SUCCESS", "INVALID_PARAM"} : Answers(api, c, r)
             ELSE Answers(api, c, "INVALID_STATE") /\ UNCHANGED mfFound
        /\ mfCalls' = mfCalls + 1
        /\ UNCHANGED <<mfServer, mfWriting>>

------------------------------------------------------------------------------
(* writeImage_ *)

\* Mutant (SuccessIsOwn): the status of the write before is kept.
Mut_Forgotten_Not == mfLast
\* The last status is forgotten before the library is called.
Forgotten == "NOT_STARTED"

\* The caller becomes the one that is told of progress.
WriteImage(c) ==
    /\ Free("WriteImage")
    /\ IF CanFind("WriteImage")
         THEN /\ mfFound' = mfFound \union {"WriteImage"}
              /\ mfModule' = c
              /\ mfLast' = Forgotten
              /\ mfCall' = [by |-> c, at |-> "write"]
              /\ UNCHANGED mfAnswer
         ELSE Answers("WriteImage", c, "INVALID_STATE")
              /\ UNCHANGED <<mfFound, mfModule, mfLast, mfCall>>
    /\ mfCalls' = mfCalls + 1
    /\ UNCHANGED <<mfServer, mfTried, mfLib, mfReport, mfTold>>

\* The caller's name is too long.
NameTooLong(c) ==
    /\ Free("WriteImage") /\ CanFind("WriteImage")
    /\ mfFound' = mfFound \union {"WriteImage"}
    /\ Answers("WriteImage", c, "INVALID_PARAM")
    /\ mfCalls' = mfCalls + 1
    /\ UNCHANGED <<mfServer, mfTried, mfWriting>>

\* The library takes the image, or not.
Write ==
    /\ mfCall.at = "write"
    /\ \/ /\ mfLib' = [by |-> mfCall.by, at |-> "STARTED", reports |-> 0]
          /\ mfCall' = [mfCall EXCEPT !.at = "poll"]
          /\ UNCHANGED mfAnswer
       \/ /\ Answers("WriteImage", mfCall.by, "INVALID_STATE")
          /\ mfCall' = [mfCall EXCEPT !.at = "idle"]
          /\ UNCHANGED mfLib
    /\ UNCHANGED <<mfServer, mfLooks, mfModule, mfLast, mfReport, mfTold, mfCalls>>

\* It polls until the status is neither NOT_STARTED nor STARTED.
Poll ==
    /\ mfCall.at = "poll" /\ mfLast \notin {"NOT_STARTED", "STARTED"}
    /\ Answers("WriteImage", mfCall.by, IF mfLast = "COMPLETED" THEN "SUCCESS" ELSE "IPCCORE_FAIL")
    /\ mfCall' = [mfCall EXCEPT !.at = "idle"]
    /\ UNCHANGED <<mfServer, mfLooks, mfModule, mfLast, mfLib, mfReport, mfTold, mfCalls>>

\* The library reports: writeImageCb begins ...
Report(status) ==
    /\ mfLib.at = "STARTED" /\ mfReport.status = "none" /\ mfLib.reports < MaxReports
    /\ status = "STARTED" => mfLib.reports + 1 < MaxReports
    /\ mfLib' = [mfLib EXCEPT !.at = status, !.reports = @ + 1]
    /\ mfReport' = [of |-> mfLib.by, status |-> status]
    /\ mfTold' = "none"
    /\ UNCHANGED <<mfServer, mfLooks, mfModule, mfLast, mfCall, mfAnswer, mfCalls>>

\* ... and returns at once when the caller's data cannot be copied ...
CallbackReturns ==
    /\ mfReport.status # "none" /\ mfTold = "none"
    /\ mfReport' = [mfReport EXCEPT !.status = "none"]
    /\ UNCHANGED <<mfServer, mfLooks, mfModule, mfLast, mfCall, mfLib, mfTold, mfAnswer, mfCalls>>

\* ... or calls the module ...
CallModule ==
    /\ mfReport.status # "none" /\ mfTold = "none"
    /\ mfTold' = mfModule
    /\ UNCHANGED <<mfServer, mfLooks, mfModule, mfLast, mfCall, mfLib, mfReport, mfAnswer, mfCalls>>

\* ... and stores the status.
Store ==
    /\ mfReport.status # "none" /\ mfTold # "none"
    /\ mfLast' = mfReport.status
    /\ mfReport' = [mfReport EXCEPT !.status = "none"]
    /\ UNCHANGED <<mfServer, mfLooks, mfModule, mfCall, mfLib, mfTold, mfAnswer, mfCalls>>

------------------------------------------------------------------------------

\* The file system with the library is mounted: external.
LibraryAppears ==
    /\ ~mfThere /\ mfThere' = TRUE
    /\ UNCHANGED <<mfStart, mfOnBus, mfDefines, mfLooks, mfWriting, mfAnswer, mfCalls>>

MfNext ==
    \/ ConnectBus \/ RegisterNext \/ LibraryAppears
    \/ \E c \in Client :
         \/ GetSerializedData(c) \/ WifiCredentials(c) \/ SetBootLoaderPattern(c)
         \/ WriteImage(c) \/ NameTooLong(c)
         \/ deletePDRI(c) \/ scrubAllBanks(c) \/ mfrWifiEraseAllData(c)
    \/ Write \/ Poll
    \/ \E s \in {"STARTED", "COMPLETED", "ABORTED"} : Report(s)
    \/ CallbackReturns \/ CallModule \/ Store

MfSpec == MfInit /\ [][MfNext]_mfVars

------------------------------------------------------------------------------
(* Properties *)

\* A client that is told SUCCESS has its image written: the status that is
\* polled is of this write and not of one before, nor of another client's.
SuccessIsOwn ==
    [][ mfAnswer'.result = "SUCCESS" /\ mfAnswer'.api = "WriteImage" /\ mfCall.at = "poll"
          /\ mfCall'.at = "idle"
        => mfLib.by = mfCall.by /\ mfLib.at = "COMPLETED" ]_mfVars

=============================================================================
