------------------------------ MODULE MCServices ------------------------------
(***************************************************************************)
(* Five components that share no variable: the sleep timer, the warehouse  *)
(* and factory resets, the voice session, the manufacturer library manager *)
(* and the automatic binding of the infrared manager.  A behaviour of this *)
(* module is one of one of them, the others rest in an initial state, so   *)
(* that one run checks all of them, progress included.                     *)
(***************************************************************************)
EXTENDS SleepTimer, DeviceResets, VrexSession, MfrMgr, AutoBind

VARIABLE part   \* the component that runs

allVars == <<part, vars, whVars, vxVars, mfVars, abVars>>

VxRests == VxInit /\ vxPower = "ON"
MfRests == mfThere = FALSE /\ mfDefines = Looked /\ MfInit

ServicesInit ==
    /\ Init /\ WhInit /\ AbInit
    /\ \/ part \in {"timer", "resets", "binding"} /\ VxRests /\ MfRests
       \/ part = "voice" /\ VxInit /\ MfRests
       \/ part = "library" /\ VxRests /\ MfInit

OnlyTimer == part = "timer" /\ UNCHANGED <<part, whVars, vxVars, mfVars, abVars>>
OnlyResets == part = "resets" /\ UNCHANGED <<part, vars, vxVars, mfVars, abVars>>
OnlyVoice == part = "voice" /\ UNCHANGED <<part, vars, whVars, mfVars, abVars>>
OnlyLibrary == part = "library" /\ UNCHANGED <<part, vars, whVars, vxVars, abVars>>
OnlyBinding == part = "binding" /\ UNCHANGED <<part, vars, whVars, vxVars, mfVars>>

ServicesNext ==
    \/ Next /\ OnlyTimer
    \/ WhNext /\ OnlyResets
    \/ VxNext /\ OnlyVoice
    \/ MfNext /\ OnlyLibrary
    \/ AbNext /\ OnlyBinding

\* The fairness of the components that have some: Fairness, WhFairness and that of VxSpec.
ServicesFairness ==
    /\ \A a \in Armings : /\ WF_allVars(Expire(a) /\ OnlyTimer)
                          /\ WF_allVars(Dispatch(a) /\ OnlyTimer)
    /\ WF_allVars(FireLocked /\ OnlyTimer)
    /\ WF_allVars(FireSend /\ OnlyTimer)
    /\ \A t \in ResetThread :
         /\ WF_allVars(t \in DOMAIN whThread /\ WhThread(t) /\ OnlyResets)
         /\ WF_allVars(t \in DOMAIN whThread /\ WhScriptEnds(t) /\ OnlyResets)
    /\ WF_allVars((WhDetach \/ WhDetachNull) /\ OnlyResets)
    /\ WF_allVars(~vxCrashed /\ BusStep /\ OnlyVoice)
    /\ \A t \in Thread : WF_allVars(~vxCrashed /\ ThreadStep(t) /\ OnlyVoice)

ServicesSpec == ServicesInit /\ [][ServicesNext]_allVars /\ ServicesFairness
===============================================================================
