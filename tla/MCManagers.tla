------------------------------ MODULE MCManagers ------------------------------
(***************************************************************************)
(* The safety of the other managers: the two halves of the display manager *)
(* and its product traits, the keys of the infrared manager, the system    *)
(* manager and the two halves of the device update manager.  They share no *)
(* variable.  A behaviour of this module is one of one of them, the others *)
(* rest in an initial state, so that one run checks all of them.           *)
(***************************************************************************)
EXTENDS StandbyVideo, DsHotplug, ProductTraits, IrKeys, SysMgr, DeviceScan, DeviceUpdate

VARIABLE part   \* the component that runs

MCVideoPorts == <<"HDMI0", "Component0">>
MCAudioPersist == [a \in {"SPDIF", "HDMI"} |-> a = "HDMI"]

\* A TV of low power, one that lists more than the platform has, and an old one.
MCTVs == {<<>>, <<"480p", "720p", "1080p", "4320p">>, <<"480i", "480p">>}

SvRests == Init /\ videoOn = {}
DhRests ==
    /\ dhBox = [user |-> CHOOSE r \in UserResolutions : TRUE, disable4K |-> FALSE,
                ignoreEdid |-> FALSE, component |-> FALSE]
    /\ dhTV = [on |-> FALSE, list |-> NoTV] /\ dhTune = FALSE /\ DhInit
TrRests ==
    /\ trProfile = CHOOSE p \in Profiles : TRUE
    /\ trPower = [cur |-> "ON", prev |-> "ON"]
    /\ trForced = FALSE /\ trReason = "HARD" /\ trBoot = "NORMAL" /\ TrInit
SmRests == smTime = FALSE /\ smProfile = 0 /\ SmInit
ScRests ==
    /\ scConf = [folders |-> 1, delay |-> 0, one |-> FALSE, shown |-> {}]
    /\ scDay = [day |-> 1, days |-> 30] /\ ScInit
DuRests == duConf = [download |-> FALSE, load |-> FALSE] /\ DuInit

\* A box that ignores what the TV lists promises nothing about it, and is left out.
ManagersInit ==
    \/ /\ part = "ports" /\ Init
       /\ DhRests /\ TrRests /\ IrInit /\ SmRests /\ ScRests /\ DuRests
    \/ /\ part = "hotplug" /\ DhInit /\ ~dhBox.ignoreEdid
       /\ SvRests /\ TrRests /\ IrInit /\ SmRests /\ ScRests /\ DuRests
    \/ /\ part = "traits" /\ TrInit
       /\ SvRests /\ DhRests /\ IrInit /\ SmRests /\ ScRests /\ DuRests
    \/ /\ part = "keys" /\ IrInit
       /\ SvRests /\ DhRests /\ TrRests /\ SmRests /\ ScRests /\ DuRests
    \/ /\ part = "system" /\ SmInit
       /\ SvRests /\ DhRests /\ TrRests /\ IrInit /\ ScRests /\ DuRests
    \/ /\ part = "scan" /\ ScInit
       /\ SvRests /\ DhRests /\ TrRests /\ IrInit /\ SmRests /\ DuRests
    \/ /\ part = "update" /\ DuInit
       /\ SvRests /\ DhRests /\ TrRests /\ IrInit /\ SmRests /\ ScRests

ManagersNext ==
    \/ /\ part = "ports" /\ Next
       /\ UNCHANGED <<part, dhVars, trVars, irVars, smVars, scVars, duVars>>
    \/ /\ part = "hotplug" /\ DhNext
       /\ UNCHANGED <<part, vars, trVars, irVars, smVars, scVars, duVars>>
    \/ /\ part = "traits" /\ TrNext
       /\ UNCHANGED <<part, vars, dhVars, irVars, smVars, scVars, duVars>>
    \/ /\ part = "keys" /\ IrNext
       /\ UNCHANGED <<part, vars, dhVars, trVars, smVars, scVars, duVars>>
    \/ /\ part = "system" /\ SmNext
       /\ UNCHANGED <<part, vars, dhVars, trVars, irVars, scVars, duVars>>
    \/ /\ part = "scan" /\ ScNext
       /\ UNCHANGED <<part, vars, dhVars, trVars, irVars, smVars, duVars>>
    \/ /\ part = "update" /\ DuNext
       /\ UNCHANGED <<part, vars, dhVars, trVars, irVars, smVars, scVars>>

ManagersSpec ==
    ManagersInit /\ [][ManagersNext]_<<part, vars, dhVars, trVars, irVars, smVars,
                                       scVars, duVars>>
===============================================================================
