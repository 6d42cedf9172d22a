----------------------------- MODULE MCPowerParts -----------------------------
(***************************************************************************)
(* Four parts of the power manager that share no variable: thermal         *)
(* protection, the reset keys, the settings file and the maintenance       *)
(* reboot.  A behaviour of this module is one of one of them, the others   *)
(* rest in an initial state, so that one run checks the safety of all.     *)
(***************************************************************************)
EXTENDS ThermMgr, ResetKeys, PwrSettings, MaintReboot

VARIABLE part   \* the part that runs

\* The built-in thresholds of therm_mgr.c and one temperature per interval they cut out.
\* The level follows the temperature.
MCReadings == {[temp |-> t, level |-> IF t >= 110 THEN "HIGH" ELSE "NORMAL"] :
                 t \in {90, 105, 111, 113, 120}}
MCCritical == [m \in Machine |-> IF m = "reboot" THEN 120 ELSE 115]
MCConcern == [m \in Machine |-> IF m = "reboot" THEN 112 ELSE 110]
MCSafe == [m \in Machine |-> IF m = "reboot" THEN 110 ELSE 100]

\* Setting the clock may move it back.
MCClockSteps == {-1}

MCRkBuilds == [factoryByHold : BOOLEAN, wareHouse : BOOLEAN]

\* Builds without deep sleep, with it, and with the network standby mode as well.
MCStBuilds ==
    {[fields |-> 1, boot2standby |-> FALSE], [fields |-> 2, boot2standby |-> FALSE],
     [fields |-> 3, boot2standby |-> FALSE], [fields |-> 3, boot2standby |-> TRUE]}
\* No file, files of the old manager, and one of a build with more settings than any.
MCFirstFiles ==
    {NoFile} \union {[ver |-> 0, power |-> p] : p \in {"OFF", "STANDBY", "ON"}}
      \union {FileOf(4, [power |-> "STANDBY", timeout |-> 1, nw |-> TRUE])}

MCZone == {[adds |-> 4, winter |-> 5, summer |-> 4]}    \* EST05EDT

MCRfcValues == {[kind |-> "none", n |-> 0], [kind |-> "quoted", n |-> 0],
                [kind |-> "number", n |-> 4]}

\* One initial state of each part, for when it rests.
ThRests == ThInit /\ thPc = "off" /\ cpu = NORMAL /\ dcGrace = 0 /\ dcStart = 0
                  /\ \A m \in Machine : grace[m] = 0
RkRests == RkInit /\ rkBuild = [factoryByHold |-> FALSE, wareHouse |-> FALSE]
StRests == StInit /\ stBuild = [fields |-> 1, boot2standby |-> FALSE] /\ stFile = NoFile
                  /\ stHw = "ON"
MtRests == MtInit /\ mtPower = "ON"

PartsInit ==
    \/ part = "thermal" /\ ThInit /\ RkRests /\ StRests /\ MtRests
    \/ part = "keys" /\ RkInit /\ ThRests /\ StRests /\ MtRests
    \/ part = "settings" /\ StInit /\ ThRests /\ RkRests /\ MtRests
    \/ part = "reboot" /\ MtInit /\ ThRests /\ RkRests /\ StRests

PartsNext ==
    \/ part = "thermal" /\ ThNext /\ UNCHANGED <<part, rkVars, stVars, mtVars>>
    \/ part = "keys" /\ RkNext /\ UNCHANGED <<part, thVars, stVars, mtVars>>
    \/ part = "settings" /\ StNext /\ UNCHANGED <<part, thVars, rkVars, mtVars>>
    \/ part = "reboot" /\ MtNext /\ UNCHANGED <<part, thVars, rkVars, stVars>>

PartsSpec == PartsInit /\ [][PartsNext]_<<part, thVars, rkVars, stVars, mtVars>>
===============================================================================
