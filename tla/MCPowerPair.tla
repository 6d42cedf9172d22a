------------------------------ MODULE MCPowerPair ------------------------------
EXTENDS PowerPair

PpBuilds == {[byEvent |-> FALSE, reboots |-> TRUE, wakesTo |-> "ON"],
             [byEvent |-> TRUE, reboots |-> FALSE, wakesTo |-> "STANDBY"]}
==============================================================================
