---------------------------- MODULE MCCedarLoad ----------------------------
(* Two loads of one endpoint and a third of the same agent under another   *)
(* host name.                                                              *)
EXTENDS CedarLoad

CONSTANTS l1, l2, l3, k1, k2, a

MCLoads == {l1, l2, l3}
MCKeys == {k1, k2}
MCAgents == {a}
MCKeyOf == [l \in MCLoads |-> IF l = l3 THEN k2 ELSE k1]
MCAgentOf == [k \in MCKeys |-> a]
=============================================================================
