-------------------------- MODULE MCAgentReadBack --------------------------
(* One call against two printings, or two calls against one: a call may be *)
(* out across a check while another is served, and an upgraded Cedar may   *)
(* print the same load differently.                                        *)
EXTENDS AgentReadBack

CONSTANTS k1, k2, p1, p2

OneCall == {k1}
TwoCalls == {k1, k2}
OnePrint == {p1}
TwoPrints == {p1, p2}
=============================================================================
