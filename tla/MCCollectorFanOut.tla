------------------------- MODULE MCCollectorFanOut -------------------------
(* Four collectors under three permits: one waits its turn, two lanes can   *)
(* settle in one turn of the event loop beside a third that is still out,   *)
(* and two error objects are each shareable by several collectors.          *)
EXTENDS CollectorFanOut

CONSTANTS e1, e2
TwoErrors == {e1, e2}
=============================================================================
