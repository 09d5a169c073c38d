-------------------------- MODULE MCGracefulShutdown --------------------------
(* Up to three requests in flight when the first signal comes: finished,    *)
(* cut, or never there, in every order with the deadline and the close.     *)
EXTENDS GracefulShutdown
===============================================================================
