---------------------------- MODULE MCBatchRoute ----------------------------
(* Three entries over two lanes, one error object every collector and rule *)
(* may throw: the first lane to finish pulls the last entry while the other *)
(* decides, fails or has failed.                                            *)
EXTENDS BatchRoute

CONSTANT e1
OneError == {e1}
=============================================================================
