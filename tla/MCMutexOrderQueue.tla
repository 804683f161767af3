------------------------- MODULE MCMutexOrderQueue -------------------------
(***************************************************************************)
(* Two producers and two consumers for safety and delivery; one of each,   *)
(* as server_main.cpp runs them, for the end of the consumer thread.       *)
(***************************************************************************)
EXTENDS MutexOrderQueue

CONSTANTS o1, o2, p1, p2, c1, c2
=============================================================================
