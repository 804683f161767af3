----------------------- MODULE MCLogBackedOrderQueue -----------------------
(***************************************************************************)
(* Two consumers of one log.  Nothing here depends on what an order says,  *)
(* so there is one order; its position in the log identifies it.           *)
(***************************************************************************)
EXTENDS LogBackedOrderQueue

CONSTANTS o1, c1, c2
=============================================================================
