------------------------------ MODULE MCServer ------------------------------
(***************************************************************************)
(* Two clients that send six units together, in messages of two: three     *)
(* orders of one client in one read, orders of two clients in one batch,   *)
(* and every split of a message.  One or two descriptors.                  *)
(***************************************************************************)
EXTENDS Server

CONSTANTS c1, c2
=============================================================================
