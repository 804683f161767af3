-------------------------- MODULE MCTcpFeedHandler --------------------------
(***************************************************************************)
(* The feed handler alone, with two clients and messages of two units.     *)
(***************************************************************************)
EXTENDS TcpFeedHandler

CONSTANTS c1, c2
=============================================================================
