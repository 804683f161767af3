--------------------------- MODULE MCOrderLedger ---------------------------
(***************************************************************************)
(* An instance of OrderLedger for TLC.                                     *)
(***************************************************************************)
EXTENDS OrderLedger, TLC

CONSTANTS o1, o2, o3, o4

\* Three ticks: around 100 the outer two are at the edge of a 10% band.
MCPrices == {90, 100, 110}

\* Ids are only compared for equality.
MCSymmetry == Permutations(OrderIds)

=============================================================================
