------------------------- MODULE MCMatchingEngine -------------------------
(***************************************************************************)
(* Instances of MatchingEngine for TLC.                                    *)
(***************************************************************************)
EXTENDS MatchingEngine

CONSTANTS o1, o2

\* Two adjacent ticks: with a 10% band 90 is the lower edge of the band of 100,
\* which the collar still accepts, and 100 is outside the band of 90.
MCPrices == {90, 100}

=============================================================================
