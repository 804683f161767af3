---------------------------- MODULE PriceCollar ----------------------------
(***************************************************************************)
(* The fat-finger check of src/src/price_collar.cpp: a limit price is      *)
(* accepted when it lies within BandPercent of the last traded price.      *)
(*                                                                         *)
(* Prices are whole ticks.  The code computes ref +- ref * fraction in     *)
(* doubles; here the comparison is multiplied by 100 and is exact.         *)
(***************************************************************************)
EXTENDS Integers

CONSTANTS BandPercent,  \* band_percent of the PriceCollar constructor
          NoPrice       \* std::nullopt: nothing has traded yet

\* The band is a whole number of percent.
ASSUME CollarAssumption == BandPercent \in Nat /\ NoPrice \notin Int

\* RejectReason.
Reasons == {"NONE", "PRICE_TOO_HIGH", "PRICE_TOO_LOW"}

\* Mutant: the lower bound computed with the sign of the upper one.
check_bad_lo(order_price, last_price) ==
    IF last_price = NoPrice THEN "NONE"
    ELSE LET hi == last_price * 100 + last_price * BandPercent
         IN  IF order_price * 100 > hi THEN "PRICE_TOO_HIGH"
             ELSE IF order_price * 100 < hi THEN "PRICE_TOO_LOW"
             ELSE "NONE"

\* PriceCollar::check: the reason, "NONE" when the order is accepted.  The
\* upper bound is tested first.
check(order_price, last_price) ==
    IF last_price = NoPrice THEN "NONE"
    ELSE LET band == last_price * BandPercent
             lo   == last_price * 100 - band
             hi   == last_price * 100 + band
         IN  IF order_price * 100 > hi THEN "PRICE_TOO_HIGH"
             ELSE IF order_price * 100 < lo THEN "PRICE_TOO_LOW"
             ELSE "NONE"

=============================================================================
