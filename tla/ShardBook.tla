----------------------------- MODULE ShardBook -----------------------------
(***************************************************************************)
(* What engine_main.cpp needs of a matching engine: it is deterministic,   *)
(* orders rest in one book per symbol and later ones trade with them.  Cut *)
(* down to the least that trades: buy orders for one unit at one price,    *)
(* which rest (quantity 0), and market sell orders for q > 0 units, which  *)
(* trade with the oldest q of them.  MatchingEngine has the whole of it.   *)
(* An order is named by its position n, a trade by its two orders.         *)
(***************************************************************************)
EXTENDS Naturals, Sequences

Filled(b, q) == IF q < Len(b) THEN q ELSE Len(b)

\* submit_order: the book after order q, at position n, met book b.
BookAfter(b, n, q) ==
    IF q = 0 THEN Append(b, n) ELSE SubSeq(b, Filled(b, q) + 1, Len(b))

TradesOf(b, n, q) == [i \in 1..Filled(b, q) |-> <<b[i], n>>]

\* The book and the trades that the orders qs produce, given to one engine.
\* ns holds their positions.
Replay(ns, qs) ==
    LET f[i \in 0..Len(qs)] ==
          IF i = 0 THEN [book |-> << >>, trades |-> << >>]
          ELSE [book   |-> BookAfter(f[i - 1].book, ns[i], qs[i]),
                trades |-> f[i - 1].trades \o TradesOf(f[i - 1].book, ns[i], qs[i])]
    IN  f[Len(qs)]
=============================================================================
