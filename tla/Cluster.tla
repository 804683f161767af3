------------------------------ MODULE Cluster ------------------------------
(***************************************************************************)
(* The sharded system from end to end: gateways (gateway_main.cpp) route   *)
(* each order by its symbol to a shard's log (ShardRouterQueue), one       *)
(* engine process per shard (engine_main.cpp) matches it in the symbol's   *)
(* book and publishes the trades, subscribers read them (TradeLog).        *)
(*                                                                         *)
(* Every process is started with a number of shards of its own, which      *)
(* nothing compares.  Engines do not fail here and take an order in one    *)
(* step: ShardReplicas has their replicas, crashes and checkpoints.  An    *)
(* order is named by its place n among all the appends.                    *)
(***************************************************************************)
EXTENDS TradeLog, ShardBook, Subsequence, FiniteSetsExt

CONSTANTS Symbols, Gateways,
          Quantities,     \* of ShardBook's orders
          ShardCounts,    \* the values of num_shards that processes are started with
          ShardOf(_, _),  \* shard_for_symbol
          MaxPush         \* bound: orders pushed

ASSUME ClusterAssumption ==
    /\ ShardCounts \subseteq Nat \ {0} /\ Quantities \subseteq Nat /\ MaxPush \in Nat
    /\ \A sym \in Symbols, n \in ShardCounts : ShardOf(sym, n) \in 0..(n - 1)
    /\ \A n \in ShardCounts : 0..(n - 1) \subseteq Shards

VARIABLES gshards,  \* num_shards_ of each gateway's router
          eshards,  \* num_shards of each shard's engine
          log,      \* the order log of each shard
          offset,   \* how many orders each engine has popped
          books,    \* engines, of each shard: the book of each symbol
          warned,   \* the engine has written its WARNING
          pushes    \* history: all orders, in the order of the appends

config == <<gshards, eshards>>
engineVars == <<offset, books, warned>>
vars == <<config, log, engineVars, pushes, trades, subVars>>

Init ==
    /\ gshards \in [Gateways -> ShardCounts]
    /\ eshards \in [Shards -> ShardCounts]
    /\ log = [sh \in Shards |-> << >>]
    /\ offset = [sh \in Shards |-> 0]
    /\ books = [sh \in Shards |-> [sym \in Symbols |-> << >>]]
    /\ warned = [sh \in Shards |-> FALSE]
    /\ pushes = << >>
    /\ InitTrades

-----------------------------------------------------------------------------
\* Mutant: orders are spread over the shards in turn.
Route_spread(g, o) == o.n % gshards[g]

Route(g, o) == ShardOf(o.symbol, gshards[g])

\* ShardRouterQueue::push: one append to the log of the order's shard.
push(g, o) ==
    /\ Len(pushes) < MaxPush
    /\ log' = [log EXCEPT ![Route(g, o)] = Append(@, o)]
    /\ pushes' = Append(pushes, o)
    /\ UNCHANGED <<config, engineVars, trades, subVars>>

\* Mutant: the shard is compared with itself.
Expected_self(sh, o) == sh

Expected(sh, o) == ShardOf(o.symbol, eshards[sh])

\* The loop of engine_main: pop, the defensive check, the symbol's engine, and
\* the trades.  A misplaced order is matched all the same, also where the engine's
\* own count has no such shard: main does not compare its two arguments.
Engine(sh) ==
    /\ offset[sh] < Len(log[sh])
    /\ LET o == log[sh][offset[sh] + 1]
           b == books[sh][o.symbol]
       IN  /\ warned' = [warned EXCEPT ![sh] = @ \/ Expected(sh, o) # sh]
           /\ books' = [books EXCEPT ![sh][o.symbol] = BookAfter(b, o.n, o.quantity)]
           /\ publish(sh, TradesOf(b, o.n, o.quantity))
    /\ offset' = [offset EXCEPT ![sh] = @ + 1]
    /\ UNCHANGED <<config, log, pushes, subVars>>

Order == [symbol : Symbols, quantity : Quantities, n : {Len(pushes) + 1}]

Next ==
    \/ \E g \in Gateways, o \in Order : push(g, o)
    \/ \E sh \in Shards : Engine(sh)
    \/ \E s \in Subscribers :
          Subscriber(s) /\ UNCHANGED <<config, log, engineVars, pushes>>

Spec == Init /\ [][Next]_vars

\* Engines and subscribers that run make progress; nothing has to be pushed, and
\* nobody has to attach.
FairSpec ==
    /\ Spec
    /\ \A sh \in Shards : WF_vars(Engine(sh))
    /\ \A s \in Subscribers :
          WF_vars(Read(s) /\ UNCHANGED <<config, log, engineVars, pushes>>)

-----------------------------------------------------------------------------
\* Types; every trade names two orders, and offsets lie in their logs.
TypeOK ==
    /\ pushes \in Seq([symbol : Symbols, quantity : Quantities, n : 1..Len(pushes)])
    /\ \A sh \in Shards :
          /\ Range(log[sh]) \subseteq Range(pushes) /\ offset[sh] \in 0..Len(log[sh])
          /\ books[sh] \in [Symbols -> Seq(1..Len(pushes))] /\ warned[sh] \in BOOLEAN
          /\ trades[sh] \in Seq((1..Len(pushes)) \X (1..Len(pushes)))
    /\ \A s \in Subscribers :
          /\ soffset[s] \in 0..Len(trades[follows[s]])
          /\ spc[s] \in {"down", "loop", "checkpoint", "return"}

\* The orders for a symbol in a sequence of orders, and their one matching.
For(sym, os) == Only(os, [symbol : {sym}, quantity : Quantities, n : Nat])

OneBook(os) ==
    Replay([i \in 1..Len(os) |-> os[i].n], [i \in 1..Len(os) |-> os[i].quantity])

Applied(sh) == SubSeq(log[sh], 1, offset[sh])

\* The trades of a symbol: those whose second order is for it.
In(sym) == {t \in (1..Len(pushes)) \X (1..Len(pushes)) : pushes[t[2]].symbol = sym}

\* All processes were started with one number of shards.
Alike ==
    \E n \in ShardCounts :
        (\A g \in Gateways : gshards[g] = n) /\ (\A sh \in Shards : eshards[sh] = n)

\* Sharding cannot be seen: as long as all counts agree, the trades of a symbol
\* are on the trade logs what one engine would have made of all orders for it,
\* from whatever gateway, in the order they were appended: "a buyer and a seller
\* of the same symbol always land on the same engine process" (sharding.hpp:22-24).
ShardingTransparent ==
    Alike => \A sym \in Symbols, sh \in Shards :
        Only(trades[sh], In(sym)) =
            LET k == Len(For(sym, Applied(sh)))
            IN  OneBook(SubSeq(For(sym, pushes), 1, k)).trades

\* The defensive check "catches a gateway/engine shard-count mismatch, which
\* would otherwise silently produce two disjoint books for the same symbol"
\* (engine_main.cpp:88-91): if the engines agree among themselves, no symbol has
\* orders in two shards' books before one of the two has warned; and nobody warns
\* when all counts agree.
MismatchWarned ==
    /\ (\A sh, sk \in Shards : eshards[sh] = eshards[sk]) =>
          \A sym \in Symbols, sh, sk \in Shards :
              (sh # sk /\ For(sym, Applied(sh)) # << >> /\ For(sym, Applied(sk)) # << >>)
                  => warned[sh] \/ warned[sk]
    /\ Alike => \A sh \in Shards : ~warned[sh]

\* How many trades the orders pushed so far are to put on a shard's trade log.
Due(sh) ==
    MapThenSumSet(LAMBDA sym : Len(OneBook(For(sym, pushes)).trades),
                  {sym \in Symbols : ShardOf(sym, eshards[sh]) = sh})

\* Every trade reaches every subscriber of its shard that keeps running, from
\* the push of the second order on.
TradesReachSubscribers ==
    \A s \in Subscribers : \A n \in 1..(MaxPush - 1) :
        (Alike /\ Due(follows[s]) >= n) ~> (~Up(s) \/ soffset[s] >= n)
=============================================================================
