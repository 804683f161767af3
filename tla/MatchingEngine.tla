-------------------------- MODULE MatchingEngine --------------------------
(***************************************************************************)
(* The matching engine of one symbol, src/src/matching_engine.cpp, over    *)
(* its order book and price collar.                                        *)
(*                                                                         *)
(* The engine has a single caller: a call runs to its end before the next  *)
(* one starts.  submit_order is one action for its prologue, one per       *)
(* iteration of the loop of match_against, and one for its epilogue; while *)
(* incoming holds an order no other operation is enabled.                  *)
(***************************************************************************)
EXTENDS OrderBook, PriceCollar

CONSTANTS MaxTimestamp,  \* bound: no order is submitted at this timestamp
          NoOrder        \* no call of submit_order is in progress

ASSUME EngineAssumption == MaxTimestamp \in Nat /\ NoOrder \notin Order

VARIABLES last_price,      \* last_price_
          next_timestamp,  \* next_timestamp_
          incoming,        \* the order submit_order is working on
          trades,          \* the trades of the current or the last submission
          result           \* what the last call returned

vars == <<book, cancel_index, last_price, next_timestamp, incoming, trades, result>>

Trade == [buy_order_id : OrderIds, sell_order_id : OrderIds, price : Prices,
          quantity : Nat, timestamp : Nat]

\* A Rejection carries its reason; "TRADES" is the vector of trades, "TRUE"
\* and "FALSE" are the answers of cancel_order.
Results == {"TRADES", "TRUE", "FALSE"} \cup (Reasons \ {"NONE"})

EmptyMap == [k \in {} |-> k]

Init ==
    /\ book = [s \in Side |-> EmptyMap]
    /\ cancel_index = EmptyMap
    /\ last_price = NoPrice
    /\ next_timestamp = 1
    /\ incoming = NoOrder
    /\ trades = << >>
    /\ result = "TRADES"

\* The order of the caller with the fields that submit_order sets.
Stamped(id, s, type, price, qty) ==
    [order_id |-> id, side |-> s, type |-> type, price |-> price,
     quantity |-> qty, remaining_quantity |-> qty, timestamp |-> next_timestamp]

\* The prologue of submit_order.  The timestamp is consumed whether or not the
\* collar accepts the order; MARKET orders bypass the collar.
submit_order(id, s, type, price, qty) ==
    /\ incoming = NoOrder
    /\ next_timestamp < MaxTimestamp
    /\ next_timestamp' = next_timestamp + 1
    /\ trades' = << >>
    /\ LET reason == IF type = "LIMIT" THEN check(price, last_price) ELSE "NONE"
       IN  \/ /\ reason # "NONE"
              /\ result' = reason
              /\ UNCHANGED incoming
           \/ /\ reason = "NONE"
              /\ incoming' = Stamped(id, s, type, price, qty)
              /\ UNCHANGED result
    /\ UNCHANGED <<book, cancel_index, last_price>>

\* Mutant: equal prices do not match.
Crosses_strict(o, p) ==
    \/ o.type = "MARKET"
    \/ o.side = "BUY" /\ o.price > p
    \/ o.side = "SELL" /\ o.price < p

\* The price test of match_against: the loop breaks when it fails.
Crosses(o, p) ==
    \/ o.type = "MARKET"
    \/ o.side = "BUY" /\ o.price >= p
    \/ o.side = "SELL" /\ o.price <= p

MinOf(a, b) == IF a <= b THEN a ELSE b

\* remaining_quantity -= fill.
Reduce(o, fill) == [o EXCEPT !.remaining_quantity = @ - fill]

\* Mutant: a partly filled front keeps its quantity.
AfterFill_unreduced(dq, fill) ==
    IF dq[1].remaining_quantity = fill THEN Tail(dq) ELSE dq

\* The deque after its front was filled: a front left with nothing is popped.
AfterFill(dq, fill) ==
    IF dq[1].remaining_quantity = fill THEN Tail(dq)
    ELSE [dq EXCEPT ![1] = Reduce(dq[1], fill)]

\* One iteration of match_against, against the front of the level at begin().
match_against(p) ==
    LET opp   == Opposite(incoming.side)
        dq    == book[opp][p]
        front == dq[1]
        fill  == MinOf(incoming.remaining_quantity, front.remaining_quantity)
        buy   == incoming.side = "BUY"
    IN  /\ incoming.remaining_quantity > 0
        /\ IsBegin(opp, p)
        /\ Crosses(incoming, p)
        /\ trades' = Append(trades,
              [buy_order_id  |-> IF buy THEN incoming.order_id ELSE front.order_id,
               sell_order_id |-> IF buy THEN front.order_id ELSE incoming.order_id,
               price |-> front.price, quantity |-> fill,
               timestamp |-> next_timestamp])
        /\ next_timestamp' = next_timestamp + 1
        /\ incoming' = Reduce(incoming, fill)
        /\ last_price' = front.price
        /\ book' = [book EXCEPT ![opp] = StoreLevel(@, p, AfterFill(dq, fill))]
        /\ cancel_index' = IF front.remaining_quantity = fill
                           THEN remove_from_index(front.order_id)
                           ELSE cancel_index
        /\ UNCHANGED result

\* The condition on which the loop of match_against ends.
LoopEnds ==
    LET opp == Opposite(incoming.side)
    IN  \/ incoming.remaining_quantity = 0
        \/ empty_side(opp)
        \/ \E p \in DOMAIN book[opp] : IsBegin(opp, p) /\ ~ Crosses(incoming, p)

\* Mutant: a MARKET remainder waits for liquidity.
finish_waiting ==
    /\ LoopEnds
    /\ IF incoming.remaining_quantity > 0 /\ incoming.type = "LIMIT"
       THEN add_resting_order(incoming)
       ELSE UNCHANGED <<book, cancel_index>>
    /\ incoming' = IF incoming.remaining_quantity > 0 /\ incoming.type = "MARKET"
                   THEN incoming ELSE NoOrder
    /\ result' = "TRADES"
    /\ UNCHANGED <<last_price, next_timestamp, trades>>

\* The epilogue of submit_order: a LIMIT remainder rests, a MARKET remainder
\* is dropped.
finish ==
    /\ LoopEnds
    /\ IF incoming.remaining_quantity > 0 /\ incoming.type = "LIMIT"
       THEN add_resting_order(incoming)
       ELSE UNCHANGED <<book, cancel_index>>
    /\ incoming' = NoOrder
    /\ result' = "TRADES"
    /\ UNCHANGED <<last_price, next_timestamp, trades>>

\* MatchingEngine::cancel_order.
Cancel(id) ==
    /\ incoming = NoOrder
    /\ \/ /\ id \in DOMAIN cancel_index
          /\ cancel_order(id)
          /\ result' = "TRUE"
       \/ /\ id \notin DOMAIN cancel_index
          /\ result' = "FALSE"
          /\ UNCHANGED <<book, cancel_index>>
    /\ UNCHANGED <<last_price, next_timestamp, incoming, trades>>

\* What callers submit: any id, also one that was used before.  Nothing reads
\* the price of a MARKET order, one value stands for all.
Submit ==
    \E id \in OrderIds, s \in Side, type \in OrderType, price \in Prices,
       qty \in Quantities :
        /\ type = "MARKET" => price = CHOOSE p \in Prices : TRUE
        /\ submit_order(id, s, type, price, qty)

Match == /\ incoming # NoOrder
         /\ \E p \in DOMAIN book[Opposite(incoming.side)] : match_against(p)

Finish == incoming # NoOrder /\ finish

Next == \/ Submit
        \/ Match
        \/ Finish
        \/ \E id \in OrderIds : Cancel(id)

Spec == Init /\ [][Next]_vars

\* A call in progress is always continued: it is one thread's straight-line code.
FairSpec == Spec /\ WF_vars(Match \/ Finish)

-----------------------------------------------------------------------------
\* The deque of a level; dq.front() is taken without a test for emptiness.
Deques == Seq(Order) \ {<< >>}

\* m is a std::map with keys in K and values in V.
IsMap(m, K, V) == DOMAIN m \subseteq K /\ m \in [DOMAIN m -> V]

\* Types, and the shape the representation relies on: std::map holds no level
\* whose deque is empty, since begin() is dereferenced and its front() taken.
TypeOK ==
    /\ book = [s \in Side |-> book[s]]
    /\ \A s \in Side : IsMap(book[s], Prices, Deques)
    /\ IsMap(cancel_index, OrderIds, [side : Side, price : Prices])
    /\ last_price \in Prices \cup {NoPrice}
    /\ next_timestamp \in Nat
    /\ incoming \in Order \cup {NoOrder}
    /\ trades \in Seq(Trade)
    /\ result \in Results

\* The book is never crossed, not even between two fills of one call: every
\* bid is below every ask (best_bid() < best_ask() after every submit_order).
NoCrossedBook ==
    \A b \in DOMAIN book["BUY"], a \in DOMAIN book["SELL"] : b < a

\* A live order of side s and price p that arrived before t.
LiveBefore(o, s, p, t) ==
    /\ o.side = s /\ o.price = p /\ o.type = "LIMIT"
    /\ o.remaining_quantity > 0 /\ o.remaining_quantity <= o.quantity
    /\ o.timestamp < t

\* A deque of such orders, earliest first.
InTimeOrder(dq, s, p, t) ==
    /\ \A i \in 1..Len(dq) : LiveBefore(dq[i], s, p, t)
    /\ \A i, j \in 1..Len(dq) : i < j => dq[i].timestamp < dq[j].timestamp

\* Every level holds live orders of its own side and price, in the order in
\* which submit_order stamped them, whatever was filled or cancelled between.
LevelsInTimeOrder ==
    \A s \in Side : \A p \in DOMAIN book[s] :
        InTimeOrder(book[s][p], s, p, next_timestamp)

\* An entry of the cancel index is never stale, even when callers reuse ids:
\* an order with that id rests at the side and price it names, so a
\* cancel_order that answers true has removed an order.
IndexSound ==
    \A id \in DOMAIN cancel_index :
        LET c == cancel_index[id]
        IN  c.price \in DOMAIN book[c.side] /\ HasOrder(book[c.side][c.price], id)

\* Every resting order can be cancelled by its id: "Returns true if found and
\* removed" (order_book.hpp).
EveryRestingOrderIndexed == \A o \in Resting : o.order_id \in DOMAIN cancel_index

\* o is matched before u: better price, and at one price the earlier arrival.
Precedes(o, u) ==
    \/ o.side = "BUY" /\ o.price > u.price
    \/ o.side = "SELL" /\ o.price < u.price
    \/ o.price = u.price /\ o.timestamp < u.timestamp

\* Price-time priority: while a submission is matched, a resting order is
\* filled or removed only if it precedes every other order of its side.
PriceTimePriority ==
    [][incoming # NoOrder =>
          \A s \in Side : \A o \in RestingOn(s) \ RestingOn(s)' :
              \A u \in RestingOn(s) \ {o} : Precedes(o, u)]_vars

\* The engine implements the market: the levels are its set of orders.
Market == INSTANCE PriceTimeMarket
             WITH Orders <- Order, resting <- Resting, clock <- next_timestamp

\* Every step of the engine is a step of the price-time market or changes
\* nothing the market sees: in particular fills are at the resting price, a
\* remainder rests only when no resting order is acceptable, and
\* cancel_order withdraws at most one order.
ImplementsMarket == Market!Spec

\* The collar never locks the market out: a limit order at exactly the last
\* traded price is within the band and is accepted.
LastPriceAccepted == last_price # NoPrice => check(last_price, last_price) = "NONE"

\* submit_order returns: the loop of match_against terminates.
SubmitReturns == incoming # NoOrder ~> incoming = NoOrder

=============================================================================
