-------------------------- MODULE PriceTimeMarket --------------------------
(***************************************************************************)
(* What the matching engine promises, without levels, deques or an index:  *)
(* a set of resting orders, where an incoming order trades with the best   *)
(* acceptable counterparty, best price first and first come first served   *)
(* at one price, until none is left.                                       *)
(***************************************************************************)
EXTENDS Integers, Sequences

CONSTANTS Orders,  \* the orders that may arrive
          NoOrder

VARIABLES resting,   \* the set of resting orders
          incoming,  \* the order being matched
          trades,    \* the trades of the current or the last arrival
          clock      \* arrivals and trades take successive timestamps

market == <<resting, incoming, trades, clock>>

Init == resting = {} /\ incoming = NoOrder /\ trades = << >> /\ clock = 1

\* An order arrives, with the current timestamp and nothing executed.
Arrive ==
    /\ incoming = NoOrder
    /\ incoming' \in Orders
    /\ incoming'.timestamp = clock
    /\ incoming'.remaining_quantity = incoming'.quantity
    /\ trades' = << >>
    /\ clock' = clock + 1
    /\ UNCHANGED resting

\* An order is refused: it leaves no trace but its timestamp.
Refuse ==
    /\ incoming = NoOrder
    /\ trades' = << >>
    /\ clock' = clock + 1
    /\ UNCHANGED <<resting, incoming>>

\* Both parties agree to the resting order's price.
Acceptable(o, m) ==
    /\ m.side # o.side
    /\ o.type = "LIMIT" => IF o.side = "BUY" THEN m.price <= o.price
                                             ELSE m.price >= o.price

\* m comes before u in the queue of their side.
Ahead(m, u) ==
    \/ IF m.side = "BUY" THEN m.price > u.price ELSE m.price < u.price
    \/ m.price = u.price /\ m.timestamp < u.timestamp

\* The incoming order trades with the first order of the other side.
Execute(m) ==
    LET n == IF incoming.remaining_quantity <= m.remaining_quantity
             THEN incoming.remaining_quantity ELSE m.remaining_quantity
        reduced(o) == [o EXCEPT !.remaining_quantity = @ - n]
        buyer  == IF incoming.side = "BUY" THEN incoming ELSE m
        seller == IF incoming.side = "BUY" THEN m ELSE incoming
    IN  /\ Acceptable(incoming, m)
        /\ \A u \in resting \ {m} : u.side = m.side => Ahead(m, u)
        /\ resting' = (resting \ {m}) \cup
                      {o \in {reduced(m)} : o.remaining_quantity > 0}
        /\ incoming' = reduced(incoming)
        /\ trades' = Append(trades,
              [buy_order_id |-> buyer.order_id, sell_order_id |-> seller.order_id,
               price |-> m.price, quantity |-> n, timestamp |-> clock])
        /\ clock' = clock + 1

Trade == /\ incoming # NoOrder
         /\ incoming.remaining_quantity > 0
         /\ \E m \in resting : Execute(m)

\* The incoming order is done, or finds no counterparty: what is left of a
\* LIMIT order rests.
Settle ==
    /\ incoming # NoOrder
    /\ \/ incoming.remaining_quantity = 0
       \/ \A m \in resting : ~ Acceptable(incoming, m)
    /\ resting' = resting \cup
          {o \in {incoming} : o.type = "LIMIT" /\ o.remaining_quantity > 0}
    /\ incoming' = NoOrder
    /\ UNCHANGED <<trades, clock>>

\* One resting order is withdrawn.
Withdraw ==
    /\ incoming = NoOrder
    /\ \E o \in resting : resting' = resting \ {o}
    /\ UNCHANGED <<incoming, trades, clock>>

Next == Arrive \/ Refuse \/ Trade \/ Settle \/ Withdraw

Spec == Init /\ [][Next]_market

=============================================================================
