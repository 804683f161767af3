---------------------- MODULE MarketAndLedgerProofs ----------------------
(***************************************************************************)
(* The matching engine implements the price-time market, for any sets of   *)
(* ids, prices and quantities: its maps of deques are a set of orders that *)
(* each step changes as the market says.  And what callers that never      *)
(* reuse an id can rely on: no quantity is lost or executed twice, the     *)
(* cancel index mirrors the book, and closed orders stay closed.           *)
(***************************************************************************)
EXTENDS OrderLedger, MatchingEngineProofs

-----------------------------------------------------------------------------
(* The market.                                                             *)

\* The orders of a deque, and of the level at p of a side's map.
Elems(dq) == {dq[i] : i \in 1..Len(dq)}
At(levels, p) == IF p \in DOMAIN levels THEN Elems(levels[p]) ELSE {}

\* The resting orders are those of the levels.
RestingAtLevels ==
    \A o : o \in Resting <=> \E s \in Side : \E p \in DOMAIN book[s] : o \in At(book[s], p)

\* That is what Resting says.
LEMMA RestingIs == RestingAtLevels
<1>1. \A o : \A s \in Side :
        o \in RestingOn(s) <=> \E p \in DOMAIN book[s] : o \in At(book[s], p)
    BY DEF RestingOn, At, Elems
<1> QED  BY <1>1 DEF RestingAtLevels, Resting, Side

\* An order of a level names that level, and is live.
LEMMA AtFacts ==
    ASSUME Inv, NEW s \in Side, NEW p, NEW o \in At(book[s], p)
    PROVE  /\ p \in DOMAIN book[s] /\ p \in Prices /\ o \in Order
           /\ o.side = s /\ o.price = p /\ o.type = "LIMIT"
           /\ o.remaining_quantity > 0
<1>1. p \in DOMAIN book[s] /\ o \in Elems(book[s][p])  BY DEF At
<1>2. PICK i \in 1..Len(book[s][p]) : o = book[s][p][i]  BY <1>1 DEF Elems
<1>3. p \in Prices /\ book[s][p] \in Seq(Order)  BY <1>1, LevelFacts DEF Inv
<1>4. o \in Order  BY <1>2, <1>3, DequeFacts
<1>5. LiveBefore(o, s, p, Arrival)
    BY <1>1, <1>2 DEF Inv, BookBeforeArrival, InTimeOrder
<1> QED  BY <1>1, <1>3, <1>4, <1>5 DEF LiveBefore

\* The same for all levels at once.
LEMMA AtNames ==
    ASSUME Inv
    PROVE  \A s \in Side : \A q : \A o \in At(book[s], q) :
              q \in DOMAIN book[s] /\ q \in Int /\ o.side = s /\ o.price = q
<1> SUFFICES ASSUME NEW s \in Side, NEW q, NEW o \in At(book[s], q)
             PROVE  q \in DOMAIN book[s] /\ q \in Int /\ o.side = s /\ o.price = q
    OBVIOUS
<1>1. q \in DOMAIN book[s] /\ q \in Prices /\ o.side = s /\ o.price = q  BY AtFacts
<1> QED  BY <1>1, BookAssumption

\* A step that changes one level changes the set of orders by that level's.
LEMMA LevelChange ==
    ASSUME Inv, Inv', NEW x \in Side, NEW p \in Prices,
           \A s \in Side : \A q : s # x \/ q # p => At(book'[s], q) = At(book[s], q)
    PROVE  Resting' = (Resting \ At(book[x], p)) \cup At(book'[x], p)
<1>0. RestingAtLevels /\ RestingAtLevels'  BY RestingIs, PTL
<1>1. \A o : o \in Resting <=> \E s \in Side : \E q \in DOMAIN book[s] : o \in At(book[s], q)
    BY <1>0 DEF RestingAtLevels
<1>2. \A o : o \in Resting' <=> \E s \in Side : \E q \in DOMAIN book'[s] : o \in At(book'[s], q)
    BY <1>0 DEF RestingAtLevels
<1>3. \A s \in Side : \A q : \A o \in At(book[s], q) :
        q \in DOMAIN book[s] /\ o.side = s /\ o.price = q
    BY AtNames
<1>4. \A s \in Side : \A q : \A o \in At(book'[s], q) : q \in DOMAIN book'[s]
    BY DEF At
<1>5. ASSUME NEW o \in Resting' PROVE o \in (Resting \ At(book[x], p)) \cup At(book'[x], p)
    <2>1. PICK s \in Side : \E q \in DOMAIN book'[s] : o \in At(book'[s], q)  BY <1>2, <1>5
    <2>2. PICK q \in DOMAIN book'[s] : o \in At(book'[s], q)  BY <2>1
    <2>3. CASE s # x \/ q # p
        <3>1. o \in At(book[s], q)  BY <2>2, <2>3
        <3>2. o \in Resting  BY <1>1, <1>3, <3>1
        <3>3. o \notin At(book[x], p)  BY <1>3, <2>3, <3>1
        <3> QED  BY <3>2, <3>3
    <2> QED  BY <2>2, <2>3
<1>6. ASSUME NEW o \in Resting, o \notin At(book[x], p) PROVE o \in Resting'
    <2>1. PICK s \in Side : \E q \in DOMAIN book[s] : o \in At(book[s], q)  BY <1>1, <1>6
    <2>2. PICK q \in DOMAIN book[s] : o \in At(book[s], q)  BY <2>1
    <2>3. o \in At(book'[s], q)  BY <1>6, <2>2
    <2> QED  BY Zenon, <1>2, <1>4, <2>3
<1>7. \A o \in At(book'[x], p) : o \in Resting'  BY <1>2, <1>4
<1> QED  BY <1>5, <1>6, <1>7

-----------------------------------------------------------------------------
\* The level that is stored has the orders of its new deque, none if it is
\* erased for being empty.
LEMMA StoreLevelAt ==
    ASSUME NEW levels, IsMap(levels, Prices, Deques), NEW p \in DOMAIN levels,
           NEW dq \in Seq(Order)
    PROVE  /\ At(StoreLevel(levels, p, dq), p) = Elems(dq)
           /\ \A q : q # p => At(StoreLevel(levels, p, dq), q) = At(levels, q)
<1>1. CASE dq = << >>
    <2>1. Elems(dq) = {}  BY <1>1 DEF Elems
    <2> QED  BY <1>1, <2>1 DEF StoreLevel, At
<1>2. CASE dq # << >>
    BY <1>2 DEF StoreLevel, At, IsMap
<1> QED  BY <1>1, <1>2

\* push_back adds the order to its level.
LEMMA PushBackAt ==
    ASSUME NEW levels, IsMap(levels, Prices, Deques), NEW o \in Order
    PROVE  /\ At(PushBack(levels, o), o.price) = At(levels, o.price) \cup {o}
           /\ \A q : q # o.price => At(PushBack(levels, o), q) = At(levels, q)
<1>1. \A q : q # o.price => At(PushBack(levels, o), q) = At(levels, q)
    BY DEF PushBack, At
<1>2. CASE o.price \in DOMAIN levels
    <2> DEFINE dq == levels[o.price]
    <2>1. dq \in Seq(Order) /\ Len(dq) \in Nat  BY <1>2 DEF IsMap, Deques
    <2>2. /\ Len(Append(dq, o)) = Len(dq) + 1
          /\ \A i \in 1..Len(dq) : Append(dq, o)[i] = dq[i]
          /\ Append(dq, o)[Len(dq) + 1] = o
        BY <2>1
    <2> HIDE DEF dq
    <2>3. Elems(Append(dq, o)) = Elems(dq) \cup {o}
        <3>1. 1..(Len(dq) + 1) = 1..Len(dq) \cup {Len(dq) + 1}  BY <2>1
        <3> QED  BY <2>2, <3>1 DEF Elems
    <2>4. PushBack(levels, o)[o.price] = Append(dq, o) /\ o.price \in DOMAIN PushBack(levels, o)
        BY <1>2 DEF PushBack, dq
    <2> QED  BY <1>1, <1>2, <2>3, <2>4 DEF At, dq
<1>3. CASE o.price \notin DOMAIN levels
    <2>1. PushBack(levels, o)[o.price] = <<o>> /\ o.price \in DOMAIN PushBack(levels, o)
        BY <1>3 DEF PushBack
    <2>2. Elems(<<o>>) = {o}  BY DEF Elems
    <2> QED  BY <1>1, <1>3, <2>1, <2>2 DEF At
<1> QED  BY <1>2, <1>3

\* Erasing the position k of a deque takes one order out of it: no two are the
\* same, since their timestamps differ.
LEMMA EraseElems ==
    ASSUME NEW dq \in Seq(Order), NEW k \in 1..Len(dq),
           NEW s, NEW p, NEW t, InTimeOrder(dq, s, p, t)
    PROVE  Elems(Erase(dq, k)) = Elems(dq) \ {dq[k]}
<1> DEFINE new == Erase(dq, k)
<1>0. Len(dq) \in Nat /\ k \in Int  OBVIOUS
<1>1. /\ Len(dq) \in Nat /\ k \in Int /\ Len(new) = Len(dq) - 1
      /\ \A j \in 1..(Len(dq) - 1) : new[j] = IF j < k THEN dq[j] ELSE dq[j + 1]
    BY Zenon, <1>0, EraseFacts
<1>2. \A i, j \in 1..Len(dq) : i < j => dq[i].timestamp < dq[j].timestamp
    BY DEF InTimeOrder
<1>3. \A i \in 1..Len(dq) : dq[i].timestamp \in Nat  BY DequeFacts
<1> HIDE DEF new
<1>4. \A i \in 1..Len(dq) : i # k => dq[i] # dq[k]
    <2> SUFFICES ASSUME NEW i \in 1..Len(dq), i # k PROVE dq[i].timestamp # dq[k].timestamp
        OBVIOUS
    <2>1. i < k \/ k < i  BY <1>1
    <2> QED  BY <1>2, <1>3, <2>1
<1>5. ASSUME NEW j \in 1..Len(new) PROVE new[j] \in Elems(dq) \ {dq[k]}
    <2>1. CASE j < k  BY <1>1, <1>4, <1>5, <2>1 DEF Elems
    <2>2. CASE j >= k
        <3>1. new[j] = dq[j + 1] /\ j + 1 \in 1..Len(dq) /\ j + 1 # k  BY <1>1, <1>5, <2>2
        <3> QED  BY <1>4, <3>1 DEF Elems
    <2> QED  BY <1>1, <2>1, <2>2
<1>6. ASSUME NEW i \in 1..Len(dq), i # k PROVE dq[i] \in Elems(new)
    <2>1. CASE i < k
        <3>1. i \in 1..Len(new) /\ new[i] = dq[i]  BY <1>1, <2>1
        <3> QED  BY <3>1 DEF Elems
    <2>2. CASE i > k
        <3>1. i - 1 \in 1..Len(new) /\ new[i - 1] = dq[i]  BY <1>1, <2>2
        <3> QED  BY <3>1 DEF Elems
    <2> QED  BY <1>1, <1>6, <2>1, <2>2
<1> QED  BY Zenon, <1>5, <1>6 DEF Elems, new

\* A fill takes the front out of its deque and puts back what is left of it.
LEMMA AfterFillElems ==
    ASSUME NEW dq \in Deques, NEW fill \in Nat, fill <= dq[1].remaining_quantity,
           NEW s, NEW p, NEW t, InTimeOrder(dq, s, p, t)
    PROVE  Elems(AfterFill(dq, fill)) =
              (Elems(dq) \ {dq[1]}) \cup
              {o \in {Reduce(dq[1], fill)} : o.remaining_quantity > 0}
<1> DEFINE m == dq[1]
           left == Reduce(m, fill)
<1>1. /\ dq \in Seq(Order) /\ m \in Order /\ Len(dq) \in Nat /\ Len(dq) >= 1
      /\ Len(Tail(dq)) = Len(dq) - 1
      /\ \A j \in 1..(Len(dq) - 1) : Tail(dq)[j] = dq[j + 1]
    BY TailFacts DEF Deques
<1>2. left.remaining_quantity = m.remaining_quantity - fill  BY <1>1, ReduceFacts
<1>3. m.remaining_quantity \in Nat  BY <1>1 DEF Order
<1>4. \A i \in 2..Len(dq) : dq[i] # m
    <2> SUFFICES ASSUME NEW i \in 2..Len(dq) PROVE dq[i].timestamp # m.timestamp
        OBVIOUS
    <2>1. 1 \in 1..Len(dq) /\ i \in 1..Len(dq) /\ 1 < i  BY <1>1
    <2>2. m.timestamp < dq[i].timestamp  BY <2>1 DEF InTimeOrder
    <2>3. m.timestamp \in Nat /\ dq[i].timestamp \in Nat  BY <1>1, <2>1, DequeFacts
    <2> QED  BY <2>2, <2>3
<1>5. Elems(dq) \ {m} = {dq[i] : i \in 2..Len(dq)}
    <2>1. 1..Len(dq) = {1} \cup 2..Len(dq)  BY <1>1
    <2> QED  BY <1>4, <2>1 DEF Elems
<1>6. CASE m.remaining_quantity = fill
    <2>1. AfterFill(dq, fill) = Tail(dq)  BY <1>6 DEF AfterFill
    <2>2. ~(left.remaining_quantity > 0)  BY <1>2, <1>3, <1>6
    <2>3. \A j \in 1..(Len(dq) - 1) : j + 1 \in 2..Len(dq)  BY <1>1
    <2>4. \A i \in 2..Len(dq) : i - 1 \in 1..(Len(dq) - 1) /\ Tail(dq)[i - 1] = dq[i]
        BY <1>1
    <2>5. Elems(Tail(dq)) \subseteq {dq[i] : i \in 2..Len(dq)}
        BY <1>1, <2>3 DEF Elems
    <2>6. {dq[i] : i \in 2..Len(dq)} \subseteq Elems(Tail(dq))
        BY <1>1, <2>4 DEF Elems
    <2> QED  BY <1>5, <2>1, <2>2, <2>5, <2>6
<1>7. CASE m.remaining_quantity # fill
    <2>1. left.remaining_quantity > 0  BY <1>2, <1>3, <1>7
    <2>2. /\ Len(AfterFill(dq, fill)) = Len(dq) /\ AfterFill(dq, fill)[1] = left
          /\ \A i \in 2..Len(dq) : AfterFill(dq, fill)[i] = dq[i]
        BY <1>1, <1>7 DEF AfterFill
    <2>3. 1..Len(dq) = {1} \cup 2..Len(dq)  BY <1>1
    <2>4. Elems(AfterFill(dq, fill)) = {left} \cup {dq[i] : i \in 2..Len(dq)}
        BY <2>2, <2>3 DEF Elems
    <2> QED  BY <1>5, <2>1, <2>4
<1> QED  BY <1>6, <1>7

-----------------------------------------------------------------------------
\* submit_order's prologue lets an order arrive, or refuses it.
LEMMA SubmitIsArrival ==
    ASSUME Inv, Submit PROVE Market!Arrive \/ Market!Refuse
<1>1. PICK id \in OrderIds, s \in Side, type \in OrderType, price \in Prices,
           qty \in Quantities : submit_order(id, s, type, price, qty)
    BY DEF Submit
<1>2. /\ incoming = NoOrder /\ next_timestamp' = next_timestamp + 1 /\ trades' = << >>
      /\ book' = book
      /\ UNCHANGED incoming \/ incoming' = Stamped(id, s, type, price, qty)
    BY <1>1 DEF submit_order
<1>3. Resting' = Resting  BY <1>2 DEF Resting, RestingOn
<1>4. CASE UNCHANGED incoming
    BY <1>2, <1>3, <1>4 DEF Market!Refuse
<1>5. CASE incoming' = Stamped(id, s, type, price, qty)
    <2>1. next_timestamp \in Nat /\ qty \in Nat  BY BookAssumption DEF Inv, TypeOK
    <2>2. incoming' \in Order  BY <1>5, <2>1 DEF Stamped, Order
    <2>3. incoming'.timestamp = next_timestamp /\ incoming'.remaining_quantity = incoming'.quantity
        BY <1>5 DEF Stamped
    <2> QED  BY <1>2, <1>3, <2>2, <2>3 DEF Market!Arrive
<1> QED  BY <1>2, <1>4, <1>5

\* cancel_order of an indexed id takes one order with that id out of the book.
LEMMA CancelTakesOne ==
    ASSUME Inv, Inv', NEW id \in OrderIds, Cancel(id), id \in DOMAIN cancel_index
    PROVE  \E o \in Resting : o.order_id = id /\ Resting' = Resting \ {o}
<1> DEFINE x == cancel_index[id].side
           p == cancel_index[id].price
           dq == book[x][p]
           k == FirstWithId(dq, id)
<1>1. x \in Side /\ p \in Prices  BY DEF Inv, TypeOK, IsMap
<1>2. p \in DOMAIN book[x] /\ HasOrder(dq, id)  BY DEF Inv, IndexSound
<1>3. book' = [book EXCEPT ![x] = EraseFirst(book[x], p, id)]
    BY DEF Cancel, cancel_order
<1>4. EraseFirst(book[x], p, id) = StoreLevel(book[x], p, Erase(dq, k))
    BY <1>2 DEF EraseFirst
<1>5. dq \in Seq(Order) /\ k \in 1..Len(dq)
    BY <1>1, <1>2, LevelFacts, FirstWithIdFacts DEF Inv
<1>6. Erase(dq, k) \in Seq(Order)  BY <1>5, EraseFacts
<1>7. IsMap(book[x], Prices, Deques) /\ book = [s \in Side |-> book[s]]
    BY <1>1 DEF Inv, TypeOK
<1>8. InTimeOrder(dq, x, p, Arrival)  BY <1>1, <1>2 DEF Inv, BookBeforeArrival
<1> HIDE DEF x, p, dq, k
<1>9. book'[x] = StoreLevel(book[x], p, Erase(dq, k)) /\ \A s \in Side : s # x => book'[s] = book[s]
    BY <1>1, <1>3, <1>4, <1>7
<1>10. /\ At(book'[x], p) = Elems(Erase(dq, k))
       /\ \A q : q # p => At(book'[x], q) = At(book[x], q)
    BY <1>2, <1>6, <1>7, <1>9, StoreLevelAt
<1>11. Elems(Erase(dq, k)) = Elems(dq) \ {dq[k]}  BY <1>5, <1>8, EraseElems
<1>12. At(book[x], p) = Elems(dq)  BY <1>2 DEF At, dq
<1>13. dq[k] \in Elems(dq)  BY <1>5 DEF Elems
<1>14. Resting' = (Resting \ Elems(dq)) \cup (Elems(dq) \ {dq[k]})
    BY <1>1, <1>9, <1>10, <1>11, <1>12, LevelChange
<1>15. Elems(dq) \subseteq Resting
    BY <1>1, <1>2, <1>12, RestingIs DEF RestingAtLevels
<1>16. Resting' = Resting \ {dq[k]} /\ dq[k] \in Resting
    BY <1>13, <1>14, <1>15
<1>17. dq[k].order_id = id  BY <1>5, <1>2, FirstWithIdFacts DEF k
<1> QED  BY <1>16, <1>17

\* cancel_order withdraws an order, or changes nothing the market sees.
LEMMA CancelIsWithdrawal ==
    ASSUME Inv, Inv', NEW id \in OrderIds, Cancel(id)
    PROVE  Market!Withdraw \/ UNCHANGED Market!market
<1>1. UNCHANGED <<incoming, trades, next_timestamp>> /\ incoming = NoOrder
    BY DEF Cancel
<1>2. CASE id \notin DOMAIN cancel_index
    <2>1. book' = book  BY <1>2 DEF Cancel
    <2>2. Resting' = Resting  BY <2>1 DEF Resting, RestingOn
    <2> QED  BY <1>1, <2>2 DEF Market!market
<1>3. CASE id \in DOMAIN cancel_index
    BY <1>1, <1>3, CancelTakesOne DEF Market!Withdraw
<1> QED  BY <1>2, <1>3

\* An iteration of match_against executes the incoming order against the order
\* that is ahead of all others of its side, whose index entry goes when it is
\* filled.
LEMMA MatchExecutes ==
    ASSUME Inv, Inv', Match
    PROVE  \E m \in Resting :
              /\ Market!Execute(m)
              /\ cancel_index' = IF m.remaining_quantity <= incoming.remaining_quantity
                                 THEN remove_from_index(m.order_id) ELSE cancel_index
<1> DEFINE opp == Opposite(incoming.side)
<1>1. incoming \in Order /\ incoming # NoOrder  BY DEF Match, Inv, TypeOK
<1>2. PICK p \in DOMAIN book[opp] : match_against(p)  BY DEF Match
<1> DEFINE dq == book[opp][p]
           m == dq[1]
           fill == MinOf(incoming.remaining_quantity, m.remaining_quantity)
<1>3. incoming.side \in Side /\ opp \in Side /\ opp # incoming.side
    BY <1>1 DEF Order, Opposite, Side
<1>4. p \in Prices /\ p \in Int /\ dq \in Deques /\ dq \in Seq(Order)
    BY <1>2, <1>3, LevelFacts DEF Inv
<1>5. InTimeOrder(dq, opp, p, Arrival)  BY <1>2, <1>3 DEF Inv, BookBeforeArrival
<1>6. m \in Order /\ 1 \in 1..Len(dq) /\ Len(dq) \in Nat  BY <1>4, TailFacts
<1>7. /\ incoming.remaining_quantity > 0 /\ IsBegin(opp, p) /\ Crosses(incoming, p)
      /\ next_timestamp' = next_timestamp + 1
      /\ incoming' = Reduce(incoming, fill)
      /\ book' = [book EXCEPT ![opp] = StoreLevel(@, p, AfterFill(dq, fill))]
    BY Zenon, <1>2 DEF match_against
<1>8. trades' = Append(trades,
         [buy_order_id  |-> IF incoming.side = "BUY" THEN incoming.order_id ELSE m.order_id,
          sell_order_id |-> IF incoming.side = "BUY" THEN m.order_id ELSE incoming.order_id,
          price |-> m.price, quantity |-> fill, timestamp |-> next_timestamp])
    BY Zenon, <1>2 DEF match_against
<1>9. /\ fill \in Nat /\ fill <= m.remaining_quantity
      /\ fill = IF incoming.remaining_quantity <= m.remaining_quantity
                THEN incoming.remaining_quantity ELSE m.remaining_quantity
    BY <1>1, <1>6 DEF Order, MinOf
<1>10. AfterFill(dq, fill) \in Seq(Order)  BY <1>4, <1>9, AfterFillFacts
<1>11. IsMap(book[opp], Prices, Deques) /\ book = [s \in Side |-> book[s]]
    BY <1>3 DEF Inv, TypeOK
<1>12. At(book[opp], p) = Elems(dq) /\ m \in Elems(dq)  BY <1>2, <1>6 DEF At, Elems
<1>13. Elems(AfterFill(dq, fill)) =
          (Elems(dq) \ {m}) \cup {o \in {Reduce(m, fill)} : o.remaining_quantity > 0}
    BY Zenon, <1>4, <1>5, <1>9, AfterFillElems
<1>14. m.side = opp /\ m.price = p
    <2>1. m \in At(book[opp], p)  BY <1>12
    <2> HIDE DEF m, opp
    <2> QED  BY <1>3, <2>1, AtNames
<1>15. \A u \in Elems(dq) \ {m} : m.timestamp < u.timestamp
    <2> SUFFICES ASSUME NEW i \in 1..Len(dq), dq[i] # m PROVE m.timestamp < dq[i].timestamp
        BY DEF Elems
    <2>1. 1 < i  BY <1>6
    <2> QED  BY <1>5, <1>6, <2>1 DEF InTimeOrder
<1>16. cancel_index' = IF m.remaining_quantity = fill
                     THEN remove_from_index(m.order_id) ELSE cancel_index
    BY <1>2 DEF match_against
<1>17. incoming.remaining_quantity \in Nat /\ m.remaining_quantity \in Nat
    BY <1>1, <1>6 DEF Order
<1> HIDE DEF opp, dq, m, fill
<1>18. /\ book'[opp] = StoreLevel(book[opp], p, AfterFill(dq, fill))
       /\ \A s \in Side : s # opp => book'[s] = book[s]
    BY <1>3, <1>7, <1>11
<1>19. /\ At(book'[opp], p) = Elems(AfterFill(dq, fill))
       /\ \A q : q # p => At(book'[opp], q) = At(book[opp], q)
    BY <1>2, <1>10, <1>11, <1>18, StoreLevelAt
<1>20. Resting' = (Resting \ Elems(dq)) \cup Elems(AfterFill(dq, fill))
    BY <1>3, <1>4, <1>12, <1>18, <1>19, LevelChange
<1>21. Elems(dq) \subseteq Resting
    BY <1>2, <1>3, <1>12, RestingIs DEF RestingAtLevels
<1>22. Resting' = (Resting \ {m}) \cup
                  {o \in {Reduce(m, fill)} : o.remaining_quantity > 0}
    BY <1>12, <1>13, <1>20, <1>21
<1>23. Market!Acceptable(incoming, m)
    <2>1. incoming.side = "BUY" \/ incoming.side = "SELL"  BY <1>3 DEF Side
    <2> QED  BY <1>3, <1>7, <1>14, <2>1 DEF Market!Acceptable, Crosses
<1>24. ASSUME NEW u \in Resting \ {m}, u.side = m.side PROVE Market!Ahead(m, u)
    <2>1. PICK s \in Side : \E q \in DOMAIN book[s] : u \in At(book[s], q)
        BY <1>24, RestingIs DEF RestingAtLevels
    <2>2. PICK q \in DOMAIN book[s] : u \in At(book[s], q)  BY <2>1
    <2>3. u.side = s /\ u.price = q /\ q \in Int
        BY <2>2, AtNames
    <2>4. s = opp  BY <1>14, <1>24, <2>3
    <2>5. CASE q = p
        <3>1. u \in Elems(dq) \ {m}  BY <1>12, <1>24, <2>2, <2>4, <2>5
        <3> QED  BY <1>14, <1>15, <2>3, <2>5, <3>1 DEF Market!Ahead
    <2>6. CASE q # p
        <3>1. ~ Before(opp, q, p)  BY <1>7, <2>2, <2>4 DEF IsBegin
        <3>2. IF opp = "BUY" THEN p > q ELSE p < q
            BY <1>4, <2>3, <2>6, <3>1 DEF Before
        <3> QED  BY <1>14, <2>3, <3>2 DEF Market!Ahead
    <2> QED  BY <2>5, <2>6
<1>25. Market!Execute(m)
    <2>1. Resting' = (Resting \ {m}) \cup
             {o \in {[m EXCEPT !.remaining_quantity = @ - fill]} : o.remaining_quantity > 0}
        BY <1>22 DEF Reduce
    <2>2. incoming' = [incoming EXCEPT !.remaining_quantity = @ - fill]
        BY <1>7 DEF Reduce
    <2>3. trades' = Append(trades,
             [buy_order_id |-> (IF incoming.side = "BUY" THEN incoming ELSE m).order_id,
              sell_order_id |-> (IF incoming.side = "BUY" THEN m ELSE incoming).order_id,
              price |-> m.price, quantity |-> fill, timestamp |-> next_timestamp])
        <3>1. CASE incoming.side = "BUY"  BY <1>8, <3>1
        <3>2. CASE incoming.side # "BUY"  BY <1>8, <3>2
        <3> QED  BY <3>1, <3>2
    <2> QED  BY <1>7, <1>9, <1>23, <1>24, <2>1, <2>2, <2>3 DEF Market!Execute
<1>26. m \in Resting  BY <1>12, <1>21
<1>27. m.remaining_quantity = fill <=> m.remaining_quantity <= incoming.remaining_quantity
    BY <1>9, <1>17
<1>28. cancel_index' = IF m.remaining_quantity <= incoming.remaining_quantity
                      THEN remove_from_index(m.order_id) ELSE cancel_index
    BY <1>16, <1>27
<1> QED  BY <1>25, <1>26, <1>28

\* So it is a trade of the market.
LEMMA MatchIsTrade ==
    ASSUME Inv, Inv', Match PROVE Market!Trade
<1>1. incoming # NoOrder /\ incoming.remaining_quantity > 0  BY DEF Match, match_against
<1> QED  BY Zenon, <1>1, MatchExecutes DEF Market!Trade

-----------------------------------------------------------------------------
\* When the loop of match_against ends with a remainder, nobody is left that the
\* incoming order could trade with.
LEMMA NobodyAcceptable ==
    ASSUME Inv, incoming # NoOrder, incoming.remaining_quantity > 0, LoopEnds,
           NEW m \in Resting
    PROVE  ~ Market!Acceptable(incoming, m)
<1> SUFFICES ASSUME Market!Acceptable(incoming, m) PROVE FALSE  OBVIOUS
<1>1. incoming \in Order  BY DEF Inv, TypeOK
<1>2. /\ incoming.side \in Side /\ incoming.type \in OrderType /\ incoming.price \in Int
      /\ incoming.remaining_quantity # 0
    <2>1. /\ incoming.side \in Side /\ incoming.type \in OrderType
          /\ incoming.price \in Prices /\ incoming.remaining_quantity \in Nat
        BY <1>1 DEF Order
    <2>2. incoming.price \in Int  BY Zenon, <2>1, BookAssumption
    <2>3. incoming.remaining_quantity # 0  BY <2>1
    <2> QED  BY <2>1, <2>2, <2>3
<1>3. PICK s \in Side : \E q \in DOMAIN book[s] : m \in At(book[s], q)
    BY RestingIs DEF RestingAtLevels
<1>4. PICK q \in DOMAIN book[s] : m \in At(book[s], q)  BY <1>3
<1>5. m.side = s /\ m.price = q /\ q \in Int  BY <1>4, AtNames
<1>6. s = Opposite(incoming.side)
    BY <1>2, <1>5 DEF Market!Acceptable, Opposite, Side
<1>7. CASE incoming.type = "LIMIT"
    <2>1. IF incoming.side = "BUY" THEN incoming.price < q ELSE q < incoming.price
        BY <1>4, <1>6, <1>7, NothingCrosses
    <2>2. IF incoming.side = "BUY" THEN q <= incoming.price ELSE q >= incoming.price
        BY <1>5, <1>7 DEF Market!Acceptable
    <2> QED  BY <1>2, <1>5, <2>1, <2>2
<1>8. CASE incoming.type = "MARKET"
    BY <1>2, <1>4, <1>6, <1>8 DEF LoopEnds, empty_side, Crosses
<1> QED  BY <1>2, <1>7, <1>8 DEF OrderType

\* The epilogue of submit_order settles the incoming order.
LEMMA FinishIsSettlement ==
    ASSUME Inv, Inv', Finish PROVE Market!Settle
<1> DEFINE o == incoming
           rests == o.type = "LIMIT" /\ o.remaining_quantity > 0
<1>1. /\ o \in Order /\ o # NoOrder /\ LoopEnds /\ incoming' = NoOrder
      /\ UNCHANGED <<trades, next_timestamp>>
    BY DEF Finish, finish, Inv, TypeOK
<1>2. o.remaining_quantity \in Nat /\ o.side \in Side /\ o.price \in Prices
    BY <1>1 DEF Order
<1>3. o.remaining_quantity = 0 \/ \A m \in Resting : ~ Market!Acceptable(o, m)
    <2>1. CASE o.remaining_quantity > 0  BY <1>1, <2>1, NobodyAcceptable
    <2> QED  BY <1>2, <2>1
<1>4. CASE rests
    <2>1. book' = [book EXCEPT ![o.side] = PushBack(@, o)]
        BY <1>4 DEF Finish, finish, add_resting_order
    <2>2. IsMap(book[o.side], Prices, Deques) /\ book = [s \in Side |-> book[s]]
        BY <1>2 DEF Inv, TypeOK
    <2>3. /\ book'[o.side] = PushBack(book[o.side], o)
          /\ \A s \in Side : s # o.side => book'[s] = book[s]
        BY <1>2, <2>1, <2>2
    <2>4. /\ At(book'[o.side], o.price) = At(book[o.side], o.price) \cup {o}
          /\ \A q : q # o.price => At(book'[o.side], q) = At(book[o.side], q)
        BY <1>1, <2>2, <2>3, PushBackAt
    <2>5. Resting' = (Resting \ At(book[o.side], o.price)) \cup At(book[o.side], o.price) \cup {o}
        BY <1>2, <2>3, <2>4, LevelChange
    <2>6. At(book[o.side], o.price) \subseteq Resting
        BY <1>2, AtFacts, RestingIs DEF RestingAtLevels
    <2>7. Resting' = Resting \cup {o}  BY <2>5, <2>6
    <2> QED  BY <1>1, <1>3, <1>4, <2>7 DEF Market!Settle
<1>5. CASE ~ rests
    <2>1. book' = book  BY <1>5 DEF Finish, finish
    <2>2. Resting' = Resting  BY <2>1 DEF Resting, RestingOn
    <2> QED  BY <1>1, <1>3, <1>5, <2>2 DEF Market!Settle
<1> QED  BY <1>4, <1>5

-----------------------------------------------------------------------------
\* The engine implements the price-time market: maps, deques, index and collar
\* cannot be told from a set of orders that are matched best price first, and
\* first come first served at one price.
THEOREM EngineImplementsMarket == Spec => ImplementsMarket
<1>1. Init => Market!Init
    <2> SUFFICES ASSUME Init PROVE Market!Init  OBVIOUS
    <2>1. \A s \in Side : DOMAIN book[s] = {}  BY DEF Init, EmptyMap
    <2>2. Resting = {}  BY <2>1, RestingIs DEF RestingAtLevels
    <2> QED  BY <2>2 DEF Init, Market!Init
<1>2. Inv /\ Inv' /\ [Next]_vars => [Market!Next]_Market!market
    <2> SUFFICES ASSUME Inv, Inv', [Next]_vars
                 PROVE  Market!Next \/ UNCHANGED Market!market
        OBVIOUS
    <2>1. CASE Submit  BY <2>1, SubmitIsArrival DEF Market!Next
    <2>2. CASE Match  BY <2>2, MatchIsTrade DEF Market!Next
    <2>3. CASE Finish  BY <2>3, FinishIsSettlement DEF Market!Next
    <2>4. ASSUME NEW id \in OrderIds, Cancel(id) PROVE Market!Next \/ UNCHANGED Market!market
        BY <2>4, CancelIsWithdrawal DEF Market!Next
    <2>5. CASE UNCHANGED vars
        <3>1. Resting' = Resting  BY <2>5 DEF vars, Resting, RestingOn
        <3> QED  BY <2>5, <3>1 DEF vars, Market!market
    <2> QED  BY <2>1, <2>2, <2>3, <2>4, <2>5 DEF Next
<1> QED
    BY <1>1, <1>2, InvIsInvariant, PTL DEF Spec, ImplementsMarket, Market!Spec

-----------------------------------------------------------------------------
(* The ledger.                                                             *)

LedgerType ==
    ledger \in [OrderIds -> [type : OrderType, quantity : Nat, executed : Nat,
                             status : {"UNUSED", "REJECTED", "ACCEPTED", "CANCELLED"}]]

\* The account of a live order is open and adds up.
Booked(o) ==
    /\ ledger[o.order_id].status = "ACCEPTED"
    /\ ledger[o.order_id].type = o.type
    /\ ledger[o.order_id].executed + o.remaining_quantity = ledger[o.order_id].quantity

\* Conservation, taken apart: live orders have ids of their own and accounts
\* that add up, and an account that is still owed quantity has a live order.
LedgerInv ==
    /\ LedgerType
    /\ \A o \in Resting : Booked(o)
    /\ incoming # NoOrder => Booked(incoming)
    /\ \A o, u \in Resting : o.order_id = u.order_id => o = u
    /\ incoming # NoOrder => \A o \in Resting : o.order_id # incoming.order_id
    /\ \A id \in OrderIds : ledger[id].executed <= ledger[id].quantity
    /\ \A id \in OrderIds :
          (/\ ledger[id].status = "ACCEPTED" /\ ledger[id].type = "LIMIT"
           /\ ledger[id].executed # ledger[id].quantity) =>
              \/ \E o \in Resting : o.order_id = id
              \/ incoming # NoOrder /\ incoming.order_id = id
    /\ IndexMirrorsBook

\* Resting orders are orders.
LEMMA RestingType ==
    ASSUME Inv, NEW o \in Resting
    PROVE  /\ o \in Order /\ o.order_id \in OrderIds /\ o.type = "LIMIT"
           /\ o.remaining_quantity \in Nat /\ o.remaining_quantity > 0
<1>1. PICK s \in Side : \E q \in DOMAIN book[s] : o \in At(book[s], q)
    BY RestingIs DEF RestingAtLevels
<1>2. PICK q \in DOMAIN book[s] : o \in At(book[s], q)  BY <1>1
<1>3. o \in Order /\ o.type = "LIMIT" /\ o.remaining_quantity > 0  BY <1>2, AtFacts
<1> QED  BY <1>3 DEF Order

\* The order in hand is an order.
LEMMA IncomingType ==
    ASSUME Inv, incoming # NoOrder
    PROVE  /\ incoming \in Order /\ incoming.order_id \in OrderIds
           /\ incoming.type \in OrderType /\ incoming.remaining_quantity \in Nat
BY DEF Inv, TypeOK, Order

\* An empty book owes nobody anything.
LEMMA LedgerInvInit == LedgerInit => LedgerInv
<1> SUFFICES ASSUME LedgerInit PROVE LedgerInv  OBVIOUS
<1>1. \A s \in Side : DOMAIN book[s] = {}  BY DEF LedgerInit, Init, EmptyMap
<1>2. Resting = {}  BY <1>1, RestingIs DEF RestingAtLevels
<1>3. incoming = NoOrder /\ DOMAIN cancel_index = {}  BY DEF LedgerInit, Init, EmptyMap
<1>4. LedgerType  BY DEF LedgerInit, LedgerType, OrderType
<1>5. \A id \in OrderIds : ledger[id].status = "UNUSED" /\ ledger[id].executed = 0 /\ ledger[id].quantity = 0
    BY Zenon DEF LedgerInit
<1> QED  BY <1>2, <1>3, <1>4, <1>5 DEF LedgerInv, IndexMirrorsBook

\* Opening an account: the id is nobody else's.
LEMMA LedgerSubmitStep ==
    ASSUME Inv, LedgerInv, LedgerSubmit PROVE LedgerInv'
<1>1. PICK id \in OrderIds, s \in Side, type \in OrderType, price \in Prices, qty \in Quantities :
        /\ ledger[id].status = "UNUSED"
        /\ submit_order(id, s, type, price, qty)
        /\ ledger' = [ledger EXCEPT ![id] =
              [type |-> type, quantity |-> qty, executed |-> 0,
               status |-> IF incoming' = NoOrder THEN "REJECTED" ELSE "ACCEPTED"]]
    BY Zenon DEF LedgerSubmit
<1>2. /\ incoming = NoOrder /\ book' = book /\ cancel_index' = cancel_index
      /\ incoming' = NoOrder \/ incoming' = Stamped(id, s, type, price, qty)
    BY <1>1 DEF submit_order
<1>3. Resting' = Resting  BY <1>2 DEF Resting, RestingOn
<1>4. qty \in Nat  BY BookAssumption
<1>5. LedgerType  BY DEF LedgerInv
<1>6. LedgerType'  BY <1>1, <1>4, <1>5 DEF LedgerType
<1>7. \A i \in OrderIds : i # id => ledger'[i] = ledger[i]  BY <1>1, <1>5 DEF LedgerType
<1>8. /\ ledger'[id].type = type /\ ledger'[id].quantity = qty /\ ledger'[id].executed = 0
      /\ ledger'[id].status = IF incoming' = NoOrder THEN "REJECTED" ELSE "ACCEPTED"
    BY <1>1, <1>5 DEF LedgerType
<1>9. \A o \in Resting : o.order_id \in OrderIds /\ o.order_id # id
    BY <1>1, RestingType DEF LedgerInv, Booked
<1>10. \A o \in Resting' : Booked(o)'  BY <1>3, <1>7, <1>9 DEF LedgerInv, Booked
<1>11. ASSUME incoming' # NoOrder
       PROVE  /\ incoming'.order_id = id /\ incoming'.type = type
              /\ incoming'.remaining_quantity = qty
    BY <1>2, <1>11 DEF Stamped
<1>12. incoming' # NoOrder => Booked(incoming)'  BY <1>4, <1>8, <1>11 DEF Booked
<1>13. incoming' # NoOrder => \A o \in Resting' : o.order_id # incoming'.order_id
    BY <1>3, <1>9, <1>11
<1>14. \A i \in OrderIds : ledger'[i].executed <= ledger'[i].quantity
    BY <1>4, <1>7, <1>8 DEF LedgerInv
<1>15. ASSUME NEW i \in OrderIds, ledger'[i].status = "ACCEPTED", ledger'[i].type = "LIMIT",
              ledger'[i].executed # ledger'[i].quantity
       PROVE  \/ \E o \in Resting' : o.order_id = i
              \/ incoming' # NoOrder /\ incoming'.order_id = i
    <2>1. CASE i = id  BY <1>8, <1>11, <1>15, <2>1
    <2>2. CASE i # id  BY Zenon, <1>2, <1>3, <1>7, <1>15, <2>2 DEF LedgerInv
    <2> QED  BY <2>1, <2>2
<1>16. IndexMirrorsBook'  BY <1>2, <1>3 DEF LedgerInv, IndexMirrorsBook
<1>17. \A o, u \in Resting' : o.order_id = u.order_id => o = u  BY <1>3 DEF LedgerInv
<1> QED
    BY <1>6, <1>10, <1>12, <1>13, <1>14, <1>15, <1>16, <1>17 DEF LedgerInv

\* A trade is booked to the two orders it is between, and to no other.
LEMMA LedgerBooks ==
    ASSUME Inv, LedgerInv, LedgerMatch, NEW m \in Resting, Market!Execute(m),
           NEW n \in Nat,
           n = IF incoming.remaining_quantity <= m.remaining_quantity
               THEN incoming.remaining_quantity ELSE m.remaining_quantity
    PROVE  /\ LedgerType'
           /\ \A id \in {incoming.order_id, m.order_id} :
                 ledger'[id] = [ledger[id] EXCEPT !.executed = @ + n]
           /\ \A id \in OrderIds \ {incoming.order_id, m.order_id} : ledger'[id] = ledger[id]
<1> DEFINE i == incoming.order_id
           j == m.order_id
           t == trades'[Len(trades')]
<1>1. i \in OrderIds /\ j \in OrderIds /\ i # j
    BY RestingType, IncomingType DEF LedgerInv, LedgerMatch, Match
<1>2. trades' = Append(trades,
         [buy_order_id |-> (IF incoming.side = "BUY" THEN incoming ELSE m).order_id,
          sell_order_id |-> (IF incoming.side = "BUY" THEN m ELSE incoming).order_id,
          price |-> m.price, quantity |-> n, timestamp |-> next_timestamp])
    BY DEF Market!Execute
<1>3. trades \in Seq(Trade)  BY DEF Inv, TypeOK
<1>4. t = [buy_order_id |-> (IF incoming.side = "BUY" THEN incoming ELSE m).order_id,
           sell_order_id |-> (IF incoming.side = "BUY" THEN m ELSE incoming).order_id,
           price |-> m.price, quantity |-> n, timestamp |-> next_timestamp]
    BY <1>2, <1>3
<1>5. /\ t.quantity = n
      /\ \/ t.buy_order_id = i /\ t.sell_order_id = j
         \/ t.buy_order_id = j /\ t.sell_order_id = i
    BY <1>4
<1>6. ledger' = [ledger EXCEPT ![t.buy_order_id].executed = @ + t.quantity,
                               ![t.sell_order_id].executed = @ + t.quantity]
    BY DEF LedgerMatch
<1>7. LedgerType  BY DEF LedgerInv
<1> HIDE DEF i, j, t
<1>8. CASE t.buy_order_id = i /\ t.sell_order_id = j
    <2>1. ledger' = [ledger EXCEPT ![i].executed = @ + n, ![j].executed = @ + n]
        BY <1>5, <1>6, <1>8
    <2>2. LedgerType'  BY <1>1, <1>7, <2>1 DEF LedgerType
    <2>3. /\ ledger'[i] = [ledger[i] EXCEPT !.executed = @ + n]
          /\ ledger'[j] = [ledger[j] EXCEPT !.executed = @ + n]
          /\ \A id \in OrderIds \ {i, j} : ledger'[id] = ledger[id]
        BY <1>1, <1>7, <2>1 DEF LedgerType
    <2> QED  BY <2>2, <2>3 DEF i, j
<1>9. CASE t.buy_order_id = j /\ t.sell_order_id = i
    <2>1. ledger' = [ledger EXCEPT ![j].executed = @ + n, ![i].executed = @ + n]
        BY <1>5, <1>6, <1>9
    <2>2. LedgerType'  BY <1>1, <1>7, <2>1 DEF LedgerType
    <2>3. /\ ledger'[i] = [ledger[i] EXCEPT !.executed = @ + n]
          /\ ledger'[j] = [ledger[j] EXCEPT !.executed = @ + n]
          /\ \A id \in OrderIds \ {i, j} : ledger'[id] = ledger[id]
        BY <1>1, <1>7, <2>1 DEF LedgerType
    <2> QED  BY <2>2, <2>3 DEF i, j
<1> QED  BY <1>5, <1>8, <1>9

\* A fill moves the same quantity from both orders to their accounts.
LEMMA LedgerMatchStep ==
    ASSUME Inv, Inv', LedgerInv, LedgerMatch PROVE LedgerInv'
<1>0. incoming # NoOrder /\ Match  BY DEF LedgerMatch, Match
<1>1. PICK m \in Resting :
         /\ Market!Execute(m)
         /\ cancel_index' = IF m.remaining_quantity <= incoming.remaining_quantity
                            THEN remove_from_index(m.order_id) ELSE cancel_index
    BY <1>0, MatchExecutes
<1> DEFINE n == IF incoming.remaining_quantity <= m.remaining_quantity
                THEN incoming.remaining_quantity ELSE m.remaining_quantity
           i == incoming.order_id
           j == m.order_id
           left == [m EXCEPT !.remaining_quantity = @ - n]
<1>2. /\ incoming \in Order /\ i \in OrderIds /\ incoming.remaining_quantity \in Nat
      /\ m \in Order /\ j \in OrderIds /\ m.remaining_quantity \in Nat
    BY <1>0, RestingType, IncomingType
<1>3. n \in Nat /\ n <= m.remaining_quantity /\ n <= incoming.remaining_quantity
    BY <1>2
<1>4. /\ Resting' = (Resting \ {m}) \cup {o \in {left} : o.remaining_quantity > 0}
      /\ incoming' = [incoming EXCEPT !.remaining_quantity = @ - n]
    BY <1>1 DEF Market!Execute
<1>5. /\ LedgerType'
      /\ ledger'[i] = [ledger[i] EXCEPT !.executed = @ + n]
      /\ ledger'[j] = [ledger[j] EXCEPT !.executed = @ + n]
      /\ \A id \in OrderIds \ {i, j} : ledger'[id] = ledger[id]
    BY <1>1, <1>3, LedgerBooks
<1>6. /\ incoming'.order_id = i /\ incoming'.type = incoming.type
      /\ incoming'.remaining_quantity = incoming.remaining_quantity - n
    BY <1>2, <1>4 DEF Order
<1>7. /\ left.order_id = j /\ left.type = m.type /\ left.side = m.side /\ left.price = m.price
      /\ left.remaining_quantity = m.remaining_quantity - n
    BY <1>2 DEF Order
<1>8. Booked(m) /\ Booked(incoming) /\ i # j  BY <1>0 DEF LedgerInv
<1>9. /\ ledger[i] \in [type : OrderType, quantity : Nat, executed : Nat,
                        status : {"UNUSED", "REJECTED", "ACCEPTED", "CANCELLED"}]
      /\ ledger[j] \in [type : OrderType, quantity : Nat, executed : Nat,
                        status : {"UNUSED", "REJECTED", "ACCEPTED", "CANCELLED"}]
    BY <1>2 DEF LedgerInv, LedgerType
<1>10. \A u \in Resting \ {m} : u.order_id \in OrderIds \ {i, j}
    BY <1>0, RestingType DEF LedgerInv
<1>11. incoming' # NoOrder
    BY <1>2, <1>4, <1>3, EngineAssumption DEF Order
<1> HIDE DEF n, i, j, left
<1>12. /\ ledger'[i].status = ledger[i].status /\ ledger'[i].type = ledger[i].type
       /\ ledger'[i].quantity = ledger[i].quantity /\ ledger'[i].executed = ledger[i].executed + n
       /\ ledger'[j].status = ledger[j].status /\ ledger'[j].type = ledger[j].type
       /\ ledger'[j].quantity = ledger[j].quantity /\ ledger'[j].executed = ledger[j].executed + n
    BY <1>5, <1>9
<1>13. /\ ledger[i].executed \in Nat /\ ledger[j].executed \in Nat
       /\ ledger[i].executed + incoming.remaining_quantity = ledger[i].quantity
       /\ ledger[j].executed + m.remaining_quantity = ledger[j].quantity
       /\ ledger[i].status = "ACCEPTED" /\ ledger[i].type = incoming.type
       /\ ledger[j].status = "ACCEPTED" /\ ledger[j].type = m.type
    BY <1>8, <1>9 DEF Booked, i, j
<1>14. \A o \in Resting' : Booked(o)'
    <2>1. ASSUME NEW o \in Resting \ {m} PROVE Booked(o)'
        BY <1>5, <1>10, <2>1 DEF LedgerInv, Booked
    <2>2. ASSUME NEW o, o = left PROVE Booked(o)'
        BY <1>2, <1>3, <1>7, <1>12, <1>13, <2>2 DEF Booked
    <2>3. \A o \in Resting' : o \in Resting \ {m} \/ o = left  BY <1>4
    <2> QED  BY <2>1, <2>2, <2>3
<1>15. Booked(incoming)'  BY <1>2, <1>3, <1>6, <1>12, <1>13 DEF Booked
<1>16. \A o, u \in Resting' : o.order_id = u.order_id => o = u
    BY <1>4, <1>7, <1>10 DEF LedgerInv
<1>17. \A o \in Resting' : o.order_id # incoming'.order_id
    BY <1>4, <1>6, <1>7, <1>8, <1>10 DEF i, j
<1>18. \A id \in OrderIds : ledger'[id].executed <= ledger'[id].quantity
    <2>1. ledger'[i].executed <= ledger'[i].quantity  BY <1>2, <1>3, <1>12, <1>13
    <2>2. ledger'[j].executed <= ledger'[j].quantity  BY <1>2, <1>3, <1>12, <1>13
    <2> QED  BY Zenon, <1>5, <2>1, <2>2 DEF LedgerInv
<1>19. ASSUME NEW id \in OrderIds, ledger'[id].status = "ACCEPTED", ledger'[id].type = "LIMIT",
              ledger'[id].executed # ledger'[id].quantity
       PROVE  \/ \E o \in Resting' : o.order_id = id
              \/ incoming' # NoOrder /\ incoming'.order_id = id
    <2>1. CASE id = i  BY <1>6, <1>11, <2>1
    <2>2. CASE id = j
        <3>1. left.remaining_quantity > 0
            BY <1>2, <1>3, <1>7, <1>12, <1>13, <1>19, <2>2
        <3> QED  BY <1>4, <1>7, <2>2, <3>1
    <2>3. CASE id \notin {i, j}
        <3>1. \E o \in Resting : o.order_id = id
            BY <1>5, <1>19, <2>3 DEF LedgerInv, i
        <3> QED  BY <1>4, <2>3, <3>1 DEF j
    <2> QED  BY <2>1, <2>2, <2>3
<1>20. IndexMirrorsBook'
    <2>0. /\ \A o \in Resting : /\ o.order_id \in DOMAIN cancel_index
                               /\ cancel_index[o.order_id] = [side |-> o.side, price |-> o.price]
          /\ \A id \in DOMAIN cancel_index : \E o \in Resting : o.order_id = id
        BY DEF LedgerInv, IndexMirrorsBook
    <2>1. CASE m.remaining_quantity <= incoming.remaining_quantity
        <3>1. left.remaining_quantity = 0  BY <1>2, <1>7, <2>1 DEF n
        <3>2. Resting' = Resting \ {m}  BY <1>4, <3>1
        <3>3. cancel_index' = [x \in DOMAIN cancel_index \ {j} |-> cancel_index[x]]
            BY <1>1, <2>1 DEF remove_from_index, j
        <3> QED  BY <1>10, <2>0, <3>2, <3>3 DEF IndexMirrorsBook, j
    <2>2. CASE ~(m.remaining_quantity <= incoming.remaining_quantity)
        <3>1. left.remaining_quantity > 0  BY <1>2, <1>7, <2>2 DEF n
        <3>2. Resting' = (Resting \ {m}) \cup {left}  BY <1>4, <3>1
        <3>3. cancel_index' = cancel_index  BY <1>1, <2>2
        <3> QED  BY <1>7, <2>0, <3>2, <3>3 DEF IndexMirrorsBook, j
    <2> QED  BY <2>1, <2>2
<1> QED
    BY <1>5, <1>14, <1>15, <1>16, <1>17, <1>18, <1>19, <1>20 DEF LedgerInv

\* What is left of a LIMIT order rests under its account and index entry; what
\* is left of a MARKET order is given up.
LEMMA LedgerFinishStep ==
    ASSUME Inv, Inv', LedgerInv, LedgerFinish PROVE LedgerInv'
<1> DEFINE o == incoming
           rests == o.remaining_quantity > 0 /\ o.type = "LIMIT"
<1>1. /\ Finish /\ o # NoOrder /\ incoming' = NoOrder /\ ledger' = ledger
    BY DEF LedgerFinish, Finish, finish
<1>2. /\ o \in Order /\ o.order_id \in OrderIds /\ o.remaining_quantity \in Nat
    BY <1>1, IncomingType
<1>3. Resting' = Resting \cup {u \in {o} : u.type = "LIMIT" /\ u.remaining_quantity > 0}
    BY <1>1, FinishIsSettlement DEF Market!Settle
<1>4. Booked(o) /\ \A u \in Resting : Booked(u) /\ u.order_id # o.order_id
    BY <1>1 DEF LedgerInv
<1>5. LedgerType'  BY <1>1 DEF LedgerInv, LedgerType
<1>6. ledger[o.order_id].executed \in Nat  BY <1>2 DEF LedgerInv, LedgerType
<1>7. /\ \A u \in Resting : /\ u.order_id \in DOMAIN cancel_index
                           /\ cancel_index[u.order_id] = [side |-> u.side, price |-> u.price]
      /\ \A id \in DOMAIN cancel_index : \E u \in Resting : u.order_id = id
    BY DEF LedgerInv, IndexMirrorsBook
<1>8. rests => cancel_index' = [x \in DOMAIN cancel_index \cup {o.order_id} |->
                   IF x = o.order_id THEN [side |-> o.side, price |-> o.price]
                   ELSE cancel_index[x]]
    BY <1>1 DEF Finish, finish, add_resting_order
<1>9. ~rests => cancel_index' = cancel_index  BY <1>1 DEF Finish, finish
<1>10. Booked(o) <=> /\ ledger[o.order_id].status = "ACCEPTED"
                     /\ ledger[o.order_id].type = o.type
                     /\ ledger[o.order_id].executed + o.remaining_quantity
                            = ledger[o.order_id].quantity
    BY DEF Booked
<1>11. \A u \in Resting' : u \in Resting \/ u = incoming  BY <1>3
<1>12. ASSUME NEW u \in Resting' PROVE Booked(u)'
    <2>1. Booked(u)  BY <1>4, <1>11
    <2> QED  BY <1>1, <2>1 DEF Booked
<1>13. \A u, v \in Resting' : u.order_id = v.order_id => u = v
    BY <1>4, <1>11 DEF LedgerInv
<1>14. \A id \in OrderIds : ledger'[id].executed <= ledger'[id].quantity
    BY <1>1 DEF LedgerInv
<1>15. ASSUME NEW id \in OrderIds, ledger[id].status = "ACCEPTED", ledger[id].type = "LIMIT",
              ledger[id].executed # ledger[id].quantity
       PROVE  \E u \in Resting' : u.order_id = id
    <2>1. CASE id = o.order_id
        <3>1. o.type = "LIMIT"  BY <1>4, <1>10, <1>15, <2>1
        <3>2. o.remaining_quantity # 0  BY <1>4, <1>6, <1>10, <1>15, <2>1
        <3>3. o \in Resting'  BY <1>2, <1>3, <3>1, <3>2
        <3> QED  BY <2>1, <3>3
    <2>2. CASE id # o.order_id
        <3>1. \E u \in Resting : u.order_id = id  BY <1>15, <2>2 DEF LedgerInv
        <3> QED  BY <1>3, <3>1
    <2> QED  BY <2>1, <2>2
<1>16. IndexMirrorsBook'
    <2>1. CASE rests
        <3>1. Resting' = Resting \cup {o}  BY <1>3, <2>1
        <3> HIDE DEF o
        <3> QED  BY <1>4, <1>7, <1>8, <2>1, <3>1 DEF IndexMirrorsBook
    <2>2. CASE ~rests
        <3>1. Resting' = Resting  BY <1>3, <2>2
        <3> QED  BY <1>7, <1>9, <2>2, <3>1 DEF IndexMirrorsBook
    <2> QED  BY <2>1, <2>2
<1> QED
    BY <1>1, <1>5, <1>12, <1>13, <1>14, <1>15, <1>16 DEF LedgerInv

\* A cancelled order leaves the book and the index, and its account is closed.
LEMMA LedgerCancelStep ==
    ASSUME Inv, Inv', LedgerInv, NEW id \in OrderIds, LedgerCancel(id)
    PROVE  LedgerInv'
<1>1. incoming = NoOrder /\ incoming' = NoOrder /\ Cancel(id)
    BY Zenon DEF LedgerCancel, Cancel
<1>2. /\ \A u \in Resting : /\ u.order_id \in DOMAIN cancel_index
                           /\ cancel_index[u.order_id] = [side |-> u.side, price |-> u.price]
      /\ \A x \in DOMAIN cancel_index : \E u \in Resting : u.order_id = x
    BY DEF LedgerInv, IndexMirrorsBook
<1>3. CASE id \in DOMAIN cancel_index
    <2>1. PICK o \in Resting : o.order_id = id /\ Resting' = Resting \ {o}
        BY <1>1, <1>3, CancelTakesOne
    <2>2. /\ cancel_index' = [x \in DOMAIN cancel_index \ {id} |-> cancel_index[x]]
          /\ result' = "TRUE"
        BY <1>1, <1>3 DEF Cancel, cancel_order, remove_from_index
    <2>3. ledger' = [ledger EXCEPT ![id].status = "CANCELLED"]
        BY <2>2 DEF LedgerCancel
    <2>4. LedgerType  BY DEF LedgerInv
    <2>5. LedgerType'  BY <2>3, <2>4 DEF LedgerType
    <2>6. /\ ledger'[id].status = "CANCELLED"
          /\ ledger'[id].executed = ledger[id].executed
          /\ ledger'[id].quantity = ledger[id].quantity
          /\ \A x \in OrderIds \ {id} : ledger'[x] = ledger[x]
        BY <2>3, <2>4 DEF LedgerType
    <2>7. \A u \in Resting' : u \in Resting /\ u.order_id \in OrderIds \ {id}
        BY <2>1, RestingType DEF LedgerInv
    <2>8. \A u \in Resting' : Booked(u)'  BY <2>6, <2>7 DEF LedgerInv, Booked
    <2>9. \A u, v \in Resting' : u.order_id = v.order_id => u = v
        BY <2>7 DEF LedgerInv
    <2>10. \A x \in OrderIds : ledger'[x].executed <= ledger'[x].quantity
        BY <2>6 DEF LedgerInv
    <2>11. ASSUME NEW x \in OrderIds, ledger'[x].status = "ACCEPTED", ledger'[x].type = "LIMIT",
                  ledger'[x].executed # ledger'[x].quantity
           PROVE  \E u \in Resting' : u.order_id = x
        <3>1. x # id  BY <2>6, <2>11
        <3>2. \E u \in Resting : u.order_id = x  BY <1>1, <2>6, <2>11, <3>1 DEF LedgerInv
        <3> QED  BY <2>1, <3>1, <3>2
    <2>12. IndexMirrorsBook'  BY Zenon, <1>2, <2>1, <2>2, <2>7 DEF IndexMirrorsBook
    <2> QED  BY <1>1, <2>5, <2>8, <2>9, <2>10, <2>11, <2>12 DEF LedgerInv
<1>4. CASE id \notin DOMAIN cancel_index
    <2>1. book' = book /\ cancel_index' = cancel_index /\ result' = "FALSE"
        BY <1>1, <1>4 DEF Cancel
    <2>2. Resting' = Resting  BY <2>1 DEF Resting, RestingOn
    <2>3. ledger' = ledger  BY <2>1 DEF LedgerCancel
    <2> QED  BY <1>1, <2>1, <2>2, <2>3 DEF LedgerInv, LedgerType, Booked, IndexMirrorsBook
<1> QED  BY <1>3, <1>4

-----------------------------------------------------------------------------
\* The ledger only watches the engine.
LEMMA LedgerRefinesEngine == LedgerSpec => Spec
<1>1. LedgerInit => Init  BY DEF LedgerInit
<1>2. [LedgerNext]_ledgerVars => [Next]_vars
    <2>1. LedgerSubmit => Submit  BY DEF LedgerSubmit, Submit
    <2> QED
        BY <2>1 DEF LedgerNext, LedgerMatch, LedgerFinish, LedgerCancel, Next, ledgerVars
<1> QED  BY <1>1, <1>2, PTL DEF LedgerSpec, Spec

\* The accounts add up in every reachable state.
THEOREM LedgerInvariant == LedgerSpec => [](Inv /\ LedgerInv)
<1>1. Inv /\ Inv' /\ LedgerInv /\ [LedgerNext]_ledgerVars => LedgerInv'
    <2> SUFFICES ASSUME Inv, Inv', LedgerInv, [LedgerNext]_ledgerVars PROVE LedgerInv'
        BY Zenon
    <2>1. CASE UNCHANGED ledgerVars
        <3>1. UNCHANGED <<book, cancel_index, incoming, ledger>>
            BY <2>1 DEF ledgerVars, vars
        <3>2. Resting' = Resting  BY <3>1 DEF Resting, RestingOn
        <3> QED  BY <3>1, <3>2 DEF LedgerInv, LedgerType, Booked, IndexMirrorsBook
    <2> QED
        BY <2>1, LedgerSubmitStep, LedgerMatchStep, LedgerFinishStep, LedgerCancelStep
        DEF LedgerNext
<1> QED
    BY <1>1, LedgerInvInit, LedgerRefinesEngine, InvIsInvariant, PTL DEF LedgerSpec

\* Quantity is conserved per order, through any number of fills and cancels.
THEOREM QuantityConserved == LedgerSpec => []Conservation
<1>1. Inv /\ LedgerInv => Conservation
    <2> SUFFICES ASSUME Inv, LedgerInv, NEW id \in OrderIds
                 PROVE  /\ ledger[id].executed <= ledger[id].quantity
                        /\ ledger[id].status # "ACCEPTED" => Open(id) = {}
                        /\ ledger[id].status = "ACCEPTED" =>
                              \/ \E o \in Open(id) :
                                    /\ Open(id) = {o}
                                    /\ ledger[id].executed + o.remaining_quantity
                                          = ledger[id].quantity
                              \/ /\ Open(id) = {}
                                 /\ ledger[id].type = "LIMIT" =>
                                       ledger[id].executed = ledger[id].quantity
        BY Zenon DEF Conservation
    <2>1. \A o \in Open(id) : o.order_id = id /\ Booked(o)  BY DEF Open, LedgerInv
    <2>2. \A o, u \in Open(id) : o = u  BY DEF Open, LedgerInv
    <2>3. Open(id) = {} => ~ \/ \E o \in Resting : o.order_id = id
                             \/ incoming # NoOrder /\ incoming.order_id = id
        BY DEF Open
    <2>4. CASE Open(id) = {}  BY <2>3, <2>4 DEF LedgerInv
    <2>5. CASE Open(id) # {}
        <3>1. PICK o \in Open(id) : TRUE  BY <2>5
        <3>2. Open(id) = {o}  BY <2>2, <3>1
        <3>3. /\ ledger[id].status = "ACCEPTED"
              /\ ledger[id].executed + o.remaining_quantity = ledger[id].quantity
            BY <2>1, <3>1 DEF Booked
        <3> QED  BY <3>1, <3>2, <3>3 DEF LedgerInv
    <2> QED  BY <2>4, <2>5
<1> QED  BY <1>1, LedgerInvariant, PTL

\* cancel_order answers true exactly for what rests, and looks where it rests.
THEOREM IndexIsMirror == LedgerSpec => []IndexMirrorsBook
<1>1. LedgerInv => IndexMirrorsBook  BY DEF LedgerInv
<1> QED  BY <1>1, LedgerInvariant, PTL

\* Nothing is ever booked to an order that was cancelled or rejected.
THEOREM ClosedForGood == LedgerSpec => ClosedStaysClosed
<1> DEFINE A == \A id \in OrderIds : ledger[id].status \in {"CANCELLED", "REJECTED"} =>
                   ledger'[id] = ledger[id]
<1>1. Inv /\ Inv' /\ LedgerInv /\ [LedgerNext]_ledgerVars => [A]_ledgerVars
    <2> SUFFICES ASSUME Inv, Inv', LedgerInv, LedgerNext, NEW id \in OrderIds,
                        ledger[id].status \in {"CANCELLED", "REJECTED"}
                 PROVE  ledger'[id] = ledger[id]
        OBVIOUS
    <2>0. LedgerType  BY DEF LedgerInv
    <2>1. CASE LedgerSubmit  BY <2>0, <2>1 DEF LedgerSubmit, LedgerType
    <2>2. CASE LedgerMatch
        <3>1. Match /\ incoming # NoOrder  BY <2>2 DEF LedgerMatch, Match
        <3>2. PICK m \in Resting : Market!Execute(m)  BY <3>1, MatchExecutes
        <3> DEFINE n == IF incoming.remaining_quantity <= m.remaining_quantity
                        THEN incoming.remaining_quantity ELSE m.remaining_quantity
        <3>3. n \in Nat  BY <3>1, RestingType, IncomingType
        <3>4. id # incoming.order_id /\ id # m.order_id
            BY <3>1 DEF LedgerInv, Booked
        <3> QED  BY Zenon, <2>2, <3>2, <3>3, <3>4, LedgerBooks
    <2>3. CASE LedgerFinish  BY <2>3 DEF LedgerFinish
    <2>4. ASSUME NEW x \in OrderIds, LedgerCancel(x) PROVE ledger'[id] = ledger[id]
        <3>1. CASE x \in DOMAIN cancel_index
            <4>1. \E o \in Resting : o.order_id = x  BY <3>1 DEF LedgerInv, IndexMirrorsBook
            <4>2. x # id  BY <4>1 DEF LedgerInv, Booked
            <4> QED  BY <2>0, <2>4, <4>2 DEF LedgerCancel, LedgerType
        <3>2. CASE x \notin DOMAIN cancel_index
            <4>1. result' = "FALSE"  BY <2>4, <3>2 DEF LedgerCancel, Cancel
            <4> QED  BY <2>4, <4>1 DEF LedgerCancel
        <3> QED  BY <3>1, <3>2
    <2> QED  BY <2>1, <2>2, <2>3, <2>4 DEF LedgerNext
<1> QED
    BY <1>1, LedgerInvariant, PTL DEF LedgerSpec, ClosedStaysClosed
=============================================================================
