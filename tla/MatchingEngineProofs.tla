----------------------- MODULE MatchingEngineProofs -----------------------
(***************************************************************************)
(* Proofs about MatchingEngine, for every set of ids, prices, quantities   *)
(* and every bound on the timestamps.                                      *)
(***************************************************************************)
EXTENDS MatchingEngine, WellFoundedInduction, TLAPS

-----------------------------------------------------------------------------
(* Facts about deques.                                                     *)

\* The positions of a deque hold orders.
LEMMA DequeFacts ==
    ASSUME NEW dq \in Seq(Order), NEW i \in 1..Len(dq)
    PROVE  /\ dq[i] \in Order
           /\ dq[i].timestamp \in Nat /\ dq[i].remaining_quantity \in Nat
<1>1. dq[i] \in Order
  OBVIOUS
<1>2. QED
  BY <1>1 DEF Order

\* Removing position i moves the later orders of a deque up by one.
LEMMA EraseFacts ==
    ASSUME NEW S, NEW dq \in Seq(S), NEW i \in 1..Len(dq)
    PROVE  /\ Erase(dq, i) \in Seq(S)
           /\ Len(Erase(dq, i)) = Len(dq) - 1
           /\ \A j \in 1..(Len(dq) - 1) :
                 Erase(dq, i)[j] = IF j < i THEN dq[j] ELSE dq[j + 1]
<1> DEFINE L == SubSeq(dq, 1, i - 1)
           R == SubSeq(dq, i + 1, Len(dq))
<1>1. i \in Int /\ Len(dq) \in Nat /\ 1 <= i /\ i <= Len(dq)
  OBVIOUS
<1>2. L \in Seq(S) /\ Len(L) = i - 1 /\ \A j \in 1..(i - 1) : L[j] = dq[j]
  BY <1>1
<1>3. /\ R \in Seq(S) /\ Len(R) = Len(dq) - i
      /\ \A j \in 1..(Len(dq) - i) : R[j] = dq[i + j]
  BY <1>1
<1>4. Erase(dq, i) = L \o R
  BY DEF Erase
<1> HIDE DEF L, R
<1>a. ASSUME NEW p \in Seq(S), NEW q \in Seq(S)
      PROVE  /\ p \o q \in Seq(S) /\ Len(p \o q) = Len(p) + Len(q)
             /\ \A j \in 1..(Len(p) + Len(q)) :
                   (p \o q)[j] = IF j <= Len(p) THEN p[j] ELSE q[j - Len(p)]
  OBVIOUS
<1>5. /\ L \o R \in Seq(S) /\ Len(L \o R) = Len(L) + Len(R)
      /\ \A j \in 1..(Len(L) + Len(R)) :
            (L \o R)[j] = IF j <= Len(L) THEN L[j] ELSE R[j - Len(L)]
  BY Zenon, <1>2, <1>3, <1>a
<1>6. Len(L) + Len(R) = Len(dq) - 1
  BY <1>1, <1>2, <1>3
<1>7. ASSUME NEW j \in 1..(Len(dq) - 1)
      PROVE  (L \o R)[j] = IF j < i THEN dq[j] ELSE dq[j + 1]
  <2>0. j \in Int /\ 1 <= j /\ j <= Len(dq) - 1
    BY <1>1
  <2>1. CASE j < i
    BY <1>1, <1>2, <1>5, <1>6, <2>0, <2>1
  <2>2. CASE ~ (j < i)
    <3>1. (L \o R)[j] = R[j - (i - 1)]
      BY <1>1, <1>2, <1>5, <1>6, <2>0, <2>2
    <3>2. j - (i - 1) \in 1..(Len(dq) - i) /\ i + (j - (i - 1)) = j + 1
      BY <1>1, <2>0, <2>2
    <3>3. QED
      BY <1>3, <2>2, <3>1, <3>2
  <2>3. QED
    BY Zenon, <2>1, <2>2
<1>8. QED
  BY <1>4, <1>5, <1>6, <1>7

\* The front of a non-empty deque is removed by Tail.
LEMMA TailFacts ==
    ASSUME NEW dq \in Deques
    PROVE  /\ dq[1] \in Order /\ Len(dq) \in Nat /\ Len(dq) >= 1
           /\ Tail(dq) \in Seq(Order)
           /\ Len(Tail(dq)) = Len(dq) - 1
           /\ \A j \in 1..(Len(dq) - 1) : Tail(dq)[j] = dq[j + 1]
<1>1. dq \in Seq(Order) /\ dq # << >>
  BY DEF Deques
<1>2. Len(dq) \in Nat /\ Len(dq) >= 1
  BY <1>1
<1>3. dq[1] \in Order
  BY <1>1, <1>2
<1>4. QED
  BY <1>1, <1>2, <1>3

\* A fill changes the remaining quantity of an order and nothing else.
LEMMA ReduceFacts ==
    ASSUME NEW o \in Order, NEW fill \in Nat, fill <= o.remaining_quantity
    PROVE  /\ Reduce(o, fill) \in Order
           /\ Reduce(o, fill).remaining_quantity = o.remaining_quantity - fill
           /\ Reduce(o, fill).order_id = o.order_id
           /\ Reduce(o, fill).side = o.side
           /\ Reduce(o, fill).type = o.type
           /\ Reduce(o, fill).price = o.price
           /\ Reduce(o, fill).quantity = o.quantity
           /\ Reduce(o, fill).timestamp = o.timestamp
<1>1. o.remaining_quantity \in Nat /\ o.remaining_quantity - fill \in Nat
  BY DEF Order
<1>2. QED
  BY <1>1 DEF Reduce, Order

\* A partial fill replaces the front by itself with less remaining.
LEMMA AfterFillFacts ==
    ASSUME NEW dq \in Deques, NEW fill \in Nat,
           fill <= dq[1].remaining_quantity
    PROVE  /\ AfterFill(dq, fill) \in Seq(Order)
           /\ dq[1].remaining_quantity = fill => AfterFill(dq, fill) = Tail(dq)
           /\ dq[1].remaining_quantity # fill =>
                 /\ Len(AfterFill(dq, fill)) = Len(dq)
                 /\ AfterFill(dq, fill)[1] = Reduce(dq[1], fill)
                 /\ \A j \in 2..Len(dq) : AfterFill(dq, fill)[j] = dq[j]
<1>1. dq \in Seq(Order) /\ Len(dq) \in Nat /\ Len(dq) >= 1 /\ dq[1] \in Order
  BY TailFacts DEF Deques
<1>2. CASE dq[1].remaining_quantity = fill
  BY <1>2, TailFacts DEF AfterFill
<1>3. CASE dq[1].remaining_quantity # fill
  <2> DEFINE o == Reduce(dq[1], fill)
  <2>1. o \in Order
    BY <1>1, ReduceFacts
  <2>2. AfterFill(dq, fill) = [dq EXCEPT ![1] = o]
    BY <1>3 DEF AfterFill
  <2> HIDE DEF o
  <2>3. /\ [dq EXCEPT ![1] = o] \in Seq(Order)
        /\ Len([dq EXCEPT ![1] = o]) = Len(dq)
        /\ \A j \in 1..Len(dq) :
              [dq EXCEPT ![1] = o][j] = IF j = 1 THEN o ELSE dq[j]
    BY <1>1, <2>1
  <2>4. /\ [dq EXCEPT ![1] = o][1] = o
        /\ \A j \in 2..Len(dq) : [dq EXCEPT ![1] = o][j] = dq[j]
    BY <1>1, <2>3
  <2>5. QED
    BY Zenon, <1>3, <2>2, <2>3, <2>4 DEF o
<1>4. QED
  BY <1>2, <1>3

-----------------------------------------------------------------------------
(* Time order and membership of a deque survive what the code does to it.  *)

\* pop_front keeps the time order.
LEMMA TailInTimeOrder ==
    ASSUME NEW dq \in Deques, NEW s, NEW p, NEW t, InTimeOrder(dq, s, p, t)
    PROVE  InTimeOrder(Tail(dq), s, p, t)
<1>1. ASSUME NEW i \in 1..Len(Tail(dq))
      PROVE  i + 1 \in 1..Len(dq) /\ Tail(dq)[i] = dq[i + 1]
  BY TailFacts
<1>2. \A i \in 1..Len(Tail(dq)) : i \in Int
  BY TailFacts
<1>3. \A i \in 1..Len(Tail(dq)) : LiveBefore(Tail(dq)[i], s, p, t)
  BY <1>1 DEF InTimeOrder
<1>4. ASSUME NEW i \in 1..Len(Tail(dq)), NEW j \in 1..Len(Tail(dq)), i < j
      PROVE  Tail(dq)[i].timestamp < Tail(dq)[j].timestamp
  <2>1. i + 1 < j + 1
    BY <1>2, <1>4
  <2>2. QED
    BY <1>1, <2>1 DEF InTimeOrder
<1>5. QED
  BY <1>3, <1>4 DEF InTimeOrder

\* erase of one position keeps the time order.
LEMMA EraseInTimeOrder ==
    ASSUME NEW dq \in Seq(Order), NEW k \in 1..Len(dq), NEW s, NEW p, NEW t,
           InTimeOrder(dq, s, p, t)
    PROVE  InTimeOrder(Erase(dq, k), s, p, t)
<1> DEFINE old(i) == IF i < k THEN i ELSE i + 1
<1>1. ASSUME NEW i \in 1..Len(Erase(dq, k))
      PROVE  old(i) \in 1..Len(dq) /\ Erase(dq, k)[i] = dq[old(i)]
  <2>1. Len(dq) \in Nat /\ Len(Erase(dq, k)) = Len(dq) - 1
    BY EraseFacts
  <2>2. Erase(dq, k)[i] = IF i < k THEN dq[i] ELSE dq[i + 1]
    BY Zenon, <2>1, EraseFacts
  <2>3. QED
    BY <2>1, <2>2
<1>2. k \in Int /\ \A i \in 1..Len(Erase(dq, k)) : i \in Int
  BY EraseFacts
<1>3. \A i \in 1..Len(Erase(dq, k)) : LiveBefore(Erase(dq, k)[i], s, p, t)
  BY <1>1 DEF InTimeOrder
<1>4. ASSUME NEW i \in 1..Len(Erase(dq, k)), NEW j \in 1..Len(Erase(dq, k)), i < j
      PROVE  Erase(dq, k)[i].timestamp < Erase(dq, k)[j].timestamp
  <2>1. old(i) < old(j)
    BY <1>2, <1>4
  <2> HIDE DEF old
  <2>2. QED
    BY <1>1, <2>1 DEF InTimeOrder
<1>5. QED
  BY <1>3, <1>4 DEF InTimeOrder

\* A fill of the front, partial or full, keeps the time order.
LEMMA AfterFillInTimeOrder ==
    ASSUME NEW dq \in Deques, NEW s, NEW p, NEW t, InTimeOrder(dq, s, p, t),
           NEW fill \in Nat, fill <= dq[1].remaining_quantity
    PROVE  InTimeOrder(AfterFill(dq, fill), s, p, t)
<1> DEFINE new == AfterFill(dq, fill)
<1>1. CASE dq[1].remaining_quantity = fill
  BY Zenon, <1>1, AfterFillFacts, TailInTimeOrder
<1>2. CASE dq[1].remaining_quantity # fill
  <2>1. /\ Len(dq) \in Nat /\ Len(dq) >= 1 /\ dq[1] \in Order
        /\ dq[1].remaining_quantity \in Nat /\ dq[1].quantity \in Nat
    BY Zenon, TailFacts, BookAssumption DEF Order
  <2>2. /\ Len(new) = Len(dq) /\ new[1] = Reduce(dq[1], fill)
        /\ \A j \in 2..Len(dq) : new[j] = dq[j]
    BY <1>2, AfterFillFacts
  <2> HIDE DEF new
  <2>3. LiveBefore(dq[1], s, p, t)
    BY <2>1 DEF InTimeOrder
  <2>4. LiveBefore(new[1], s, p, t) /\ new[1].timestamp = dq[1].timestamp
    BY <1>2, <2>1, <2>2, <2>3, ReduceFacts DEF LiveBefore
  <2>5. ASSUME NEW i \in 1..Len(new)
        PROVE  LiveBefore(new[i], s, p, t) /\ new[i].timestamp = dq[i].timestamp
    <3>1. CASE i = 1
      BY <2>4, <3>1
    <3>2. CASE i # 1
      <4>1. i \in 1..Len(dq) /\ i \in 2..Len(dq)
        BY <2>1, <2>2, <3>2
      <4>2. QED
        BY <2>2, <4>1 DEF InTimeOrder
    <3>3. QED
      BY <3>1, <3>2
  <2>6. QED
    BY <2>2, <2>5 DEF InTimeOrder, new
<1>3. QED
  BY <1>1, <1>2

\* push_back of a later order keeps the time order.
LEMMA AppendInTimeOrder ==
    ASSUME NEW dq \in Seq(Order), NEW s, NEW p, NEW t \in Nat, NEW o \in Order,
           InTimeOrder(dq, s, p, o.timestamp), LiveBefore(o, s, p, t)
    PROVE  InTimeOrder(Append(dq, o), s, p, t)
<1>1. /\ Len(Append(dq, o)) = Len(dq) + 1 /\ Len(dq) \in Nat
      /\ \A i \in 1..Len(dq) : Append(dq, o)[i] = dq[i]
      /\ Append(dq, o)[Len(dq) + 1] = o
  OBVIOUS
<1>2. \A i \in 1..Len(dq) : dq[i] \in Order /\ dq[i].timestamp \in Nat
  BY DequeFacts
<1>3. o.timestamp \in Nat /\ o.timestamp < t
  BY DEF Order, LiveBefore
<1>4. ASSUME NEW i \in 1..Len(dq)
      PROVE  LiveBefore(dq[i], s, p, t) /\ dq[i].timestamp < o.timestamp
  BY <1>2, <1>3 DEF InTimeOrder, LiveBefore
<1>5. \A i \in 1..(Len(dq) + 1) : LiveBefore(Append(dq, o)[i], s, p, t)
  BY <1>1, <1>4
<1>6. ASSUME NEW i \in 1..(Len(dq) + 1), NEW j \in 1..(Len(dq) + 1), i < j
      PROVE  Append(dq, o)[i].timestamp < Append(dq, o)[j].timestamp
  <2>1. i \in 1..Len(dq)
    BY <1>1, <1>6
  <2>2. CASE j = Len(dq) + 1
    BY <1>1, <1>4, <2>1, <2>2
  <2>3. CASE j \in 1..Len(dq)
    BY <1>1, <1>6, <2>1, <2>3 DEF InTimeOrder
  <2>4. QED
    BY <1>1, <2>2, <2>3
<1>7. QED
  BY <1>1, <1>5, <1>6 DEF InTimeOrder

\* The bound on the timestamps may grow.
LEMMA LaterInTimeOrder ==
    ASSUME NEW dq \in Seq(Order), NEW s, NEW p, NEW t \in Nat, NEW u \in Nat,
           t <= u, InTimeOrder(dq, s, p, t)
    PROVE  InTimeOrder(dq, s, p, u)
<1>1. \A i \in 1..Len(dq) : dq[i].timestamp \in Nat
  BY DequeFacts
<1>2. QED
  BY <1>1 DEF InTimeOrder, LiveBefore

\* An order other than the front is still there after the front was filled; a
\* front that keeps some quantity is still there as well.
LEMMA AfterFillHasOrder ==
    ASSUME NEW dq \in Deques, NEW id, HasOrder(dq, id),
           NEW fill \in Nat, fill <= dq[1].remaining_quantity,
           dq[1].remaining_quantity = fill => id # dq[1].order_id
    PROVE  HasOrder(AfterFill(dq, fill), id)
<1>1. PICK i \in 1..Len(dq) : dq[i].order_id = id
  BY DEF HasOrder
<1>2. Len(dq) \in Nat /\ Len(dq) >= 1 /\ i \in Int /\ dq[1] \in Order
  BY TailFacts
<1>3. CASE dq[1].remaining_quantity = fill
  <2>1. i # 1
    BY <1>1, <1>3
  <2>2. i - 1 \in 1..Len(Tail(dq)) /\ Tail(dq)[i - 1] = dq[i]
    BY <1>2, <2>1, TailFacts
  <2>3. AfterFill(dq, fill) = Tail(dq)
    BY <1>3 DEF AfterFill
  <2>4. HasOrder(Tail(dq), id)
    BY <1>1, <2>2 DEF HasOrder
  <2>5. QED
    BY <2>3, <2>4
<1>4. CASE dq[1].remaining_quantity # fill
  <2>1. AfterFill(dq, fill)[i].order_id = dq[i].order_id
    <3>1. CASE i = 1
      BY <1>2, <1>4, <3>1, AfterFillFacts, ReduceFacts
    <3>2. CASE i # 1
      BY <1>2, <1>4, <3>2, AfterFillFacts
    <3>3. QED
      BY <3>1, <3>2
  <2>2. QED
    BY <1>1, <1>4, <2>1, AfterFillFacts DEF HasOrder
<1>5. QED
  BY <1>3, <1>4

\* Erasing an order with another id does not remove this one.
LEMMA EraseHasOrder ==
    ASSUME NEW dq \in Seq(Order), NEW id, HasOrder(dq, id),
           NEW k \in 1..Len(dq), dq[k].order_id # id
    PROVE  HasOrder(Erase(dq, k), id)
<1>1. PICK i \in 1..Len(dq) : dq[i].order_id = id
  BY DEF HasOrder
<1>2. Len(dq) \in Nat /\ i \in Int /\ k \in Int /\ i # k
  BY <1>1
<1>3. CASE i < k
  <2>1. i \in 1..(Len(dq) - 1)
    BY <1>2, <1>3
  <2>2. Erase(dq, k)[i] = dq[i]
    BY Zenon, <1>3, <2>1, EraseFacts
  <2>3. QED
    BY Zenon, <1>1, <2>1, <2>2, EraseFacts DEF HasOrder
<1>4. CASE i > k
  <2>1. i - 1 \in 1..(Len(dq) - 1) /\ ~ (i - 1 < k) /\ (i - 1) + 1 = i
    BY <1>2, <1>4
  <2>2. Erase(dq, k)[i - 1] = dq[i]
    BY Zenon, <2>1, EraseFacts
  <2>3. QED
    BY Zenon, <1>1, <2>1, <2>2, EraseFacts DEF HasOrder
<1>5. QED
  BY <1>2, <1>3, <1>4

\* push_back keeps what is there and adds the new order.
LEMMA AppendHasOrder ==
    ASSUME NEW dq \in Seq(Order), NEW o \in Order
    PROVE  /\ HasOrder(Append(dq, o), o.order_id)
           /\ \A id : HasOrder(dq, id) => HasOrder(Append(dq, o), id)
<1>1. /\ Len(Append(dq, o)) = Len(dq) + 1 /\ Len(dq) \in Nat
      /\ \A i \in 1..Len(dq) : Append(dq, o)[i] = dq[i]
      /\ Append(dq, o)[Len(dq) + 1] = o
  OBVIOUS
<1>2. HasOrder(Append(dq, o), o.order_id)
  <2>1. Len(dq) + 1 \in 1..Len(Append(dq, o))
    BY <1>1
  <2>2. QED
    BY <1>1, <2>1 DEF HasOrder
<1>3. ASSUME NEW id, HasOrder(dq, id)
      PROVE  HasOrder(Append(dq, o), id)
  <2>1. PICK i \in 1..Len(dq) : dq[i].order_id = id
    BY <1>3 DEF HasOrder
  <2>2. i \in 1..Len(Append(dq, o))
    BY <1>1
  <2>3. QED
    BY <1>1, <2>1, <2>2 DEF HasOrder
<1>4. QED
  BY <1>2, <1>3

\* The scan of cancel_order stops at an order with the id it looks for.
LEMMA FirstWithIdFacts ==
    ASSUME NEW dq \in Seq(Order), NEW id, HasOrder(dq, id)
    PROVE  /\ FirstWithId(dq, id) \in 1..Len(dq)
           /\ dq[FirstWithId(dq, id)].order_id = id
<1> DEFINE T == {i \in 1..Len(dq) : dq[i].order_id = id}
<1>1. Len(dq) \in Nat
  OBVIOUS
<1>2. T \subseteq Nat /\ T # {}
  BY <1>1 DEF HasOrder
<1> DEFINE R == OpToRel(<, Nat)
<1>3. \A x, y \in Nat : y < x => <<y, x>> \in R
  BY DEF OpToRel
<1>4. IsWellFoundedOn(R, Nat)
  BY NatLessThanWellFounded, Zenon
<1> HIDE DEF T, R
<1>5. \E x \in T : \A y \in T : ~ (<<y, x>> \in R)
  BY Zenon, <1>2, <1>4, WFMin
<1>6. PICK x \in T : \A y \in T : ~ (y < x)
  BY Zenon, <1>2, <1>3, <1>5
<1> USE DEF T
<1>7. ASSUME NEW j \in 1..(x - 1)
      PROVE  dq[j].order_id # id
  <2>1. j \in 1..Len(dq) /\ j < x
    BY <1>1, <1>6
  <2>2. QED
    BY <1>6, <2>1
<1>8. \E i \in 1..Len(dq) :
         /\ dq[i].order_id = id
         /\ \A j \in 1..(i - 1) : dq[j].order_id # id
  BY <1>6, <1>7
<1>9. QED
  BY <1>8 DEF FirstWithId

-----------------------------------------------------------------------------
(* Facts about the maps of levels.                                         *)

\* Storing a level changes that level only, and erases it when it is empty.
LEMMA StoreLevelFacts ==
    ASSUME NEW levels, IsMap(levels, Prices, Deques),
           NEW p \in DOMAIN levels, NEW dq \in Seq(Order)
    PROVE  /\ IsMap(StoreLevel(levels, p, dq), Prices, Deques)
           /\ \A q \in DOMAIN StoreLevel(levels, p, dq) :
                 /\ q \in DOMAIN levels
                 /\ StoreLevel(levels, p, dq)[q] = IF q = p THEN dq ELSE levels[q]
           /\ \A q \in DOMAIN levels :
                 (q # p \/ dq # << >>) => q \in DOMAIN StoreLevel(levels, p, dq)
<1>1. CASE dq = << >>
  BY <1>1 DEF StoreLevel, IsMap
<1>2. CASE dq # << >>
  BY <1>2 DEF StoreLevel, IsMap, Deques
<1>3. QED
  BY <1>1, <1>2

\* push_back changes the level of the order's price only, creating it if needed.
LEMMA PushBackFacts ==
    ASSUME NEW levels, IsMap(levels, Prices, Deques), NEW o \in Order
    PROVE  /\ IsMap(PushBack(levels, o), Prices, Deques)
           /\ DOMAIN PushBack(levels, o) = DOMAIN levels \cup {o.price}
           /\ PushBack(levels, o)[o.price] =
                 IF o.price \in DOMAIN levels THEN Append(levels[o.price], o)
                                              ELSE Append(<< >>, o)
           /\ \A q \in DOMAIN levels : q # o.price => PushBack(levels, o)[q] = levels[q]
<1>1. o.price \in Prices
  BY DEF Order
<1>2. <<o>> = Append(<< >>, o) /\ Append(<< >>, o) \in Deques
  BY DEF Deques
<1>3. o.price \in DOMAIN levels => Append(levels[o.price], o) \in Deques
  BY DEF IsMap, Deques
<1>4. QED
  BY <1>1, <1>2, <1>3 DEF PushBack, IsMap

-----------------------------------------------------------------------------
(* The inductive invariant.                                                *)

\* Everything in the book arrived before this timestamp.
Arrival == IF incoming = NoOrder THEN next_timestamp ELSE incoming.timestamp

\* Time order relative to the order that is about to rest, not only to the
\* counter that its fills have moved on.
BookBeforeArrival ==
    \A s \in Side : \A p \in DOMAIN book[s] : InTimeOrder(book[s][p], s, p, Arrival)

IncomingStamped ==
    incoming # NoOrder =>
        /\ incoming.timestamp < next_timestamp
        /\ incoming.remaining_quantity <= incoming.quantity

Inv ==
    /\ TypeOK
    /\ IncomingStamped
    /\ BookBeforeArrival
    /\ NoCrossedBook
    /\ IndexSound

\* What the type invariant says of one level.
LEMMA LevelFacts ==
    ASSUME TypeOK, NEW s \in Side, NEW p \in DOMAIN book[s]
    PROVE  /\ p \in Prices /\ p \in Int
           /\ book[s][p] \in Deques /\ book[s][p] \in Seq(Order)
  BY BookAssumption DEF TypeOK, IsMap, Deques

\* Replacing one level by dq leaves the others alone, adds no level and so
\* cannot cross the book.
LEMMA StoreLevelStep ==
    ASSUME TypeOK, NoCrossedBook, NEW x \in Side, NEW p \in DOMAIN book[x],
           NEW dq \in Seq(Order),
           book' = [book EXCEPT ![x] = StoreLevel(book[x], p, dq)]
    PROVE  /\ book' = [s \in Side |-> book'[s]]
           /\ \A s \in Side : IsMap(book'[s], Prices, Deques)
           /\ \A s \in Side : \A q \in DOMAIN book'[s] :
                 /\ q \in DOMAIN book[s]
                 /\ book'[s][q] = IF s = x /\ q = p THEN dq ELSE book[s][q]
           /\ \A s \in Side : \A q \in DOMAIN book[s] :
                 (s # x \/ q # p \/ dq # << >>) => q \in DOMAIN book'[s]
           /\ NoCrossedBook'
<1>1. /\ book' = [s \in Side |-> book'[s]]
      /\ book'[x] = StoreLevel(book[x], p, dq)
      /\ \A s \in Side : s # x => book'[s] = book[s]
  BY DEF TypeOK
<1>2. \A s \in Side : IsMap(book[s], Prices, Deques)
  BY DEF TypeOK
<1>3. \A s \in Side : IsMap(book'[s], Prices, Deques)
  BY <1>1, <1>2, StoreLevelFacts
<1>4. ASSUME NEW s \in Side, NEW q \in DOMAIN book'[s]
      PROVE  /\ q \in DOMAIN book[s]
             /\ book'[s][q] = IF s = x /\ q = p THEN dq ELSE book[s][q]
  BY <1>1, <1>2, StoreLevelFacts
<1>5. ASSUME NEW s \in Side, NEW q \in DOMAIN book[s], s # x \/ q # p \/ dq # << >>
      PROVE  q \in DOMAIN book'[s]
  BY <1>1, <1>2, <1>5, StoreLevelFacts
<1>6. NoCrossedBook'
  BY <1>4 DEF NoCrossedBook, Side
<1>7. QED
  BY <1>1, <1>3, <1>4, <1>5, <1>6

\* The initial state satisfies the invariant.
LEMMA InitInv == Init => Inv
<1> SUFFICES ASSUME Init PROVE Inv
  OBVIOUS
<1>1. /\ book = [s \in Side |-> book[s]]
      /\ \A s \in Side : DOMAIN book[s] = {} /\ book[s] \in [{} -> Deques]
  BY DEF Init, EmptyMap
<1>2. DOMAIN cancel_index = {} /\ IsMap(cancel_index, OrderIds, [side : Side, price : Prices])
  BY DEF Init, EmptyMap, IsMap
<1>3. trades \in Seq(Trade)
  BY DEF Init
<1>4. TypeOK
  BY <1>1, <1>2, <1>3 DEF Init, TypeOK, IsMap, Results, Deques
<1>5. NoCrossedBook /\ BookBeforeArrival
  BY <1>1 DEF NoCrossedBook, BookBeforeArrival, Side
<1>6. IncomingStamped /\ IndexSound
  BY <1>2 DEF Init, IncomingStamped, IndexSound
<1>7. QED
  BY <1>4, <1>5, <1>6 DEF Inv

\* A submission stamps its order after everything in the book.
LEMMA SubmitInv == Inv /\ Submit => Inv'
<1> SUFFICES ASSUME Inv, Submit PROVE Inv'
  OBVIOUS
<1>1. PICK id \in OrderIds, s \in Side, type \in OrderType, price \in Prices,
           qty \in Quantities : submit_order(id, s, type, price, qty)
  BY DEF Submit
<1>2. /\ incoming = NoOrder /\ next_timestamp' = next_timestamp + 1
      /\ trades' = << >> /\ UNCHANGED <<book, cancel_index, last_price>>
  BY <1>1 DEF submit_order
<1>3. next_timestamp \in Nat /\ qty \in Nat
  BY BookAssumption DEF Inv, TypeOK
<1>4. \/ incoming' = NoOrder /\ result' \in Results
      \/ incoming' = Stamped(id, s, type, price, qty) /\ result' = result
  BY <1>1, <1>2 DEF submit_order, Results, Reasons, check
<1>5. Stamped(id, s, type, price, qty) \in Order
  BY <1>3 DEF Stamped, Order
<1>6. TypeOK'
  <2>1. trades' \in Seq(Trade)
    BY <1>2
  <2>2. incoming' \in Order \cup {NoOrder} /\ result' \in Results
    BY <1>4, <1>5 DEF Inv, TypeOK
  <2>3. /\ next_timestamp' \in Nat /\ book' = book
        /\ cancel_index' = cancel_index /\ last_price' = last_price
    BY <1>2, <1>3
  <2>4. QED
    BY <2>1, <2>2, <2>3 DEF Inv, TypeOK
<1>7. IncomingStamped'
  BY <1>2, <1>3, <1>4 DEF IncomingStamped, Stamped
<1>8. BookBeforeArrival'
  <2>1. Arrival = next_timestamp /\ Arrival' \in Nat /\ next_timestamp <= Arrival'
    BY <1>2, <1>3, <1>4 DEF Arrival, Stamped
  <2>2. ASSUME NEW x \in Side, NEW p \in DOMAIN book[x]
        PROVE  InTimeOrder(book[x][p], x, p, Arrival')
    <3>1. book[x][p] \in Seq(Order)
      BY LevelFacts DEF Inv
    <3>2. InTimeOrder(book[x][p], x, p, next_timestamp)
      BY <2>1 DEF Inv, BookBeforeArrival
    <3>3. QED
      BY <1>3, <2>1, <3>1, <3>2, LaterInTimeOrder
  <2>3. QED
    BY <1>2, <2>2 DEF BookBeforeArrival
<1>9. NoCrossedBook' /\ IndexSound'
  BY <1>2 DEF Inv, NoCrossedBook, IndexSound
<1>10. QED
  BY <1>6, <1>7, <1>8, <1>9 DEF Inv

\* One iteration of the matching loop keeps the invariant.
LEMMA MatchInv == Inv /\ Match => Inv'
<1> SUFFICES ASSUME Inv, Match PROVE Inv'
  OBVIOUS
<1> DEFINE opp == Opposite(incoming.side)
<1>1. incoming \in Order /\ incoming # NoOrder /\ next_timestamp \in Nat
  BY DEF Match, Inv, TypeOK
<1>2. PICK p \in DOMAIN book[opp] : match_against(p)
  BY DEF Match
<1> DEFINE dq    == book[opp][p]
           fill  == MinOf(incoming.remaining_quantity, dq[1].remaining_quantity)
           new   == AfterFill(dq, fill)
<1>3. opp \in Side
  BY DEF Opposite, Side
<1>4. dq \in Deques /\ dq \in Seq(Order) /\ dq[1] \in Order /\ 1 \in 1..Len(dq)
  BY <1>3, LevelFacts, TailFacts DEF Inv
<1>5. InTimeOrder(dq, opp, p, incoming.timestamp)
  BY <1>1, <1>3 DEF Inv, BookBeforeArrival, Arrival
<1>6. /\ incoming.remaining_quantity \in Nat /\ incoming.remaining_quantity > 0
      /\ dq[1].remaining_quantity \in Nat /\ dq[1].remaining_quantity > 0
  BY Zenon, <1>1, <1>2, <1>4, <1>5 DEF match_against, Order, InTimeOrder, LiveBefore
<1>7. /\ fill \in Nat /\ fill > 0 /\ fill <= incoming.remaining_quantity
      /\ fill <= dq[1].remaining_quantity
  BY <1>6 DEF MinOf
<1>8. new \in Seq(Order) /\ InTimeOrder(new, opp, p, incoming.timestamp)
  BY Zenon, <1>4, <1>5, <1>7, AfterFillFacts, AfterFillInTimeOrder
<1>9. /\ book' = [book EXCEPT ![opp] = StoreLevel(book[opp], p, new)]
      /\ cancel_index' = IF dq[1].remaining_quantity = fill
                         THEN remove_from_index(dq[1].order_id) ELSE cancel_index
      /\ incoming' = Reduce(incoming, fill)
      /\ next_timestamp' = next_timestamp + 1
      /\ last_price' = dq[1].price
      /\ result' = result
  BY <1>2, <1>3 DEF match_against, Inv, TypeOK
<1>10. trades' \in Seq(Trade)
  <2> DEFINE buy == incoming.side = "BUY"
             t == [buy_order_id  |-> IF buy THEN incoming.order_id ELSE dq[1].order_id,
                   sell_order_id |-> IF buy THEN dq[1].order_id ELSE incoming.order_id,
                   price |-> dq[1].price, quantity |-> fill,
                   timestamp |-> next_timestamp]
  <2>1. trades' = Append(trades, t)
    BY <1>2 DEF match_against
  <2>2. t \in Trade
    <3> HIDE DEF dq, fill
    <3>1. QED
      BY <1>1, <1>4, <1>7 DEF Trade, Order
  <2> HIDE DEF t
  <2>3. QED
    BY <2>1, <2>2 DEF Inv, TypeOK
<1> HIDE DEF opp, dq, fill, new
<1>11. /\ book' = [s \in Side |-> book'[s]]
       /\ \A s \in Side : IsMap(book'[s], Prices, Deques)
       /\ \A s \in Side : \A q \in DOMAIN book'[s] :
             /\ q \in DOMAIN book[s]
             /\ book'[s][q] = IF s = opp /\ q = p THEN new ELSE book[s][q]
       /\ \A s \in Side : \A q \in DOMAIN book[s] :
             (s # opp \/ q # p \/ new # << >>) => q \in DOMAIN book'[s]
       /\ NoCrossedBook'
  BY Zenon, <1>3, <1>8, <1>9, StoreLevelStep DEF Inv
<1>12. incoming' \in Order /\ incoming' # NoOrder
       /\ incoming'.timestamp = incoming.timestamp
       /\ incoming'.quantity = incoming.quantity
       /\ incoming'.remaining_quantity = incoming.remaining_quantity - fill
  BY <1>1, <1>7, <1>9, ReduceFacts, EngineAssumption
<1>13. IsMap(cancel_index', OrderIds, [side : Side, price : Prices])
  BY <1>9 DEF Inv, TypeOK, IsMap, remove_from_index
<1>14. TypeOK'
  <2>1. last_price' \in Prices /\ next_timestamp' \in Nat /\ result' \in Results
    BY <1>1, <1>4, <1>9 DEF Inv, TypeOK, Order
  <2>2. QED
    BY <1>10, <1>11, <1>12, <1>13, <2>1 DEF TypeOK
<1>15. IncomingStamped'
  <2>1. incoming.timestamp \in Nat /\ incoming.quantity \in Nat
    BY Zenon, <1>1, BookAssumption DEF Order
  <2>2. QED
    BY <1>1, <1>6, <1>7, <1>9, <1>12, <2>1 DEF Inv, IncomingStamped
<1>16. BookBeforeArrival'
  <2>1. Arrival = incoming.timestamp /\ Arrival' = incoming.timestamp
    BY <1>1, <1>12 DEF Arrival
  <2>2. QED
    BY <1>8, <1>11, <2>1 DEF Inv, BookBeforeArrival
<1>17. IndexSound'
  <2>1. SUFFICES ASSUME NEW id \in DOMAIN cancel_index'
                 PROVE  LET c == cancel_index'[id]
                        IN  /\ c.price \in DOMAIN book'[c.side]
                            /\ HasOrder(book'[c.side][c.price], id)
    BY DEF IndexSound
  <2> DEFINE c == cancel_index[id]
  <2>2. /\ id \in DOMAIN cancel_index /\ cancel_index'[id] = c
        /\ dq[1].remaining_quantity = fill => id # dq[1].order_id
    BY <1>9 DEF remove_from_index
  <2>3. c.side \in Side /\ c.price \in DOMAIN book[c.side]
        /\ HasOrder(book[c.side][c.price], id)
    BY <2>2 DEF Inv, IndexSound, TypeOK, IsMap
  <2> HIDE DEF c
  <2>4. CASE c.side = opp /\ c.price = p
    <3>1. HasOrder(new, id)
      BY <1>4, <1>7, <2>2, <2>3, <2>4, AfterFillHasOrder DEF dq, new
    <3>2. new # << >>
      BY <1>8, <3>1 DEF HasOrder
    <3>3. QED
      BY <1>11, <2>2, <2>3, <2>4, <3>1, <3>2
  <2>5. CASE ~ (c.side = opp /\ c.price = p)
    BY <1>11, <2>2, <2>3, <2>5
  <2>6. QED
    BY <2>4, <2>5
<1>18. QED
  BY <1>11, <1>14, <1>15, <1>16, <1>17 DEF Inv

\* When the loop ends on an order that still wants to trade, no level of the
\* other side is within its limit: begin() was the best one.
LEMMA NothingCrosses ==
    ASSUME Inv, incoming # NoOrder, incoming.type = "LIMIT",
           incoming.remaining_quantity > 0, LoopEnds,
           NEW q \in DOMAIN book[Opposite(incoming.side)]
    PROVE  IF incoming.side = "BUY" THEN incoming.price < q ELSE q < incoming.price
<1> DEFINE opp == Opposite(incoming.side)
<1>1. /\ incoming \in Order /\ incoming.side \in Side
      /\ incoming.remaining_quantity \in Nat /\ incoming.price \in Int
  BY BookAssumption DEF Inv, TypeOK, Order
<1>2. opp \in Side
  BY DEF Opposite, Side
<1>3. PICK p \in DOMAIN book[opp] : IsBegin(opp, p) /\ ~ Crosses(incoming, p)
  BY <1>1 DEF LoopEnds, empty_side
<1>4. p \in Int /\ q \in Int
  BY <1>2, LevelFacts DEF Inv
<1>5. ~ Before(opp, q, p)
  BY <1>3 DEF IsBegin
<1>6. CASE incoming.side = "BUY"
  BY <1>1, <1>3, <1>4, <1>5, <1>6 DEF Crosses, Before, Opposite
<1>7. CASE incoming.side # "BUY"
  <2>1. incoming.side = "SELL"
    BY <1>1, <1>7 DEF Side
  <2>2. QED
    BY <1>1, <1>3, <1>4, <1>5, <2>1 DEF Crosses, Before, Opposite
<1>8. QED
  BY <1>6, <1>7

\* The end of a submission keeps the invariant, whether or not it rests.
LEMMA FinishInv == Inv /\ Finish => Inv'
<1> SUFFICES ASSUME Inv, Finish PROVE Inv'
  OBVIOUS
<1> DEFINE o == incoming
<1>1. /\ o \in Order /\ o # NoOrder /\ next_timestamp \in Nat
      /\ o.side \in Side /\ o.price \in Prices /\ o.price \in Int
      /\ o.order_id \in OrderIds /\ o.timestamp \in Nat
      /\ o.remaining_quantity \in Nat /\ o.quantity \in Nat
  BY BookAssumption DEF Finish, Inv, TypeOK, Order
<1>2. /\ incoming' = NoOrder /\ result' = "TRADES" /\ LoopEnds
      /\ last_price' = last_price /\ next_timestamp' = next_timestamp
      /\ trades' = trades
  BY DEF Finish, finish
<1>3. Arrival = o.timestamp /\ Arrival' = next_timestamp /\ o.timestamp < next_timestamp
  BY <1>1, <1>2 DEF Arrival, Inv, IncomingStamped
<1>4. ASSUME NEW s \in Side, NEW q \in DOMAIN book[s]
      PROVE  /\ book[s][q] \in Deques /\ book[s][q] \in Seq(Order)
             /\ InTimeOrder(book[s][q], s, q, o.timestamp)
             /\ InTimeOrder(book[s][q], s, q, next_timestamp)
  <2>1. book[s][q] \in Deques /\ book[s][q] \in Seq(Order)
    BY LevelFacts DEF Inv
  <2>2. InTimeOrder(book[s][q], s, q, o.timestamp)
    BY <1>3 DEF Inv, BookBeforeArrival
  <2>3. QED
    BY <1>1, <1>3, <2>1, <2>2, LaterInTimeOrder
<1>5. IncomingStamped'
  BY <1>2 DEF IncomingStamped
<1>6. CASE ~ (o.remaining_quantity > 0 /\ o.type = "LIMIT")
  <2>1. book' = book /\ cancel_index' = cancel_index
    BY <1>6 DEF Finish, finish
  <2>2. TypeOK'
    BY <1>2, <2>1 DEF Inv, TypeOK, Results
  <2>3. BookBeforeArrival'
    BY <1>3, <1>4, <2>1 DEF BookBeforeArrival
  <2>4. NoCrossedBook' /\ IndexSound'
    BY <2>1 DEF Inv, NoCrossedBook, IndexSound
  <2>5. QED
    BY <1>5, <2>2, <2>3, <2>4 DEF Inv
<1>7. CASE o.remaining_quantity > 0 /\ o.type = "LIMIT"
  <2> DEFINE levels == book[o.side]
             was == IF o.price \in DOMAIN levels THEN levels[o.price] ELSE << >>
  <2>1. /\ book' = [book EXCEPT ![o.side] = PushBack(levels, o)]
        /\ cancel_index' =
              [x \in DOMAIN cancel_index \cup {o.order_id} |->
                  IF x = o.order_id THEN [side |-> o.side, price |-> o.price]
                  ELSE cancel_index[x]]
    BY <1>7 DEF Finish, finish, add_resting_order
  <2>2. /\ book' = [s \in Side |-> book'[s]]
        /\ book'[o.side] = PushBack(levels, o)
        /\ \A s \in Side : s # o.side => book'[s] = book[s]
    BY <1>1, <2>1 DEF Inv, TypeOK
  <2>3. /\ IsMap(book'[o.side], Prices, Deques)
        /\ DOMAIN book'[o.side] = DOMAIN levels \cup {o.price}
        /\ book'[o.side][o.price] = Append(was, o)
        /\ \A q \in DOMAIN levels : q # o.price => book'[o.side][q] = levels[q]
    <3>1. IsMap(levels, Prices, Deques)
      BY <1>1 DEF Inv, TypeOK
    <3> HIDE DEF levels
    <3>2. PushBack(levels, o)[o.price] = Append(was, o)
      BY Zenon, <1>1, <3>1, PushBackFacts
    <3>3. /\ IsMap(PushBack(levels, o), Prices, Deques)
          /\ DOMAIN PushBack(levels, o) = DOMAIN levels \cup {o.price}
          /\ \A q \in DOMAIN levels : q # o.price => PushBack(levels, o)[q] = levels[q]
      BY Zenon, <1>1, <3>1, PushBackFacts
    <3> HIDE DEF was
    <3>4. QED
      BY <2>2, <3>2, <3>3
  <2>4. was \in Seq(Order) /\ InTimeOrder(was, o.side, o.price, o.timestamp)
    <3>1. CASE o.price \in DOMAIN levels
      BY <1>1, <1>4, <3>1
    <3>2. CASE o.price \notin DOMAIN levels
      <4>1. was = << >> /\ was \in Seq(Order) /\ Len(was) = 0
        BY <3>2
      <4>2. QED
        BY <4>1 DEF InTimeOrder
    <3>3. QED
      BY <3>1, <3>2
  <2> HIDE DEF was
  <2>5. TypeOK'
    <3>1. \A s \in Side : IsMap(book'[s], Prices, Deques)
      BY <2>2, <2>3 DEF Inv, TypeOK
    <3>2. IsMap(cancel_index', OrderIds, [side : Side, price : Prices])
      BY <1>1, <2>1 DEF Inv, TypeOK, IsMap
    <3>3. QED
      BY <1>2, <2>2, <3>1, <3>2 DEF Inv, TypeOK, Results
  <2>6. BookBeforeArrival'
    <3>1. LiveBefore(o, o.side, o.price, next_timestamp)
      BY <1>1, <1>3, <1>7 DEF LiveBefore, Inv, IncomingStamped
    <3>2. InTimeOrder(Append(was, o), o.side, o.price, next_timestamp)
      BY <1>1, <2>4, <3>1, AppendInTimeOrder
    <3>3. ASSUME NEW s \in Side, NEW q \in DOMAIN book'[s]
          PROVE  InTimeOrder(book'[s][q], s, q, next_timestamp)
      <4>1. CASE s = o.side /\ q = o.price
        BY Zenon, <2>3, <3>2, <4>1
      <4>2. CASE ~ (s = o.side /\ q = o.price)
        BY <1>4, <2>2, <2>3, <4>2
      <4>3. QED
        BY <4>1, <4>2
    <3>4. QED
      BY <1>3, <3>3 DEF BookBeforeArrival
  <2>7. NoCrossedBook'
    <3>1. \A q \in DOMAIN book[Opposite(o.side)] :
             IF o.side = "BUY" THEN o.price < q ELSE q < o.price
      BY <1>1, <1>2, <1>7, NothingCrosses
    <3>2. CASE o.side = "BUY"
      <4>1. DOMAIN book'["BUY"] = DOMAIN book["BUY"] \cup {o.price}
            /\ DOMAIN book'["SELL"] = DOMAIN book["SELL"]
        BY <2>2, <2>3, <3>2 DEF Side
      <4>2. QED
        BY <3>1, <3>2, <4>1 DEF Inv, NoCrossedBook, Opposite
    <3>3. CASE o.side = "SELL"
      <4>1. DOMAIN book'["SELL"] = DOMAIN book["SELL"] \cup {o.price}
            /\ DOMAIN book'["BUY"] = DOMAIN book["BUY"]
        BY <2>2, <2>3, <3>3 DEF Side
      <4>2. QED
        BY <3>1, <3>3, <4>1 DEF Inv, NoCrossedBook, Opposite
    <3>4. QED
      BY <1>1, <3>2, <3>3 DEF Side
  <2>8. IndexSound'
    <3>1. SUFFICES ASSUME NEW id \in DOMAIN cancel_index'
                   PROVE  LET c == cancel_index'[id]
                          IN  /\ c.price \in DOMAIN book'[c.side]
                              /\ HasOrder(book'[c.side][c.price], id)
      BY DEF IndexSound
    <3>2. CASE id = o.order_id
      <4>1. cancel_index'[id] = [side |-> o.side, price |-> o.price]
        BY <2>1, <3>2
      <4>2. HasOrder(Append(was, o), id)
        BY <1>1, <2>4, <3>2, AppendHasOrder
      <4>3. cancel_index'[id].side = o.side /\ cancel_index'[id].price = o.price
        BY <4>1
      <4>4. QED
        BY Zenon, <2>3, <4>2, <4>3
    <3>3. CASE id # o.order_id
      <4> DEFINE c == cancel_index[id]
      <4>1. id \in DOMAIN cancel_index /\ cancel_index'[id] = c
        BY <2>1, <3>3
      <4>2. c.side \in Side /\ c.price \in DOMAIN book[c.side]
            /\ HasOrder(book[c.side][c.price], id)
        BY <4>1 DEF Inv, IndexSound, TypeOK, IsMap
      <4> HIDE DEF c
      <4>3. CASE c.side = o.side /\ c.price = o.price
        <5>1. HasOrder(was, id)
          BY <4>2, <4>3 DEF was
        <5>2. HasOrder(Append(was, o), id)
          BY <1>1, <2>4, <5>1, AppendHasOrder
        <5>3. QED
          BY Zenon, <2>3, <4>1, <4>3, <5>2
      <4>4. CASE ~ (c.side = o.side /\ c.price = o.price)
        BY <2>2, <2>3, <4>1, <4>2, <4>4
      <4>5. QED
        BY <4>3, <4>4
    <3>4. QED
      BY <3>2, <3>3
  <2>9. QED
    BY <1>5, <2>5, <2>6, <2>7, <2>8 DEF Inv
<1>8. QED
  BY <1>6, <1>7

\* cancel_order keeps the invariant.
LEMMA CancelInv == ASSUME NEW id \in OrderIds PROVE Inv /\ Cancel(id) => Inv'
<1> SUFFICES ASSUME Inv, Cancel(id) PROVE Inv'
  OBVIOUS
<1>1. /\ incoming = NoOrder /\ incoming' = NoOrder
      /\ last_price' = last_price /\ next_timestamp' = next_timestamp
      /\ trades' = trades /\ result' \in Results
  BY DEF Cancel, Results
<1>2. Arrival' = Arrival /\ IncomingStamped'
  BY <1>1 DEF Arrival, IncomingStamped
<1>3. CASE id \notin DOMAIN cancel_index
  <2>1. book' = book /\ cancel_index' = cancel_index
    BY <1>3 DEF Cancel
  <2>2. TypeOK'
    BY <1>1, <2>1 DEF Inv, TypeOK
  <2>3. BookBeforeArrival' /\ NoCrossedBook' /\ IndexSound'
    BY <1>2, <2>1 DEF Inv, BookBeforeArrival, NoCrossedBook, IndexSound
  <2>4. QED
    BY <1>2, <2>2, <2>3 DEF Inv
<1>4. CASE id \in DOMAIN cancel_index
  <2> DEFINE x   == cancel_index[id].side
             p   == cancel_index[id].price
             dq  == book[x][p]
             k   == FirstWithId(dq, id)
             new == Erase(dq, k)
  <2>1. x \in Side /\ p \in DOMAIN book[x] /\ HasOrder(dq, id)
    BY <1>4 DEF Inv, IndexSound, TypeOK, IsMap
  <2>2. dq \in Seq(Order)
    BY Zenon, <2>1, LevelFacts DEF Inv
  <2>3. k \in 1..Len(dq) /\ dq[k].order_id = id
    BY <2>1, <2>2, FirstWithIdFacts
  <2>4. /\ book' = [book EXCEPT ![x] = StoreLevel(book[x], p, new)]
        /\ cancel_index' = remove_from_index(id)
    BY <1>4, <2>1 DEF Cancel, cancel_order, EraseFirst
  <2>5. InTimeOrder(dq, x, p, Arrival)
    BY <2>1 DEF Inv, BookBeforeArrival
  <2> HIDE DEF x, p, k
  <2>6. new \in Seq(Order) /\ InTimeOrder(new, x, p, Arrival)
    BY <2>2, <2>3, <2>5, EraseFacts, EraseInTimeOrder
  <2> HIDE DEF new
  <2>7. /\ book' = [s \in Side |-> book'[s]]
        /\ \A s \in Side : IsMap(book'[s], Prices, Deques)
        /\ \A s \in Side : \A q \in DOMAIN book'[s] :
              /\ q \in DOMAIN book[s]
              /\ book'[s][q] = IF s = x /\ q = p THEN new ELSE book[s][q]
        /\ \A s \in Side : \A q \in DOMAIN book[s] :
              (s # x \/ q # p \/ new # << >>) => q \in DOMAIN book'[s]
        /\ NoCrossedBook'
    BY Zenon, <2>1, <2>4, <2>6, StoreLevelStep DEF Inv
  <2>8. TypeOK'
    <3>1. IsMap(cancel_index', OrderIds, [side : Side, price : Prices])
      BY <2>4 DEF Inv, TypeOK, IsMap, remove_from_index
    <3>2. QED
      BY <1>1, <2>7, <3>1 DEF Inv, TypeOK
  <2>9. BookBeforeArrival'
    BY <1>2, <2>6, <2>7 DEF Inv, BookBeforeArrival
  <2>10. IndexSound'
    <3>1. SUFFICES ASSUME NEW y \in DOMAIN cancel_index'
                   PROVE  LET c == cancel_index'[y]
                          IN  /\ c.price \in DOMAIN book'[c.side]
                              /\ HasOrder(book'[c.side][c.price], y)
      BY DEF IndexSound
    <3> DEFINE c == cancel_index[y]
    <3>2. y \in DOMAIN cancel_index /\ cancel_index'[y] = c /\ y # id
      BY <2>4 DEF remove_from_index
    <3>3. c.side \in Side /\ c.price \in DOMAIN book[c.side]
          /\ HasOrder(book[c.side][c.price], y)
      BY <3>2 DEF Inv, IndexSound, TypeOK, IsMap
    <3> HIDE DEF c
    <3>4. CASE c.side = x /\ c.price = p
      <4>1. HasOrder(new, y)
        BY <2>2, <2>3, <3>2, <3>3, <3>4, EraseHasOrder DEF new
      <4>2. new # << >>
        BY <2>6, <4>1 DEF HasOrder
      <4>3. QED
        BY <2>7, <3>2, <3>3, <3>4, <4>1, <4>2
    <3>5. CASE ~ (c.side = x /\ c.price = p)
      BY <2>7, <3>2, <3>3, <3>5
    <3>6. QED
      BY <3>4, <3>5
  <2>11. QED
    BY <1>2, <2>7, <2>8, <2>9, <2>10 DEF Inv
<1>5. QED
  BY <1>3, <1>4

\* Inv is inductive.
THEOREM InvIsInvariant == Spec => []Inv
<1>1. Inv /\ [Next]_vars => Inv'
  <2> SUFFICES ASSUME Inv, [Next]_vars PROVE Inv'
    OBVIOUS
  <2>1. CASE Submit
    BY <2>1, SubmitInv
  <2>2. CASE Match
    BY <2>2, MatchInv
  <2>3. CASE Finish
    BY <2>3, FinishInv
  <2>4. CASE \E id \in OrderIds : Cancel(id)
    BY <2>4, CancelInv
  <2>5. CASE UNCHANGED vars
    BY Zenon, <2>5 DEF vars, Inv, TypeOK, IncomingStamped, BookBeforeArrival, Arrival,
                NoCrossedBook, IndexSound
  <2>6. QED
    BY <2>1, <2>2, <2>3, <2>4, <2>5 DEF Next
<1>2. QED
  BY InitInv, <1>1, PTL DEF Spec

\* The state keeps its types, and no level is ever left behind empty: the
\* front() that match_against takes of the level at begin() exists.
THEOREM TypeCorrect == Spec => []TypeOK
<1>1. Inv => TypeOK
  BY DEF Inv
<1>2. QED
  BY <1>1, InvIsInvariant, PTL

\* The book is never crossed, after every submit_order and within one.
THEOREM NeverCrossed == Spec => []NoCrossedBook
<1>1. Inv => NoCrossedBook
  BY DEF Inv
<1>2. QED
  BY <1>1, InvIsInvariant, PTL

\* Every deque is in arrival order, which is what makes its front the order
\* with time priority.
THEOREM ArrivalOrder == Spec => []LevelsInTimeOrder
<1>1. Inv => LevelsInTimeOrder
  <2> SUFFICES ASSUME Inv, NEW s \in Side, NEW p \in DOMAIN book[s]
               PROVE  InTimeOrder(book[s][p], s, p, next_timestamp)
    BY DEF LevelsInTimeOrder
  <2>1. book[s][p] \in Seq(Order) /\ InTimeOrder(book[s][p], s, p, Arrival)
    BY LevelFacts DEF Inv, BookBeforeArrival
  <2>2. Arrival \in Nat /\ next_timestamp \in Nat /\ Arrival <= next_timestamp
    BY DEF Inv, TypeOK, IncomingStamped, Arrival, Order
  <2>3. QED
    BY <2>1, <2>2, LaterInTimeOrder
<1>2. QED
  BY <1>1, InvIsInvariant, PTL

\* No entry of the cancel index is stale, even when ids are reused.
THEOREM IndexNeverStale == Spec => []IndexSound
<1>1. Inv => IndexSound
  BY DEF Inv
<1>2. QED
  BY <1>1, InvIsInvariant, PTL

-----------------------------------------------------------------------------
(* Price-time priority.                                                    *)

\* A resting order is an element of some deque.
LEMMA RestingFacts ==
    ASSUME NEW s \in Side, NEW o
    PROVE  o \in RestingOn(s) <=>
              \E p \in DOMAIN book[s] : \E i \in 1..Len(book[s][p]) : o = book[s][p][i]
  BY DEF RestingOn

\* A fill of the front leaves every other order of the deque in it.
LEMMA AfterFillKeepsOthers ==
    ASSUME NEW dq \in Deques, NEW fill \in Nat, fill <= dq[1].remaining_quantity,
           NEW i \in 1..Len(dq), i # 1
    PROVE  \E j \in 1..Len(AfterFill(dq, fill)) : AfterFill(dq, fill)[j] = dq[i]
<1>1. Len(dq) \in Nat /\ i \in Int
  BY TailFacts
<1>2. CASE dq[1].remaining_quantity = fill
  <2>1. i - 1 \in 1..Len(Tail(dq)) /\ Tail(dq)[i - 1] = dq[i]
    BY <1>1, TailFacts
  <2>2. QED
    BY Zenon, <1>2, <2>1, AfterFillFacts
<1>3. CASE dq[1].remaining_quantity # fill
  <2>1. i \in 2..Len(dq)
    BY <1>1
  <2>2. QED
    BY <1>3, <2>1, AfterFillFacts
<1>4. QED
  BY <1>2, <1>3

\* In an iteration of the loop, an order that is filled or removed comes before
\* every other order of its side.
LEMMA MatchTakesFirst ==
    ASSUME Inv, Match, NEW s \in Side, NEW o \in RestingOn(s) \ RestingOn(s)',
           NEW u \in RestingOn(s) \ {o}
    PROVE  Precedes(o, u)
<1> DEFINE opp == Opposite(incoming.side)
<1>1. incoming \in Order /\ incoming # NoOrder
  BY DEF Match, Inv, TypeOK
<1>2. PICK p \in DOMAIN book[opp] : match_against(p)
  BY DEF Match
<1> DEFINE dq   == book[opp][p]
           fill == MinOf(incoming.remaining_quantity, dq[1].remaining_quantity)
           new  == AfterFill(dq, fill)
<1>3. opp \in Side
  BY DEF Opposite, Side
<1>4. dq \in Deques /\ dq \in Seq(Order) /\ dq[1] \in Order /\ Len(dq) \in Nat
  BY <1>3, LevelFacts, TailFacts DEF Inv
<1>5. /\ incoming.remaining_quantity \in Nat /\ dq[1].remaining_quantity \in Nat
      /\ fill \in Nat /\ fill <= dq[1].remaining_quantity
  <2>1. incoming.remaining_quantity \in Nat /\ dq[1].remaining_quantity \in Nat
    BY <1>1, <1>4 DEF Order
  <2>2. QED
    BY <2>1 DEF MinOf
<1>6. new \in Seq(Order)
  BY Zenon, <1>4, <1>5, AfterFillFacts
<1>7. book' = [book EXCEPT ![opp] = StoreLevel(book[opp], p, new)] /\ IsBegin(opp, p)
  BY <1>2, <1>3 DEF match_against, Inv, TypeOK
<1> HIDE DEF opp, dq, fill, new
<1>8. /\ book' = [x \in Side |-> book'[x]]
      /\ \A x \in Side : IsMap(book'[x], Prices, Deques)
      /\ \A x \in Side : \A q \in DOMAIN book'[x] :
            /\ q \in DOMAIN book[x]
            /\ book'[x][q] = IF x = opp /\ q = p THEN new ELSE book[x][q]
      /\ \A x \in Side : \A q \in DOMAIN book[x] :
            (x # opp \/ q # p \/ new # << >>) => q \in DOMAIN book'[x]
      /\ NoCrossedBook'
  BY Zenon, <1>3, <1>6, <1>7, StoreLevelStep DEF Inv
<1>9. ASSUME NEW q \in DOMAIN book'[s], NEW i \in 1..Len(book'[s][q])
      PROVE  o # book'[s][q][i]
  BY DEF RestingOn
<1>10. PICK q \in DOMAIN book[s] : \E i \in 1..Len(book[s][q]) : o = book[s][q][i]
  BY RestingFacts
<1>11. PICK i \in 1..Len(book[s][q]) : o = book[s][q][i]
  BY <1>10
<1>12. s = opp /\ q = p
  BY <1>8, <1>9, <1>11
<1>13. i = 1
  <2>1. SUFFICES ASSUME i # 1 PROVE FALSE
    OBVIOUS
  <2>2. i \in 1..Len(dq) /\ o = dq[i]
    BY <1>11, <1>12 DEF dq
  <2>3. \E j \in 1..Len(AfterFill(dq, fill)) : AfterFill(dq, fill)[j] = dq[i]
    BY Zenon, <1>4, <1>5, <2>1, <2>2, AfterFillKeepsOthers
  <2>4. PICK j \in 1..Len(new) : new[j] = o
    BY <2>2, <2>3 DEF new
  <2>5. new # << >>
    BY <1>6, <2>4
  <2>6. QED
    BY <1>3, <1>8, <1>9, <1>12, <2>4, <2>5
<1>14. PICK r \in DOMAIN book[s] : \E j \in 1..Len(book[s][r]) : u = book[s][r][j]
  BY RestingFacts
<1>15. PICK j \in 1..Len(book[s][r]) : u = book[s][r][j]
  BY <1>14
<1>16. InTimeOrder(book[s][p], s, p, Arrival) /\ InTimeOrder(book[s][r], s, r, Arrival)
  BY Zenon, <1>12 DEF Inv, BookBeforeArrival
<1>17. o.side = s /\ o.price = p /\ u.price = r
  BY <1>11, <1>12, <1>15, <1>16 DEF InTimeOrder, LiveBefore
<1>18. CASE r = p
  <2>1. j # 1 /\ j \in Int
    BY <1>4, <1>11, <1>12, <1>13, <1>15, <1>18 DEF dq
  <2>2. o.timestamp < u.timestamp
    <3>1. 1 < j
      BY <1>4, <1>12, <1>15, <1>18, <2>1 DEF dq
    <3>2. QED
      BY <1>11, <1>12, <1>13, <1>15, <1>16, <1>18, <3>1 DEF InTimeOrder
  <2>3. QED
    BY <1>17, <1>18, <2>2 DEF Precedes
<1>19. CASE r # p
  <2>1. p \in Int /\ r \in Int
    BY <1>12, LevelFacts DEF Inv
  <2>2. ~ Before(s, r, p)
    BY <1>7, <1>12 DEF IsBegin
  <2>3. QED
    BY <1>17, <1>19, <2>1, <2>2 DEF Precedes, Before, Side
<1>20. QED
  BY <1>18, <1>19

\* The end of a submission removes nothing from the book.
LEMMA FinishRemovesNothing ==
    ASSUME Inv, Finish, NEW s \in Side, NEW o \in RestingOn(s)
    PROVE  o \in RestingOn(s)'
<1>1. PICK q \in DOMAIN book[s] : \E i \in 1..Len(book[s][q]) : o = book[s][q][i]
  BY RestingFacts
<1>2. PICK i \in 1..Len(book[s][q]) : o = book[s][q][i]
  BY <1>1
<1>3. CASE UNCHANGED <<book, cancel_index>>
  BY <1>3 DEF RestingOn
<1>4. CASE add_resting_order(incoming)
  <2> DEFINE levels == book[incoming.side]
  <2>1. incoming \in Order /\ incoming.side \in Side
    BY DEF Finish, Inv, TypeOK, Order
  <2>2. /\ book'[incoming.side] = PushBack(levels, incoming)
        /\ s # incoming.side => book'[s] = book[s]
        /\ IsMap(levels, Prices, Deques)
    BY Zenon, <1>4, <2>1 DEF add_resting_order, Inv, TypeOK
  <2> HIDE DEF levels
  <2>3. /\ DOMAIN book'[incoming.side] = DOMAIN levels \cup {incoming.price}
        /\ \A x \in DOMAIN levels :
              book'[incoming.side][x] = IF x = incoming.price
                                        THEN Append(levels[x], incoming) ELSE levels[x]
    <3>1. /\ DOMAIN PushBack(levels, incoming) = DOMAIN levels \cup {incoming.price}
          /\ incoming.price \in DOMAIN levels =>
                PushBack(levels, incoming)[incoming.price] =
                   Append(levels[incoming.price], incoming)
          /\ \A x \in DOMAIN levels :
                x # incoming.price => PushBack(levels, incoming)[x] = levels[x]
      BY Zenon, <2>1, <2>2, PushBackFacts
    <3>2. QED
      BY <2>2, <3>1
  <2> USE DEF levels
  <2>4. CASE s # incoming.side
    BY <1>2, <2>2, <2>4 DEF RestingOn
  <2>5. CASE s = incoming.side
    <3>1. q \in DOMAIN book'[s]
      BY <2>3, <2>5
    <3>2. CASE q # incoming.price
      <4>1. book'[s][q] = book[s][q]
        BY <2>3, <2>5, <3>2
      <4>2. QED
        BY <1>2, <3>1, <4>1 DEF RestingOn
    <3>3. CASE q = incoming.price
      <4>1. book'[s][q] = Append(book[s][q], incoming) /\ book[s][q] \in Seq(Order)
        BY Zenon, <2>3, <2>5, <3>3, LevelFacts DEF Inv
      <4>2. i \in 1..Len(book'[s][q]) /\ book'[s][q][i] = o
        BY <1>2, <2>1, <4>1
      <4>3. QED
        BY <3>1, <4>2 DEF RestingOn
    <3>4. QED
      BY <3>2, <3>3
  <2>6. QED
    BY <2>4, <2>5
<1>5. QED
  BY <1>3, <1>4 DEF Finish, finish

\* Price-time priority holds for every book and every sequence of calls.
THEOREM Priority == Spec => PriceTimePriority
<1> DEFINE A == incoming # NoOrder =>
                   \A s \in Side : \A o \in RestingOn(s) \ RestingOn(s)' :
                       \A u \in RestingOn(s) \ {o} : Precedes(o, u)
<1>1. Inv /\ [Next]_vars => [A]_vars
  <2> SUFFICES ASSUME Inv, Next PROVE A
    OBVIOUS
  <2>1. CASE Match
    BY <2>1, MatchTakesFirst
  <2>2. CASE Finish
    BY <2>2, FinishRemovesNothing
  <2>3. CASE Submit \/ \E id \in OrderIds : Cancel(id)
    BY <2>3 DEF Submit, submit_order, Cancel
  <2>4. QED
    BY <2>1, <2>2, <2>3 DEF Next
<1>2. QED
  BY <1>1, InvIsInvariant, PTL DEF Spec, PriceTimePriority

\* On non-negative prices the collar accepts a limit order at the last price.
THEOREM CollarAcceptsLastPrice ==
    ASSUME Prices \subseteq Nat PROVE Spec => []LastPriceAccepted
<1>1. ASSUME NEW x \in Nat PROVE x * BandPercent \in Nat /\ x * 100 \in Nat
  BY CollarAssumption
<1>2. TypeOK => LastPriceAccepted
  <2> SUFFICES ASSUME TypeOK, last_price # NoPrice
               PROVE  check(last_price, last_price) = "NONE"
    BY DEF LastPriceAccepted
  <2>1. last_price \in Nat
    BY DEF TypeOK
  <2> DEFINE band == last_price * BandPercent
             ref  == last_price * 100
  <2>2. band \in Nat /\ ref \in Nat
    BY <1>1, <2>1
  <2>3. check(last_price, last_price) =
           IF ref > ref + band THEN "PRICE_TOO_HIGH"
           ELSE IF ref < ref - band THEN "PRICE_TOO_LOW" ELSE "NONE"
    BY DEF check
  <2> HIDE DEF band, ref
  <2>4. QED
    BY <2>2, <2>3
<1>3. QED
  BY <1>2, TypeCorrect, PTL

=============================================================================
