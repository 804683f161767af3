----------------------------- MODULE OrderBook -----------------------------
(***************************************************************************)
(* The resting orders of one symbol, src/src/order_book.cpp.               *)
(*                                                                         *)
(* Each side is a std::map from price to a deque: here a function whose    *)
(* domain is the set of prices that have a level, so a level left behind   *)
(* empty is a state the model can be in.  begin() of the bid map is the    *)
(* highest price (std::greater), begin() of the ask map the lowest.        *)
(***************************************************************************)
EXTENDS Integers, Sequences

CONSTANTS OrderIds, Prices, Quantities

\* Prices are whole ticks.  Quantities are uint64_t: the code only ever
\* subtracts a fill from them, so nothing wraps.
ASSUME BookAssumption == Prices \subseteq Int /\ Quantities \subseteq Nat

VARIABLES book,          \* bids_ and asks_, by side
          cancel_index   \* cancel_index_: order id to side and price

Side == {"BUY", "SELL"}
OrderType == {"LIMIT", "MARKET"}

\* struct Order without client_id and symbol, which matching never reads.
Order == [order_id : OrderIds, side : Side, type : OrderType, price : Prices,
          quantity : Quantities, remaining_quantity : Nat, timestamp : Nat]

\* The side an incoming order is matched against.
Opposite(s) == IF s = "BUY" THEN "SELL" ELSE "BUY"

\* Mutant: the bid map without std::greater.
Before_ascending(s, p, q) == p < q

\* The comparator of a side's map: p comes strictly before q.
Before(s, p, q) == IF s = "BUY" THEN p > q ELSE p < q

\* p is the key of begin() of the map of side s.
IsBegin(s, p) ==
    /\ p \in DOMAIN book[s]
    /\ \A q \in DOMAIN book[s] : ~ Before(s, q, p)

empty_side(s) == DOMAIN book[s] = {}

\* Mutant: push_front.
PushBack_front(levels, o) ==
    [p \in DOMAIN levels \cup {o.price} |->
        IF p # o.price THEN levels[p]
        ELSE IF p \in DOMAIN levels THEN <<o>> \o levels[p]
        ELSE <<o>>]

\* dq.push_back at the level of the order's price, created when missing.
PushBack(levels, o) ==
    [p \in DOMAIN levels \cup {o.price} |->
        IF p # o.price THEN levels[p]
        ELSE IF p \in DOMAIN levels THEN Append(levels[p], o)
        ELSE <<o>>]

\* Mutant: a level that became empty stays in the map.
StoreLevel_kept(levels, p, dq) == [levels EXCEPT ![p] = dq]

\* The level at p becomes dq; an empty one is erased from the map.
StoreLevel(levels, p, dq) ==
    IF dq = << >> THEN [q \in DOMAIN levels \ {p} |-> levels[q]]
    ELSE [levels EXCEPT ![p] = dq]

\* dq.erase(oit), at position i.
Erase(dq, i) == SubSeq(dq, 1, i - 1) \o SubSeq(dq, i + 1, Len(dq))

\* Mutant: the entry stays.
remove_from_index_kept(id) == cancel_index

\* remove_from_index: erasing a key that is not there does nothing.
remove_from_index(id) ==
    [x \in DOMAIN cancel_index \ {id} |-> cancel_index[x]]

\* add_resting_order: cancel_index_[id] = {s, p} overwrites an entry that is
\* already there for the same id.
add_resting_order(o) ==
    /\ book' = [book EXCEPT ![o.side] = PushBack(@, o)]
    /\ cancel_index' =
           [x \in DOMAIN cancel_index \cup {o.order_id} |->
               IF x = o.order_id THEN [side |-> o.side, price |-> o.price]
               ELSE cancel_index[x]]

\* The scan of a deque for this id finds an order.
HasOrder(dq, id) == \E i \in 1..Len(dq) : dq[i].order_id = id

\* The position the scan of a deque stops at: the first order with this id.
FirstWithId(dq, id) ==
    CHOOSE i \in 1..Len(dq) :
        /\ dq[i].order_id = id
        /\ \A j \in 1..(i - 1) : dq[j].order_id # id

\* The scan of the level at p, which erases at most one order.
EraseFirst(levels, p, id) ==
    IF p \in DOMAIN levels /\ HasOrder(levels[p], id)
    THEN StoreLevel(levels, p, Erase(levels[p], FirstWithId(levels[p], id)))
    ELSE levels

\* Mutant: the entry goes, the order stays in its level.
cancel_order_index_only(id) ==
    /\ cancel_index' = remove_from_index(id)
    /\ UNCHANGED book

\* OrderBook::cancel_order on an indexed id, which reports true; an id that is
\* not indexed returns false before anything changes.
cancel_order(id) ==
    LET s == cancel_index[id].side
        p == cancel_index[id].price
    IN  /\ book' = [book EXCEPT ![s] = EraseFirst(@, p, id)]
        /\ cancel_index' = remove_from_index(id)

\* The resting orders of side s, whatever their level.
RestingOn(s) == UNION {{book[s][p][i] : i \in 1..Len(book[s][p])} : p \in DOMAIN book[s]}

Resting == RestingOn("BUY") \cup RestingOn("SELL")

=============================================================================
