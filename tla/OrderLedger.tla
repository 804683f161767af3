---------------------------- MODULE OrderLedger ----------------------------
(***************************************************************************)
(* The matching engine seen by callers that never reuse an order id, with  *)
(* an account per id of what was submitted, executed and cancelled.  The   *)
(* account is a history variable: it adds up what submit_order and         *)
(* cancel_order return and never constrains the engine.                    *)
(***************************************************************************)
EXTENDS MatchingEngine

VARIABLE ledger  \* per order id: its type, quantity, executed quantity, status
                 \* (UNUSED, REJECTED, ACCEPTED or CANCELLED)

ledgerVars == <<vars, ledger>>

LedgerInit ==
    /\ Init
    /\ ledger = [id \in OrderIds |-> [type |-> "LIMIT", quantity |-> 0,
                                      executed |-> 0, status |-> "UNUSED"]]

\* A submission under a fresh id opens its account.
LedgerSubmit ==
    \E id \in OrderIds, s \in Side, type \in OrderType, price \in Prices,
       qty \in Quantities :
        /\ ledger[id].status = "UNUSED"
        /\ type = "MARKET" => price = CHOOSE p \in Prices : TRUE
        /\ submit_order(id, s, type, price, qty)
        /\ ledger' = [ledger EXCEPT ![id] =
              [type |-> type, quantity |-> qty, executed |-> 0,
               status |-> IF incoming' = NoOrder THEN "REJECTED" ELSE "ACCEPTED"]]

\* A trade is booked to the two ids it names.
LedgerMatch ==
    /\ Match
    /\ LET t == trades'[Len(trades')]
       IN  ledger' = [ledger EXCEPT ![t.buy_order_id].executed = @ + t.quantity,
                                    ![t.sell_order_id].executed = @ + t.quantity]

LedgerFinish == Finish /\ UNCHANGED ledger

LedgerCancel(id) ==
    /\ Cancel(id)
    /\ ledger' = IF result' = "TRUE"
                 THEN [ledger EXCEPT ![id].status = "CANCELLED"] ELSE ledger

LedgerNext == \/ LedgerSubmit
              \/ LedgerMatch
              \/ LedgerFinish
              \/ \E id \in OrderIds : LedgerCancel(id)

LedgerSpec == LedgerInit /\ [][LedgerNext]_ledgerVars

-----------------------------------------------------------------------------
\* What is left of an order that rests or is being matched.
Open(id) == {o \in Resting \cup ({incoming} \ {NoOrder}) : o.order_id = id}

\* Conservation of quantity: an accepted LIMIT order is, at every moment, split
\* into what trades have reported for it and what is left of it in the book or
\* in match_against; nothing is lost, executed twice or resurrected.  Orders
\* that are gone never executed more than was submitted.
Conservation ==
    \A id \in OrderIds :
        LET a == ledger[id]
        IN  /\ a.executed <= a.quantity
            /\ a.status # "ACCEPTED" => Open(id) = {}
            /\ a.status = "ACCEPTED" =>
                  \/ \E o \in Open(id) : /\ Open(id) = {o}
                                         /\ a.executed + o.remaining_quantity = a.quantity
                  \/ /\ Open(id) = {}
                     /\ a.type = "LIMIT" => a.executed = a.quantity

\* With distinct ids the cancel index mirrors the book: cancel_order(id)
\* answers true exactly when the order rests, and looks where it rests.
IndexMirrorsBook ==
    /\ \A o \in Resting :
          /\ o.order_id \in DOMAIN cancel_index
          /\ cancel_index[o.order_id] = [side |-> o.side, price |-> o.price]
    /\ \A id \in DOMAIN cancel_index : \E o \in Resting : o.order_id = id

\* A cancelled order "never matches later" (docs/initial.md), nor does one the
\* collar rejected: its account is closed.
ClosedStaysClosed ==
    [][\A id \in OrderIds : ledger[id].status \in {"CANCELLED", "REJECTED"} =>
          ledger'[id] = ledger[id]]_ledgerVars

=============================================================================
