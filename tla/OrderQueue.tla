---------------------------- MODULE OrderQueue ----------------------------
(***************************************************************************)
(* What IOrderQueue (src/include/order_queue.hpp) promises its users: the  *)
(* orders come out once each, in the order in which they went in, and pop  *)
(* answers false only when the queue was shut down and is drained.         *)
(***************************************************************************)
EXTENDS Naturals, Sequences

CONSTANT Orders

VARIABLES queue,      \* pushed and not yet popped, oldest first
          delivered,  \* every order pop has returned, in that order
          closed,     \* shutdown was called
          ended       \* pop has answered false

queueVars == <<queue, delivered, closed, ended>>

Init == queue = << >> /\ delivered = << >> /\ closed = FALSE /\ ended = FALSE

Push(o) ==
    /\ queue' = Append(queue, o)
    /\ UNCHANGED <<delivered, closed, ended>>

Pop ==
    /\ queue # << >>
    /\ delivered' = Append(delivered, Head(queue))
    /\ queue' = Tail(queue)
    /\ UNCHANGED <<closed, ended>>

Shutdown ==
    /\ closed' = TRUE
    /\ UNCHANGED <<queue, delivered, ended>>

End ==
    /\ closed /\ queue = << >>
    /\ ended' = TRUE
    /\ UNCHANGED <<queue, delivered, closed>>

Next == (\E o \in Orders : Push(o)) \/ Pop \/ Shutdown \/ End

Spec == Init /\ [][Next]_queueVars

=============================================================================
