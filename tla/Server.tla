------------------------------- MODULE Server -------------------------------
(***************************************************************************)
(* The single-process server of src/src/server_main.cpp: main runs the     *)
(* feed handler's loop, which pushes into the queue; a second thread pops  *)
(* and submits to the engine; Ctrl-C ends the loop, and main shuts the     *)
(* queue down and joins the thread.                                        *)
(*                                                                         *)
(* TcpFeedHandler decides what is pushed and in which order; here main     *)
(* carries the pushes out, one by one, before its loop goes on.  The queue *)
(* is any that keeps the promises of OrderQueue, which MutexOrderQueue and *)
(* LockFreeOrderQueue are shown to implement; that pop answers false in    *)
(* the end is not among them, so nothing is said of when join returns.     *)
(* delivered is what the engine has been given (MatchingEngine models what *)
(* it does with it).                                                       *)
(***************************************************************************)
EXTENDS TcpFeedHandler

VARIABLES queue, delivered, closed, ended,   \* OrderQueue's
          exited                             \* main has returned

Queue == INSTANCE OrderQueue WITH Orders <- [client : Clients, message : Nat]

queueVars == <<queue, delivered, closed, ended>>
vars == <<feedVars, queueVars, exited>>

Init == FeedInit /\ Queue!Init /\ exited = FALSE

-----------------------------------------------------------------------------
\* What clients and Ctrl-C do, at any time.
Environment ==
    /\ (\E c \in Clients : Connect(c) \/ Send(c) \/ Hangup(c)) \/ stop
    /\ UNCHANGED <<queueVars, exited>>

Pushes == Len(delivered) + Len(queue)

\* handler.run: its loop goes on when the last push has returned.
Run ==
    /\ Pushes = Len(pushed)
    /\ Setup \/ EventLoop
    /\ UNCHANGED <<queueVars, exited>>

\* queue_.push, for each order that process_buffer has taken out.
Push ==
    /\ Pushes < Len(pushed)
    /\ Queue!Push(pushed[Pushes + 1])
    /\ UNCHANGED <<feedVars, exited>>

\* The consumer thread: while (queue.pop(order)) engine.submit_order(order).
EngineThread ==
    /\ ~ended
    /\ Queue!Pop \/ Queue!End
    /\ UNCHANGED <<feedVars, exited>>

\* queue.shutdown(), once run has returned.
ShutdownQueue ==
    /\ pc = "returned" /\ Pushes = Len(pushed) /\ ~closed
    /\ Queue!Shutdown
    /\ UNCHANGED <<feedVars, exited>>

\* Mutant: the thread is not waited for.
Joined_detached == TRUE

Joined == ended

\* consumer.join(), and the destructor of the handler closes what is open.
Exit ==
    /\ closed /\ Joined /\ ~exited
    /\ exited' = TRUE
    /\ connections' = [f \in Fds |-> NoConn]
    /\ UNCHANGED <<loop, network, received, pushed, queueVars>>

Main == Run \/ Push \/ ShutdownQueue \/ Exit

Next == Environment \/ Main \/ EngineThread

Spec == Init /\ [][Next]_vars

\* Both threads run, and a pop returns while the queue has an order (the queues'
\* own liveness); clients and Ctrl-C are not forced.
FairSpec == Spec /\ WF_vars(Main) /\ WF_vars(EngineThread)

-----------------------------------------------------------------------------
\* Types of the feed handler's, the queue's and main's variables.
TypeOK ==
    /\ FeedTypeOK
    /\ queue \in Seq([client : Clients, message : Nat])
    /\ closed \in BOOLEAN /\ ended \in BOOLEAN /\ exited \in BOOLEAN

\* The engine is given what the feed handler has decoded, in that order and
\* without a gap, whatever the two threads and Ctrl-C do; and when main returns
\* it has been given all of it: "Signal the queue so the consumer thread drains
\* and exits" (server_main.cpp:57).
EngineGetsAll ==
    /\ delivered \o queue = SubSeq(pushed, 1, Pushes)
    /\ exited => delivered = pushed

\* Client c is connected and has sent a whole order the engine has not got.
Behind(c) ==
    /\ Len(From(c, delivered)) < arrived[c] \div Units
    /\ cstate[c] = "open" /\ running /\ ~OutOfDescriptors

\* The engine catches up with every client, unless the client hangs up or the
\* loop is stopped first, or can no longer leave accept: no order waits in a
\* socket, a buffer or the queue until another one pushes it along.
ArrivedReachesEngine == \A c \in Clients : Behind(c) ~> ~Behind(c)
=============================================================================
