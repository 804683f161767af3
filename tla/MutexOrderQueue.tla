-------------------------- MODULE MutexOrderQueue --------------------------
(***************************************************************************)
(* The mutex and condition-variable queue of                               *)
(* src/include/mutex_order_queue.hpp, with any number of threads that push *)
(* and of threads that pop until pop answers false.  One more thread calls *)
(* shutdown() when the last push has returned (server_main.cpp:53-59).     *)
(*                                                                         *)
(* A critical section that no other step can observe halfway is one step:  *)
(* push's is.  pop's is not, for shutdown() does not take the mutex.       *)
(* std::condition_variable is external: wait releases the mutex and goes   *)
(* to sleep in one step, may return without a notification, and takes the  *)
(* mutex again before the predicate is evaluated once more.                *)
(***************************************************************************)
EXTENDS Naturals, Sequences, FiniteSets

CONSTANTS Orders, Producers, Consumers,
          MaxPush,    \* bound: pushes over all producers
          NoThread    \* the mutex is free

ASSUME MutexAssumption ==
    MaxPush \in Nat /\ NoThread \notin Consumers /\ Consumers # {}

VARIABLES mu,         \* mu_: the consumer inside pop's critical section
          queue,      \* queue_
          done,       \* done_
          ppc, cpc,   \* where each producer and each consumer is
          spc,        \* where the thread that calls shutdown() is
          delivered   \* history: what the pops have returned, in order

vars == <<mu, queue, done, ppc, cpc, spc, delivered>>

Asleep == {c \in Consumers : cpc[c] = "asleep"}

\* How many pushes there have been.
Pushes == Len(queue) + Len(delivered)

Init ==
    /\ mu = NoThread /\ queue = << >> /\ done = FALSE
    /\ ppc = [p \in Producers |-> "idle"]
    /\ cpc = [c \in Consumers |-> "lock"]
    /\ spc = "running" /\ delivered = << >>

-----------------------------------------------------------------------------
\* push: the block under the lock_guard.
Push(p, o) ==
    /\ ppc[p] = "idle" /\ spc = "running" /\ Pushes < MaxPush
    /\ mu = NoThread
    /\ queue' = Append(queue, o)
    /\ ppc' = [ppc EXCEPT ![p] = "notify"]
    /\ UNCHANGED <<mu, done, cpc, spc, delivered>>

\* Mutant: nobody is woken.
notify_one_lost == UNCHANGED cpc

notify_one ==
    \/ \E c \in Asleep : cpc' = [cpc EXCEPT ![c] = "lock"]
    \/ Asleep = {} /\ UNCHANGED cpc

\* push: notify_one, after the mutex was released.
NotifyOne(p) ==
    /\ ppc[p] = "notify"
    /\ ppc' = [ppc EXCEPT ![p] = "idle"]
    /\ notify_one
    /\ UNCHANGED <<mu, queue, done, spc, delivered>>

\* pop: the unique_lock, and the one cv_.wait takes when it is woken.
PopLock(c) ==
    /\ cpc[c] = "lock" /\ mu = NoThread
    /\ mu' = c
    /\ cpc' = [cpc EXCEPT ![c] = "test"]
    /\ UNCHANGED <<queue, done, ppc, spc, delivered>>

\* Mutant: wait without a predicate.
Predicate_none == TRUE

Predicate == queue # << >> \/ done

PopTest(c) ==
    /\ cpc[c] = "test"
    /\ cpc' = [cpc EXCEPT ![c] = IF Predicate THEN "take" ELSE "block"]
    /\ UNCHANGED <<mu, queue, done, ppc, spc, delivered>>

\* Mutant: the mutex is kept.
unlock_forgotten == UNCHANGED mu

unlock == mu' = NoThread

\* pop: wait goes to sleep.
PopBlock(c) ==
    /\ cpc[c] = "block"
    /\ unlock
    /\ cpc' = [cpc EXCEPT ![c] = "asleep"]
    /\ UNCHANGED <<queue, done, ppc, spc, delivered>>

\* pop after the wait: false when the queue is empty, else the front order.
PopReturn(c) ==
    /\ cpc[c] = "take"
    /\ unlock
    /\ \/ /\ queue = << >>
          /\ cpc' = [cpc EXCEPT ![c] = "ended"]
          /\ UNCHANGED <<queue, delivered>>
       \/ /\ queue # << >>
          /\ delivered' = Append(delivered, Head(queue))
          /\ queue' = Tail(queue)
          /\ cpc' = [cpc EXCEPT ![c] = "lock"]
    /\ UNCHANGED <<done, ppc, spc>>

SpuriousWakeup(c) ==
    /\ c \in Asleep
    /\ cpc' = [cpc EXCEPT ![c] = "lock"]
    /\ UNCHANGED <<mu, queue, done, ppc, spc, delivered>>

\* shutdown: the store, made without the mutex.
ShutdownStore ==
    /\ spc = "running" /\ \A p \in Producers : ppc[p] = "idle"
    /\ done' = TRUE /\ spc' = "notify"
    /\ UNCHANGED <<mu, queue, ppc, cpc, delivered>>

\* shutdown: notify_all.
ShutdownNotify ==
    /\ spc = "notify"
    /\ cpc' = [c \in Consumers |-> IF c \in Asleep THEN "lock" ELSE cpc[c]]
    /\ spc' = "stopped"
    /\ UNCHANGED <<mu, queue, done, ppc, delivered>>

Produce(p) == (\E o \in Orders : Push(p, o)) \/ NotifyOne(p)
Consume(c) == PopLock(c) \/ PopTest(c) \/ PopBlock(c) \/ PopReturn(c)

\* Nothing is left to do once shutdown() has returned and every consumer has
\* ended, or sleeps in a pop no notification will reach.
Quiescent ==
    /\ spc = "stopped" /\ \A c \in Consumers : cpc[c] \in {"ended", "asleep"}
    /\ UNCHANGED vars

Next ==
    \/ \E p \in Producers : Produce(p)
    \/ \E c \in Consumers : Consume(c) \/ SpuriousWakeup(c)
    \/ ShutdownStore \/ ShutdownNotify \/ Quiescent

Spec == Init /\ [][Next]_vars

\* A thread that can run does, and a free mutex is taken by some thread that
\* wants it.  Nobody has to push or to shut down, and nothing has to wake a
\* sleeping thread but a notification.
FairSpec ==
    /\ Spec
    /\ \A p \in Producers : WF_vars(NotifyOne(p))
    /\ WF_vars(\E c \in Consumers : Consume(c))
    /\ WF_vars(ShutdownNotify)

-----------------------------------------------------------------------------
\* Types, and the mutex: the consumers inside pop's critical section are
\* exactly the one mu names.
TypeOK ==
    /\ mu \in Consumers \union {NoThread}
    /\ queue \in Seq(Orders) /\ delivered \in Seq(Orders)
    /\ done = (spc # "running")
    /\ ppc \in [Producers -> {"idle", "notify"}]
    /\ cpc \in [Consumers -> {"lock", "test", "block", "asleep", "take", "ended"}]
    /\ spc \in {"running", "notify", "stopped"}
    /\ {c \in Consumers : cpc[c] \in {"test", "block", "take"}} = {mu} \ {NoThread}

\* No push is missed: when orders wait and every consumer sleeps, some push has
\* still to call notify_one (which it does after the mutex was released).
NoLostPush ==
    (queue # << >> /\ Asleep = Consumers) => \E p \in Producers : ppc[p] = "notify"

\* The queue is one as IOrderQueue promises it: once each, in order, and pop
\* answers "false only after shutdown + drain".
Queue == INSTANCE OrderQueue WITH
            closed <- done, ended <- (\E c \in Consumers : cpc[c] = "ended")
ImplementsQueue == Queue!Spec

\* Every order that was pushed is popped by some consumer in the end.
EverythingPopped == \A n \in 1..MaxPush : (Pushes >= n) ~> (Len(delivered) >= n)

\* shutdown() "signal[s the] consumer to stop after draining"
\* (order_queue.hpp:11): every consumer's pop answers false in the end.
ConsumersStop == done ~> (\A c \in Consumers : cpc[c] = "ended")
=============================================================================
