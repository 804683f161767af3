------------------------ MODULE LockFreeOrderQueue ------------------------
(***************************************************************************)
(* The single-producer single-consumer ring of                             *)
(* src/include/lockfree_order_queue.hpp, one step per access to shared     *)
(* memory.                                                                 *)
(*                                                                         *)
(* Acquire loads may return old values: a load of head_ (tail_, done_)     *)
(* yields any value the atomic has had since the last one this thread saw. *)
(* chead and ptail are what the thread saw last.  Seeing done_ makes every *)
(* store before shutdown() visible, that is the last head_.  Slots are     *)
(* plain memory: two threads at one slot at once would be a data race.     *)
(*                                                                         *)
(* head_ and tail_ are 64-bit counters of pushes and pops, taken as        *)
(* natural numbers: at 10^9 pushes per second they wrap after 584 years.   *)
(* spin_count_ is a statistic nothing reads and is left out.               *)
(***************************************************************************)
EXTENDS Integers, Sequences

CONSTANTS Orders,    \* the orders the producer may push
          Capacity,  \* capacity_
          MaxPush,   \* bound: pushes before the producer shuts down
          NoOrder    \* a slot that was never written

\* The constructor: the least power of two that is at least min_capacity.
RoundUp(min_capacity) ==
    CHOOSE c \in {2^k : k \in 0..min_capacity} :
        c >= min_capacity /\ (c = 1 \/ c \div 2 < min_capacity)

ASSUME RingAssumption ==
    /\ Capacity \in Nat \ {0} /\ Capacity = RoundUp(Capacity)
    /\ MaxPush \in Nat
    /\ NoOrder \notin Orders

VARIABLES buffer,     \* buffer_
          head,       \* head_: orders published
          tail,       \* tail_: orders consumed
          done,       \* done_
          ppc,        \* where the producer is in push
          porder,     \* its argument
          ptail,      \* the tail_ it saw last
          cpc,        \* where the consumer is in pop
          chead,      \* the head_ it saw last
          corder,     \* what it moved out of the slot
          delivered   \* history: what pop has returned, in order

producer == <<ppc, porder, ptail>>
consumer == <<cpc, chead, corder>>
vars == <<buffer, head, tail, done, producer, consumer, delivered>>

\* i & mask_, for a capacity that is a power of two.
Slot(i) == i % Capacity

Init ==
    /\ buffer = [i \in 0..(Capacity - 1) |-> NoOrder]
    /\ head = 0 /\ tail = 0 /\ done = FALSE
    /\ ppc = "idle" /\ porder = NoOrder /\ ptail = 0
    /\ cpc = "load" /\ chead = 0 /\ corder = NoOrder
    /\ delivered = << >>

-----------------------------------------------------------------------------
\* push(o): the relaxed load of head_ reads the producer's own last store.
PushCall(o) ==
    /\ ppc = "idle" /\ head < MaxPush
    /\ ppc' = "load" /\ porder' = o
    /\ UNCHANGED <<buffer, head, tail, done, ptail, consumer, delivered>>

\* Mutant: off by one, the ring takes capacity_ + 1 orders.
HasRoom_overfull(t) == head - t <= Capacity

HasRoom(t) == head - t < Capacity

\* Mutant: tail_ is not loaded again in the loop.
SeenTail_hoisted == {ptail}

\* What the producer's load of tail_ may return.
SeenTail == ptail..tail

\* The loop: leave it when a slot is available, spin while the ring is full.
PushLoad ==
    /\ ppc = "load"
    /\ ptail' \in SeenTail
    /\ ppc' = IF HasRoom(ptail') THEN "write" ELSE "load"
    /\ UNCHANGED <<buffer, head, tail, done, porder, consumer, delivered>>

PushWrite ==
    /\ ppc = "write"
    /\ buffer' = [buffer EXCEPT ![Slot(head)] = porder]
    /\ ppc' = "publish"
    /\ UNCHANGED <<head, tail, done, porder, ptail, consumer, delivered>>

PushPublish ==
    /\ ppc = "publish"
    /\ head' = head + 1
    /\ ppc' = "idle" /\ porder' = NoOrder
    /\ UNCHANGED <<buffer, tail, done, ptail, consumer, delivered>>

\* shutdown(), called once the producer has made its last push.
Shutdown ==
    /\ ppc = "idle"
    /\ done' = TRUE /\ ppc' = "stopped"
    /\ UNCHANGED <<buffer, head, tail, porder, ptail, consumer, delivered>>

-----------------------------------------------------------------------------
\* Mutant: off by one, the slot at head_ is taken.
HasOrder_ahead(h) == tail <= h

HasOrder(h) == tail < h

\* pop: the first load of head_ in an iteration.
PopLoad ==
    /\ cpc = "load"
    /\ chead' \in chead..head
    /\ cpc' = IF HasOrder(chead') THEN "take" ELSE "done"
    /\ UNCHANGED <<buffer, head, tail, done, producer, corder, delivered>>

\* Mutant: no second look at head_ once done_ is seen.
SeesDone_ends == cpc' = "ended" /\ UNCHANGED chead

\* Mutant: done_ is not looked at.
SeesDone_ignored == cpc' = "load" /\ UNCHANGED chead

\* done_ was seen, and with it the last head_.
SeesDone == cpc' = "recheck" /\ chead' = head

\* The load of done_, which may be late.
PopDone ==
    /\ cpc = "done"
    /\ (done /\ SeesDone) \/ (cpc' = "load" /\ UNCHANGED chead)
    /\ UNCHANGED <<buffer, head, tail, done, producer, corder, delivered>>

\* The load of head_ after done_ was seen; pop answers false if nothing is left.
PopRecheck ==
    /\ cpc = "recheck"
    /\ chead' \in chead..head
    /\ cpc' = IF HasOrder(chead') THEN "take" ELSE "ended"
    /\ UNCHANGED <<buffer, head, tail, done, producer, corder, delivered>>

PopTake ==
    /\ cpc = "take"
    /\ corder' = buffer[Slot(tail)]
    /\ cpc' = "release"
    /\ UNCHANGED <<buffer, head, tail, done, producer, chead, delivered>>

\* The store to tail_; pop returns true and is called again.
PopRelease ==
    /\ cpc = "release"
    /\ tail' = tail + 1
    /\ delivered' = Append(delivered, corder)
    /\ corder' = NoOrder /\ cpc' = "load"
    /\ UNCHANGED <<buffer, head, done, producer, chead>>

Produce == (\E o \in Orders : PushCall(o)) \/ PushLoad \/ PushWrite \/ PushPublish \/ Shutdown
Consume == PopLoad \/ PopDone \/ PopRecheck \/ PopTake \/ PopRelease

\* Both threads have ended.
Terminated == ppc = "stopped" /\ cpc = "ended" /\ UNCHANGED vars

Next == Produce \/ Consume \/ Terminated

Spec == Init /\ [][Next]_vars

\* Each thread runs, and a store becomes visible in finite time: a load that is
\* repeated does not return an old value forever.  Nothing says that the
\* producer pushes, or shuts the queue down.
FairSpec ==
    /\ Spec
    /\ WF_vars(PushLoad \/ PushWrite \/ PushPublish) /\ WF_vars(Consume)
    /\ SF_vars(PushLoad /\ ptail' = tail)
    /\ SF_vars(PopLoad /\ chead' = head)
    /\ SF_vars(PopDone /\ cpc' = "recheck")

-----------------------------------------------------------------------------
\* Types, what each thread last saw of the other's counter, and the ring's
\* bounds: it never holds more than capacity_ orders and the consumer never
\* overtakes the producer, so that the unsigned head - tail does not wrap.
TypeOK ==
    /\ buffer \in [0..(Capacity - 1) -> Orders \union {NoOrder}]
    /\ head \in Nat /\ tail \in Nat /\ done \in BOOLEAN
    /\ head - tail \in 0..Capacity
    /\ ppc \in {"idle", "load", "write", "publish", "stopped"}
    /\ porder \in Orders \union {NoOrder} /\ ptail \in 0..tail
    /\ cpc \in {"load", "done", "recheck", "take", "release", "ended"}
    /\ corder \in Orders \union {NoOrder} /\ chead \in 0..head
    /\ delivered \in Seq(Orders)

\* The producer never writes the slot that the consumer is moving an order out
\* of (lines 34, 44 and 52 touch buffer_ without a lock), whatever old values
\* of head_ and tail_ the two of them act on.
NoSlotRace ==
    ~(ppc = "write" /\ cpc = "take" /\ Slot(head) = Slot(tail))

\* The published slots, read from tail_ to head_, are a queue as IOrderQueue
\* promises it: nothing is lost, duplicated or reordered, a push takes effect
\* at the store to head_ and a pop at the store to tail_, and pop answers false
\* only when the ring is shut down and drained.
Contents == [i \in 1..(head - tail) |-> buffer[Slot(tail + i - 1)]]
Queue == INSTANCE OrderQueue WITH
            queue <- Contents, closed <- done, ended <- (cpc = "ended")
ImplementsQueue == Queue!Spec

\* push does not wait forever on a full ring: while the ring is open its
\* consumer keeps popping.
PushReturns == (ppc = "load") ~> (ppc = "idle")

\* Whatever was published is popped, also when shutdown() follows at once.
EverythingPopped == \A n \in 1..MaxPush : (head >= n) ~> (tail >= n)

\* After shutdown() pop answers false, so that the consumer thread can be joined.
ConsumerStops == done ~> (cpc = "ended")
=============================================================================
