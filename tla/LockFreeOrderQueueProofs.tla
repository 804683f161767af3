---------------------- MODULE LockFreeOrderQueueProofs ----------------------
(***************************************************************************)
(* The ring, for every capacity, any orders and any number of pushes: its  *)
(* two threads never meet at a slot, and it is a queue as OrderQueue       *)
(* specifies it.                                                           *)
(***************************************************************************)
EXTENDS LockFreeOrderQueue, TLAPS

-----------------------------------------------------------------------------
\* Division with remainder.
LEMMA DivMod ==
    ASSUME NEW n \in Nat \ {0}, NEW a \in Nat
    PROVE  a = n * (a \div n) + (a % n) /\ a \div n \in Nat /\ a % n \in 0..(n - 1)
OBVIOUS

\* Two positions less than capacity_ apart are in different slots.
LEMMA SlotsDiffer ==
    ASSUME NEW a \in Nat, NEW b \in Nat, a < b, b - a < Capacity
    PROVE  Slot(a) # Slot(b)
<1> DEFINE p == a \div Capacity
           q == b \div Capacity
<1>1. Capacity \in Nat \ {0}  BY RingAssumption
<1>2. /\ a = Capacity * p + Slot(a) /\ p \in Nat
      /\ b = Capacity * q + Slot(b) /\ q \in Nat
      /\ Slot(a) \in Nat /\ Slot(b) \in Nat
    BY <1>1, DivMod DEF Slot
<1> HIDE DEF p, q
<1> SUFFICES ASSUME Slot(a) = Slot(b) PROVE FALSE  OBVIOUS
<1>3. b - a = Capacity * (q - p)  BY <1>1, <1>2
<1>4. CASE q <= p
    <2>1. Capacity * (p - q) >= 0  BY <1>1, <1>2, <1>4
    <2>2. Capacity * (q - p) = 0 - Capacity * (p - q)  BY <1>1, <1>2
    <2> QED  BY <1>1, <1>2, <1>3, <2>1, <2>2
<1>5. CASE q >= p + 1
    <2>1. Capacity * (q - p) >= Capacity  BY <1>1, <1>2, <1>5
    <2> QED  BY <1>1, <1>3, <2>1
<1> QED  BY <1>2, <1>4, <1>5

\* A slot is an index of buffer_.
LEMMA SlotType == \A i \in Nat : Slot(i) \in 0..(Capacity - 1)
<1>1. Capacity \in Nat \ {0}  BY RingAssumption
<1> QED  BY <1>1, DivMod DEF Slot

-----------------------------------------------------------------------------
\* What each thread relies on.  Between its load of tail_ and its store to
\* head_ the producer has a slot of its own, because tail_ only grows; the
\* consumer has an order to take, because head_ only grows; the published slots
\* hold orders, and the two threads what they took from or are about to publish.
Inv ==
    /\ TypeOK
    /\ ppc \in {"load", "write", "publish"} => porder \in Orders
    /\ ppc \in {"write", "publish"} => head - ptail < Capacity
    /\ ppc = "publish" => buffer[Slot(head)] = porder
    /\ cpc \in {"take", "release"} => tail < chead
    /\ cpc = "release" => corder = buffer[Slot(tail)]
    /\ cpc = "recheck" => done /\ chead = head
    /\ cpc = "ended" => done /\ tail = head
    /\ done <=> ppc = "stopped"
    /\ \A i \in tail..(head - 1) : buffer[Slot(i)] \in Orders

\* The constructor's ring is empty and both threads are at the top.
LEMMA InvInit == Init => Inv
BY RingAssumption DEF Init, Inv, TypeOK

\* Every step of either thread keeps the invariant.
LEMMA InvStep == Inv /\ [Next]_vars => Inv'
<1> SUFFICES ASSUME Inv, [Next]_vars PROVE Inv'  OBVIOUS
<1> USE RingAssumption
<1>t. /\ Capacity \in Nat \ {0} /\ head \in Nat /\ tail \in Nat
      /\ ptail \in Nat /\ chead \in Nat /\ head - tail \in 0..Capacity
      /\ ptail <= tail /\ chead <= head
    BY DEF Inv, TypeOK
<1>1. ASSUME NEW o \in Orders, PushCall(o) PROVE Inv'
    BY <1>1, <1>t DEF PushCall, Inv, TypeOK, consumer, Slot
<1>2. CASE PushLoad
    <2>1. ptail' \in 0..tail  BY <1>2, <1>t DEF PushLoad, SeenTail
    <2>2. TypeOK'  BY <1>2, <1>t, <2>1 DEF PushLoad, Inv, TypeOK, consumer
    <2>3. ppc' = "write" => head - ptail' < Capacity  BY <1>2 DEF PushLoad, HasRoom
    <2> QED  BY <1>2, <2>2, <2>3 DEF PushLoad, Inv, consumer, Slot
<1>3. CASE PushWrite
    <2>1. \A i \in tail..(head - 1) : Slot(i) # Slot(head)
        BY <1>3, <1>t, SlotsDiffer DEF PushWrite, Inv
    <2>2. \A i \in tail..(head - 1) : buffer'[Slot(i)] = buffer[Slot(i)]
        BY <1>3, <1>t, <2>1, SlotType DEF PushWrite, Inv, TypeOK
    <2>3. buffer'[Slot(head)] = porder
        BY <1>3, <1>t, SlotType DEF PushWrite, Inv, TypeOK
    <2>4. cpc = "release" => tail \in tail..(head - 1)
        BY <1>t DEF Inv
    <2>5. TypeOK'
        BY <1>3, <1>t, SlotType DEF PushWrite, Inv, TypeOK, consumer
    <2> QED  BY <1>3, <1>t, <2>2, <2>3, <2>4, <2>5 DEF PushWrite, Inv, consumer, Slot
<1>4. CASE PushPublish
    <2>1. TypeOK'  BY <1>4, <1>t DEF PushPublish, Inv, TypeOK, consumer
    <2>2. \A i \in tail..(head' - 1) : i \in tail..(head - 1) \/ i = head
        BY <1>4, <1>t DEF PushPublish
    <2>3. \A i \in tail..(head' - 1) : buffer[Slot(i)] \in Orders
        BY <1>4, <2>2 DEF PushPublish, Inv
    <2> QED  BY <1>4, <1>t, <2>1, <2>3 DEF PushPublish, Inv, consumer, Slot
<1>5. CASE Shutdown
    BY <1>5, <1>t DEF Shutdown, Inv, TypeOK, consumer, Slot
<1>6. CASE PopLoad
    BY <1>6, <1>t DEF PopLoad, Inv, TypeOK, producer, HasOrder, Slot
<1>7. CASE PopDone
    BY <1>7, <1>t DEF PopDone, Inv, TypeOK, producer, SeesDone, Slot
<1>8. CASE PopRecheck
    BY <1>8, <1>t DEF PopRecheck, Inv, TypeOK, producer, HasOrder, Slot
<1>9. CASE PopTake
    <2>1. tail \in tail..(head - 1)  BY <1>9, <1>t DEF PopTake, Inv
    <2> QED  BY <1>9, <1>t, <2>1 DEF PopTake, Inv, TypeOK, producer, Slot
<1>10. CASE PopRelease
    <2>1. tail \in tail..(head - 1)  BY <1>10, <1>t DEF PopRelease, Inv
    <2>2. corder \in Orders  BY <1>10, <2>1 DEF PopRelease, Inv
    <2>3. TypeOK'  BY <1>10, <1>t, <2>1, <2>2 DEF PopRelease, Inv, TypeOK, producer
    <2>4. \A i \in tail'..(head - 1) : i \in tail..(head - 1)
        BY <1>10, <1>t DEF PopRelease
    <2> QED  BY <1>10, <2>3, <2>4 DEF PopRelease, Inv, producer, Slot
<1>11. CASE UNCHANGED vars
    BY <1>11 DEF vars, producer, consumer, Inv, TypeOK, Slot
<1>12. CASE Terminated
    BY <1>11, <1>12 DEF Terminated
<1> QED
    BY <1>1, <1>2, <1>3, <1>4, <1>5, <1>6, <1>7, <1>8, <1>9, <1>10, <1>11, <1>12
    DEF Next, Produce, Consume

\* The inductive invariant holds in every reachable state of the ring.
THEOREM RingInv == Spec => []Inv
BY InvInit, InvStep, PTL DEF Spec

\* Types and the bounds of the ring: it never holds more than capacity_ orders
\* and its consumer never overtakes its producer.
THEOREM RingTypeCorrect == Spec => []TypeOK
<1>1. Inv => TypeOK  BY DEF Inv
<1> QED  BY <1>1, RingInv, PTL

\* push and pop never touch one slot of buffer_ at once, whatever old values of
\* the other's counter each of them acts on.
THEOREM RingNoSlotRace == Spec => []NoSlotRace
<1>1. Inv => NoSlotRace
    <2> SUFFICES ASSUME Inv, ppc = "write", cpc = "take" PROVE Slot(head) # Slot(tail)
        BY DEF NoSlotRace
    <2>1. head \in Nat /\ tail \in Nat /\ tail < head /\ head - tail < Capacity
        BY RingAssumption DEF Inv, TypeOK
    <2> QED  BY <2>1, SlotsDiffer
<1> QED  BY <1>1, RingInv, PTL

-----------------------------------------------------------------------------
\* The published slots, oldest first, are a sequence of orders.
LEMMA ContentsType == Inv => Contents \in Seq(Orders) /\ Len(Contents) = head - tail
<1> SUFFICES ASSUME Inv PROVE Contents \in Seq(Orders) /\ Len(Contents) = head - tail
    OBVIOUS
<1>1. head \in Nat /\ tail \in Nat /\ head - tail \in Nat
    BY RingAssumption DEF Inv, TypeOK
<1>2. \A i \in 1..(head - tail) : buffer[Slot(tail + i - 1)] \in Orders
    BY <1>1 DEF Inv
<1>3. Contents \in [1..(head - tail) -> Orders]  BY <1>2 DEF Contents
<1> QED  BY <1>1, <1>3 DEF Contents

\* The store to head_ is a push of the abstract queue.
LEMMA PublishIsPush ==
    ASSUME Inv, Inv', PushPublish
    PROVE  Queue!Push(porder) /\ porder \in Orders
<1>1. /\ head \in Nat /\ tail \in Nat /\ head - tail \in Nat
      /\ head' = head + 1 /\ tail' = tail /\ buffer' = buffer
    BY RingAssumption DEF Inv, TypeOK, PushPublish
<1>2. buffer[Slot(head)] = porder /\ porder \in Orders  BY DEF Inv, PushPublish
<1>3. Contents' = Append(Contents, porder)
    <2> DEFINE A == Append(Contents, porder)
    <2>1. A \in Seq(Orders) /\ Len(A) = head - tail + 1
        BY <1>2, ContentsType
    <2>2. Contents' \in Seq(Orders) /\ Len(Contents') = head - tail + 1
        <3>1. (Contents \in Seq(Orders) /\ Len(Contents) = head - tail)'
            BY ContentsType, PTL
        <3> QED  BY <1>1, <3>1
    <2>3. ASSUME NEW i \in 1..(head - tail + 1) PROVE Contents'[i] = A[i]
        <3>1. Contents'[i] = buffer[Slot(tail + i - 1)]
            BY <1>1, <2>3 DEF Contents, Slot
        <3>2. CASE i = head - tail + 1
            <4>1. tail + i - 1 = head  BY <1>1, <3>2
            <4>2. A[i] = porder  BY <1>1, <3>2, ContentsType
            <4> QED  BY <1>2, <3>1, <4>1, <4>2
        <3>3. CASE i \in 1..(head - tail)
            <4>1. A[i] = Contents[i]  BY <3>3, <1>2, ContentsType
            <4> QED  BY <3>1, <3>3, <4>1 DEF Contents
        <3>4. i = head - tail + 1 \/ i \in 1..(head - tail)  BY <1>1, <2>3
        <3> QED  BY <3>2, <3>3, <3>4
    <2> QED  BY <2>1, <2>2, <2>3
<1>4. cpc' = cpc  BY DEF PushPublish, consumer
<1> QED  BY <1>2, <1>3, <1>4 DEF PushPublish, Queue!Push

\* The store to tail_ is a pop of the abstract queue.
LEMMA ReleaseIsPop ==
    ASSUME Inv, Inv', PopRelease
    PROVE  Queue!Pop
<1>1. /\ head \in Nat /\ tail \in Nat /\ head - tail \in Nat /\ tail < head
      /\ head' = head /\ tail' = tail + 1 /\ buffer' = buffer
    BY RingAssumption DEF Inv, TypeOK, PopRelease
<1>2. Contents # << >> /\ Head(Contents) = corder
    <2>1. Contents \in Seq(Orders) /\ Len(Contents) = head - tail  BY ContentsType
    <2>2. Contents[1] = buffer[Slot(tail)]  BY <1>1 DEF Contents
    <2> QED  BY <1>1, <2>1, <2>2 DEF Inv, PopRelease
<1>3. Contents' = Tail(Contents)
    <2>1. Contents \in Seq(Orders) /\ Len(Contents) = head - tail  BY ContentsType
    <2>2. Tail(Contents) \in Seq(Orders) /\ Len(Tail(Contents)) = head - tail - 1
        BY <1>1, <1>2, <2>1
    <2>3. Contents' \in Seq(Orders) /\ Len(Contents') = head - tail - 1
        <3>1. (Contents \in Seq(Orders) /\ Len(Contents) = head - tail)'
            BY ContentsType, PTL
        <3> QED  BY <1>1, <3>1
    <2>4. ASSUME NEW i \in 1..(head - tail - 1) PROVE Contents'[i] = Tail(Contents)[i]
        <3>1. Contents'[i] = buffer[Slot(tail + 1 + i - 1)]
            BY <1>1, <2>4 DEF Contents, Slot
        <3>2. Tail(Contents)[i] = Contents[i + 1]  BY <1>1, <1>2, <2>1, <2>4
        <3>3. Contents[i + 1] = buffer[Slot(tail + (i + 1) - 1)]
            BY <1>1, <2>4 DEF Contents
        <3>4. tail + 1 + i - 1 = tail + (i + 1) - 1  BY <1>1, <2>4
        <3> QED  BY <3>1, <3>2, <3>3, <3>4
    <2> QED  BY <2>2, <2>3, <2>4
<1> QED  BY <1>2, <1>3 DEF PopRelease, Queue!Pop

\* A step that leaves the slots and both counters alone leaves the queue alone.
LEMMA ContentsKept ==
    ASSUME UNCHANGED <<buffer, head, tail>>
    PROVE  UNCHANGED Contents
BY DEF Contents, Slot

\* A write to the slot at head_ is outside the queue until head_ is stored.
LEMMA WriteIsHidden ==
    ASSUME Inv, PushWrite
    PROVE  UNCHANGED Contents
<1>1. /\ head \in Nat /\ tail \in Nat /\ head - tail \in Nat
      /\ Capacity \in Nat /\ head - tail < Capacity /\ head' = head /\ tail' = tail
    BY RingAssumption DEF Inv, TypeOK, PushWrite
<1>2. ASSUME NEW i \in 1..(head - tail)
      PROVE  buffer'[Slot(tail + i - 1)] = buffer[Slot(tail + i - 1)]
    <2>1. tail + i - 1 \in Nat /\ tail + i - 1 < head /\ head - (tail + i - 1) < Capacity
        BY <1>1, <1>2
    <2>2. Slot(tail + i - 1) # Slot(head)  BY <1>1, <2>1, SlotsDiffer
    <2> QED  BY <2>1, <2>2, SlotType DEF PushWrite, Inv, TypeOK
<1> QED  BY <1>1, <1>2 DEF Contents, Slot

\* The ring implements IOrderQueue: orders come out once each and in order, and
\* pop answers false only when the ring was shut down and is drained.
THEOREM RingImplementsQueue == Spec => ImplementsQueue
<1>1. Init => Queue!Init
    BY DEF Init, Queue!Init, Contents
<1>2. Inv /\ Inv' /\ [Next]_vars => [Queue!Next]_(Queue!queueVars)
    <2> SUFFICES ASSUME Inv, Inv', [Next]_vars
                 PROVE  Queue!Next \/ UNCHANGED Queue!queueVars
        OBVIOUS
    <2>1. CASE \E o \in Orders : PushCall(o)
        BY <2>1, ContentsKept DEF PushCall, consumer, Queue!queueVars
    <2>2. CASE PushLoad
        BY <2>2, ContentsKept DEF PushLoad, consumer, Queue!queueVars
    <2>3. CASE PushWrite
        BY <2>3, WriteIsHidden DEF PushWrite, consumer, Queue!queueVars
    <2>4. CASE PushPublish
        BY <2>4, PublishIsPush DEF Queue!Next
    <2>5. CASE Shutdown
        BY <2>5, ContentsKept DEF Shutdown, consumer, Queue!Next, Queue!Shutdown
    <2>6. CASE PopLoad
        BY <2>6, ContentsKept DEF PopLoad, Queue!queueVars
    <2>7. CASE PopDone
        BY <2>7, ContentsKept DEF PopDone, SeesDone, Queue!queueVars
    <2>8. CASE PopRecheck
        <3>1. UNCHANGED <<Contents, delivered, done>>  BY <2>8, ContentsKept DEF PopRecheck
        <3>2. CASE cpc' = "take"
            BY <2>8, <3>1, <3>2 DEF PopRecheck, Queue!queueVars
        <3>3. CASE cpc' = "ended"
            <4>1. done /\ tail = head
                BY <2>8, <3>1, <3>3 DEF PopRecheck, Inv
            <4>2. Contents = << >>  BY <2>8, <4>1, RingAssumption DEF PopRecheck, Contents, Inv, TypeOK
            <4> QED  BY <3>1, <3>3, <4>1, <4>2 DEF Queue!Next, Queue!End
        <3> QED  BY <2>8, <3>2, <3>3 DEF PopRecheck
    <2>9. CASE PopTake
        BY <2>9, ContentsKept DEF PopTake, Queue!queueVars
    <2>10. CASE PopRelease
        BY <2>10, ReleaseIsPop DEF Queue!Next
    <2>11. CASE UNCHANGED vars
        BY <2>11, ContentsKept DEF vars, consumer, Queue!queueVars
    <2>12. CASE Terminated
        BY <2>11, <2>12 DEF Terminated
    <2> QED
        BY <2>1, <2>2, <2>3, <2>4, <2>5, <2>6, <2>7, <2>8, <2>9, <2>10, <2>11, <2>12
        DEF Next, Produce, Consume
<1> QED  BY <1>1, <1>2, RingInv, PTL DEF Spec, ImplementsQueue, Queue!Spec
=============================================================================
