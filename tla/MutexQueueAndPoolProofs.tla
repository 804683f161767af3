---------------------- MODULE MutexQueueAndPoolProofs ----------------------
(***************************************************************************)
(* The two small containers of orders.  The mutex queue, for any threads:  *)
(* mutual exclusion, no push is missed, and it is a queue as OrderQueue    *)
(* specifies it.  The order pool, for every capacity: its free list is     *)
(* exact.  They share no state.                                            *)
(***************************************************************************)
EXTENDS MutexOrderQueue, OrderPool, FiniteSetTheorems, TLAPS

-----------------------------------------------------------------------------
(* The mutex queue.                                                        *)

\* A consumer that is about to sleep saw an empty queue and still holds the
\* mutex, so nothing was pushed since; one past its wait has something to return
\* or has seen done_.
Inv ==
    /\ TypeOK
    /\ NoLostPush
    /\ \A c \in Consumers : cpc[c] = "block" => queue = << >>
    /\ \A c \in Consumers : cpc[c] = "take" => queue # << >> \/ done

\* Nobody holds the mutex and the deque is empty.
LEMMA InvInit == Init => Inv
<1> SUFFICES ASSUME Init PROVE Inv  OBVIOUS
<1>1. {c \in Consumers : cpc[c] \in {"test", "block", "take"}} = {} /\ {mu} \ {NoThread} = {}
    BY DEF Init
<1>2. done = (spc # "running")  BY Zenon DEF Init
<1>3. TypeOK  BY <1>1, <1>2 DEF Init, TypeOK
<1> QED  BY <1>3 DEF Init, Inv, NoLostPush

\* Only the consumer that mu names is in pop's critical section.
LEMMA OneInside ==
    ASSUME Inv, NEW c \in Consumers, cpc[c] \in {"test", "block", "take"}
    PROVE  mu = c /\ \A d \in Consumers : d # c => cpc[d] \notin {"test", "block", "take"}
BY DEF Inv, TypeOK

\* Every step keeps the types and the mutex.
LEMMA TypeStep == Inv /\ [Next]_vars => TypeOK'
<1> SUFFICES ASSUME Inv, [Next]_vars PROVE TypeOK'  OBVIOUS
<1> USE MutexAssumption DEF Inv
<1>1. ASSUME NEW p \in Producers, NEW o \in Orders, Push(p, o) PROVE TypeOK'
    BY <1>1 DEF Push, TypeOK
<1>2. ASSUME NEW p \in Producers, NotifyOne(p) PROVE TypeOK'
    BY <1>2 DEF NotifyOne, notify_one, Asleep, TypeOK
<1>3. ASSUME NEW c \in Consumers, PopLock(c) PROVE TypeOK'
    BY <1>3 DEF PopLock, TypeOK
<1>4. ASSUME NEW c \in Consumers, PopTest(c) PROVE TypeOK'
    BY <1>4 DEF PopTest, TypeOK
<1>5. ASSUME NEW c \in Consumers, PopBlock(c) PROVE TypeOK'
    BY <1>5 DEF PopBlock, unlock, TypeOK
<1>6. ASSUME NEW c \in Consumers, PopReturn(c) PROVE TypeOK'
    <2>0. queue \in Seq(Orders) /\ delivered \in Seq(Orders)  BY DEF TypeOK
    <2>1. queue' \in Seq(Orders) /\ delivered' \in Seq(Orders)
        <3>1. CASE queue = << >>  BY <1>6, <2>0, <3>1 DEF PopReturn
        <3>2. CASE queue # << >>
            <4>1. Head(queue) \in Orders /\ Tail(queue) \in Seq(Orders)  BY <2>0, <3>2
            <4>2. Append(delivered, Head(queue)) \in Seq(Orders)  BY <2>0, <4>1
            <4> QED  BY <1>6, <3>2, <4>1, <4>2 DEF PopReturn
        <3> QED  BY <3>1, <3>2
    <2>2. \E s \in {"lock", "ended"} : cpc' = [cpc EXCEPT ![c] = s]
        BY <1>6 DEF PopReturn
    <2>3. {d \in Consumers : cpc'[d] \in {"test", "block", "take"}} = {mu'} \ {NoThread}
        BY <1>6, <2>2, OneInside DEF PopReturn, unlock, TypeOK
    <2> QED  BY <1>6, <2>1, <2>2, <2>3 DEF PopReturn, unlock, TypeOK
<1>7. ASSUME NEW c \in Consumers, SpuriousWakeup(c) PROVE TypeOK'
    BY <1>7 DEF SpuriousWakeup, Asleep, TypeOK
<1>8. CASE ShutdownStore
    BY <1>8 DEF ShutdownStore, TypeOK
<1>9. CASE ShutdownNotify
    BY <1>9 DEF ShutdownNotify, Asleep, TypeOK
<1>10. CASE UNCHANGED vars
    BY <1>10 DEF vars, TypeOK
<1> QED
    BY <1>1, <1>2, <1>3, <1>4, <1>5, <1>6, <1>7, <1>8, <1>9, <1>10
    DEF Next, Produce, Consume, Quiescent

\* Every step keeps the invariant.
LEMMA InvStep == Inv /\ [Next]_vars => Inv'
<1> SUFFICES ASSUME Inv, [Next]_vars PROVE Inv'  OBVIOUS
<1>t. TypeOK /\ TypeOK'  BY TypeStep DEF Inv
<1> USE MutexAssumption DEF Asleep
<1>1. ASSUME NEW p \in Producers, NEW o \in Orders, Push(p, o) PROVE Inv'
    <2>1. \A c \in Consumers : cpc[c] \notin {"block", "take"}
        BY <1>1, <1>t, OneInside DEF Push
    <2>2. ppc'[p] = "notify"  BY <1>1, <1>t DEF Push, TypeOK
    <2> QED  BY <1>1, <1>t, <2>1, <2>2 DEF Push, Inv, NoLostPush
<1>2. ASSUME NEW p \in Producers, NotifyOne(p) PROVE Inv'
    <2>1. NoLostPush'
        BY <1>2, <1>t DEF NotifyOne, notify_one, NoLostPush, TypeOK
    <2>2. \A c \in Consumers : cpc'[c] \in {"block", "take"} => cpc'[c] = cpc[c]
        BY <1>2, <1>t DEF NotifyOne, notify_one, TypeOK
    <2> QED  BY <1>2, <1>t, <2>1, <2>2 DEF NotifyOne, Inv
<1>3. ASSUME NEW c \in Consumers, PopLock(c) PROVE Inv'
    BY <1>3, <1>t DEF PopLock, Inv, NoLostPush, TypeOK
<1>4. ASSUME NEW c \in Consumers, PopTest(c) PROVE Inv'
    BY <1>4, <1>t DEF PopTest, Predicate, Inv, NoLostPush, TypeOK
<1>5. ASSUME NEW c \in Consumers, PopBlock(c) PROVE Inv'
    BY <1>5, <1>t DEF PopBlock, Inv, NoLostPush, TypeOK
<1>6. ASSUME NEW c \in Consumers, PopReturn(c) PROVE Inv'
    <2>1. \A d \in Consumers : cpc'[d] \notin {"block", "take"}
        BY <1>6, <1>t, OneInside DEF PopReturn, TypeOK
    <2>2. cpc'[c] # "asleep"  BY <1>6, <1>t DEF PopReturn, TypeOK
    <2> QED  BY <1>t, <2>1, <2>2 DEF Inv, NoLostPush
<1>7. ASSUME NEW c \in Consumers, SpuriousWakeup(c) PROVE Inv'
    BY <1>7, <1>t DEF SpuriousWakeup, Inv, NoLostPush, TypeOK
<1>8. CASE ShutdownStore
    BY <1>8, <1>t DEF ShutdownStore, Inv, NoLostPush
<1>9. CASE ShutdownNotify
    BY <1>9, <1>t DEF ShutdownNotify, Inv, NoLostPush
<1>10. CASE UNCHANGED vars
    BY <1>10, <1>t DEF vars, Inv, NoLostPush
<1> QED
    BY <1>1, <1>2, <1>3, <1>4, <1>5, <1>6, <1>7, <1>8, <1>9, <1>10
    DEF Next, Produce, Consume, Quiescent

\* The inductive invariant holds in every reachable state of the mutex queue.
THEOREM MutexInv == Spec => []Inv
BY InvInit, InvStep, PTL DEF Spec

\* Types, and mutual exclusion in pop's critical section.
THEOREM MutexTypeCorrect == Spec => []TypeOK
<1>1. Inv => TypeOK  BY DEF Inv
<1> QED  BY <1>1, MutexInv, PTL

\* No push is missed although notify_one is called after the mutex was released:
\* orders never wait while all consumers sleep and no notification is on its way.
THEOREM MutexNoLostPush == Spec => []NoLostPush
<1>1. Inv => NoLostPush  BY DEF Inv
<1> QED  BY <1>1, MutexInv, PTL

-----------------------------------------------------------------------------
\* The mutex queue implements IOrderQueue: orders come out once each and in
\* order, and a pop answers false only after shutdown() and when it is drained.
THEOREM MutexImplementsQueue == Spec => ImplementsQueue
<1>1. Init => Queue!Init
    BY DEF Init, Queue!Init
<1>2. Inv /\ [Next]_vars => [Queue!Next]_(Queue!queueVars)
    <2> SUFFICES ASSUME Inv, [Next]_vars
                 PROVE  Queue!Next \/ UNCHANGED Queue!queueVars
        OBVIOUS
    <2> DEFINE someEnded == \E c \in Consumers : cpc[c] = "ended"
    <2>t. cpc \in [Consumers -> {"lock", "test", "block", "asleep", "take", "ended"}]
        BY DEF Inv, TypeOK
    <2>1. ASSUME NEW p \in Producers, NEW o \in Orders, Push(p, o) PROVE Queue!Next
        BY <2>1 DEF Push, Queue!Next, Queue!Push
    <2>2. ASSUME NEW c \in Consumers, PopReturn(c) PROVE Queue!Next
        <3>1. CASE queue = << >>
            <4>1. done  BY <2>2, <3>1 DEF Inv, PopReturn
            <4>2. cpc'[c] = "ended"  BY <2>2, <2>t, <3>1 DEF PopReturn
            <4> QED  BY <2>2, <3>1, <4>1, <4>2 DEF PopReturn, Queue!Next, Queue!End
        <3>2. CASE queue # << >>
            <4>1. cpc' = [cpc EXCEPT ![c] = "lock"] /\ cpc[c] = "take"
                BY <2>2, <3>2 DEF PopReturn
            <4>2. \A d \in Consumers : cpc'[d] = "ended" <=> cpc[d] = "ended"
                BY <2>t, <4>1
            <4>3. someEnded' <=> someEnded  BY <4>2
            <4> QED  BY <2>2, <3>2, <4>3 DEF PopReturn, Queue!Next, Queue!Pop
        <3> QED  BY <3>1, <3>2
    <2>3. CASE ShutdownStore
        BY <2>3 DEF ShutdownStore, Queue!Next, Queue!Shutdown
    <2>4. CASE \/ \E p \in Producers : NotifyOne(p)
               \/ \E c \in Consumers : PopLock(c) \/ PopTest(c) \/ PopBlock(c)
                                       \/ SpuriousWakeup(c)
               \/ ShutdownNotify \/ UNCHANGED vars
        <3>1. \A d \in Consumers : cpc'[d] = "ended" <=> cpc[d] = "ended"
            BY <2>4, <2>t DEF NotifyOne, notify_one, Asleep, PopLock, PopTest, PopBlock,
                SpuriousWakeup, ShutdownNotify, vars
        <3>2. someEnded' <=> someEnded  BY <3>1
        <3>3. UNCHANGED <<queue, delivered, done>>
            BY <2>4 DEF NotifyOne, PopLock, PopTest, PopBlock, SpuriousWakeup,
                ShutdownNotify, vars
        <3> QED  BY <3>2, <3>3 DEF Queue!queueVars
    <2> QED
        BY <2>1, <2>2, <2>3, <2>4 DEF Next, Produce, Consume, Quiescent
<1> QED  BY <1>1, <1>2, MutexInv, PTL DEF Spec, ImplementsQueue, Queue!Spec

-----------------------------------------------------------------------------
(* The order pool.                                                         *)

\* The sets of slots that callers hold are finite, and so is their number.
LEMMA HeldFinite ==
    ASSUME NEW n \in Nat, NEW S, S \subseteq 1..n
    PROVE  IsFiniteSet(S) /\ Cardinality(S) \in Nat
<1>1. IsFiniteSet(1..n)  BY FS_Interval
<1>2. IsFiniteSet(S)  BY <1>1, FS_Subset
<1> QED  BY <1>2, FS_CardinalityType

\* The free list stays exact: constructor, acquire and release keep it.
THEOREM PoolExact ==
    ASSUME capacity \in Nat
    PROVE  PoolSpec => []FreeListExact
<1>1. PoolInit => FreeListExact
    <2> SUFFICES ASSUME PoolInit PROVE FreeListExact  OBVIOUS
    <2>1. Cardinality(held) = 0  BY FS_EmptySet DEF PoolInit
    <2> QED  BY <2>1 DEF PoolInit, FreeListExact, Slots
<1>2. FreeListExact /\ [PoolNext]_poolVars => FreeListExact'
    <2> SUFFICES ASSUME FreeListExact, [PoolNext]_poolVars PROVE FreeListExact'  OBVIOUS
    <2>1. IsFiniteSet(held) /\ Cardinality(held) \in Nat
        BY HeldFinite DEF FreeListExact, Slots
    <2>2. CASE acquire
        <3>1. top \in 1..capacity /\ free_list[top] \in Slots /\ free_list[top] \notin held
            BY <2>2 DEF acquire, FreeListExact, Slots
        <3>2. Cardinality(held') = Cardinality(held) + 1
            BY <2>1, <2>2, <3>1, FS_AddElement DEF acquire
        <3>3. Cardinality(held') + top' = capacity
            BY <2>1, <2>2, <3>1, <3>2 DEF acquire, FreeListExact
        <3>4. \A i \in 1..top' : free_list'[i] \notin held'
            BY <2>2, <3>1 DEF acquire, FreeListExact
        <3> QED  BY <2>2, <3>1, <3>3, <3>4 DEF acquire, FreeListExact
    <2>3. CASE acquire_null
        BY <2>3 DEF acquire_null, poolVars, FreeListExact, Slots
    <2>4. ASSUME NEW o \in Slots, release(o) PROVE FreeListExact'
        <3>1. Cardinality(held') = Cardinality(held) - 1
            BY <2>1, <2>4, FS_RemoveElement DEF release
        <3>2. Cardinality(held') \in Nat
            BY <2>4, HeldFinite DEF release, FreeListExact, Slots
        <3>3. top' \in 1..capacity /\ top + 1 \in Slots
            BY <2>1, <2>4, <3>1, <3>2 DEF release, FreeListExact, Slots
        <3>4. \A i \in 1..top : free_list'[i] = free_list[i] /\ free_list[i] # o
            BY <2>4, <3>3 DEF release, FreeListExact, Slots
        <3>5. free_list'[top + 1] = o  BY <2>4, <3>3 DEF release, FreeListExact, Slots
        <3>6. Cardinality(held') + top' = capacity
            BY <2>1, <2>4, <3>1 DEF release, FreeListExact
        <3>7. \A i \in 1..top' : i \in 1..top \/ i = top + 1
            BY <2>4 DEF release, FreeListExact
        <3>8. \A i \in 1..top' : free_list'[i] \notin held'
            BY <2>4, <3>4, <3>5, <3>7 DEF release, FreeListExact
        <3>9. \A i, j \in 1..top' : i # j => free_list'[i] # free_list'[j]
            BY <3>4, <3>5, <3>7 DEF FreeListExact
        <3>10. free_list' \in [Slots -> Slots] /\ held' \subseteq Slots
            BY <2>4 DEF release, FreeListExact
        <3> QED  BY <3>3, <3>6, <3>8, <3>9, <3>10 DEF FreeListExact
    <2>5. CASE UNCHANGED poolVars
        BY <2>5 DEF poolVars, FreeListExact, Slots
    <2> QED  BY <2>2, <2>3, <2>4, <2>5 DEF PoolNext
<1> QED  BY <1>1, <1>2, PTL DEF PoolSpec

\* release's assertion never fires for callers that only give back what they
\* hold: a held slot leaves room in the free list.
THEOREM ReleaseAssertion ==
    ASSUME capacity \in Nat
    PROVE  PoolSpec => []ReleaseHasRoom
<1>1. FreeListExact => ReleaseHasRoom
    <2> SUFFICES ASSUME FreeListExact, held # {} PROVE top < capacity
        BY DEF ReleaseHasRoom
    <2>1. IsFiniteSet(held) /\ Cardinality(held) \in Nat
        BY HeldFinite DEF FreeListExact, Slots
    <2>2. Cardinality(held) # 0  BY <2>1, FS_EmptySet
    <2> QED  BY <2>1, <2>2 DEF FreeListExact
<1> QED  BY <1>1, PoolExact, PTL
==============================================================================
