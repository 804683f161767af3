------------------------ MODULE ShardReplicasProofs ------------------------
(***************************************************************************)
(* The log-backed queue and the replicas of a shard that read it, for any  *)
(* number of consumers, orders, restarts and kills: what the checkpoints   *)
(* guarantee, that one replica at most is active, and what the replicas'   *)
(* books and the trade log hold.                                           *)
(***************************************************************************)
EXTENDS ShardReplicas, RecursionLaws, TLAPS

\* A consumer's checkpoint is current whenever it is not being written, so that
\* a clean stop, or a kill before the record is read, loses nothing; what a
\* consumer that was never killed has been given is exactly what it is past; and
\* every kill adds at most one position it is past without having been given it.
ConsumerInv(c) ==
    /\ qpc[c] \in {"poll", "return"} => checkpoint[c] = consumer_offset[c]
    /\ qpc[c] = "checkpoint" => checkpoint[c] = 0
    /\ qpc[c] \in {"checkpoint", "return"} => consumer_offset[c] > 0
    /\ crashes[c] = 0 => taken[c] = [i \in 1..Position(c) |-> i]
    /\ Cardinality(Missed(c)) <= crashes[c]

QueueInv == QueueTypeOK /\ \A c \in Consumers : ConsumerInv(c)

\* The position a consumer is at lies within the log.
LEMMA PositionType ==
    ASSUME QueueTypeOK, NEW c \in Consumers,
           qpc[c] \in {"checkpoint", "return"} => consumer_offset[c] > 0
    PROVE  Position(c) \in 0..Len(log)
BY DEF QueueTypeOK, Position

\* Before the first start nobody is past anything.
LEMMA QueueInvInit ==
    ASSUME CountLaws, InitQueue PROVE QueueInv
<1>1. \A c \in Consumers : Position(c) = 0  BY DEF InitQueue, Position
<1>2. \A c \in Consumers : Missed(c) = {}  BY <1>1 DEF Missed
<1>3. \A c \in Consumers : Cardinality(Missed(c)) = 0  BY <1>2 DEF CountLaws, CountEmpty
<1>4. QueueTypeOK  BY LogAssumption DEF InitQueue, QueueTypeOK
<1> QED  BY <1>1, <1>3, <1>4 DEF InitQueue, QueueInv, ConsumerInv

\* Every operation keeps positions within the log.
LEMMA QueueTypeStep == QueueInv /\ [NextQueue]_queueVars => QueueTypeOK'
<1> SUFFICES ASSUME QueueInv, [NextQueue]_queueVars PROVE QueueTypeOK'  OBVIOUS
<1> USE LogAssumption
<1>t. QueueTypeOK /\ Len(log) \in Nat  BY DEF QueueInv, QueueTypeOK
<1>1. ASSUME NEW o \in Orders, push(o) PROVE QueueTypeOK'
    BY <1>1, <1>t DEF push, QueueTypeOK
<1>2. ASSUME NEW c \in Consumers, Open(c) PROVE QueueTypeOK'
    BY <1>2, <1>t DEF Open, read_checkpoint, QueueTypeOK
<1>3. ASSUME NEW c \in Consumers, PopRead(c) PROVE QueueTypeOK'
    BY <1>3, <1>t DEF PopRead, Available, QueueTypeOK
<1>4. ASSUME NEW c \in Consumers, write_checkpoint(c) PROVE QueueTypeOK'
    BY <1>4, <1>t DEF write_checkpoint, Saved, QueueTypeOK
<1>5. ASSUME NEW c \in Consumers, PopReturn(c) PROVE QueueTypeOK'
    BY <1>5, <1>t DEF PopReturn, QueueTypeOK, QueueInv, ConsumerInv
<1>6. ASSUME NEW c \in Consumers, PopFalse(c) PROVE QueueTypeOK'
    BY <1>6, <1>t DEF PopFalse, QueueTypeOK
<1>7. ASSUME NEW c \in Consumers, shutdown(c) PROVE QueueTypeOK'
    BY <1>7, <1>t DEF shutdown, QueueTypeOK
<1>8. ASSUME NEW c \in Consumers, Kill(c) PROVE QueueTypeOK'
    BY <1>8, <1>t DEF Kill, QueueTypeOK
<1>9. CASE UNCHANGED queueVars
    BY <1>9, <1>t DEF queueVars, QueueTypeOK
<1> QED
    BY <1>1, <1>2, <1>3, <1>4, <1>5, <1>6, <1>7, <1>8, <1>9 DEF NextQueue, Pop

\* What a step does not touch of a consumer, it does not change for it.
LEMMA ConsumerKept ==
    ASSUME NEW c \in Consumers, ConsumerInv(c), crashes'[c] = crashes[c],
           taken'[c] = taken[c], Position(c)' = Position(c),
           qpc'[c] \in {"poll", "return"} => checkpoint'[c] = consumer_offset'[c],
           qpc'[c] = "checkpoint" => checkpoint'[c] = 0,
           qpc'[c] \in {"checkpoint", "return"} => consumer_offset'[c] > 0
    PROVE  ConsumerInv(c)'
<1>1. Missed(c)' = Missed(c)  BY DEF Missed
<1> QED  BY <1>1 DEF ConsumerInv

\* pop hands out the next position: what was missed stays the same.
LEMMA ConsumerReturns ==
    ASSUME QueueInv, NEW c \in Consumers, PopReturn(c)
    PROVE  ConsumerInv(c)'
<1> DEFINE k == consumer_offset[c]
<1>0. ConsumerInv(c) /\ QueueTypeOK /\ qpc[c] = "return"  BY DEF QueueInv, PopReturn
<1>1. /\ k \in Nat /\ k > 0 /\ Position(c) = k - 1 /\ checkpoint[c] = k
      /\ taken[c] \in Seq(1..Len(log)) /\ ConsumerInv(c)
    <2>1. k \in Nat /\ taken[c] \in Seq(1..Len(log))  BY <1>0 DEF QueueTypeOK
    <2>2. k > 0 /\ checkpoint[c] = k  BY <1>0 DEF ConsumerInv
    <2>3. Position(c) = k - 1  BY <1>0 DEF Position
    <2> QED  BY <1>0, <2>1, <2>2, <2>3
<1>2. /\ qpc'[c] = "poll" /\ taken'[c] = Append(taken[c], k) /\ Position(c)' = k
      /\ crashes'[c] = crashes[c] /\ checkpoint'[c] = consumer_offset'[c]
    BY <1>1 DEF QueueInv, QueueTypeOK, PopReturn, Position
<1>3. \A n \in Nat : n \in Range(taken'[c]) <=> n \in Range(taken[c]) \/ n = k
    <2>1. PICK t : t = taken[c]  OBVIOUS
    <2>2. t \in Seq(Nat) /\ taken'[c] = Append(t, k)  BY <1>1, <1>2, <2>1
    <2>3. DOMAIN t = 1..Len(t) /\ DOMAIN Append(t, k) = 1..(Len(t) + 1)  BY <2>2
    <2> QED  BY <2>1, <2>2, <2>3 DEF Range
<1>4. Missed(c)' = Missed(c)
    BY <1>1, <1>2, <1>3 DEF Missed
<1>5. crashes[c] = 0 => taken'[c] = [i \in 1..k |-> i]
    <2> SUFFICES ASSUME taken[c] = [i \in 1..(k - 1) |-> i]
                 PROVE  Append(taken[c], k) = [i \in 1..k |-> i]
        BY <1>1, <1>2 DEF ConsumerInv
    <2> QED  BY <1>1
<1> QED  BY <1>1, <1>2, <1>4, <1>5 DEF ConsumerInv

\* A kill costs a consumer at most the position it was reading.
LEMMA ConsumerKilled ==
    ASSUME CountLaws, QueueInv, NEW c \in Consumers, Kill(c)
    PROVE  ConsumerInv(c)'
<1> DEFINE k == checkpoint[c]
<1>1. /\ k \in Nat /\ crashes[c] \in Nat /\ Position(c) \in Nat
      /\ consumer_offset[c] \in Nat /\ ConsumerInv(c)
    BY LogAssumption, PositionType DEF QueueInv, QueueTypeOK, ConsumerInv
<1>2. /\ qpc'[c] = "down" /\ Position(c)' = k /\ taken'[c] = taken[c]
      /\ crashes'[c] = crashes[c] + 1
    BY DEF QueueInv, QueueTypeOK, Kill, Position
<1>3. k <= Position(c) + 1
    BY <1>1 DEF Kill, Running, ConsumerInv, Position, QueueInv, QueueTypeOK
<1>4. Missed(c)' \subseteq Missed(c) \union {Position(c) + 1}
    BY <1>1, <1>2, <1>3 DEF Missed
<1>5. IsFiniteSet(Missed(c)) /\ Cardinality(Missed(c)) \in Nat
    <2>1. Missed(c) \subseteq 0..Position(c)  BY <1>1 DEF Missed
    <2> QED  BY Zenon, <1>1, <2>1 DEF CountLaws, CountPositions
<1>6. /\ IsFiniteSet(Missed(c) \union {Position(c) + 1})
      /\ Cardinality(Missed(c) \union {Position(c) + 1}) <= Cardinality(Missed(c)) + 1
    BY Zenon, <1>5 DEF CountLaws, CountAdded
<1>7. Cardinality(Missed(c)') <= Cardinality(Missed(c) \union {Position(c) + 1})
    BY Zenon, <1>4, <1>6 DEF CountLaws, CountSubset
<1>8. Cardinality(Missed(c)') \in Nat /\ Cardinality(Missed(c) \union {Position(c) + 1}) \in Nat
    BY Zenon, <1>4, <1>6 DEF CountLaws, CountSubset
<1>9. Cardinality(Missed(c)') <= crashes'[c]
    BY <1>1, <1>2, <1>5, <1>6, <1>7, <1>8 DEF ConsumerInv
<1> QED  BY <1>1, <1>2, <1>9 DEF ConsumerInv

\* Every operation, stop, kill and restart keeps the invariant.
LEMMA QueueInvStep ==
    ASSUME CountLaws, QueueInv, [NextQueue]_queueVars PROVE QueueInv'
<1>t. QueueTypeOK /\ QueueTypeOK' /\ \A c \in Consumers : ConsumerInv(c)
    BY QueueTypeStep DEF QueueInv
<1> SUFFICES ASSUME NEW d \in Consumers PROVE ConsumerInv(d)'
    BY <1>t DEF QueueInv
<1>k. ASSUME UNCHANGED <<qpc[d], checkpoint[d], consumer_offset[d], crashes[d], taken[d]>>
      PROVE  ConsumerInv(d)'
    <2>1. Position(d)' = Position(d)  BY <1>k DEF Position
    <2> QED  BY <1>k, <1>t, <2>1, ConsumerKept DEF ConsumerInv
<1>1. ASSUME NEW o \in Orders, push(o) PROVE ConsumerInv(d)'
    BY <1>1, <1>k DEF push
<1>2. ASSUME NEW c \in Consumers, Open(c) PROVE ConsumerInv(d)'
    <2>1. CASE c = d
        <3>1. /\ qpc'[d] = "poll" /\ consumer_offset'[d] = checkpoint[d]
              /\ checkpoint' = checkpoint /\ crashes' = crashes /\ taken' = taken
              /\ qpc[d] = "down"
            BY <1>2, <1>t, <2>1 DEF Open, Running, read_checkpoint, QueueTypeOK
        <3>2. Position(d)' = Position(d)  BY <3>1 DEF Position
        <3> QED  BY <1>t, <3>1, <3>2, ConsumerKept
    <2>2. CASE c # d  BY <1>2, <1>t, <1>k, <2>2 DEF Open, QueueTypeOK
    <2> QED  BY <2>1, <2>2
<1>3. ASSUME NEW c \in Consumers, PopRead(c) PROVE ConsumerInv(d)'
    <2>1. CASE c = d
        <3>1. /\ qpc'[d] = "checkpoint" /\ consumer_offset'[d] = consumer_offset[d] + 1
              /\ checkpoint'[d] = 0 /\ crashes' = crashes /\ taken' = taken
              /\ qpc[d] = "poll" /\ consumer_offset[d] \in Nat
            BY <1>3, <1>t, <2>1 DEF PopRead, QueueTypeOK
        <3>2. Position(d)' = Position(d)  BY <3>1 DEF Position
        <3> QED  BY <1>t, <3>1, <3>2, ConsumerKept
    <2>2. CASE c # d  BY <1>3, <1>t, <1>k, <2>2 DEF PopRead, QueueTypeOK
    <2> QED  BY <2>1, <2>2
<1>4. ASSUME NEW c \in Consumers, write_checkpoint(c) PROVE ConsumerInv(d)'
    <2>1. CASE c = d
        <3>1. /\ qpc'[d] = "return" /\ consumer_offset' = consumer_offset
              /\ checkpoint'[d] = consumer_offset[d] /\ crashes' = crashes /\ taken' = taken
              /\ qpc[d] = "checkpoint"
            BY <1>4, <1>t, <2>1 DEF write_checkpoint, Saved, QueueTypeOK
        <3>2. Position(d)' = Position(d)  BY <3>1 DEF Position
        <3> QED  BY <1>t, <3>1, <3>2, ConsumerKept DEF ConsumerInv
    <2>2. CASE c # d  BY <1>4, <1>t, <1>k, <2>2 DEF write_checkpoint, QueueTypeOK
    <2> QED  BY <2>1, <2>2
<1>5. ASSUME NEW c \in Consumers, PopReturn(c) PROVE ConsumerInv(d)'
    <2>1. CASE c = d  BY <1>5, <2>1, ConsumerReturns
    <2>2. CASE c # d  BY <1>5, <1>t, <1>k, <2>2 DEF PopReturn, QueueTypeOK
    <2> QED  BY <2>1, <2>2
<1>6. ASSUME NEW c \in Consumers, PopFalse(c) PROVE ConsumerInv(d)'
    <2>1. CASE c = d
        <3>1. /\ qpc'[d] = "down" /\ checkpoint' = checkpoint /\ crashes' = crashes
              /\ taken' = taken /\ qpc[d] = "poll"
            BY <1>6, <1>t, <2>1 DEF PopFalse, QueueTypeOK
        <3>2. Position(d)' = Position(d)  BY Zenon, <1>t, <3>1 DEF Position, ConsumerInv
        <3> QED  BY <1>t, <3>1, <3>2, ConsumerKept
    <2>2. CASE c # d  BY <1>6, <1>t, <1>k, <2>2 DEF PopFalse, QueueTypeOK
    <2> QED  BY <2>1, <2>2
<1>7. ASSUME NEW c \in Consumers, shutdown(c) PROVE ConsumerInv(d)'
    BY <1>7, <1>k DEF shutdown
<1>8. ASSUME NEW c \in Consumers, Kill(c) PROVE ConsumerInv(d)'
    <2>1. CASE c = d  BY <1>8, <2>1, ConsumerKilled
    <2>2. CASE c # d  BY <1>8, <1>t, <1>k, <2>2 DEF Kill, QueueTypeOK
    <2> QED  BY <2>1, <2>2
<1>9. CASE UNCHANGED queueVars
    BY <1>9, <1>k DEF queueVars
<1> QED
    BY <1>1, <1>2, <1>3, <1>4, <1>5, <1>6, <1>7, <1>8, <1>9 DEF NextQueue, Pop

\* The invariant says what the two guarantees promise.
LEMMA QueueInvImplies == QueueInv => ExactUnlessKilled /\ OneLostPerKill
<1> SUFFICES ASSUME QueueInv, NEW c \in Consumers
             PROVE  /\ crashes[c] = 0 => /\ taken[c] = [i \in 1..Len(taken[c]) |-> i]
                                         /\ Missed(c) = {}
                    /\ Cardinality(Missed(c)) <= crashes[c]
    BY Zenon DEF ExactUnlessKilled, OneLostPerKill
<1>1. ConsumerInv(c) /\ Position(c) \in Nat
    BY PositionType DEF QueueInv, ConsumerInv, QueueTypeOK
<1>2. ASSUME crashes[c] = 0
      PROVE  taken[c] = [i \in 1..Len(taken[c]) |-> i] /\ Missed(c) = {}
    <2>1. taken[c] = [i \in 1..Position(c) |-> i]  BY <1>1, <1>2 DEF ConsumerInv
    <2>2. Len(taken[c]) = Position(c)  BY <1>1, <2>1
    <2> QED  BY <1>1, <2>1, <2>2 DEF Missed, Range
<1> QED  BY <1>1, <1>2 DEF ConsumerInv

-----------------------------------------------------------------------------
\* Whatever a replica does is a step of the queue, or leaves it alone.
LEMMA ReplicaStepIsQueueStep == [Next]_vars => [NextQueue]_queueVars
<1> SUFFICES ASSUME [Next]_vars PROVE NextQueue \/ UNCHANGED queueVars  OBVIOUS
<1>1. ASSUME NEW o \in Orders, Push(o) PROVE NextQueue
    BY <1>1 DEF Push, NextQueue
<1>2. ASSUME NEW r \in Replicas, Start(r) PROVE NextQueue
    BY <1>2 DEF Start, NextQueue, Replicas
<1>3. ASSUME NEW r \in Replicas, PopStep(r) PROVE NextQueue
    BY <1>3 DEF PopStep, NextQueue, Pop, Replicas
<1>4. ASSUME NEW r \in Replicas, Apply(r) PROVE NextQueue
    BY <1>4 DEF Apply, NextQueue, Pop, Replicas
<1>5. ASSUME NEW r \in Replicas, Publish(r) PROVE UNCHANGED queueVars
    BY <1>5 DEF Publish
<1>6. ASSUME NEW r \in Replicas, Finish(r) PROVE NextQueue
    BY <1>6 DEF Finish, NextQueue, Pop, Replicas
<1>7. ASSUME NEW r \in Replicas, Interrupt(r) PROVE NextQueue
    BY <1>7 DEF Interrupt, NextQueue, Replicas
<1>8. ASSUME NEW r \in Replicas, Crash(r) PROVE NextQueue
    BY <1>8 DEF Crash, NextQueue, Replicas
<1>9. CASE UNCHANGED vars
    BY <1>9 DEF vars
<1> QED
    BY <1>1, <1>2, <1>3, <1>4, <1>5, <1>6, <1>7, <1>8, <1>9 DEF Next, Run

-----------------------------------------------------------------------------
\* OneActive is inductive once active and pending are known to be functions on
\* the replicas.
LeaderInv ==
    /\ active \in [Replicas -> BOOLEAN]
    /\ pending = [r \in Replicas |-> pending[r]]
    /\ OneActive

\* try_acquire keeps the lock and active in step: a replica gets it only when
\* nobody has it.
LEMMA AcquireExclusive ==
    ASSUME LeaderInv, NEW r \in Replicas, try_acquire(r)
    PROVE  /\ active' \in [Replicas -> BOOLEAN]
           /\ \A s \in Replicas : active'[s] <=> holder' = s
           /\ \A s \in Replicas : s # r => active'[s] = active[s]
           /\ active[r] => active'[r]
<1> DEFINE held == active[r] \/ holder = NoReplica
<1>1. active' = [active EXCEPT ![r] = held] /\ holder' = (IF held THEN r ELSE holder)
    BY DEF try_acquire
<1>2. held \in BOOLEAN /\ active \in [Replicas -> BOOLEAN]  BY DEF LeaderInv
<1>3. active'[r] = held /\ \A s \in Replicas : s # r => active'[s] = active[s]
    BY <1>1, <1>2
<1>4. \A s \in Replicas : active[s] <=> holder = s  BY DEF LeaderInv, OneActive
<1>5. CASE held
    <2>1. \A s \in Replicas : s # r => ~active[s]
        BY <1>4, <1>5, ReplicaAssumption DEF Replicas
    <2> QED  BY Zenon, <1>1, <1>2, <1>3, <1>5, <2>1
<1>6. CASE ~held
    BY <1>1, <1>2, <1>3, <1>4, <1>6
<1> QED  BY <1>5, <1>6

\* Before the first start nobody holds the lock.
LEMMA LeaderInvInit == InitReplicas => LeaderInv
<1> SUFFICES ASSUME InitReplicas PROVE LeaderInv  OBVIOUS
<1>1. \A r \in Replicas : ~active[r] /\ holder # r /\ pending[r] = << >>
    BY ReplicaAssumption DEF InitReplicas, Replicas
<1> QED  BY <1>1 DEF InitReplicas, LeaderInv, OneActive

\* A step that leaves the lock alone and keeps trades in hand only where they
\* were, and every replica up.
LEMMA LeaderKept ==
    ASSUME LeaderInv, UNCHANGED <<holder, active>>,
           pending' = [r \in Replicas |-> pending'[r]],
           \A r \in Replicas : pending'[r] # << >> => pending[r] # << >>,
           \A r \in Replicas : Running(r) => Running(r)'
    PROVE  LeaderInv'
BY DEF LeaderInv, OneActive

\* The end of a process r: the others' share of the lock is as it was.
LEMMA LeaderExits ==
    ASSUME LeaderInv, NEW r \in Replicas, Exit(r),
           \A s \in Replicas : s # r /\ Running(s) => Running(s)'
    PROVE  LeaderInv'
<1>1. /\ active' \in [Replicas -> BOOLEAN] /\ ~active'[r]
      /\ \A s \in Replicas : s # r => active'[s] = active[s]
    BY DEF LeaderInv, Exit
<1>2. /\ pending' = [s \in Replicas |-> pending'[s]] /\ pending'[r] = << >>
      /\ \A s \in Replicas : s # r => pending'[s] = pending[s]
    BY DEF LeaderInv, Exit
<1>3. \A s \in Replicas : active'[s] <=> holder' = s
    BY <1>1, ReplicaAssumption DEF LeaderInv, OneActive, Exit, Replicas
<1> QED  BY <1>1, <1>2, <1>3 DEF LeaderInv, OneActive

\* Every step of a replica, and every stop, kill and restart, keeps the invariant.
LEMMA LeaderInvStep == QueueInv /\ LeaderInv /\ [Next]_vars => LeaderInv'
<1> SUFFICES ASSUME QueueInv, LeaderInv, [Next]_vars PROVE LeaderInv'  OBVIOUS
<1>t. qpc \in [Replicas -> {"down", "poll", "checkpoint", "return"}]
    BY DEF QueueInv, QueueTypeOK, Replicas
<1>p. pending = [r \in Replicas |-> pending[r]]  BY DEF LeaderInv
<1>1. ASSUME NEW o \in Orders, Push(o) PROVE LeaderInv'
    BY <1>1, <1>p, LeaderKept DEF Push, push, replicaVars, Running
<1>2. ASSUME NEW r \in Replicas, Start(r) PROVE LeaderInv'
    <2>1. UNCHANGED pending /\ try_acquire(r) /\ qpc' = [qpc EXCEPT ![r] = "poll"]
        BY <1>2 DEF Start, Open
    <2>2. \A s \in Replicas : Running(s) \/ s = r => Running(s)'
        BY <1>t, <2>1 DEF Running
    <2> QED  BY <2>1, <2>2, AcquireExclusive DEF LeaderInv, OneActive
<1>3. ASSUME NEW r \in Replicas, PopStep(r) PROVE LeaderInv'
    <2>1. UNCHANGED replicaVars  BY <1>3 DEF PopStep
    <2>2. \A s \in Replicas : Running(s) => Running(s)'
        BY <1>3, <1>t DEF PopStep, PopRead, write_checkpoint, Running
    <2> QED  BY <1>p, <2>1, <2>2, LeaderKept DEF replicaVars
<1>4. ASSUME NEW r \in Replicas, Apply(r) PROVE LeaderInv'
    <2>1. try_acquire(r)  BY <1>4 DEF Apply, Promote
    <2>2. /\ pending' = [s \in Replicas |-> pending'[s]]
          /\ \A s \in Replicas : s # r => pending'[s] = pending[s]
          /\ ~active'[r] => pending'[r] = << >>
        BY <1>4, <1>p DEF Apply
    <2>3. qpc' = [qpc EXCEPT ![r] = "poll"]  BY <1>4 DEF Apply, PopReturn
    <2>4. \A s \in Replicas : Running(s) \/ s = r => Running(s)'
        BY <1>t, <2>3 DEF Running
    <2> QED  BY <2>1, <2>2, <2>4, AcquireExclusive DEF LeaderInv, OneActive
<1>5. ASSUME NEW r \in Replicas, Publish(r) PROVE LeaderInv'
    <2>1. /\ pending' = [s \in Replicas |-> pending'[s]]
          /\ \A s \in Replicas : pending'[s] # << >> => pending[s] # << >>
        BY Zenon, <1>5, <1>p DEF Publish
    <2> QED  BY <1>5, <2>1, LeaderKept DEF Publish, queueVars, Running
<1>6. ASSUME NEW r \in Replicas, Finish(r) PROVE LeaderInv'
    BY <1>6, <1>t, LeaderExits DEF Finish, PopFalse, Running
<1>7. ASSUME NEW r \in Replicas, Interrupt(r) PROVE LeaderInv'
    BY <1>7, <1>p, LeaderKept DEF Interrupt, shutdown, replicaVars, Running
<1>8. ASSUME NEW r \in Replicas, Crash(r) PROVE LeaderInv'
    BY <1>8, <1>t, LeaderExits DEF Crash, Kill, Running
<1>9. CASE UNCHANGED vars
    BY <1>9, <1>p, LeaderKept DEF vars, queueVars, replicaVars, Running
<1> QED
    BY <1>1, <1>2, <1>3, <1>4, <1>5, <1>6, <1>7, <1>8, <1>9 DEF Next, Run

-----------------------------------------------------------------------------
\* The matching of orders k + 1 to n of a log l.
MatchOf(l, k, n) == Replay([i \in 1..(n - k) |-> k + i], SubSeq(l, k + 1, n))

\* No order.
LEMMA MatchNone ==
    ASSUME ReplayLaws PROVE \A l : \A k \in Nat : MatchOf(l, k, k) = NoOrders
<1> SUFFICES ASSUME NEW l, NEW k \in Nat PROVE MatchOf(l, k, k) = NoOrders  OBVIOUS
<1>1. SubSeq(l, k + 1, k) = << >>  OBVIOUS
<1>2. k - k = 0  OBVIOUS
<1>3. [i \in 1..0 |-> k + i] = << >>  OBVIOUS
<1>4. [i \in 1..(k - k) |-> k + i] = << >>  BY Zenon, <1>2, <1>3
<1>5. Replay(<< >>, << >>) = NoOrders  BY Zenon DEF ReplayLaws, ReplayOfNothing
<1> QED  BY Zenon, <1>1, <1>4, <1>5 DEF MatchOf

\* One order more.
LEMMA MatchNext ==
    ASSUME ReplayLaws, NEW T, NEW l \in Seq(T), NEW n \in Nat, n < Len(l), NEW k \in 0..n
    PROVE  MatchOf(l, k, n + 1) = Replayed(MatchOf(l, k, n), n + 1, l[n + 1])
<1> DEFINE ns == [i \in 1..(n - k) |-> k + i]
           qs == SubSeq(l, k + 1, n)
<1>1. ns \in Seq(Nat) /\ Len(ns) = n - k  OBVIOUS
<1>2. qs \in Seq(T) /\ Len(qs) = n - k  OBVIOUS
<1>3. [i \in 1..((n + 1) - k) |-> k + i] = Append(ns, n + 1)
    <2>1. (n + 1) - k = (n - k) + 1 /\ n - k \in Nat /\ k + ((n - k) + 1) = n + 1  OBVIOUS
    <2> QED  BY <2>1
<1>4. SubSeq(l, k + 1, n + 1) = Append(qs, l[n + 1])  OBVIOUS
<1> HIDE DEF ns, qs
<1>5. Replay(Append(ns, n + 1), Append(qs, l[n + 1])) = Replayed(Replay(ns, qs), n + 1, l[n + 1])
    BY <1>1, <1>2 DEF ReplayLaws, ReplayOfAppend
<1> QED  BY Zenon, <1>3, <1>4, <1>5 DEF MatchOf, ns, qs

\* What it adds to the trades.
LEMMA MatchTrades ==
    ASSUME ReplayLaws, NEW l, NEW n, NEW m, MatchOf(l, 0, n) = Replayed(m, n, l[n])
    PROVE  MatchOf(l, 0, n).trades = m.trades \o TradesOf(m.book, n, l[n])
<1> DEFINE q == l[n]
           x == MatchOf(l, 0, n)
<1>1. x = Replayed(m, n, q)  OBVIOUS
<1> HIDE DEF q, x
<1>2. x.trades = m.trades \o TradesOf(m.book, n, q)  BY Zenon, <1>1 DEF ReplayLaws, ReplayedFields
<1> QED  BY Zenon, <1>2 DEF q, x

\* Pairs with different first parts differ.
LEMMA PairsDiffer ==
    ASSUME NEW a, NEW b, NEW c, NEW d, a # c PROVE <<a, b>> # <<c, d>>
OBVIOUS

\* Trades of order n, no two of them the same.
OneOrders(t, n) ==
    /\ \A i \in 1..Len(t) : t[i][2] = n
    /\ \A i, j \in 1..Len(t) : i # j => t[i] # t[j]

\* The trades of one order differ, as no order rests twice in the book.
LEMMA TradesOfOne ==
    ASSUME ReplayLaws, NEW b \in Seq(Nat), NEW n \in Nat, NEW q \in Nat, Increasing(b),
           NEW t, t = TradesOf(b, n, q)
    PROVE  OneOrders(t, n)
BY DEF ReplayLaws, TradesDistinct, OneOrders

\* Later orders do not change it.
LEMMA MatchStable ==
    ASSUME NEW T, NEW l \in Seq(T), NEW o, NEW n \in 0..Len(l), NEW k \in 0..n
    PROVE  MatchOf(Append(l, o), k, n) = MatchOf(l, k, n)
<1>1. SubSeq(Append(l, o), k + 1, n) = SubSeq(l, k + 1, n)  OBVIOUS
<1> QED  BY Zenon, <1>1 DEF MatchOf

-----------------------------------------------------------------------------
\* What a step of one replica leaves alone of another.
Same(s) ==
    UNCHANGED <<qpc[s], starts[s], checkpoint[s], consumer_offset[s], crashes[s],
                book[s], pending[s], active[s], began[s]>>

\* It is at the same place in the log.
LEMMA SamePosition ==
    ASSUME NEW s, Same(s) PROVE Position(s)' = Position(s) /\ Running(s)' = Running(s)
BY DEF Same, Position, Running

\* A step is one of a replica, or nobody's: a push, an interrupt, or nothing.
StepOf(r) == Start(r) \/ PopStep(r) \/ Apply(r) \/ Publish(r) \/ Finish(r) \/ Crash(r)

Idle == (\E o \in Orders : Push(o)) \/ (\E r \in Replicas : Interrupt(r)) \/ UNCHANGED vars

\* Next has no other steps.
LEMMA StepOrIdle == [Next]_vars => Idle \/ \E r \in Replicas : StepOf(r)
BY Zenon DEF Next, Run, Idle, StepOf

\* A step of one replica changes no other replica and not the log.
LEMMA OthersSame ==
    ASSUME TypeOK, NEW r \in Replicas, StepOf(r)
    PROVE  log' = log /\ \A s \in Replicas : s # r => Same(s)
<1> USE DEF TypeOK, QueueTypeOK, Replicas, Same
<1>1. CASE Start(r)  BY <1>1 DEF Start, Open, try_acquire
<1>2. CASE PopStep(r)  BY Zenon, <1>2 DEF PopStep, PopRead, write_checkpoint, replicaVars
<1>3. CASE Apply(r)  BY <1>3 DEF Apply, PopReturn, Promote, try_acquire
<1>4. CASE Publish(r)  BY <1>4 DEF Publish, publish, queueVars
<1>5. CASE Finish(r)  BY <1>5 DEF Finish, PopFalse, Exit
<1>6. CASE Crash(r)  BY <1>6 DEF Crash, Kill, Exit
<1> QED  BY <1>1, <1>2, <1>3, <1>4, <1>5, <1>6 DEF StepOf

\* What each step of replica r does to r.
LEMMA StartFacts ==
    ASSUME TypeOK, NEW r \in Replicas, Start(r)
    PROVE  /\ UNCHANGED <<log, checkpoint, crashes, book, pending, trades>>
           /\ qpc[r] = "down" /\ qpc'[r] = "poll" /\ starts'[r] = starts[r] + 1
           /\ consumer_offset'[r] = checkpoint[r] /\ Position(r)' = Position(r)
           /\ began'[r] = checkpoint[r]
           /\ try_acquire(r)
<1> USE DEF TypeOK, QueueTypeOK, Replicas
<1>1. Open(r) /\ try_acquire(r) /\ UNCHANGED <<book, pending, trades>>
      /\ began' = [began EXCEPT ![r] = read_checkpoint(r)]
    BY DEF Start
<1>2. /\ UNCHANGED <<log, checkpoint, crashes>>
      /\ qpc[r] = "down" /\ qpc'[r] = "poll" /\ starts'[r] = starts[r] + 1
      /\ consumer_offset'[r] = checkpoint[r]
    BY <1>1 DEF Open, Running, read_checkpoint
<1>3. Position(r)' = Position(r)  BY <1>2 DEF Position
<1>4. began'[r] = checkpoint[r]  BY <1>1 DEF read_checkpoint
<1> QED  BY <1>1, <1>2, <1>3, <1>4

\* pop reads a record or writes its checkpoint: the position stays.
LEMMA PopStepFacts ==
    ASSUME TypeOK, NEW r \in Replicas, PopStep(r)
    PROVE  /\ UNCHANGED <<log, starts, crashes, holder, active, book, pending, trades, began>>
           /\ Running(r) /\ Running(r)' /\ pending[r] = << >> /\ Position(r)' = Position(r)
<1> USE DEF TypeOK, QueueTypeOK, Replicas
<1>1. /\ pending[r] = << >> /\ UNCHANGED <<holder, active, book, pending, trades, began>>
      /\ PopRead(r) \/ write_checkpoint(r)
    BY DEF PopStep, AllPublished, replicaVars
<1>2. UNCHANGED <<log, starts, crashes>>  BY <1>1 DEF PopRead, write_checkpoint
<1>3. CASE PopRead(r)
    <2>1. /\ qpc[r] = "poll" /\ qpc'[r] = "checkpoint"
          /\ consumer_offset'[r] = consumer_offset[r] + 1 /\ consumer_offset[r] \in Nat
        BY <1>3 DEF PopRead
    <2> QED  BY <1>1, <1>2, <2>1 DEF Position, Running
<1>4. CASE write_checkpoint(r)
    <2>1. qpc[r] = "checkpoint" /\ qpc'[r] = "return" /\ consumer_offset' = consumer_offset
        BY Zenon, <1>4 DEF write_checkpoint
    <2> QED  BY <1>1, <1>2, <2>1 DEF Position, Running
<1> QED  BY <1>1, <1>3, <1>4

\* The engine loop takes the order that pop returns: the position goes up by one, and
\* an active replica owes the order's trades.
LEMMA ApplyFacts ==
    ASSUME TypeOK, QueueInv, NEW r \in Replicas, Apply(r), NEW n, n = consumer_offset[r]
    PROVE  /\ UNCHANGED <<log, checkpoint, consumer_offset, starts, crashes, trades, began>>
           /\ qpc[r] = "return" /\ qpc'[r] = "poll"
           /\ n \in 1..Len(log) /\ Position(r) = n - 1 /\ Position(r)' = n
           /\ book'[r] = BookAfter(book[r], n, log[n])
           /\ pending'[r] = (IF active'[r] THEN TradesOf(book[r], n, log[n]) ELSE << >>)
           /\ try_acquire(r)
<1> USE DEF TypeOK, QueueTypeOK, Replicas
<1>1. /\ PopReturn(r) /\ try_acquire(r) /\ trades' = trades /\ began' = began
      /\ book' = [book EXCEPT ![r] = BookAfter(book[r], n, log[n])]
      /\ pending' = [pending EXCEPT ![r] =
                        IF active'[r] THEN TradesOf(book[r], n, log[n]) ELSE << >>]
    BY DEF Apply, Promote, Fed
<1>2. /\ UNCHANGED <<log, checkpoint, consumer_offset, starts, crashes>>
      /\ qpc[r] = "return" /\ qpc'[r] = "poll"
    BY <1>1 DEF PopReturn
<1>3. n \in 0..Len(log) /\ n > 0  BY <1>2 DEF QueueInv, ConsumerInv
<1>4. Position(r) = n - 1 /\ Position(r)' = n  BY <1>2 DEF Position
<1> QED  BY <1>1, <1>2, <1>3, <1>4

\* One trade goes from what replica r owes to the end of the trade log.
LEMMA PublishFacts ==
    ASSUME TypeOK, NEW r \in Replicas, Publish(r)
    PROVE  /\ UNCHANGED <<log, checkpoint, consumer_offset, qpc, starts, crashes,
                          holder, active, book, began>>
           /\ Running(r) /\ pending[r] # << >> /\ Position(r)' = Position(r)
           /\ trades' = Append(trades, Head(pending[r])) /\ pending'[r] = Tail(pending[r])
<1> USE DEF TypeOK, QueueTypeOK, Replicas
<1>1. /\ UNCHANGED <<log, checkpoint, consumer_offset, qpc, starts, crashes,
                     holder, active, book, began>>
      /\ Running(r) /\ pending[r] # << >>
      /\ trades' = Append(trades, Head(pending[r]))
      /\ pending' = [pending EXCEPT ![r] = Tail(pending[r])]
    BY DEF Publish, publish, queueVars
<1>2. Position(r)' = Position(r)  BY <1>1 DEF Position
<1> QED  BY <1>1, <1>2

\* A loop that pop has told to end leaves checkpoint and position alone.
LEMMA FinishFacts ==
    ASSUME TypeOK, QueueInv, NEW r \in Replicas, Finish(r)
    PROVE  /\ UNCHANGED <<log, checkpoint, consumer_offset, starts, crashes, trades>>
           /\ qpc[r] = "poll" /\ qpc'[r] = "down" /\ Position(r)' = Position(r)
           /\ book'[r] = << >> /\ pending'[r] = << >>
<1> USE DEF TypeOK, QueueTypeOK, Replicas
<1>1. PopFalse(r) /\ Exit(r)  BY DEF Finish
<1>2. /\ UNCHANGED <<log, checkpoint, consumer_offset, starts, crashes, trades>>
      /\ qpc[r] = "poll" /\ qpc'[r] = "down" /\ book'[r] = << >> /\ pending'[r] = << >>
    BY <1>1 DEF PopFalse, Exit
<1>3. checkpoint[r] = consumer_offset[r]  BY <1>2 DEF QueueInv, ConsumerInv
<1>4. Position(r)' = Position(r)  BY <1>2, <1>3 DEF Position
<1> QED  BY <1>2, <1>4

\* A kill leaves the log, the trades and the checkpoint, and takes the book.
LEMMA CrashFacts ==
    ASSUME TypeOK, NEW r \in Replicas, Crash(r)
    PROVE  /\ UNCHANGED <<log, checkpoint, consumer_offset, starts, trades>>
           /\ Running(r) /\ qpc'[r] = "down" /\ crashes'[r] = crashes[r] + 1
           /\ book'[r] = << >> /\ pending'[r] = << >>
BY DEF TypeOK, QueueTypeOK, Replicas, Crash, Kill, Exit

\* The steps that are nobody's.
LEMMA IdleFacts ==
    ASSUME Idle
    PROVE  /\ \A s \in Replicas : Same(s)
           /\ UNCHANGED <<holder, active, book, pending, trades, began, starts, crashes>>
           /\ log' = log \/ \E o \in Orders : log' = Append(log, o)
<1>1. ASSUME NEW o \in Orders, Push(o)
      PROVE  UNCHANGED <<checkpoint, consumer_offset, qpc, starts, crashes, replicaVars>>
             /\ log' = Append(log, o)
    BY <1>1 DEF Push, push
<1>2. ASSUME NEW r \in Replicas, Interrupt(r)
      PROVE  UNCHANGED <<log, checkpoint, consumer_offset, qpc, starts, crashes, replicaVars>>
    BY <1>2 DEF Interrupt, shutdown
<1>3. CASE UNCHANGED vars
    BY <1>3 DEF vars, queueVars, replicaVars, Same
<1>4. CASE \E o \in Orders : Push(o)
    BY <1>1, <1>4 DEF replicaVars, Same
<1>5. CASE \E r \in Replicas : Interrupt(r)
    BY <1>2, <1>5 DEF replicaVars, Same
<1> QED  BY <1>3, <1>4, <1>5 DEF Idle

\* The books.  A replica that is down has none; one that was never started has
\* no checkpoint, so its first run begins with the log; trades in hand are those
\* of the last order, and the next one is not read before they are out.
LifeInv(r) ==
    /\ Running(r) => starts[r] > 0
    /\ starts[r] = 0 => checkpoint[r] = 0
    /\ ~Running(r) => book[r] = << >>
    /\ pending[r] # << >> => qpc[r] = "poll"
    /\ Running(r) => /\ began[r] <= Position(r)
                     /\ book[r] = MatchOf(log, began[r], Position(r)).book
                     /\ starts[r] = 1 => began[r] = 0

ReplicaInv == TypeOK /\ \A r \in Replicas : LifeInv(r)

\* Before the first order and the first start.
LEMMA ReplicaInvInit ==
    ASSUME CountLaws, InitReplicas PROVE ReplicaInv
<1>1. QueueTypeOK  BY QueueInvInit DEF InitReplicas, QueueInv
<1>2. TypeOK  BY <1>1 DEF InitReplicas, TypeOK
<1>3. ASSUME NEW r \in Replicas PROVE LifeInv(r)
    BY <1>3 DEF InitReplicas, InitQueue, LifeInv, Running, Replicas
<1> QED  BY <1>2, <1>3 DEF ReplicaInv

\* Books, trades in hand and published trades name orders of the log.
LEMMA ReplicaTypeStep ==
    ASSUME ReplayLaws, TypeOK, QueueInv, QueueInv', [Next]_vars PROVE TypeOK'
<1> DEFINE N == Len(log)
           B == Seq(1..N)
           P == Seq((1..N) \X (1..N))
<1>0. /\ N \in Nat /\ log \in Seq(Orders) /\ active \in [Replicas -> BOOLEAN]
      /\ holder \in Replicas \union {NoReplica}
      /\ book \in [Replicas -> B] /\ pending \in [Replicas -> P] /\ trades \in P
      /\ began \in [Replicas -> 0..N]
    BY DEF TypeOK, QueueTypeOK
<1>q. QueueTypeOK'  BY DEF QueueInv
<1>e. << >> \in B /\ << >> \in P  OBVIOUS
<1>k. ASSUME log' = log, active' \in [Replicas -> BOOLEAN],
             holder' \in Replicas \union {NoReplica},
             book' \in [Replicas -> B], pending' \in [Replicas -> P], trades' \in P,
             began' \in [Replicas -> 0..N]
      PROVE  TypeOK'
    BY Zenon, <1>k, <1>q DEF TypeOK
<1>a. ASSUME NEW r \in Replicas, try_acquire(r)
      PROVE  active' \in [Replicas -> BOOLEAN] /\ holder' \in Replicas \union {NoReplica}
    <2>1. (active[r] \/ holder = NoReplica) \in BOOLEAN  OBVIOUS
    <2> QED  BY <1>a, <1>0, <2>1 DEF try_acquire
<1>x. ASSUME NEW r \in Replicas, Exit(r), log' = log PROVE TypeOK'
    <2>1. 0 \in 0..N  BY <1>0
    <2> HIDE DEF N, B, P
    <2> QED  BY <1>x, <1>0, <1>e, <1>k, <2>1 DEF Exit
<1>1. ASSUME NEW o \in Orders, Push(o) PROVE TypeOK'
    <2>1. log' = Append(log, o) /\ UNCHANGED replicaVars  BY <1>1 DEF Push, push
    <2>2. Len(log') = N + 1  BY <1>0, <2>1
    <2>3. B \subseteq Seq(1..(N + 1)) /\ P \subseteq Seq((1..(N + 1)) \X (1..(N + 1)))
        BY Zenon, <1>0 DEF ReplayLaws, LongerLog
    <2>4. /\ book' \in [Replicas -> Seq(1..(N + 1))]
          /\ pending' \in [Replicas -> Seq((1..(N + 1)) \X (1..(N + 1)))]
          /\ trades' \in Seq((1..(N + 1)) \X (1..(N + 1)))
          /\ began' \in [Replicas -> 0..(N + 1)]
        <3>1. 0..N \subseteq 0..(N + 1)  BY <1>0
        <3> HIDE DEF N, B, P
        <3> QED  BY <1>0, <2>1, <2>3, <3>1 DEF replicaVars
    <2> QED  BY <1>0, <1>q, <2>1, <2>2, <2>4 DEF replicaVars, TypeOK
<1> HIDE DEF N, B, P
<1>2. ASSUME NEW r \in Replicas, Start(r) PROVE TypeOK'
    <2>1. /\ log' = log /\ try_acquire(r) /\ UNCHANGED <<book, pending, trades>>
          /\ began' = [began EXCEPT ![r] = checkpoint[r]]
        BY Zenon, <1>2 DEF Start, Open, read_checkpoint
    <2>2. checkpoint[r] \in 0..N
        BY <1>0, <1>2, StartFacts DEF TypeOK, QueueTypeOK, Replicas, N
    <2>3. began' \in [Replicas -> 0..N]  BY <1>0, <2>1, <2>2
    <2> QED  BY <1>0, <1>a, <1>k, <2>1, <2>3
<1>3. ASSUME NEW r \in Replicas, PopStep(r) PROVE TypeOK'
    <2>1. log' = log /\ UNCHANGED replicaVars
        BY <1>3 DEF PopStep, PopRead, write_checkpoint
    <2> QED  BY <1>0, <1>k, <2>1 DEF replicaVars
<1>4. ASSUME NEW r \in Replicas, Apply(r) PROVE TypeOK'
    <2> DEFINE n == consumer_offset[r]
    <2>1. /\ log' = log /\ try_acquire(r) /\ trades' = trades /\ began' = began
          /\ book' = [book EXCEPT ![r] = BookAfter(book[r], n, log[n])]
          /\ pending' = [pending EXCEPT ![r] =
                            IF active'[r] THEN TradesOf(book[r], n, log[n]) ELSE << >>]
        BY <1>4 DEF Apply, Promote, Fed, PopReturn
    <2>2. n \in 1..N /\ log[n] \in Nat
        <3>1. n \in 1..N  BY <1>4, ApplyFacts DEF N
        <3>2. log \in Seq(Orders) /\ n \in 1..Len(log)  BY <3>1, <1>0 DEF N
        <3>3. log[n] \in Orders  BY <3>2
        <3> QED  BY Zenon, <3>1, <3>3, ReplicaAssumption
    <2>3. book[r] \in Seq(1..N)  BY <1>0 DEF B
    <2> HIDE DEF n
    <2>4. BookAfter(book[r], n, log[n]) \in B /\ TradesOf(book[r], n, log[n]) \in P
        BY Zenon, <1>0, <2>2, <2>3 DEF B, P, ReplayLaws, BookTyped
    <2>5. book' \in [Replicas -> B] /\ pending' \in [Replicas -> P]
        BY <1>0, <1>e, <2>1, <2>4
    <2> QED  BY <1>0, <1>a, <1>k, <2>1, <2>5
<1>5. ASSUME NEW r \in Replicas, Publish(r) PROVE TypeOK'
    <2>1. /\ UNCHANGED <<log, holder, active, book, began>>
          /\ pending' = [pending EXCEPT ![r] = Tail(pending[r])] /\ pending[r] # << >>
          /\ trades' = Append(trades, Head(pending[r]))
        BY <1>5 DEF Publish, publish, queueVars
    <2>2. pending[r] \in P  BY <1>0
    <2>3. Head(pending[r]) \in (1..N) \X (1..N) /\ Tail(pending[r]) \in P
        BY <2>1, <2>2 DEF P
    <2>4. trades' \in P  BY <1>0, <2>1, <2>3 DEF P
    <2> QED  BY <1>0, <1>k, <2>1, <2>3, <2>4
<1>6. ASSUME NEW r \in Replicas, Finish(r) PROVE TypeOK'
    BY <1>6, <1>x DEF Finish, PopFalse
<1>7. ASSUME NEW r \in Replicas, Interrupt(r) PROVE TypeOK'
    <2>1. log' = log /\ UNCHANGED replicaVars  BY <1>7 DEF Interrupt, shutdown
    <2> QED  BY <1>0, <1>k, <2>1 DEF replicaVars
<1>8. ASSUME NEW r \in Replicas, Crash(r) PROVE TypeOK'
    BY <1>8, <1>x DEF Crash, Kill
<1>9. CASE UNCHANGED vars
    BY Zenon, <1>9, <1>0, <1>k DEF vars, queueVars, replicaVars
<1> QED
    BY <1>1, <1>2, <1>3, <1>4, <1>5, <1>6, <1>7, <1>8, <1>9 DEF Next, Run

\* A replica that the step is not of stays as it was, though the log may grow.
LEMMA LifeKept ==
    ASSUME TypeOK, QueueInv, NEW r \in Replicas, Same(r), LifeInv(r),
           log' = log \/ \E o \in Orders : log' = Append(log, o)
    PROVE  LifeInv(r)'
<1>1. Position(r) \in 0..Len(log) /\ log \in Seq(Orders)
    BY PositionType DEF QueueInv, ConsumerInv, QueueTypeOK, Replicas
<1>2. ASSUME NEW k \in 0..Position(r)
      PROVE  MatchOf(log', k, Position(r)) = MatchOf(log, k, Position(r))
    <2>1. CASE log' = log  BY Zenon, <2>1
    <2>2. ASSUME NEW o \in Orders, log' = Append(log, o)
          PROVE  MatchOf(log', k, Position(r)) = MatchOf(log, k, Position(r))
        BY Zenon, <1>1, <1>2, <2>2, MatchStable
    <2> QED  BY Zenon, <2>1, <2>2
<1>3. Position(r)' = Position(r) /\ (Running(r)' <=> Running(r))  BY SamePosition
<1>4. Running(r) => began[r] \in 0..Position(r)
    BY <1>1 DEF TypeOK, LifeInv
<1> QED  BY <1>2, <1>3, <1>4 DEF Same, LifeInv

\* Every step keeps every replica's book the one its log position asks for.
LEMMA ReplicaInvStep ==
    ASSUME ReplayLaws, ReplicaInv, QueueInv, QueueInv', [Next]_vars PROVE ReplicaInv'
<1>t. TypeOK /\ TypeOK'  BY ReplicaTypeStep DEF ReplicaInv
<1> SUFFICES ASSUME NEW s \in Replicas PROVE LifeInv(s)'
    BY <1>t DEF ReplicaInv
<1>s. /\ starts[s] \in Nat /\ starts'[s] \in Nat /\ LifeInv(s) /\ checkpoint[s] \in Nat
      /\ began[s] \in Nat
    BY <1>t, LogAssumption DEF TypeOK, QueueTypeOK, ReplicaInv, Replicas
<1>1. CASE Idle
    <2>1. Same(s) /\ (log' = log \/ \E o \in Orders : log' = Append(log, o))
        BY Zenon, <1>1, IdleFacts
    <2> QED  BY <1>s, <1>t, <2>1, LifeKept
<1>2. ASSUME NEW r \in Replicas, StepOf(r), s # r PROVE LifeInv(s)'
    BY Zenon, <1>2, <1>s, <1>t, OthersSame, LifeKept
<1>3. CASE Start(s)
    <2>1. /\ book'[s] = book[s] /\ pending'[s] = pending[s] /\ log' = log
          /\ qpc[s] = "down" /\ qpc'[s] = "poll" /\ starts'[s] = starts[s] + 1
          /\ Position(s)' = Position(s) /\ began'[s] = checkpoint[s]
        BY Zenon, <1>3, <1>t, StartFacts
    <2>2. book[s] = << >> /\ (starts[s] = 0 => checkpoint[s] = 0)
        BY <1>s, <2>1 DEF LifeInv, Running
    <2>3. Position(s) = checkpoint[s]  BY <2>1 DEF Position
    <2>4. MatchOf(log, checkpoint[s], checkpoint[s]).book = << >>
        BY <1>s, MatchNone DEF NoOrders
    <2>5. Running(s)' /\ starts'[s] # 0  BY <1>s, <2>1 DEF Running
    <2>6. starts'[s] = 1 => starts[s] = 0  BY <1>s, <2>1
    <2> QED  BY <1>s, <2>1, <2>2, <2>3, <2>4, <2>5, <2>6 DEF LifeInv
<1>4. CASE PopStep(s)
    <2>1. /\ book'[s] = book[s] /\ pending'[s] = << >> /\ log' = log
          /\ starts'[s] = starts[s] /\ Running(s) /\ Running(s)'
          /\ Position(s)' = Position(s) /\ began'[s] = began[s]
        BY <1>4, <1>t, PopStepFacts
    <2> QED  BY <1>s, <2>1 DEF LifeInv
<1>5. CASE Apply(s)
    <2> DEFINE n == consumer_offset[s]
    <2>1. /\ log' = log /\ starts'[s] = starts[s] /\ checkpoint'[s] = checkpoint[s]
          /\ qpc[s] = "return" /\ qpc'[s] = "poll" /\ began'[s] = began[s]
          /\ n \in 1..Len(log) /\ Position(s) = n - 1 /\ Position(s)' = n
          /\ book'[s] = BookAfter(book[s], n, log[n])
        BY <1>5, <1>t, ApplyFacts
    <2>2. log \in Seq(Orders) /\ began[s] \in Nat
        BY Zenon, <1>s, <1>t DEF TypeOK, QueueTypeOK
    <2>5. Running(s) /\ Running(s)'  BY <2>1 DEF Running
    <2> HIDE DEF n
    <2> DEFINE k == began[s]
    <2>6. /\ k <= n - 1 /\ book[s] = MatchOf(log, k, n - 1).book
          /\ starts[s] = 1 => k = 0
          /\ starts[s] > 0 /\ (starts[s] = 0 => checkpoint[s] = 0)
        BY Zenon, <1>s, <2>1, <2>5 DEF LifeInv
    <2> HIDE DEF k
    <2>3. MatchOf(log, k, n) = Replayed(MatchOf(log, k, n - 1), n, log[n])
        <3>1. n - 1 \in Nat /\ n - 1 < Len(log) /\ (n - 1) + 1 = n  BY <2>1, <2>2
        <3>2. k \in 0..(n - 1)  BY <2>2, <2>6, <3>1 DEF k
        <3> QED  BY <2>2, <3>1, <3>2, MatchNext
    <2>4. MatchOf(log, k, n).book = BookAfter(MatchOf(log, k, n - 1).book, n, log[n])
        BY <2>3 DEF Replayed
    <2>7. k <= n  BY <2>1, <2>2, <2>6 DEF k
    <2> QED  BY Zenon, <2>1, <2>4, <2>5, <2>6, <2>7 DEF LifeInv, k
<1>6. CASE Publish(s)
    <2>1. /\ UNCHANGED <<log, book, starts, checkpoint, qpc, began>>
          /\ pending[s] # << >> /\ Position(s)' = Position(s)
        BY <1>6, <1>t, PublishFacts
    <2> QED  BY Zenon, <1>s, <2>1 DEF LifeInv, Running
<1>7. CASE Finish(s) \/ Crash(s)
    <2>1. /\ starts'[s] = starts[s] /\ book'[s] = << >> /\ pending'[s] = << >>
          /\ Running(s) /\ qpc'[s] = "down"
        BY <1>7, <1>t, FinishFacts, CrashFacts DEF Running
    <2> QED  BY <1>s, <2>1 DEF LifeInv, Running
<1> QED
    BY <1>1, <1>2, <1>3, <1>4, <1>5, <1>6, <1>7, StepOrIdle DEF StepOf

\* Before anyone has ended, the first replica that was started is the active one,
\* so that without one there is no trade.
ExactAt(r) == active[r] => trades \o pending[r] = MatchOf(log, 0, Position(r)).trades

ExactInv ==
    NobodyEnded =>
        /\ holder = NoReplica => trades = << >> /\ \A r \in Replicas : ~Running(r)
        /\ \A r \in Replicas : ExactAt(r)

\* Nothing is published before the first start.
LEMMA ExactInvInit == InitReplicas => ExactInv
<1> SUFFICES ASSUME InitReplicas PROVE ExactInv  BY Zenon
<1> QED  BY DEF InitReplicas, InitQueue, ExactInv, ExactAt, Running, Replicas

\* A replica that the step is not of is as far with the trade log as it was.
LEMMA ExactKept ==
    ASSUME TypeOK, QueueInv, NEW r \in Replicas, Same(r), ExactAt(r), trades' = trades,
           log' = log \/ \E o \in Orders : log' = Append(log, o)
    PROVE  ExactAt(r)'
<1>1. Position(r) \in 0..Len(log) /\ log \in Seq(Orders)
    BY PositionType DEF QueueInv, ConsumerInv, QueueTypeOK, Replicas
<1>0. 0 \in 0..Position(r)  BY <1>1
<1>2. MatchOf(log', 0, Position(r)) = MatchOf(log, 0, Position(r))
    <2>1. CASE log' = log  BY Zenon, <2>1
    <2>2. ASSUME NEW o \in Orders, log' = Append(log, o)
          PROVE  MatchOf(log', 0, Position(r)) = MatchOf(log, 0, Position(r))
        BY Zenon, <1>0, <1>1, <2>2, MatchStable
    <2> QED  BY Zenon, <2>1, <2>2
<1>3. Position(r)' = Position(r)  BY SamePosition
<1> QED  BY <1>2, <1>3 DEF Same, ExactAt

\* Every step keeps the trade log exact as long as nobody has ended.
LEMMA ExactInvStep ==
    ASSUME ReplayLaws, ReplicaInv, QueueInv, LeaderInv, ExactInv, [Next]_vars PROVE ExactInv'
<1>t. TypeOK /\ OneActive  BY DEF ReplicaInv, LeaderInv
<1>o. \A s \in Replicas : /\ active[s] <=> holder = s
                          /\ active[s] => Running(s)
                          /\ pending[s] # << >> => active[s]
    BY <1>t DEF OneActive
<1>s. \A s \in Replicas : starts[s] \in Nat /\ LifeInv(s)
    BY <1>t, LogAssumption DEF TypeOK, QueueTypeOK, ReplicaInv, Replicas
<1> SUFFICES ASSUME NobodyEnded'
             PROVE  /\ holder' = NoReplica =>
                          trades' = << >> /\ \A r \in Replicas : ~Running(r)'
                    /\ \A r \in Replicas : ExactAt(r)'
    BY DEF ExactInv
<1>e. \A s \in Replicas : starts'[s] = IF Running(s)' THEN 1 ELSE 0
    BY DEF NobodyEnded
\* A step in which nobody starts or ends.
<1>b. ASSUME \A s \in Replicas : starts'[s] = starts[s] /\ (Running(s)' <=> Running(s))
      PROVE  /\ NobodyEnded /\ \A s \in Replicas : ExactAt(s)
             /\ holder = NoReplica => trades = << >> /\ \A r \in Replicas : ~Running(r)
    <2>1. NobodyEnded  BY <1>b, <1>e DEF NobodyEnded
    <2> QED  BY <2>1 DEF ExactInv
<1>1. CASE Idle
    <2>1. /\ \A s \in Replicas : Same(s)
          /\ log' = log \/ \E o \in Orders : log' = Append(log, o)
          /\ UNCHANGED <<holder, trades>>
        BY <1>1, IdleFacts
    <2>2. \A s \in Replicas : starts'[s] = starts[s] /\ (Running(s)' <=> Running(s))
        BY Zenon, <2>1, SamePosition DEF Same
    <2>3. \A s \in Replicas : ExactAt(s)'  BY <1>b, <1>t, <2>1, <2>2, ExactKept
    <2> QED  BY <1>b, <2>1, <2>2, <2>3
<1>n. ASSUME NEW r \in Replicas, StepOf(r), trades' = trades, \A s \in Replicas : ExactAt(s),
             ExactAt(r)'
      PROVE  \A s \in Replicas : ExactAt(s)'
    <2>1. log' = log /\ \A s \in Replicas : s # r => Same(s)  BY <1>n, <1>t, OthersSame
    <2>2. ASSUME NEW s \in Replicas, s # r PROVE ExactAt(s)'
        BY <1>n, <1>t, <2>1, <2>2, ExactKept
    <2> QED  BY <1>n, <2>2
<1>m. ASSUME NEW r \in Replicas, StepOf(r)
      PROVE  \A s \in Replicas : s # r => starts'[s] = starts[s] /\ (Running(s)' <=> Running(s))
    BY Zenon, <1>m, <1>t, OthersSame, SamePosition DEF Same
<1>2. ASSUME NEW r \in Replicas, Start(r)
      PROVE  holder' # NoReplica /\ \A s \in Replicas : ExactAt(s)'
    <2>0. StepOf(r)  BY <1>2 DEF StepOf
    <2>1. /\ UNCHANGED <<log, pending, trades>>
          /\ qpc[r] = "down" /\ qpc'[r] = "poll" /\ starts'[r] = starts[r] + 1
          /\ Position(r)' = Position(r) /\ try_acquire(r)
        BY <1>2, <1>t, StartFacts
    <2>2. ~Running(r) /\ Running(r)' /\ starts[r] = 0
        BY <1>e, <1>s, <2>1 DEF Running
    <2>3. NobodyEnded  BY <1>e, <1>m, <2>0, <2>2 DEF NobodyEnded
    <2>4. /\ holder = NoReplica => trades = << >>
          /\ \A s \in Replicas : ExactAt(s)
        BY <2>3 DEF ExactInv
    <2>5. ~active[r] /\ pending[r] = << >>  BY <1>o, <2>2
    <2>6. /\ active' = [active EXCEPT ![r] = holder = NoReplica]
          /\ holder' = IF holder = NoReplica THEN r ELSE holder
        BY Zenon, <2>1, <2>5 DEF try_acquire
    <2>7. holder' # NoReplica  BY Zenon, <2>6, ReplicaAssumption DEF Replicas
    <2>8. ExactAt(r)'
        <3>1. active'[r] <=> holder = NoReplica  BY Zenon, <2>6, <1>t DEF TypeOK
        <3>2. Position(r) = 0  BY <1>s, <2>1, <2>2 DEF Position, LifeInv
        <3>3. MatchOf(log, 0, 0).trades = << >>  BY MatchNone DEF NoOrders
        <3> QED  BY <2>1, <2>4, <2>5, <3>1, <3>2, <3>3 DEF ExactAt
    <2> QED  BY <1>n, <2>0, <2>1, <2>4, <2>7, <2>8
<1>3. ASSUME NEW r \in Replicas, PopStep(r)
      PROVE  holder' # NoReplica /\ \A s \in Replicas : ExactAt(s)'
    <2>0. StepOf(r)  BY <1>3 DEF StepOf
    <2>1. /\ UNCHANGED <<log, starts, holder, active, pending, trades>>
          /\ Running(r) /\ Running(r)' /\ Position(r)' = Position(r)
        BY <1>3, <1>t, PopStepFacts
    <2>2. holder # NoReplica /\ \A s \in Replicas : ExactAt(s)
        BY <1>b, <1>m, <2>0, <2>1
    <2>3. ExactAt(r)'  BY Zenon, <2>1, <2>2 DEF ExactAt
    <2> QED  BY <1>n, <2>0, <2>1, <2>2, <2>3
<1>4. ASSUME NEW r \in Replicas, Apply(r)
      PROVE  holder' # NoReplica /\ \A s \in Replicas : ExactAt(s)'
    <2> DEFINE n == consumer_offset[r]
    <2>0. StepOf(r)  BY Zenon, <1>4 DEF StepOf
    <2>1. /\ UNCHANGED <<log, starts, trades>>
          /\ qpc[r] = "return" /\ qpc'[r] = "poll"
          /\ n \in 1..Len(log) /\ Position(r) = n - 1 /\ Position(r)' = n
          /\ pending'[r] = (IF active'[r] THEN TradesOf(book[r], n, log[n]) ELSE << >>)
          /\ try_acquire(r)
        BY Zenon, <1>4, <1>t, ApplyFacts
    <2>2. Running(r) /\ Running(r)'  BY <2>1 DEF Running
    <2>3. /\ holder # NoReplica /\ NobodyEnded /\ \A s \in Replicas : ExactAt(s)
        BY Zenon, <1>b, <1>m, <2>0, <2>1, <2>2
    <2>4. active' = [active EXCEPT ![r] = active[r]] /\ holder' = IF active[r] THEN r ELSE holder
        BY Zenon, <2>1, <2>3, <1>t DEF try_acquire, TypeOK
    <2>5. active'[r] = active[r] /\ holder' # NoReplica
        BY <1>t, <2>3, <2>4, ReplicaAssumption DEF TypeOK, Replicas
    <2>6. ExactAt(r)'
        <3> SUFFICES ASSUME active[r] PROVE trades \o pending'[r] = MatchOf(log, 0, n).trades
            BY Zenon, <2>1, <2>5 DEF ExactAt
        <3>1. starts[r] = 1 /\ pending[r] = << >> /\ book[r] = MatchOf(log, 0, n - 1).book
            BY <1>s, <2>1, <2>2, <2>3 DEF LifeInv, NobodyEnded
        <3>2. trades \o << >> = MatchOf(log, 0, n - 1).trades
            BY Zenon, <2>1, <2>3, <3>1 DEF ExactAt
        <3>3. trades = MatchOf(log, 0, n - 1).trades  BY <3>2, <1>t DEF TypeOK
        <3>4. log \in Seq(Orders)  BY <1>t DEF TypeOK, QueueTypeOK
        <3>5. pending'[r] = TradesOf(book[r], n, log[n])  BY <2>1, <2>5
        <3> HIDE DEF n
        <3>6. MatchOf(log, 0, n) = Replayed(MatchOf(log, 0, n - 1), n, log[n])
            <4>1. n - 1 \in Nat /\ n - 1 < Len(log) /\ (n - 1) + 1 = n /\ 0 \in 0..(n - 1)
                BY <2>1, <3>4
            <4> QED  BY <3>4, <4>1, MatchNext
        <3> DEFINE m == MatchOf(log, 0, n - 1)
        <3>7. MatchOf(log, 0, n).trades = m.trades \o TradesOf(m.book, n, log[n])
            BY Zenon, <3>6, MatchTrades
        <3>8. book[r] = m.book /\ trades = m.trades  BY <3>1, <3>3
        <3> HIDE DEF m
        <3> QED  BY <3>5, <3>7, <3>8, Zenon
    <2> QED  BY <1>n, <2>0, <2>1, <2>3, <2>5, <2>6
<1>5. ASSUME NEW r \in Replicas, Publish(r)
      PROVE  holder' # NoReplica /\ \A s \in Replicas : ExactAt(s)'
    <2>0. StepOf(r)  BY Zenon, <1>5 DEF StepOf
    <2>1. /\ UNCHANGED <<log, qpc, starts, holder, active>>
          /\ Running(r) /\ pending[r] # << >> /\ Position(r)' = Position(r)
          /\ trades' = Append(trades, Head(pending[r])) /\ pending'[r] = Tail(pending[r])
        BY <1>5, <1>t, PublishFacts
    <2>2. holder = r /\ active[r] /\ \A s \in Replicas : s # r => ~active[s]
        BY <1>o, <2>1
    <2>3. \A s \in Replicas : ExactAt(s)  BY <1>b, <2>1 DEF Running
    <2>4. trades' \o pending'[r] = trades \o pending[r]
        <3> DEFINE T == (1..Len(log)) \X (1..Len(log))
                   p == pending[r]
        <3>1. p \in Seq(T) /\ trades \in Seq(T) /\ p # << >>  BY <1>t, <2>1 DEF TypeOK
        <3> HIDE DEF T, p
        <3>2. Append(trades, Head(p)) \o Tail(p) = trades \o p  BY <3>1
        <3> QED  BY Zenon, <2>1, <3>2 DEF p
    <2>5. ASSUME NEW s \in Replicas PROVE ExactAt(s)'
        BY Zenon, <2>1, <2>2, <2>3, <2>4 DEF ExactAt
    <2> QED  BY <2>1, <2>2, <2>5, ReplicaAssumption DEF Replicas
<1>6. ASSUME NEW r \in Replicas, Finish(r) \/ Crash(r) PROVE FALSE
    <2>1. starts'[r] = starts[r] /\ Running(r) /\ ~Running(r)'
        BY Zenon, <1>6, <1>t, FinishFacts, CrashFacts DEF Running
    <2>2. starts[r] > 0  BY <1>s, <2>1 DEF LifeInv
    <2> QED  BY <1>e, <1>s, <2>1, <2>2
<1> QED
    BY <1>1, <1>2, <1>3, <1>4, <1>5, <1>6, StepOrIdle DEF StepOf

-----------------------------------------------------------------------------
\* Which life published each trade: the same trade never twice in one life,
\* and the present life of a replica only trades of orders it is past, none of
\* them in its hands.
ByPresentLife(life, i, r) ==
    life[i] = <<r, crashes[r]>> =>
        /\ trades[i][2] <= Position(r)
        /\ \A j \in 1..Len(pending[r]) : trades[i] # pending[r][j]

Published(life) ==
    /\ \A i, j \in 1..Len(trades) : trades[i] = trades[j] /\ life[i] = life[j] => i = j
    /\ \A i \in 1..Len(trades), r \in Replicas : ByPresentLife(life, i, r)

\* The trades in a replica's hands are those of the order it has applied last,
\* each once, as no order rests twice in its book.
HandInv(r) ==
    /\ \A i \in 1..Len(book[r]) : book[r][i] <= Position(r)
    /\ \A i, j \in 1..Len(book[r]) : i < j => book[r][i] < book[r][j]
    /\ \A i \in 1..Len(pending[r]) : pending[r][i][2] = consumer_offset[r]
    /\ \A i, j \in 1..Len(pending[r]) : i # j => pending[r][i] # pending[r][j]

Started == {r \in Replicas : starts[r] > 0}

DuplicateInv ==
    /\ IsFiniteSet(Started)
    /\ \A r \in Replicas : HandInv(r)
    /\ \E life \in [1..Len(trades) -> Lives] : Published(life)

\* Nobody has a life yet.
LEMMA DuplicateInvInit ==
    ASSUME CountLaws, InitReplicas PROVE DuplicateInv
<1>1. Started = {}  BY DEF InitReplicas, InitQueue, Started, Replicas
<1>2. IsFiniteSet(Started)  BY <1>1 DEF CountLaws, CountEmpty
<1>3. ASSUME NEW r \in Replicas PROVE HandInv(r)
    <2>1. book[r] = << >> /\ pending[r] = << >>  BY DEF InitReplicas
    <2> QED  BY <2>1 DEF HandInv
<1>4. [i \in 1..0 |-> 0] \in [1..Len(trades) -> Lives] /\ Published([i \in 1..0 |-> 0])
    <2>1. trades = << >>  BY DEF InitReplicas
    <2>2. Len(trades) = 0  BY <2>1
    <2> QED  BY <2>2 DEF Published
<1> QED  BY Zenon, <1>2, <1>3, <1>4 DEF DuplicateInv

\* A kill or a start takes no life away.
LEMMA LivesGrow ==
    ASSUME TypeOK,
           \A r \in Replicas : starts[r] > 0 => starts'[r] > 0,
           \A r \in Replicas : crashes[r] <= crashes'[r] /\ crashes'[r] \in Nat
    PROVE  Lives \subseteq Lives'
<1> SUFFICES ASSUME NEW l \in Lives PROVE l \in Lives'  OBVIOUS
<1>1. /\ l \in Replicas \X (0..MaxCrashes) /\ l[1] \in Replicas /\ l[2] \in Nat
      /\ starts[l[1]] > 0 /\ l[2] <= crashes[l[1]] /\ crashes[l[1]] \in Nat
    BY LogAssumption DEF Lives, TypeOK, QueueTypeOK, Replicas
<1>2. starts'[l[1]] > 0 /\ l[2] <= crashes'[l[1]]  BY <1>1
<1> QED  BY <1>1, <1>2 DEF Lives

\* A replica that the step is not of holds the same trades.
LEMMA HandKept ==
    ASSUME NEW r \in Replicas, HandInv(r), Same(r) PROVE HandInv(r)'
<1>1. Position(r)' = Position(r)  BY SamePosition
<1> QED  BY <1>1 DEF Same, HandInv

\* Every step keeps what is known of the trades in hand.
LEMMA HandStep ==
    ASSUME ReplayLaws, ReplicaInv, QueueInv, [Next]_vars, NEW s \in Replicas, HandInv(s)
    PROVE  HandInv(s)'
<1>t. TypeOK /\ LifeInv(s)  BY Zenon DEF ReplicaInv
<1>e. ASSUME book'[s] = << >>, pending'[s] = << >> PROVE HandInv(s)'
    BY <1>e DEF HandInv
<1>1. CASE Idle  BY <1>1, HandKept, IdleFacts
<1>2. ASSUME NEW r \in Replicas, StepOf(r), s # r PROVE HandInv(s)'
    BY <1>2, <1>t, OthersSame, HandKept
<1>3. CASE Start(s)
    <2>1. book'[s] = book[s] /\ pending'[s] = pending[s] /\ qpc[s] = "down"
        BY <1>3, <1>t, StartFacts
    <2>2. book[s] = << >> /\ pending[s] = << >>
        BY <1>t, <2>1 DEF LifeInv, Running
    <2> QED  BY Zenon, <1>e, <2>1, <2>2
<1>4. CASE PopStep(s)
    <2>1. /\ book'[s] = book[s] /\ pending'[s] = << >> /\ Position(s)' = Position(s)
        BY Zenon, <1>4, <1>t, PopStepFacts
    <2> QED  BY <2>1 DEF HandInv
<1>5. CASE Apply(s)
    <2>0. PICK n, b : n = consumer_offset[s] /\ b = book[s]  OBVIOUS
    <2>1. /\ consumer_offset'[s] = n
          /\ n \in 1..Len(log) /\ Position(s) = n - 1 /\ Position(s)' = n
          /\ book'[s] = BookAfter(b, n, log[n])
          /\ pending'[s] = (IF active'[s] THEN TradesOf(b, n, log[n]) ELSE << >>)
        BY Zenon, <1>5, <1>t, <2>0, ApplyFacts
    <2>2. b \in Seq(1..Len(log)) /\ log \in Seq(Orders) /\ Len(log) \in Nat /\ n \in Nat
        <3>1. n \in Nat  BY <2>1
        <3>2. b \in Seq(1..Len(log)) /\ log \in Seq(Orders)
            BY <1>t, <2>0 DEF TypeOK, QueueTypeOK
        <3> QED  BY <3>1, <3>2
    <2>3. PICK q \in Nat : q = log[n]
        <3>1. log[n] \in Orders  BY <2>1, <2>2
        <3> QED  BY Zenon, <3>1, ReplicaAssumption
    <2>4. b \in Seq(Nat)
        <3>1. 1..Len(log) \subseteq Nat  OBVIOUS
        <3> QED  BY <2>2, <3>1
    <2>5. /\ \A i \in 1..Len(b) : b[i] <= n - 1
          /\ \A i, j \in 1..Len(b) : i < j => b[i] < b[j]
        BY <2>0, <2>1 DEF HandInv
    <2>6. \A i \in 1..Len(b) : b[i] < n  BY <2>2, <2>4, <2>5
    <2>7. PICK c, t : c = BookAfter(b, n, q) /\ t = TradesOf(b, n, q)  OBVIOUS
    <2>i. Increasing(b)  BY Zenon, <2>5 DEF Increasing
    <2>8. /\ \A i \in 1..Len(c) : c[i] <= n
          /\ \A i, j \in 1..Len(c) : i < j => c[i] < c[j]
        BY Zenon, <2>2, <2>3, <2>4, <2>6, <2>7, <2>i DEF ReplayLaws, BookIncreasing, Increasing
    <2>9. OneOrders(t, n)  BY Zenon, <2>2, <2>3, <2>4, <2>7, <2>i, TradesOfOne
    <2>10. book'[s] = c /\ (pending'[s] = t \/ pending'[s] = << >>)
        BY Zenon, <2>1, <2>3, <2>7
    <2>11. /\ \A i \in 1..Len(pending'[s]) : pending'[s][i][2] = n
           /\ \A i, j \in 1..Len(pending'[s]) : i # j => pending'[s][i] # pending'[s][j]
        BY <2>9, <2>10 DEF OneOrders
    <2> QED  BY <2>1, <2>8, <2>10, <2>11 DEF HandInv
<1>6. CASE Publish(s)
    <2>0. PICK p, u, k : p = pending[s] /\ u = Tail(p) /\ k = Len(p)  BY Zenon
    <2>1. /\ UNCHANGED <<book, consumer_offset>> /\ Position(s)' = Position(s)
          /\ p # << >> /\ pending'[s] = u
        BY <1>6, <1>t, <2>0, PublishFacts
    <2>2. p \in Seq((1..Len(log)) \X (1..Len(log)))  BY Zenon, <1>t, <2>0 DEF TypeOK
    <2>3. /\ \A i \in 1..k : p[i][2] = consumer_offset[s]
          /\ \A i, j \in 1..k : i # j => p[i] # p[j]
        BY <2>0 DEF HandInv
    <2>4. k \in Nat /\ Len(u) = k - 1 /\ \A i \in 1..Len(u) : i + 1 \in 1..k /\ u[i] = p[i + 1]
        <3>1. p # << >>  BY <2>1
        <3>2. k \in Nat /\ Len(u) = k - 1 /\ \A i \in 1..(k - 1) : u[i] = p[i + 1]
            BY <2>0, <2>2, <3>1
        <3> QED  BY <3>2
    <2>5. \A i \in 1..Len(u) : u[i][2] = consumer_offset[s]  BY <2>3, <2>4
    <2>6. ASSUME NEW i \in 1..Len(u), NEW j \in 1..Len(u), i # j PROVE u[i] # u[j]
        <3>1. i + 1 \in 1..k /\ j + 1 \in 1..k /\ i + 1 # j + 1  BY <2>4, <2>6
        <3> QED  BY <2>3, <2>4, <3>1
    <2> QED  BY Zenon, <2>1, <2>5, <2>6 DEF HandInv
<1>7. CASE Finish(s) \/ Crash(s)  BY <1>7, <1>e, <1>t, FinishFacts, CrashFacts
<1> QED
    BY <1>1, <1>2, <1>3, <1>4, <1>5, <1>6, <1>7, StepOrIdle DEF StepOf

\* A step that publishes nothing and gives no present life more than it had.
LEMMA PublishedKept ==
    ASSUME NEW life \in [1..Len(trades) -> Lives], Published(life), trades' = trades,
           Lives \subseteq Lives',
           \A i \in 1..Len(trades), r \in Replicas : ByPresentLife(life, i, r)'
    PROVE  \E l \in [1..Len(trades) -> Lives]' : Published(l)'
<1>1. life \in [1..Len(trades) -> Lives]'  OBVIOUS
<1>2. Published(life)'  BY DEF Published
<1> QED  BY <1>1, <1>2

\* A replica that the step is not of has the same present life.
LEMMA PresentKept ==
    ASSUME NEW life, NEW i, NEW r \in Replicas, Same(r), ByPresentLife(life, i, r),
           trades'[i] = trades[i]
    PROVE  ByPresentLife(life, i, r)'
<1>1. Position(r)' = Position(r)  BY SamePosition
<1> QED  BY <1>1 DEF Same, ByPresentLife

\* A trade is added by the present life of the replica that holds it.
LEMMA PublishedMore ==
    ASSUME ReplicaInv, QueueInv, NEW r \in Replicas, Publish(r), HandInv(r),
           NEW life \in [1..Len(trades) -> Lives], Published(life)
    PROVE  \E l \in [1..Len(trades) -> Lives]' : Published(l)'
<1> DEFINE k == Len(trades)
           p == pending[r]
           L == <<r, crashes[r]>>
<1>t. TypeOK /\ LifeInv(r)  BY DEF ReplicaInv
<1>o. \A s \in Replicas : s # r => Same(s)  BY Zenon, <1>t, OthersSame DEF StepOf
<1>1. /\ UNCHANGED <<starts, crashes>>
      /\ Running(r) /\ p # << >> /\ Position(r)' = Position(r)
      /\ trades' = Append(trades, Head(p)) /\ pending'[r] = Tail(p)
    BY <1>t, PublishFacts
<1>2. /\ trades \in Seq((1..Len(log)) \X (1..Len(log)))
      /\ p \in Seq((1..Len(log)) \X (1..Len(log)))
    BY Zenon, <1>t DEF TypeOK
<1>3. L \in Lives /\ Lives' = Lives
    <2>1. starts[r] > 0  BY Zenon, <1>1, <1>t DEF LifeInv
    <2>2. crashes[r] \in 0..MaxCrashes  BY <1>t DEF TypeOK, QueueTypeOK, Replicas
    <2> QED  BY <1>1, <2>1, <2>2, LogAssumption DEF Lives
<1>4. /\ \A i \in 1..Len(p) : p[i][2] = consumer_offset[r]
      /\ \A i, j \in 1..Len(p) : i # j => p[i] # p[j]
    BY Zenon DEF HandInv
<1>5. consumer_offset[r] = Position(r) /\ Position(r) \in Nat
    BY <1>1, <1>t DEF LifeInv, Position, TypeOK, QueueTypeOK, Replicas
<1>6. /\ k \in Nat /\ Len(trades') = k + 1 /\ trades'[k + 1] = p[1]
      /\ \A i \in 1..k : trades'[i] = trades[i]
      /\ 1 \in 1..Len(p) /\ Len(Tail(p)) = Len(p) - 1 /\ Len(p) \in Nat
      /\ \A i \in 1..(Len(p) - 1) : Tail(p)[i] = p[i + 1]
    BY <1>1, <1>2
<1>7. /\ \A i, j \in 1..k : trades[i] = trades[j] /\ life[i] = life[j] => i = j
      /\ \A i \in 1..k, s \in Replicas : ByPresentLife(life, i, s)
    BY DEF Published
<1> HIDE DEF k, p
<1>8. \A i \in 1..k : life[i] = L => trades[i] # p[1] /\ trades[i][2] <= Position(r)
                         /\ \A j \in 1..Len(p) : trades[i] # p[j]
    BY Zenon, <1>6, <1>7 DEF ByPresentLife, p
<1>9. life \in [1..k -> Lives]  BY DEF k
<1> HIDE DEF L
<1>10. PICK l \in [1..(k + 1) -> Lives] : l[k + 1] = L /\ \A i \in 1..k : l[i] = life[i]
    <2> DEFINE m == [i \in 1..(k + 1) |-> IF i = k + 1 THEN L ELSE life[i]]
    <2>1. m \in [1..(k + 1) -> Lives]  BY <1>3, <1>6, <1>9
    <2>2. m[k + 1] = L /\ \A i \in 1..k : m[i] = life[i]  BY <1>6
    <2> QED  BY Zenon, <2>1, <2>2
<1>11. l[k + 1] = L /\ \A i \in 1..k : l[i] = life[i]  BY Zenon, <1>10
<1>s. \A i \in 1..(k + 1) : i \in 1..k \/ i = k + 1  BY <1>6
<1>12. ASSUME NEW i \in 1..(k + 1), NEW j \in 1..(k + 1), trades'[i] = trades'[j], l[i] = l[j]
       PROVE  i = j
    <2>1. CASE i = k + 1 /\ j \in 1..k  BY <1>6, <1>8, <1>11, <1>12, <2>1
    <2>2. CASE j = k + 1 /\ i \in 1..k  BY Zenon, <1>6, <1>8, <1>11, <1>12, <2>2
    <2>3. CASE i \in 1..k /\ j \in 1..k  BY <1>6, <1>7, <1>11, <1>12, <2>3
    <2>4. CASE i = k + 1 /\ j = k + 1  BY <2>4
    <2> QED  BY Zenon, <1>s, <2>1, <2>2, <2>3, <2>4
<1>13. ASSUME NEW i \in 1..(k + 1), NEW s \in Replicas PROVE ByPresentLife(l, i, s)'
    <2>1. CASE i \in 1..k /\ s # r
        <3>1. ByPresentLife(l, i, s)  BY Zenon, <1>7, <1>11, <2>1 DEF ByPresentLife
        <3> QED  BY Zenon, <1>6, <1>o, <2>1, <3>1, PresentKept
    <2>2. CASE i = k + 1 /\ s # r
        <3>1. l[i] = <<r, crashes[r]>>  BY <1>11, <2>2 DEF L
        <3>2. l[i] # <<s, crashes'[s]>>  BY Zenon, <2>2, <3>1, PairsDiffer
        <3> QED  BY <3>2 DEF ByPresentLife
    <2>3. CASE s = r
        <3> SUFFICES ASSUME l[i] = L
                     PROVE  /\ trades'[i][2] <= Position(r)
                            /\ \A j \in 1..(Len(p) - 1) : trades'[i] # p[j + 1]
            <4>1. pending'[r] = Tail(p) /\ crashes' = crashes /\ Position(r)' = Position(r)
                BY <1>1
            <4>2. L = <<r, crashes'[r]>>  BY Zenon, <4>1 DEF L
            <4>3. \A j \in 1..Len(pending'[r]) : j \in 1..(Len(p) - 1) /\ pending'[r][j] = p[j + 1]
                BY <1>6, <4>1
            <4> QED  BY Zenon, <2>3, <4>1, <4>2, <4>3 DEF ByPresentLife
        <3>1. \A j \in 1..(Len(p) - 1) : j + 1 \in 1..Len(p) /\ j + 1 # 1  BY <1>6
        <3>2. CASE i \in 1..k  BY <1>6, <1>8, <1>11, <3>1, <3>2
        <3>3. CASE i = k + 1
            <4>1. trades'[i] = p[1] /\ p[1][2] = Position(r)  BY <1>4, <1>5, <1>6, <3>3
            <4>2. \A j \in 1..(Len(p) - 1) : p[1] # p[j + 1]  BY <1>4, <1>6, <3>1
            <4>3. trades'[i][2] <= Position(r)  BY <1>5, <4>1
            <4>4. \A j \in 1..(Len(p) - 1) : trades'[i] # p[j + 1]  BY Zenon, <4>1, <4>2
            <4> QED  BY <4>3, <4>4
        <3> QED  BY Zenon, <1>s, <3>2, <3>3
    <2> QED  BY Zenon, <1>s, <2>1, <2>2, <2>3
<1>14. l \in [1..Len(trades) -> Lives]'  BY Zenon, <1>3, <1>6, <1>10
<1>15. Published(l)'  BY <1>6, <1>12, <1>13 DEF Published
<1> QED  BY <1>14, <1>15

\* Every step keeps a publishing life for every trade.
LEMMA PublishedStep ==
    ASSUME ReplayLaws, ReplicaInv, QueueInv, [Next]_vars, \A r \in Replicas : HandInv(r),
           NEW life \in [1..Len(trades) -> Lives], Published(life)
    PROVE  \E l \in [1..Len(trades) -> Lives]' : Published(l)'
<1>t. TypeOK  BY DEF ReplicaInv
<1>n. \A r \in Replicas : starts[r] \in Nat /\ crashes[r] \in Nat
    BY <1>t, LogAssumption DEF TypeOK, QueueTypeOK, Replicas
<1>p. \A i \in 1..Len(trades), r \in Replicas : ByPresentLife(life, i, r)
    BY Zenon DEF Published
<1>1. CASE Idle
    <2>1. (\A s \in Replicas : Same(s)) /\ UNCHANGED <<trades, starts, crashes>>
        BY <1>1, IdleFacts
    <2>2. Lives' = Lives  BY <2>1 DEF Lives
    <2>3. \A i \in 1..Len(trades), s \in Replicas : ByPresentLife(life, i, s)'
        BY Zenon, <1>p, <2>1, PresentKept
    <2> QED  BY Zenon, <2>1, <2>2, <2>3, PublishedKept
\* Only r moves, publishes nothing, and what it holds or is at changes harmlessly.
<1>k. ASSUME NEW r \in Replicas, StepOf(r), trades' = trades,
             starts'[r] = starts[r] \/ starts'[r] = starts[r] + 1,
             crashes'[r] = crashes[r] \/ crashes'[r] = crashes[r] + 1,
             \A i \in 1..Len(trades) : ByPresentLife(life, i, r)'
      PROVE  \E l \in [1..Len(trades) -> Lives]' : Published(l)'
    <2>0. \A s \in Replicas : s # r => Same(s)  BY Zenon, <1>k, <1>t, OthersSame
    <2>1. ASSUME NEW s \in Replicas
          PROVE  /\ starts[s] > 0 => starts'[s] > 0
                 /\ crashes[s] <= crashes'[s] /\ crashes'[s] \in Nat
        <3>1. CASE s = r  BY <1>k, <1>n, <3>1
        <3>2. CASE s # r  BY <1>n, <2>0, <3>2 DEF Same
        <3> QED  BY Zenon, <3>1, <3>2
    <2>2. Lives \subseteq Lives'  BY <1>t, <2>1, LivesGrow
    <2>3. ASSUME NEW i \in 1..Len(trades), NEW s \in Replicas PROVE ByPresentLife(life, i, s)'
        <3>1. CASE s = r  BY <1>k, <3>1
        <3>2. CASE s # r  BY Zenon, <1>k, <1>p, <2>0, <3>2, PresentKept
        <3> QED  BY Zenon, <3>1, <3>2
    <2> QED  BY Zenon, <1>k, <2>2, <2>3, PublishedKept
<1>2. ASSUME NEW r \in Replicas, Start(r) \/ PopStep(r)
      PROVE  \E l \in [1..Len(trades) -> Lives]' : Published(l)'
    <2>0. StepOf(r)  BY <1>2 DEF StepOf
    <2>1. /\ UNCHANGED <<crashes, pending, trades>> /\ Position(r)' = Position(r)
          /\ starts'[r] = starts[r] \/ starts'[r] = starts[r] + 1
        BY Zenon, <1>2, <1>t, StartFacts, PopStepFacts
    <2>2. \A i \in 1..Len(trades) : ByPresentLife(life, i, r)'
        BY Zenon, <1>p, <2>1 DEF ByPresentLife
    <2> QED  BY Zenon, <1>k, <2>0, <2>1, <2>2
<1>3. ASSUME NEW r \in Replicas, Apply(r)
      PROVE  \E l \in [1..Len(trades) -> Lives]' : Published(l)'
    <2>0. StepOf(r)  BY <1>3 DEF StepOf
    <2>n. PICK n : n = consumer_offset[r]  OBVIOUS
    <2>1. /\ UNCHANGED <<starts, crashes, trades>>
          /\ consumer_offset'[r] = n /\ n \in 1..Len(log)
          /\ Position(r) = n - 1 /\ Position(r)' = n
        BY Zenon, <1>3, <1>t, <2>n, ApplyFacts
    <2>2. n \in Nat /\ trades \in Seq((1..Len(log)) \X (1..Len(log)))
        BY <1>t, <2>1 DEF TypeOK
    <2>h. HandInv(r)'  BY Zenon, <1>3, HandStep
    <2>3. ASSUME NEW i \in 1..Len(trades) PROVE ByPresentLife(life, i, r)'
        <3> SUFFICES ASSUME life[i] = <<r, crashes[r]>>
                     PROVE  /\ trades[i][2] <= n
                            /\ \A j \in 1..Len(pending'[r]) : trades[i] # pending'[r][j]
            BY Zenon, <2>1 DEF ByPresentLife
        <3>1. trades[i][2] <= n - 1  BY <1>p, <2>1 DEF ByPresentLife
        <3>2. trades[i][2] \in Nat
            <4>1. trades[i] \in (1..Len(log)) \X (1..Len(log))  BY <2>2
            <4> QED  BY <4>1
        <3>3. trades[i][2] < n  BY <2>2, <3>1, <3>2
        <3>4. \A j \in 1..Len(pending'[r]) : pending'[r][j][2] = n
            BY Zenon, <2>1, <2>h DEF HandInv
        <3> QED  BY <2>2, <3>2, <3>3, <3>4
    <2> QED  BY Zenon, <1>k, <2>0, <2>1, <2>3
<1>4. ASSUME NEW r \in Replicas, Publish(r)
      PROVE  \E l \in [1..Len(trades) -> Lives]' : Published(l)'
    BY Zenon, <1>4, PublishedMore
<1>5. ASSUME NEW r \in Replicas, Finish(r)
      PROVE  \E l \in [1..Len(trades) -> Lives]' : Published(l)'
    <2>0. StepOf(r)  BY <1>5 DEF StepOf
    <2>1. /\ UNCHANGED <<starts, crashes, trades>> /\ Position(r)' = Position(r)
          /\ pending'[r] = << >>
        BY Zenon, <1>5, <1>t, FinishFacts
    <2>2. \A i \in 1..Len(trades) : ByPresentLife(life, i, r)'
        BY <1>p, <2>1 DEF ByPresentLife
    <2> QED  BY Zenon, <1>k, <2>0, <2>1, <2>2
<1>6. ASSUME NEW r \in Replicas, Crash(r)
      PROVE  \E l \in [1..Len(trades) -> Lives]' : Published(l)'
    <2>0. StepOf(r)  BY <1>6 DEF StepOf
    <2>1. UNCHANGED <<starts, trades>> /\ crashes'[r] = crashes[r] + 1
        BY Zenon, <1>6, <1>t, CrashFacts
    <2>2. ASSUME NEW i \in 1..Len(trades) PROVE ByPresentLife(life, i, r)'
        <3>1. life[i] \in Lives  OBVIOUS
        <3>2. life[i] # <<r, crashes[r] + 1>>
            <4> SUFFICES ASSUME life[i] = <<r, crashes[r] + 1>> PROVE FALSE  OBVIOUS
            <4>1. crashes[r] + 1 <= crashes[r]  BY <3>1 DEF Lives
            <4> QED  BY <1>n, <4>1
        <3> QED  BY <2>1, <3>2 DEF ByPresentLife
    <2> QED  BY Zenon, <1>k, <2>0, <2>1, <2>2
<1> QED
    BY <1>1, <1>2, <1>3, <1>4, <1>5, <1>6, StepOrIdle DEF StepOf

\* A start adds one to the replicas that were started; nothing else does.
LEMMA StartedStep ==
    ASSUME CountLaws, ReplicaInv, QueueInv, [Next]_vars, IsFiniteSet(Started)
    PROVE  IsFiniteSet(Started')
<1>t. TypeOK  BY DEF ReplicaInv
<1>1. CASE Idle
    <2>1. starts' = starts  BY <1>1, IdleFacts
    <2> QED  BY <2>1 DEF Started
<1>2. ASSUME NEW r \in Replicas, StepOf(r) PROVE IsFiniteSet(Started')
    <2>1. \A s \in Replicas : s # r => starts'[s] = starts[s]
        BY Zenon, <1>2, <1>t, OthersSame DEF Same
    <2>2. Started' \subseteq Started \union {r}  BY <2>1 DEF Started
    <2>3. IsFiniteSet(Started \union {r})  BY Zenon DEF CountLaws, CountAdded
    <2> QED  BY Zenon, <2>2, <2>3 DEF CountLaws, CountSubset
<1> QED  BY <1>1, <1>2, StepOrIdle

\* Every step keeps the invariant.
LEMMA DuplicateInvStep ==
    ASSUME ReplayLaws, CountLaws, ReplicaInv, QueueInv, DuplicateInv, [Next]_vars PROVE DuplicateInv'
<1>1. IsFiniteSet(Started')  BY StartedStep DEF DuplicateInv
<1>2. \A r \in Replicas : HandInv(r)'  BY HandStep DEF DuplicateInv
<1>3. PICK life \in [1..Len(trades) -> Lives] : Published(life)  BY DEF DuplicateInv
<1>4. \E l \in [1..Len(trades) -> Lives]' : Published(l)'
    BY <1>3, PublishedStep DEF DuplicateInv
<1> QED  BY <1>1, <1>2, <1>4 DEF DuplicateInv

\* There are no more copies of a trade than lives: each is of another one.
LEMMA CopiesBounded ==
    ASSUME CountLaws, TypeOK, DuplicateInv PROVE DuplicatesBounded
<1> SUFFICES ASSUME NEW t \in Range(trades)
             PROVE  Cardinality({i \in 1..Len(trades) : trades[i] = t}) <= Cardinality(Lives)
    BY DEF DuplicatesBounded
<1> DEFINE S == {i \in 1..Len(trades) : trades[i] = t}
<1>1. PICK life \in [1..Len(trades) -> Lives] : Published(life)  BY DEF DuplicateInv
<1>2. IsFiniteSet(Lives)
    <2>1. IsFiniteSet(0..MaxCrashes)  BY Zenon, LogAssumption DEF CountLaws, CountPositions
    <2>2. IsFiniteSet(Started \X (0..MaxCrashes))  BY Zenon, <2>1 DEF DuplicateInv, CountLaws, CountPairs
    <2>3. Lives \subseteq Started \X (0..MaxCrashes)  BY DEF Lives, Started
    <2> QED  BY Zenon, <2>2, <2>3 DEF CountLaws, CountSubset
<1>3. PICK f : f = [i \in S |-> life[i]]  BY Zenon
<1>4. f \in [S -> Lives]  BY <1>1, <1>3
<1>5. \A i, j \in S : f[i] = f[j] => i = j  BY <1>1, <1>3 DEF Published
<1> HIDE DEF S
<1>6. Cardinality(S) <= Cardinality(Lives)  BY Zenon, <1>2, <1>4, <1>5 DEF CountLaws, CountInjection
<1> QED  BY <1>6 DEF S

\* The invariants give the types, the warm book and the exact trade log.
LEMMA WarmthFollows ==
    ASSUME ReplicaInv PROVE TypeOK /\ WarmBook
BY Zenon DEF ReplicaInv, LifeInv, WarmBook, MatchingFrom, MatchOf

\* Of the replicas that nobody has ended, the active one is exact.
LEMMA ExactnessFollows ==
    ASSUME ExactInv PROVE ExactBeforeFailover
BY DEF ExactInv, ExactAt, ExactBeforeFailover, Matching, MatchingFrom, MatchOf

-----------------------------------------------------------------------------
(* The theorems.                                                           *)
INSTANCE RecursionProofs

\* The inductive invariant holds in every reachable state of the log queue.
THEOREM QueueInvariant == QueueSpec => []QueueInv
<1>1. InitQueue => QueueInv  BY CountLawsHold, QueueInvInit
<1>2. QueueInv /\ [NextQueue]_queueVars => QueueInv'  BY CountLawsHold, QueueInvStep
<1> QED  BY <1>1, <1>2, PTL DEF QueueSpec

\* A consumer of the log that is never killed is given every order once and in
\* order across clean restarts, whatever happens to the others, and a kill
\* costs a consumer at most one order.
THEOREM CheckpointGuarantees == QueueSpec => [](ExactUnlessKilled /\ OneLostPerKill)
BY QueueInvariant, QueueInvImplies, PTL

\* So the invariant of the log-backed queue holds under engine_main's loop too.
THEOREM ReplicaQueueInv == Spec => []QueueInv
<1>1. InitReplicas => QueueInv  BY CountLawsHold, QueueInvInit DEF InitReplicas
<1>2. QueueInv /\ [Next]_vars => QueueInv'
    BY CountLawsHold, QueueInvStep, ReplicaStepIsQueueStep
<1> QED  BY <1>1, <1>2, PTL DEF Spec

\* A replica that is never killed applies the whole log, once and in order,
\* across clean restarts.
THEOREM ReplicaExactUnlessKilled == Spec => []ExactUnlessKilled
<1>1. QueueInv => ExactUnlessKilled  BY QueueInvImplies
<1> QED  BY <1>1, ReplicaQueueInv, PTL

\* A kill costs a replica at most one order.
THEOREM ReplicaOneLostPerKill == Spec => []OneLostPerKill
<1>1. QueueInv => OneLostPerKill  BY QueueInvImplies
<1> QED  BY <1>1, ReplicaQueueInv, PTL

\* At most one replica is active, it is up, and it alone has trades to publish,
\* for any number of replicas and whatever is killed and restarted.
THEOREM OneActiveReplica == Spec => []OneActive
<1>1. LeaderInv => OneActive  BY DEF LeaderInv
<1> QED
    BY <1>1, LeaderInvInit, LeaderInvStep, ReplicaQueueInv, PTL DEF Spec

\* The invariant holds whatever is pushed, stopped, killed and restarted.
THEOREM ReplicaInvariant == Spec => []ReplicaInv
<1>1. InitReplicas => ReplicaInv  BY CountLawsHold, ReplicaInvInit
<1>2. ReplicaInv /\ QueueInv /\ QueueInv' /\ [Next]_vars => ReplicaInv'
    BY ReplayLawsHold, ReplicaInvStep
<1> QED  BY <1>1, <1>2, ReplicaQueueInv, PTL DEF Spec

\* Types of the replicas of a shard, for any number of them and any log.
THEOREM ReplicaTypes == Spec => []TypeOK
<1>1. ReplicaInv => TypeOK  BY WarmthFollows
<1> QED  BY <1>1, ReplicaInvariant, PTL

\* A replica in its first run, active or standby, has the book that the orders
\* it has read produce, so that a standby takes over with the right book.
THEOREM StandbyIsWarm == Spec => []WarmBook
<1>1. ReplicaInv => WarmBook  BY WarmthFollows
<1> QED  BY <1>1, ReplicaInvariant, PTL

\* Until a replica ends, the trade log together with what the active replica has
\* still to publish is the one matching of the log it has read.
THEOREM TradeLogExact == Spec => []ExactBeforeFailover
<1>1. ReplicaInv /\ QueueInv /\ LeaderInv /\ ExactInv /\ [Next]_vars => ExactInv'
    BY ReplayLawsHold, ExactInvStep
<1>2. Spec => []LeaderInv
    BY LeaderInvInit, LeaderInvStep, ReplicaQueueInv, PTL DEF Spec
<1>3. ExactInv => ExactBeforeFailover  BY ExactnessFollows
<1> QED
    BY <1>1, <1>2, <1>3, ExactInvInit, ReplicaInvariant, ReplicaQueueInv, PTL DEF Spec

\* However the replicas of a shard fail over, no trade is in the trade log more
\* often than there were lives of started replicas.
THEOREM FailoverDuplicates == Spec => []DuplicatesBounded
<1>1. InitReplicas => DuplicateInv  BY CountLawsHold, DuplicateInvInit
<1>2. ReplicaInv /\ QueueInv /\ DuplicateInv /\ [Next]_vars => DuplicateInv'
    BY ReplayLawsHold, CountLawsHold, DuplicateInvStep
<1>3. ReplicaInv /\ DuplicateInv => DuplicatesBounded
    BY CountLawsHold, WarmthFollows, CopiesBounded
<1> QED  BY <1>1, <1>2, <1>3, ReplicaInvariant, ReplicaQueueInv, PTL DEF Spec
=============================================================================
