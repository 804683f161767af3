--------------------------- MODULE ShardReplicas ---------------------------
(***************************************************************************)
(* The replicas of one shard (src/src/engine_main.cpp): every replica pops *)
(* the shard's order log (LogBackedOrderQueue, one consumer per replica),  *)
(* feeds each order to its in-memory books, and the one that holds the     *)
(* leader lock (shard_leader_lock.hpp) publishes the trades to the shard's *)
(* TradeLog (trade_log.hpp).  Replicas are killed, stopped and restarted.  *)
(* The shard has one symbol; its books are those of ShardBook.             *)
(***************************************************************************)
EXTENDS LogBackedOrderQueue, ShardBook

CONSTANT NoReplica     \* nobody holds the leader lock

ASSUME ReplicaAssumption == Orders \subseteq Nat /\ NoReplica \notin Consumers

VARIABLES holder,   \* the process whose flock on the leader file is held
          active,   \* active, of each running replica
          book,     \* engines: the resting orders of each running replica
          pending,  \* trades of the order in hand that are still to be published
          trades,   \* the shard's trade log
          began     \* history: the log position at which each replica's run began

Replicas == Consumers
replicaVars == <<holder, active, book, pending, trades, began>>
vars == <<queueVars, replicaVars>>

InitReplicas ==
    /\ InitQueue
    /\ holder = NoReplica
    /\ active = [r \in Replicas |-> FALSE]
    /\ book = [r \in Replicas |-> << >>]
    /\ pending = [r \in Replicas |-> << >>]
    /\ trades = << >>
    /\ began = [r \in Replicas |-> 0]

-----------------------------------------------------------------------------
\* A gateway appends to the shard's log.
Push(o) == push(o) /\ UNCHANGED replicaVars

\* Mutant: the answer of flock is ignored.
try_acquire_always(r) ==
    /\ active' = [active EXCEPT ![r] = TRUE]
    /\ holder' = IF holder = NoReplica THEN r ELSE holder

\* try_acquire: keep the lock, or take it if nobody holds it.
try_acquire(r) ==
    LET held == active[r] \/ holder = NoReplica
    IN  /\ active' = [active EXCEPT ![r] = held]
        /\ holder' = IF held THEN r ELSE holder

\* main up to the loop: the books of a new process are empty.
Start(r) ==
    /\ Open(r)
    /\ try_acquire(r)
    /\ began' = [began EXCEPT ![r] = read_checkpoint(r)]
    /\ UNCHANGED <<book, pending, trades>>

\* Mutant: the next order is read before the last one's trades are out.
AllPublished_skip(r) == TRUE

\* The trades of the order in hand are published.
AllPublished(r) == pending[r] = << >>

\* The loop asks for the next order when the last one's trades are published.
PopStep(r) ==
    /\ AllPublished(r)
    /\ PopRead(r) \/ write_checkpoint(r)
    /\ UNCHANGED replicaVars

\* Mutant: the lock is tried at the start of a process only.
Promote_never(r) == UNCHANGED <<holder, active>>

Promote(r) == try_acquire(r)

\* Mutant: a standby does not feed its books.
Fed_cold(r, n) == IF active'[r] THEN BookAfter(book[r], n, log[n]) ELSE book[r]

Fed(r, n) == BookAfter(book[r], n, log[n])

\* The loop's body: promotion, submit_order, and for a standby the continue.
Apply(r) ==
    LET n == consumer_offset[r]
    IN  /\ PopReturn(r)
        /\ Promote(r)
        /\ book' = [book EXCEPT ![r] = Fed(r, n)]
        /\ pending' = [pending EXCEPT ![r] =
                          IF active'[r] THEN TradesOf(book[r], n, log[n]) ELSE << >>]
        /\ UNCHANGED <<trades, began>>

\* TradeLog::publish: one append.
publish(t) == trades' = Append(trades, t)

\* The loop over trade_list.
Publish(r) ==
    /\ Running(r) /\ pending[r] # << >>
    /\ publish(Head(pending[r]))
    /\ pending' = [pending EXCEPT ![r] = Tail(@)]
    /\ UNCHANGED <<queueVars, holder, active, book, began>>

\* The end of a process: its memory goes, and the system drops its flock.
Exit(r) ==
    /\ holder' = IF holder = r THEN NoReplica ELSE holder
    /\ active' = [active EXCEPT ![r] = FALSE]
    /\ book' = [book EXCEPT ![r] = << >>]
    /\ pending' = [pending EXCEPT ![r] = << >>]
    /\ began' = [began EXCEPT ![r] = 0]
    /\ UNCHANGED trades

Finish(r) == AllPublished(r) /\ PopFalse(r) /\ Exit(r)

Interrupt(r) == shutdown(r) /\ UNCHANGED replicaVars

Crash(r) == Kill(r) /\ Exit(r)

Run(r) == PopStep(r) \/ Apply(r) \/ Publish(r) \/ Finish(r)

Next ==
    \/ \E o \in Orders : Push(o)
    \/ \E r \in Replicas : Start(r) \/ Run(r) \/ Interrupt(r) \/ Crash(r)

Spec == InitReplicas /\ [][Next]_vars

\* A running replica makes progress; nothing has to be pushed or started.
FairSpec == Spec /\ \A r \in Replicas : WF_vars(Run(r))

-----------------------------------------------------------------------------
\* The matching of the orders k + 1 to n of the log: a book and all its trades.
MatchingFrom(k, n) == Replay([i \in 1..(n - k) |-> k + i], SubSeq(log, k + 1, n))

\* The one matching of the first n orders that every replica is meant to compute.
Matching(n) == MatchingFrom(0, n)

\* Types of the variables this module adds.
TypeOK ==
    /\ QueueTypeOK
    /\ holder \in Replicas \union {NoReplica}
    /\ active \in [Replicas -> BOOLEAN]
    /\ book \in [Replicas -> Seq(1..Len(log))]
    /\ pending \in [Replicas -> Seq((1..Len(log)) \X (1..Len(log)))]
    /\ trades \in Seq((1..Len(log)) \X (1..Len(log)))
    /\ began \in [Replicas -> 0..Len(log)]

\* "Exactly one holds the shard's leader lock at a time and is active"
\* (engine_main.cpp:7-8): no two replicas are active, none that is down is, and
\* a replica with trades to publish holds the lock.
OneActive ==
    \A r \in Replicas :
        /\ active[r] <=> holder = r
        /\ active[r] => Running(r)
        /\ pending[r] # << >> => active[r]

\* The book of a running replica, active or standby, is what the orders that it
\* has read since its process began produce, whatever happened to the others
\* and however often it was restarted.  In a first run these are all orders: a
\* standby that was never restarted "stays identical to the active one"
\* (docs/distributed_system.md:124).  A later run begins at the checkpoint with
\* empty books, and what rested before is in none of them.
WarmBook ==
    \A r \in Replicas : Running(r) =>
        /\ began[r] <= Position(r)
        /\ book[r] = MatchingFrom(began[r], Position(r)).book
        /\ starts[r] = 1 => began[r] = 0

\* No replica that was started has died or been stopped.
NobodyEnded == \A r \in Replicas : starts[r] = IF Running(r) THEN 1 ELSE 0

\* Until a replica dies or is stopped, the trade log together with the trades in
\* the active replica's hands is every trade of the orders that replica has
\* applied, once each and in order: a standby that is ahead or behind adds none.
ExactBeforeFailover ==
    NobodyEnded => \A r \in Replicas : active[r] =>
        trades \o pending[r] = Matching(Position(r)).trades

\* The lives of the replicas that were started: each kill begins a new one.
Lives ==
    {l \in Replicas \X (0..MaxCrashes) : starts[l[1]] > 0 /\ l[2] <= crashes[l[1]]}

\* What fail-over can repeat: the trade log is appended to without a look at
\* what it holds (engine_main.cpp:112-114), so a standby that was behind, or a
\* process that starts over, publishes again, but each replica a trade at most
\* once, and once more for each time it was killed; a clean restart adds none.
DuplicatesBounded ==
    \A t \in Range(trades) :
        Cardinality({i \in 1..Len(trades) : trades[i] = t}) <= Cardinality(Lives)

\* When the lock is free and a running replica has orders to read, a replica
\* becomes active, or all that were running end.
TakesOver ==
    \A r \in Replicas :
        (holder = NoReplica /\ Running(r) /\ consumer_offset[r] < Len(log))
            ~> (holder # NoReplica \/ ~Running(r))

\* "the active replica publishes every trade to a TradeLog" (engine_main.cpp:13):
\* an active replica between two orders has no trade of the orders it has
\* applied missing from the trade log.
EveryTradePublished ==
    \A r \in Replicas :
        active[r] /\ pending[r] = << >> =>
            LET all == Matching(Position(r)).trades
            IN  \A i \in 1..Len(all) : all[i] \in Range(trades)
=============================================================================
