# A TLA+ model of the trading system

This directory holds TLA+ specifications of the trading system in `src/`, the
TLC configurations that model-check them, and TLAPS proofs of every
safety property that the passing runs check. `PROJECT.json` lists the runs, the
definition-to-source map, the mutants that show each property can fail, the
hazards and the findings.

## 1. The system

| Part | Source | State | Operations |
|---|---|---|---|
| Price collar | `price_collar.cpp` | none (band) | `check` |
| Order book | `order_book.cpp` | `bids_`, `asks_`, `cancel_index_` | `add_resting_order`, `cancel_order`, `remove_from_index` |
| Matching engine | `matching_engine.cpp` | `last_price_`, `next_timestamp_`, book | `submit_order` (with `match_against`), `cancel_order` |
| Order queues | `order_queue.hpp`, `mutex_order_queue.hpp`, `lockfree_order_queue.hpp` | deque + mutex + condition variable; ring with `head_`, `tail_`, `done_` | `push`, `pop`, `shutdown` |
| Log-backed queue | `log_backed_order_queue.hpp` | log file, one checkpoint file per consumer, `consumer_offset_` | constructor, `push`, `pop`, `write_checkpoint`, `shutdown` |
| Shard engine | `engine_main.cpp`, `shard_leader_lock.hpp` | books, `active`, the flock | start, promotion, apply, publish, exit |
| Trade log | `trade_log.hpp` | trade file, subscriber cursors | `publish`, `Subscriber` constructor, `Subscriber::try_next` |
| TCP feed handler | `tcp_feed_handler.cpp` | epoll set, `connections_`, `running_`, stop pipe | `run`, `stop`, accept, read, frame, close |
| Router, gateway | `shard_router_queue.hpp`, `sharding.hpp`, `gateway_main.cpp` | one log queue per shard | `push` (route by symbol) |
| Order pool | `order_pool.hpp` | slots and free list | `acquire`, `release` |
| Processes | `server_main.cpp`, `trades_subscriber_main.cpp` | wiring | signal, join |

The single-process server runs a feed-handler thread that pushes into a
`MutexOrderQueue` and an engine thread that pops. The distributed system runs
gateways (feed handler + router) that append to one order log per shard, and
several replicas of an engine per shard, each reading the whole log with a
checkpoint of its own. The replica that holds the shard's leader lock appends
its trades to a trade log, which subscribers read.

What makes it hard: threads that share memory without a lock (the ring) or
signal each other around one (the mutex queue); processes killed between two
writes; replicas that lag or lead each other at a failover; TCP streams split
anywhere; a stop request at any moment; two copies of one fact (the book and
its cancel index) kept in step over long call sequences.

## 2. Modules

| Module | Models | Notes |
|---|---|---|
| `PriceCollar` | `PriceCollar::check` | whole ticks; the comparison is scaled by 100 and exact, where the code uses doubles |
| `OrderBook` | `OrderBook` | each side is a function from prices to sequences, so a level left behind empty can be expressed; `cancel_index` is its own variable |
| `MatchingEngine` | `MatchingEngine` | `submit_order` is a prologue (`Submit`), one `Match` step per iteration of `match_against`, and `Finish`; `Cancel`. Prices, ids and quantities are any sets; ids may be reused |
| `PriceTimeMarket` | what the engine promises | a set of orders, no levels and no index |
| `OrderLedger` | the engine with callers that never reuse an id | adds a history account per id |
| `OrderQueue` | what `IOrderQueue` promises | |
| `LockFreeOrderQueue` | the ring | a step per shared access; loads return any value since the last one seen; seeing `done_` makes the last `head_` visible |
| `MutexOrderQueue` | the mutex queue | any number of threads; `std::condition_variable` is external, with spurious wakeups |
| `LogBackedOrderQueue` | log, checkpoints, consumers | truncating and writing the checkpoint are two steps; kill at any step, clean stop, restart |
| `ShardBook` | the engine of one symbol, as the shard models need it | resting buys of one unit and market sells; what one order does to the book and which trades it makes, and the same for a whole log |
| `ShardReplicas` | `engine_main` over `LogBackedOrderQueue` and `ShardBook` | leader lock, promotion at the next order, publication one trade at a time; `began` is a history variable, where in the log each replica's run began |
| `TradeLog` | `TradeLog`, its subscribers and their process | a trade file per shard; the constructor reads the checkpoint, `try_next` reads, truncates, writes and returns; kill at any step, clean stop, restart |
| `Sharding` | `fnv1a`, `shard_for_symbol` | FNV-1a over a symbol's bytes, on 64 bits held as four digits of 16 because TLC's integers have 32 |
| `Cluster` | gateways, router, engines and subscribers of several shards | composes `ShardBook` and `TradeLog`; each process has a shard count of its own; one engine per shard, which applies an order and publishes its trades in one step (replicas, kills and the steps in between are `ShardReplicas`). An engine whose own count has no such shard reads its log all the same, as `main` does not compare its two arguments |
| `TcpFeedHandler` | `TcpFeedHandler` | level-triggered epoll, batches in any order, descriptor reuse and a limit on descriptors, buffers in units of a part of a message; clients connect, send, close, reset |
| `Server` | `server_main` | composes `TcpFeedHandler` with `OrderQueue` and the engine thread: Ctrl-C, `shutdown`, `join`, destructor. The queue is its abstract specification, which both in-process queues are proved to implement |
| `OrderPool` | `OrderPool` | the free list; callers release only what they hold |
| `Subsequence` | no code: `Only`, the part of a sequence that lies in a set | used to state `FramingExact` and the cluster's properties |
| `RecursionLaws` | no code: what the proofs use of `Only`, `Replay` and finite sets, as formulas | proved in `RecursionProofs` |
| `...Proofs` | theorems about the modules they are named after | see 4 |
| `MC...` | instances for TLC | |

Definitions named `X_something` with the comment "Mutant" are wrong variants of
`X`. They are used nowhere; putting one in the place of `X` makes the property
named in `PROJECT.json` fail.

## 3. Runs

Safety and liveness of a component are checked in one run, under the fair
specification, without symmetry; the ledger run, which has no liveness property,
uses the symmetry of its order ids. Deadlock is checked in the engine, ledger,
ring and mutex runs. The replica, server and cluster models may stop: their
bounds on orders, starts and clients are used up, or everything has ended.

| Run | Instance | Shows |
|---|---|---|
| `engine` | 2 ids (reused), prices 90 and 100 with a 10% band, quantities 0 to 2, timestamps up to 5 | `TypeOK` (no empty level), `NoCrossedBook`, `LevelsInTimeOrder`, `IndexSound`, `LastPriceAccepted`, `PriceTimePriority`, `ImplementsMarket` (refinement), `SubmitReturns` |
| `ledger` | 4 distinct ids, quantities 0 to 2, timestamps up to 7 | `Conservation`, `IndexMirrorsBook`, `ClosedStaysClosed` |
| `lockfree` | capacity 3 rounded to 4, 6 pushes, 2 orders | `TypeOK` (occupancy within the capacity), `NoSlotRace`, `ImplementsQueue`, `PushReturns`, `EverythingPopped`, `ConsumerStops` |
| `mutex` | 2 producers, 2 consumers, 5 pushes, 2 orders | `TypeOK` (mutual exclusion), `NoLostPush`, `ImplementsQueue`, `EverythingPopped` |
| `replicas` | 2 replicas, 3 orders (buys and sells of two), 2 starts and 1 kill of each | of the queue: `ExactUnlessKilled`, `OneLostPerKill`; of the replicas: `TypeOK`, `OneActive`, `WarmBook`, `ExactBeforeFailover`, `DuplicatesBounded`, `TakesOver` |
| `server` | 2 clients, 6 units in messages of 2, 1 or 2 descriptors, batches of 3 | of the feed handler: `FramingExact`, `EventsCurrent`, `StopEndsRun`; of the process: `TypeOK`, `EngineGetsAll`, `ArrivedReachesEngine` |
| `cluster` | 2 gateways, 1 or 2 shards in each process's view, 2 symbols, 3 orders, a subscriber with 2 starts and 1 kill | `TypeOK`, `ShardingTransparent`, `MismatchWarned`, `HistoryThenLive`, `TradesReachSubscribers` |

Why the bounds are enough for the cases of interest: with four timestamps
(a trade takes one as well) an order is partly filled, a level is emptied, an
id rests twice and one of the two is cancelled; the two prices put one order
exactly on the band's lower edge and one outside, and an order of quantity 0
passes the loop without an iteration. Six pushes fill a ring of four and
wrap it. Three messages of two units split a message at every place and put
three messages in one read; one descriptor for two clients exhausts them. Three
orders give a sell that trades twice, with a failover in between, and a kill of
each replica combines a lost order with a replay. In `cluster` both symbols of
the documentation's example hash to different shards of two, so a gateway with
one shard and engines with two disagree about one of them, and two gateways
feed one book.

Fairness. The engine, and `run()` of the feed handler, are threads that are
always runnable: weak fairness of their steps. In the ring each thread runs and
a store becomes visible in finite time (strong fairness of a load that returns
the current value). In the mutex queue a runnable thread runs and some waiter
gets a free mutex; nothing but a notification has to wake a sleeper. In the
server the main and the engine thread run, and a `pop` of a queue that holds an
order returns, which is the queues' own liveness. A running replica, engine or
subscriber makes progress; a killed one need not be restarted. No run assumes
that anybody pushes, connects, attaches, stops or shuts down.

### Disagreements with the documentation

Five runs are expected to fail; each counterexample is a behaviour of the code.

* `engine_reused_ids`: two resting orders with one id share one index entry.
  When one is filled or cancelled, the other rests on and cannot be cancelled.
* `mutex_shutdown`: `shutdown` stores `done_` without the mutex. A consumer
  between its predicate and its sleep misses `notify_all` and sleeps forever.
* `log_queue_lost`: a kill between the checkpoint and the caller loses an order.
* `replicas_failover`: a standby ahead of the active replica has dropped
  trades that the active one had not published when it died.
* `feed_close`: orders read in the call that sees the end of the stream are
  dropped with the connection.

Other limits, visible in the models and excluded from the properties by their
stated conditions:

* A kill while the checkpoint is truncated replays the whole log (`checkpoint`
  is 0 between `PopRead` and `write_checkpoint`), although the header says "none
  replayed twice"; no run has this as its counterexample. `DuplicatesBounded` says how
  often a trade can be published again because of it, and because of a failover
  to a standby that is behind.
* A restarted replica has empty books (`Start`). `WarmBook` says that its book
  is then that of the orders since its checkpoint, and the book of the whole log
  only in a first run.
* A `stop()` before `running_` is set is overwritten (`Setup`), so `StopEndsRun`
  speaks of those that find the loop running.
* Without a free descriptor the loop of `accept_connections` does not end,
  whatever `stop()` does. `StopEndsRun` and `ArrivedReachesEngine` leave that
  state out, so no property is about it.
* The shard-count check of `engine_main` does not see engines that disagree
  among themselves, or a gateway with more shards than there are engines, whose
  logs nobody reads. `MismatchWarned` is about engines that agree. Counts of 0
  (an argument that is not a number) are outside `ClusterAssumption`.
* With a negative last price the collar's bounds change places, so
  `LastPriceAccepted` needs prices that are not negative.

## 4. Proofs

All theorems hold for every value of the constants that satisfies the named
`ASSUME`s of the modules.

| Module | Theorem | Establishes |
|---|---|---|
| `MatchingEngineProofs` | `InvIsInvariant` | the inductive invariant |
| | `TypeCorrect` | `TypeOK`: no empty level is ever left in a map |
| | `NeverCrossed` | `NoCrossedBook` |
| | `ArrivalOrder` | `LevelsInTimeOrder` |
| | `IndexNeverStale` | `IndexSound` |
| | `Priority` | `PriceTimePriority` |
| | `CollarAcceptsLastPrice` | `LastPriceAccepted`, if `Prices \subseteq Nat` |
| `MarketAndLedgerProofs` | `EngineImplementsMarket` | `ImplementsMarket` |
| | `QuantityConserved` | `Conservation` |
| | `IndexIsMirror` | `IndexMirrorsBook` |
| | `ClosedForGood` | `ClosedStaysClosed` |
| `LockFreeOrderQueueProofs` | `RingTypeCorrect` | `TypeOK`: never more than `capacity_` orders |
| | `RingNoSlotRace` | `NoSlotRace` |
| | `RingImplementsQueue` | `ImplementsQueue` |
| `MutexQueueAndPoolProofs` | `MutexTypeCorrect` | `TypeOK`: mutual exclusion |
| | `MutexNoLostPush` | `NoLostPush` |
| | `MutexImplementsQueue` | `ImplementsQueue` |
| | `PoolExact` | the free list holds each slot no caller has, once |
| | `ReleaseAssertion` | the assertion in `release` never fires |
| `ShardReplicasProofs` | `CheckpointGuarantees` | `ExactUnlessKilled` and `OneLostPerKill`, of the queue alone |
| | `ReplicaExactUnlessKilled`, `ReplicaOneLostPerKill` | the same, under the loop of `engine_main` |
| | `ReplicaTypes` | `TypeOK`: books and trades name orders of the log |
| | `OneActiveReplica` | `OneActive` |
| | `StandbyIsWarm` | `WarmBook` |
| | `TradeLogExact` | `ExactBeforeFailover` |
| | `FailoverDuplicates` | `DuplicatesBounded` |
| `ServerProofs` | `ServerTypeCorrect` | `TypeOK` |
| | `FramingIsExact` | `FramingExact` |
| | `EventsAreCurrent` | `EventsCurrent` |
| | `EngineGetsEveryOrder` | `EngineGetsAll` |
| `ClusterProofs` | `ClusterTypeCorrect` | `TypeOK` |
| | `ShardingIsTransparent` | `ShardingTransparent` |
| | `MismatchIsWarned` | `MismatchWarned` |
| | `HistoryThenLiveHolds` | `HistoryThenLive` |
| `RecursionProofs` | `OnlyLawsHold`, `ReplayLawsHold`, `CountLawsHold` | what the recursive functions compute, by induction; finite sets |

Assumptions: prices are integers, quantities natural numbers, the band a natural
number of percent; the ring's capacity is positive and what the constructor
rounds to; the bounds on pushes, starts and kills are natural numbers, as large
as one likes; "none" values lie outside the sets they complete; the mutex queue
has a consumer; a message has at least one unit; shard counts are at least 1, and
`ShardOf` is any function to the shards below its count. The pool's theorems take `capacity \in Nat` as a hypothesis, and
callers that release only what they hold.

**Matching engine.** `Inv` conjoins `TypeOK` with: the incoming order carries a
timestamp below `next_timestamp` and at most its quantity; every resting order is live, sits on
the level of its own side and price, and arrived before the incoming one, with
each deque sorted by timestamp; `NoCrossedBook`; `IndexSound`. None of the
listed properties is inductive alone. Appending to a deque keeps it sorted only
because the incoming order is younger than all that rest. `Finish` keeps the
book uncrossed only because the loop ended, and that the loop's test looks at
`begin()` matters because all other levels are worse. The index stays sound when
an order leaves the book because an id's entry goes with the first order of
that id to leave, even if another with the same id rests on. `Priority` follows
from the invariant and the comparator of the maps.

**Market and ledger.** The refinement maps the book to the set of all orders in
its levels. `LevelChange` says what a step that touches one level does to that
set; it needs that every order names its level. A fill or an erasure takes
exactly one order out of the set because the timestamps of a deque differ.
`NobodyAcceptable` is where the loop's test of `begin()` alone turns into a
statement about every resting order. The ledger's theorems then reason about
sets only: `LedgerInv` says that live orders have ids of their own and accounts
that add up, that an account which is still owed quantity has a live order, and
that the index mirrors the book.

**Ring.** Each thread acts on an old value of the other's counter, so neither
`TypeOK` nor `NoSlotRace` is inductive. `Inv` adds what a thread may rely on
between its load and its store: the producer past its test has room for one more
whatever the consumer does since, because `tail_` only grows; the consumer past
its test has an order, because `head_` only grows. `SlotsDiffer` (two positions
less than `capacity_` apart are in different slots, from division with
remainder) turns this into the absence of a race, and into the fact that a
write to a slot is not visible in the queue's contents until `head_` is stored.
The refinement maps the abstract queue to the orders between `tail_` and
`head_`; publishing is its push, releasing its pop, all else stutters.

**Mutex queue.** `NoLostPush` needs that a consumer about to sleep still holds
the mutex and saw an empty queue, so that no push came in between; and the
refinement that a consumer past its wait has an order or has seen `done_`.

**Log-backed queue and replicas.** `QueueInv` relates each consumer's
checkpoint to its offset at each step of `pop`: they agree except while the
checkpoint is truncated, and a consumer that was never killed has been given
exactly what it is past. For `OneLostPerKill` it bounds the positions a consumer
is past and was not given by its kills: only a kill between the checkpoint and
the return adds one. Every step of a replica is a step of its queue or leaves
it alone (`ReplicaStepIsQueueStep`), which carries both guarantees over to
`engine_main`. `OneActive` is inductive once `active` and `pending` are known to
be functions on the replicas.

`ReplicaInv` adds that a replica which is down has no book, that one which was
never started has no checkpoint, and that the book of a running one is the
matching of the orders from `began` to its position: an order applied is one
order more (`MatchNext`), and a push behind the position changes nothing
(`MatchStable`). `ExactInv` carries the equation of `ExactBeforeFailover` through
`Apply`, which moves an order's trades into the replica's hands, and `Publish`,
which moves them one by one to the log; it also needs that before the first
start nothing is published. For `DuplicatesBounded`, `DuplicateInv` says that the
published trades can be given to lives of the replicas such that no life has a
trade twice. The present life has published only trades of orders it is past,
and none that is still in its hands; the trades of one order differ because a
book is increasing. An injection into the set of lives then gives the bound.

**Server.** `FeedInv` says where each unit of a client's stream is: a client has
at most one connection and none before it is accepted, its buffer holds exactly
the units after its last whole message, and what was received is the sum of the
two. A read that ends in the middle of a message is then arithmetic with
division (`TimesFacts` and the lemmas after it). `EventsCurrent` needs that a
batch has at most one event of a descriptor and that only a handled event closes
one. `QueueInv` says that what was delivered and what is queued are a prefix of
what was decoded, and which of `closed`, `ended` and `exited` imply that nothing
is missing.

**Cluster.** `MatchInv` holds whatever the counts are: a shard's book of a symbol,
and its trades in it, are what one engine makes of the orders for the symbol
which that shard has applied. `RouteInv` says where orders go when all counts
agree; the two give `ShardingTransparent`. `WarnInv` says that an engine has
warned exactly when it has applied a misplaced order, which with engines that
agree gives `MismatchWarned`. `SubscriberInv` is to a subscriber's checkpoint
what `QueueInv` is to a consumer's.

**Recursive functions.** `Only` and `Replay` are recursive functions, so facts
about all their inputs need induction over sequences. `RecursionProofs` gets it
from the well-foundedness of `<` on the natural numbers: a set of lengths without
a least element is empty. That the recursive definition has a solution is proved
the same way. The component proofs take the laws as hypotheses of their lemmas
and discharge them where their theorems begin; this keeps the library of
theorems out of the many steps that do not need it.

**Pool.** `FreeListExact` is inductive as it stands; the room for a release
follows by counting.

The inductive invariants of the engine, the ledger, the ring, the mutex queue and
the log-backed queue were also model-checked on the instances of their runs.

Only model-checked: the liveness properties (`SubmitReturns`, `PushReturns`,
`EverythingPopped`, `ConsumerStops`, `TakesOver`, `ArrivedReachesEngine`,
`StopEndsRun`, `TradesReachSubscribers`), which need fairness. `Sharding`, which
computes the hash with bitwise operators, is only evaluated: the proofs of the
cluster are for any hash.

## 5. Not modelled

Prices as doubles (ticks instead); 64-bit wrap of the ring's counters (after
584 years at 10^9 pushes per second); I/O errors that throw and torn appends to
the logs; failing system calls of the feed handler other than `accept` without a
descriptor; `best_bid`, `best_ask` and `dump`, which only read; statistics
(`spin_count_`), printing and argument parsing; the Python clients, tests and
benchmarks, which drive the system and whose calls are among those the models
let their environment make; `ShardRouterQueue::pop` (it throws) and `shutdown`
(empty). What a second `release` of one slot does to the pool is not modelled:
nothing in the code says what it is meant to do.
