------------------------------ MODULE TradeLog ------------------------------
(***************************************************************************)
(* The trade logs of the shards and their subscribers                      *)
(* (src/include/trade_log.hpp, src/src/trades_subscriber_main.cpp).  Each  *)
(* subscriber process reads one shard's log at its own offset and keeps it *)
(* in a checkpoint file, as in LogBackedOrderQueue: scheckpoint[s] is what *)
(* can be read back, 0 when the file is absent or truncated.  Subscribers  *)
(* are stopped, killed and started again.                                  *)
(***************************************************************************)
EXTENDS Naturals, Sequences, Functions, FiniteSets

CONSTANTS Shards, Subscribers,
          MaxSubStarts,  \* bound: how often each subscriber is started
          MaxSubKills    \* bound: how often each subscriber is killed

ASSUME SubscriberAssumption == MaxSubStarts \in Nat /\ MaxSubKills \in Nat

VARIABLES trades,       \* the trade log of each shard
          follows,      \* the shard each subscriber reads (its first argument)
          scheckpoint,  \* the checkpoint files
          soffset,      \* offset_ of each running subscriber
          spc,          \* where each subscriber is
          sstarts, skills,  \* how often each was started and killed
          seen          \* history: the positions each has been given by try_next

subVars == <<follows, scheckpoint, soffset, spc, sstarts, skills, seen>>

Up(s) == spc[s] # "down"

InitTrades ==
    /\ trades = [sh \in Shards |-> << >>]
    /\ follows \in [Subscribers -> Shards]
    /\ scheckpoint = [s \in Subscribers |-> 0]
    /\ soffset = [s \in Subscribers |-> 0]
    /\ spc = [s \in Subscribers |-> "down"]
    /\ sstarts = [s \in Subscribers |-> 0] /\ skills = [s \in Subscribers |-> 0]
    /\ seen = [s \in Subscribers |-> << >>]

-----------------------------------------------------------------------------
\* publish, for each trade of an order.
publish(sh, ts) == trades' = [trades EXCEPT ![sh] = @ \o ts]

\* A checkpoint file that is absent, or was truncated, counts as 0.
read_checkpoint(s) == scheckpoint[s]

\* main and the constructor of Subscriber, in a new process.
Attach(s) ==
    /\ ~Up(s) /\ sstarts[s] < MaxSubStarts
    /\ soffset' = [soffset EXCEPT ![s] = read_checkpoint(s)]
    /\ spc' = [spc EXCEPT ![s] = "loop"]
    /\ sstarts' = [sstarts EXCEPT ![s] = @ + 1]
    /\ UNCHANGED <<trades, follows, scheckpoint, skills, seen>>

\* Mutant: off by one past the end of the log.
Unread_past(s) == soffset[s] <= Len(trades[follows[s]])

\* Mutant: off by one, the newest trade is left for later.
Unread_short(s) == soffset[s] + 1 < Len(trades[follows[s]])

Unread(s) == soffset[s] < Len(trades[follows[s]])

\* try_next finds a trade: the offset moves, the checkpoint is truncated.  When
\* there is none it answers false and changes nothing.
try_next(s) ==
    /\ spc[s] = "loop" /\ Unread(s)
    /\ soffset' = [soffset EXCEPT ![s] = @ + 1]
    /\ scheckpoint' = [scheckpoint EXCEPT ![s] = 0]
    /\ spc' = [spc EXCEPT ![s] = "checkpoint"]
    /\ UNCHANGED <<trades, follows, sstarts, skills, seen>>

\* Mutant: the offset before the increment is written.
Written_before(s) == soffset[s] - 1

Written(s) == soffset[s]

WriteOffset(s) ==
    /\ spc[s] = "checkpoint"
    /\ scheckpoint' = [scheckpoint EXCEPT ![s] = Written(s)]
    /\ spc' = [spc EXCEPT ![s] = "return"]
    /\ UNCHANGED <<trades, follows, soffset, sstarts, skills, seen>>

\* try_next returns true and main shows the trade.
Show(s) ==
    /\ spc[s] = "return"
    /\ seen' = [seen EXCEPT ![s] = Append(@, soffset[s])]
    /\ spc' = [spc EXCEPT ![s] = "loop"]
    /\ UNCHANGED <<trades, follows, scheckpoint, soffset, sstarts, skills>>

\* SIGINT or SIGTERM: g_stop is looked at before each try_next.
Detach(s) ==
    /\ spc[s] = "loop"
    /\ spc' = [spc EXCEPT ![s] = "down"]
    /\ UNCHANGED <<trades, follows, scheckpoint, soffset, sstarts, skills, seen>>

\* kill -9, at any time.
KillSubscriber(s) ==
    /\ Up(s) /\ skills[s] < MaxSubKills
    /\ spc' = [spc EXCEPT ![s] = "down"]
    /\ skills' = [skills EXCEPT ![s] = @ + 1]
    /\ UNCHANGED <<trades, follows, scheckpoint, soffset, sstarts, seen>>

Read(s) == try_next(s) \/ WriteOffset(s) \/ Show(s)

Subscriber(s) == Attach(s) \/ Read(s) \/ Detach(s) \/ KillSubscriber(s)

-----------------------------------------------------------------------------
\* The position after which subscriber s goes on.
ReadUpTo(s) ==
    CASE spc[s] = "down" -> scheckpoint[s]
      [] spc[s] = "loop" -> soffset[s]
      [] OTHER           -> soffset[s] - 1

\* A subscriber, however late it first attaches and however often it is stopped
\* in between, is shown its shard's trades from the first on, once each and in
\* order ("replays the entire trade history before catching up to live trades",
\* trade_log.hpp:31-32); a kill costs it at most the one trade it was reading.
HistoryThenLive ==
    \A s \in Subscribers :
        /\ skills[s] = 0 => seen[s] = [i \in 1..ReadUpTo(s) |-> i]
        /\ Cardinality({n \in 1..ReadUpTo(s) : n \notin Range(seen[s])}) <= skills[s]
=============================================================================
