------------------------ MODULE LogBackedOrderQueue ------------------------
(***************************************************************************)
(* The file-backed queue of src/include/log_backed_order_queue.hpp:        *)
(* gateways append orders to one log; each consumer, a process of its own, *)
(* reads the log at its own offset and keeps that offset in a checkpoint   *)
(* file.  Consumers are killed, stopped by SIGINT, and started again.      *)
(*                                                                         *)
(* checkpoint[c] is the offset that can be read back from the file: 0 when *)
(* it is absent or too short.  write_checkpoint opens with "wb", which     *)
(* truncates it, and only then writes: two steps.  A written record stays  *)
(* when the process dies; I/O errors (which throw) are left out.           *)
(***************************************************************************)
EXTENDS Naturals, Sequences, Functions, FiniteSets

CONSTANTS Orders, Consumers,
          MaxLog,      \* bound: orders in the log
          MaxStarts,   \* bound: how often each consumer process is started
          MaxCrashes   \* bound: how often each consumer process is killed

ASSUME LogAssumption == MaxLog \in Nat /\ MaxStarts \in Nat /\ MaxCrashes \in Nat

VARIABLES log,              \* the log file; position n is log[n]
          checkpoint,       \* the checkpoint files
          consumer_offset,  \* consumer_offset_ of each running process
          done,             \* done_ of each running process
          qpc,              \* where each consumer is in pop
          starts, crashes,  \* how often each process was started and killed
          taken             \* history: the positions each consumer's pops returned

queueVars == <<log, checkpoint, consumer_offset, done, qpc, starts, crashes, taken>>

Running(c) == qpc[c] # "down"

InitQueue ==
    /\ log = << >>
    /\ checkpoint = [c \in Consumers |-> 0]
    /\ consumer_offset = [c \in Consumers |-> 0]
    /\ done = [c \in Consumers |-> FALSE]
    /\ qpc = [c \in Consumers |-> "down"]
    /\ starts = [c \in Consumers |-> 0]
    /\ crashes = [c \in Consumers |-> 0]
    /\ taken = [c \in Consumers |-> << >>]

-----------------------------------------------------------------------------
\* push by any gateway: one append, wherever the end of the file now is.
push(o) ==
    /\ Len(log) < MaxLog
    /\ log' = Append(log, o)
    /\ UNCHANGED <<checkpoint, consumer_offset, done, qpc, starts, crashes, taken>>

\* Mutant: the checkpoint is not looked at.
read_checkpoint_none(c) == 0

\* A checkpoint file that is absent, or was truncated, counts as 0.
read_checkpoint(c) == checkpoint[c]

\* The constructor, in a new process.
Open(c) ==
    /\ ~Running(c) /\ starts[c] < MaxStarts
    /\ consumer_offset' = [consumer_offset EXCEPT ![c] = read_checkpoint(c)]
    /\ done' = [done EXCEPT ![c] = FALSE]
    /\ qpc' = [qpc EXCEPT ![c] = "poll"]
    /\ starts' = [starts EXCEPT ![c] = @ + 1]
    /\ UNCHANGED <<log, checkpoint, crashes, taken>>

\* Mutant: off by one past the end of the log.
Available_past(c) == consumer_offset[c] <= Len(log)

Available(c) == consumer_offset[c] < Len(log)

\* pop finds a record: it is read, the offset moves, the checkpoint is truncated.
PopRead(c) ==
    /\ qpc[c] = "poll" /\ Available(c)
    /\ consumer_offset' = [consumer_offset EXCEPT ![c] = @ + 1]
    /\ checkpoint' = [checkpoint EXCEPT ![c] = 0]
    /\ qpc' = [qpc EXCEPT ![c] = "checkpoint"]
    /\ UNCHANGED <<log, done, starts, crashes, taken>>

\* Mutant: the offset before the increment is saved.
Saved_before(c) == consumer_offset[c] - 1

\* Mutant: the end of the log is saved.
Saved_end(c) == Len(log)

Saved(c) == consumer_offset[c]

write_checkpoint(c) ==
    /\ qpc[c] = "checkpoint"
    /\ checkpoint' = [checkpoint EXCEPT ![c] = Saved(c)]
    /\ qpc' = [qpc EXCEPT ![c] = "return"]
    /\ UNCHANGED <<log, consumer_offset, done, starts, crashes, taken>>

\* pop returns true; the caller has the order and will call pop again.
PopReturn(c) ==
    /\ qpc[c] = "return"
    /\ taken' = [taken EXCEPT ![c] = Append(@, consumer_offset[c])]
    /\ qpc' = [qpc EXCEPT ![c] = "poll"]
    /\ UNCHANGED <<log, checkpoint, consumer_offset, done, starts, crashes>>

\* pop returns false and the process ends.
PopFalse(c) ==
    /\ qpc[c] = "poll" /\ ~Available(c) /\ done[c]
    /\ qpc' = [qpc EXCEPT ![c] = "down"]
    /\ UNCHANGED <<log, checkpoint, consumer_offset, done, starts, crashes, taken>>

\* shutdown, from the SIGINT handler at any time.
shutdown(c) ==
    /\ Running(c) /\ ~done[c]
    /\ done' = [done EXCEPT ![c] = TRUE]
    /\ UNCHANGED <<log, checkpoint, consumer_offset, qpc, starts, crashes, taken>>

\* kill -9, at any time.
Kill(c) ==
    /\ Running(c) /\ crashes[c] < MaxCrashes
    /\ qpc' = [qpc EXCEPT ![c] = "down"]
    /\ crashes' = [crashes EXCEPT ![c] = @ + 1]
    /\ UNCHANGED <<log, checkpoint, consumer_offset, done, starts, taken>>

Pop(c) == PopRead(c) \/ write_checkpoint(c) \/ PopReturn(c) \/ PopFalse(c)

NextQueue ==
    \/ \E o \in Orders : push(o)
    \/ \E c \in Consumers : Open(c) \/ Pop(c) \/ shutdown(c) \/ Kill(c)

QueueSpec == InitQueue /\ [][NextQueue]_queueVars

-----------------------------------------------------------------------------
\* Types; offsets and checkpoints point into the log.
QueueTypeOK ==
    /\ log \in Seq(Orders)
    /\ checkpoint \in [Consumers -> 0..Len(log)]
    /\ consumer_offset \in [Consumers -> 0..Len(log)]
    /\ done \in [Consumers -> BOOLEAN]
    /\ qpc \in [Consumers -> {"down", "poll", "checkpoint", "return"}]
    /\ starts \in [Consumers -> 0..MaxStarts] /\ crashes \in [Consumers -> 0..MaxCrashes]
    /\ taken \in [Consumers -> Seq(1..Len(log))]

\* How far a consumer has got: the order it will hand out next comes after this.
Position(c) ==
    CASE qpc[c] = "down" -> checkpoint[c]
      [] qpc[c] = "poll" -> consumer_offset[c]
      [] OTHER           -> consumer_offset[c] - 1

\* The positions it has moved past without its caller getting the order.
Missed(c) == {n \in 1..Position(c) : n \notin Range(taken[c])}

\* A consumer that was never killed has been given the log from its beginning,
\* every order once and in order, across clean restarts and whatever happens to
\* the other consumers (each has its own checkpoint, lines 53-56).
ExactUnlessKilled ==
    \A c \in Consumers :
        crashes[c] = 0 => taken[c] = [i \in 1..Len(taken[c]) |-> i] /\ Missed(c) = {}

\* What a kill can cost: at most the one order that was between its checkpoint
\* and the caller.
OneLostPerKill == \A c \in Consumers : Cardinality(Missed(c)) <= crashes[c]

\* "a process that dies and restarts [...] resumes exactly where it left off
\* - no order lost [...]" (log_backed_order_queue.hpp:29-31).
NoOrderLost == \A c \in Consumers : Missed(c) = {}
=============================================================================
