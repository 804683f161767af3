----------------------------- MODULE OrderPool -----------------------------
(***************************************************************************)
(* The free list of src/include/order_pool.hpp, used by one thread.  A     *)
(* slot is a pointer into storage_; held are the slots that callers have   *)
(* acquired and not released, which release requires of its argument       *)
(* (nothing in the code checks it).                                        *)
(***************************************************************************)
EXTENDS Naturals, FiniteSets

CONSTANT capacity

Slots == 1..capacity

VARIABLES free_list,  \* free_list_, from 1
          top,        \* top_: free_list_ is used below this
          held        \* history: the slots callers have

poolVars == <<free_list, top, held>>

PoolInit == free_list = [i \in Slots |-> i] /\ top = capacity /\ held = {}

acquire ==
    /\ top # 0
    /\ top' = top - 1
    /\ held' = held \union {free_list[top]}
    /\ UNCHANGED free_list

\* acquire of an exhausted pool returns nullptr.
acquire_null == top = 0 /\ UNCHANGED poolVars

release(o) ==
    /\ o \in held
    /\ free_list' = [free_list EXCEPT ![top + 1] = o]
    /\ top' = top + 1
    /\ held' = held \ {o}

PoolNext == acquire \/ acquire_null \/ \E o \in Slots : release(o)

PoolSpec == PoolInit /\ [][PoolNext]_poolVars

-----------------------------------------------------------------------------
\* What the free list holds are other slots than the callers', each once, and
\* with theirs all of them: no slot is handed out twice or gets lost.
FreeListExact ==
    /\ free_list \in [Slots -> Slots] /\ held \subseteq Slots /\ top \in 0..capacity
    /\ \A i, j \in 1..top : i # j => free_list[i] # free_list[j]
    /\ \A i \in 1..top : free_list[i] \notin held
    /\ Cardinality(held) + top = capacity

\* The assertion in release: there is room in the free list.
ReleaseHasRoom == held # {} => top < capacity
=============================================================================
