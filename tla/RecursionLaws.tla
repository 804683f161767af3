--------------------------- MODULE RecursionLaws ---------------------------
(***************************************************************************)
(* What the proofs use about the recursive functions Only (Subsequence)    *)
(* and Replay (ShardBook), about books, and about finite sets, stated as   *)
(* formulas.  RecursionProofs proves them, by induction.  A lemma that     *)
(* needs one takes it as a hypothesis, so that a module of proofs brings   *)
(* in RecursionProofs, and the library of theorems under it, only for the  *)
(* theorems it ends with.                                                  *)
(***************************************************************************)
EXTENDS Subsequence, ShardBook, FiniteSets

\* Only, of nothing; of one element more; of a concatenation; of a prefix.
OnlyOfNothing == \A S : Only(<< >>, S) = << >>

OnlyOfAppend ==
    \A T, S, e : \A s \in Seq(T) :
        Only(Append(s, e), S) = IF e \in S THEN Append(Only(s, S), e) ELSE Only(s, S)

OnlyOfConcat ==
    \A T, S : \A s, t \in Seq(T) : Only(s \o t, S) = Only(s, S) \o Only(t, S)

OnlyOfPrefix ==
    \A T, S : \A s \in Seq(T) : \A n \in 0..Len(s) :
        LET p == Only(SubSeq(s, 1, n), S)
        IN  p = SubSeq(Only(s, S), 1, Len(p)) /\ Len(p) <= Len(Only(s, S))

\* Only of a sequence is one, of elements of both; it depends on the elements
\* that there are; it may keep all of them, or none.
OnlyTyped == \A T, S : \A s \in Seq(T) : Only(s, S) \in Seq(T \cap S)

OnlyAgrees ==
    \A T, R, S : T \cap R = T \cap S => \A s \in Seq(T) : Only(s, R) = Only(s, S)

OnlyKeepsAll == \A T, S : T \subseteq S => \A s \in Seq(T) : Only(s, S) = s

OnlyKeepsNone == \A T, S : T \cap S = {} => \A s \in Seq(T) : Only(s, S) = << >>

OnlyLaws ==
    /\ OnlyOfNothing /\ OnlyOfAppend /\ OnlyOfConcat /\ OnlyOfPrefix
    /\ OnlyTyped /\ OnlyAgrees /\ OnlyKeepsAll /\ OnlyKeepsNone

-----------------------------------------------------------------------------
\* The engine's answer to nothing, and to one order more after those of r.
NoOrders == [book |-> << >>, trades |-> << >>]

Replayed(r, n, q) ==
    [book   |-> BookAfter(r.book, n, q),
     trades |-> r.trades \o TradesOf(r.book, n, q)]

ReplayOfNothing == \A ns : Replay(ns, << >>) = NoOrders

ReplayOfAppend ==
    \A A, B, n, q : \A ns \in Seq(A), qs \in Seq(B) : Len(ns) = Len(qs) =>
        Replay(Append(ns, n), Append(qs, q)) = Replayed(Replay(ns, qs), n, q)

\* The fields of that answer.
ReplayedFields ==
    \A r, n, q : /\ Replayed(r, n, q).book = BookAfter(r.book, n, q)
                 /\ Replayed(r, n, q).trades = r.trades \o TradesOf(r.book, n, q)

\* Books and trades name orders that there are, and those of a log are orders of
\* a longer one.
BookTyped ==
    \A N \in Nat : \A b \in Seq(1..N), n \in 1..N, q \in Nat :
        /\ BookAfter(b, n, q) \in Seq(1..N)
        /\ TradesOf(b, n, q) \in Seq((1..N) \X (1..N))

LongerLog ==
    \A n \in Nat :
        /\ Seq(1..n) \subseteq Seq(1..(n + 1))
        /\ Seq((1..n) \X (1..n)) \subseteq Seq((1..(n + 1)) \X (1..(n + 1)))

Increasing(b) == \A i, j \in 1..Len(b) : i < j => b[i] < b[j]

\* Orders rest in the order of their positions, and a new order trades with each
\* of them at most once.
BookIncreasing ==
    \A b \in Seq(Nat), n \in Nat, q \in Nat :
        Increasing(b) /\ (\A i \in 1..Len(b) : b[i] < n) =>
            LET c == BookAfter(b, n, q)
            IN  Increasing(c) /\ \A i \in 1..Len(c) : c[i] <= n

TradesDistinct ==
    \A b \in Seq(Nat), n \in Nat, q \in Nat : Increasing(b) =>
        LET t == TradesOf(b, n, q)
        IN  /\ \A i \in 1..Len(t) : t[i][2] = n
            /\ \A i, j \in 1..Len(t) : i # j => t[i] # t[j]

ReplayLaws ==
    /\ ReplayOfNothing /\ ReplayOfAppend /\ ReplayedFields
    /\ BookTyped /\ LongerLog /\ BookIncreasing /\ TradesDistinct

-----------------------------------------------------------------------------
\* Finite sets: the empty one, the parts of one, positions of a log, one element
\* more, pairs, and a set that maps into one without collision.
CountEmpty == IsFiniteSet({}) /\ Cardinality({}) = 0

CountSubset ==
    \A S : IsFiniteSet(S) =>
        /\ Cardinality(S) \in Nat
        /\ \A T \in SUBSET S : IsFiniteSet(T) /\ Cardinality(T) <= Cardinality(S)

CountPositions == \A n \in Nat : \A S \in SUBSET (0..n) : IsFiniteSet(S) /\ Cardinality(S) \in Nat

CountAdded ==
    \A S, x : IsFiniteSet(S) =>
        IsFiniteSet(S \cup {x}) /\ Cardinality(S \cup {x}) <= Cardinality(S) + 1

CountPairs == \A S, T : IsFiniteSet(S) /\ IsFiniteSet(T) => IsFiniteSet(S \X T)

CountInjection ==
    \A S, T : \A f \in [S -> T] :
        IsFiniteSet(T) /\ (\A x, y \in S : f[x] = f[y] => x = y) =>
            Cardinality(S) <= Cardinality(T)

CountLaws ==
    /\ CountEmpty /\ CountSubset /\ CountPositions /\ CountAdded
    /\ CountPairs /\ CountInjection
=============================================================================
