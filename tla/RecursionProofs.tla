-------------------------- MODULE RecursionProofs --------------------------
(***************************************************************************)
(* Induction on the natural numbers and on sequences, with a set in place  *)
(* of the predicate, and what follows for the recursive functions of the   *)
(* project: Only (Subsequence) and Replay (ShardBook); then what one order *)
(* does to a book.                                                         *)
(***************************************************************************)
EXTENDS RecursionLaws, WellFoundedInduction, TLAPS

\* Induction on the natural numbers: a set of them that is not empty has a least
\* element.
LEMMA SetInduction ==
    ASSUME NEW S, 0 \in S, \A n \in Nat : n \in S => n + 1 \in S
    PROVE  \A n \in Nat : n \in S
<1> SUFFICES ASSUME NEW k \in Nat, k \notin S PROVE FALSE  OBVIOUS
<1> DEFINE T == {n \in Nat : n \notin S}
           R == OpToRel(<, Nat)
<1>1. \A m, n \in Nat : m < n => <<m, n>> \in R  BY DEF OpToRel
<1>2. IsWellFoundedOn(R, Nat)  BY Zenon, NatLessThanWellFounded
<1>3. T \in SUBSET Nat /\ T # {}  OBVIOUS
<1> HIDE DEF R, T
<1>4. PICK m \in T : \A n \in T : ~(<<n, m>> \in R)  BY Zenon, <1>2, <1>3, WFMin
<1>5. m \in Nat /\ \A n \in T : ~(n < m)  BY Zenon, <1>1, <1>3, <1>4
<1>6. m # 0 /\ m - 1 \in Nat /\ m - 1 \notin T  BY <1>4, <1>5 DEF T
<1>7. m \notin S /\ m - 1 \in S  BY <1>4, <1>6 DEF T
<1> QED  BY <1>5, <1>6, <1>7

\* Induction on sequences: one that is not empty ends with an element.
LEMMA SeqInduction ==
    ASSUME NEW T, NEW P, << >> \in P,
           \A s \in Seq(T), e \in T : s \in P => Append(s, e) \in P
    PROVE  \A s \in Seq(T) : s \in P
<1> DEFINE N == {n \in Nat : \A s \in Seq(T) : Len(s) = n => s \in P}
<1>1. 0 \in N
    <2>1. \A s \in Seq(T) : Len(s) = 0 => s = << >>  OBVIOUS
    <2> QED  BY <2>1
<1>2. ASSUME NEW n \in Nat, n \in N PROVE n + 1 \in N
    <2> SUFFICES ASSUME NEW s \in Seq(T), Len(s) = n + 1 PROVE s \in P  OBVIOUS
    <2>1. s = Append(SubSeq(s, 1, n), s[n + 1])  OBVIOUS
    <2>2. SubSeq(s, 1, n) \in Seq(T) /\ s[n + 1] \in T /\ Len(SubSeq(s, 1, n)) = n
        OBVIOUS
    <2>3. SubSeq(s, 1, n) \in P  BY Zenon, <1>2, <2>2
    <2> QED  BY Zenon, <2>1, <2>2, <2>3
<1> HIDE DEF N
<1>3. \A n \in Nat : n \in N  BY <1>1, <1>2, SetInduction
<1>4. \A s \in Seq(T) : Len(s) \in Nat  OBVIOUS
<1> QED  BY <1>3, <1>4 DEF N

\* A sequence that begins with p and goes on with x is p followed by x.
LEMMA ConcatIs ==
    ASSUME NEW T, NEW p \in Seq(T), NEW x \in Seq(T), NEW q \in Seq(T),
           Len(q) = Len(p) + Len(x),
           \A k \in 1..Len(p) : q[k] = p[k],
           \A k \in 1..Len(x) : q[Len(p) + k] = x[k]
    PROVE  p \o x = q
<1>1. p \o x \in Seq(T) /\ Len(p \o x) = Len(q)  OBVIOUS
<1>2. ASSUME NEW k \in 1..Len(q) PROVE (p \o x)[k] = q[k]
    <2>1. CASE k \in 1..Len(p)  BY <2>1
    <2>2. CASE k \notin 1..Len(p)
        <3>1. k - Len(p) \in 1..Len(x) /\ Len(p) + (k - Len(p)) = k  BY <2>2
        <3>2. (p \o x)[k] = x[k - Len(p)]  BY <2>2
        <3> QED  BY <3>1, <3>2
    <2> QED  BY <2>1, <2>2
<1> QED  BY <1>1, <1>2

-----------------------------------------------------------------------------
\* The recursion of Only has a solution: Only(s, S) is the last of the values g
\* that it runs through.
LEMMA OnlyUnfold ==
    ASSUME NEW s, NEW S, Len(s) \in Nat
    PROVE  \E g : /\ Only(s, S) = g[Len(s)] /\ g[0] = << >>
                  /\ \A i \in 1..Len(s) :
                        g[i] = IF s[i] \in S THEN Append(g[i - 1], s[i]) ELSE g[i - 1]
<1> DEFINE Fcn(g, n) ==
             g = [i \in 0..n |-> IF i = 0 THEN << >>
                                ELSE IF s[i] \in S THEN Append(g[i - 1], s[i]) ELSE g[i - 1]]
           N == {n \in Nat : \E g : Fcn(g, n)}
<1>1. 0 \in N
    <2>1. Fcn([i \in 0..0 |-> << >>], 0)  OBVIOUS
    <2> HIDE DEF Fcn
    <2> QED  BY <2>1
<1>2. ASSUME NEW n \in Nat, n \in N PROVE n + 1 \in N
    <2>1. PICK g : Fcn(g, n)  BY Zenon, <1>2
    <2> DEFINE last == IF s[n + 1] \in S THEN Append(g[n], s[n + 1]) ELSE g[n]
               h == [i \in 0..(n + 1) |-> IF i = n + 1 THEN last ELSE g[i]]
    <2>2. \A i \in 0..n : h[i] = g[i]  OBVIOUS
    <2>3. h[n + 1] = last  OBVIOUS
    <2>4. \A i \in 0..n : g[i] = IF i = 0 THEN << >>
                        ELSE IF s[i] \in S THEN Append(g[i - 1], s[i]) ELSE g[i - 1]
        BY Zenon, <2>1
    <2>5. \A i \in 0..(n + 1) : h[i] = IF i = 0 THEN << >>
                        ELSE IF s[i] \in S THEN Append(h[i - 1], s[i]) ELSE h[i - 1]
        <3> SUFFICES ASSUME NEW i \in 0..(n + 1)
                     PROVE  h[i] = IF i = 0 THEN << >>
                        ELSE IF s[i] \in S THEN Append(h[i - 1], s[i]) ELSE h[i - 1]
            BY Zenon
        <3>1. CASE i = n + 1
            <4>1. h[i - 1] = g[n] /\ h[i] = last /\ i # 0  BY <3>1, <2>2, <2>3
            <4> QED  BY <3>1, <4>1
        <3>2. CASE i \in 0..n /\ i # 0
            <4>1. h[i] = g[i] /\ h[i - 1] = g[i - 1]  BY <3>2, <2>2
            <4> HIDE DEF h
            <4> QED  BY <3>2, <4>1, <2>4
        <3>3. CASE i = 0  BY <3>3, <2>2, <2>4
        <3> QED  BY <3>1, <3>2, <3>3
    <2>6. h = [i \in 0..(n + 1) |-> h[i]]  OBVIOUS
    <2> HIDE DEF h
    <2>7. Fcn(h, n + 1)  BY Zenon, <2>5, <2>6
    <2> HIDE DEF Fcn
    <2> QED  BY <2>7
<1> HIDE DEF N
<1>3. \A n \in Nat : n \in N  BY <1>1, <1>2, SetInduction
<1> DEFINE g == CHOOSE g : Fcn(g, Len(s))
<1>4. Only(s, S) = g[Len(s)]  BY DEF Only
<1> HIDE DEF Fcn
<1>5. Fcn(g, Len(s))  BY <1>3 DEF N
<1> HIDE DEF g
<1>6. \A i \in 0..Len(s) : g[i] = IF i = 0 THEN << >>
                        ELSE IF s[i] \in S THEN Append(g[i - 1], s[i]) ELSE g[i - 1]
    BY Zenon, <1>5 DEF Fcn
<1>7. g[0] = << >>  BY <1>6
<1>8. \A i \in 1..Len(s) : g[i] = IF s[i] \in S THEN Append(g[i - 1], s[i]) ELSE g[i - 1]
    BY <1>6
<1> QED  BY <1>4, <1>7, <1>8

\* A sequence with one element more.
LEMMA OnlyAppend ==
    ASSUME NEW T, NEW s \in Seq(T), NEW e, NEW S
    PROVE  Only(Append(s, e), S) = IF e \in S THEN Append(Only(s, S), e) ELSE Only(s, S)
<1> DEFINE t == Append(s, e)
           k == Len(s)
<1>0. k \in Nat /\ Len(t) = k + 1 /\ t[k + 1] = e /\ \A i \in 1..k : t[i] = s[i]
    OBVIOUS
<1>1. PICK g : /\ Only(s, S) = g[k] /\ g[0] = << >>
               /\ \A i \in 1..k :
                     g[i] = IF s[i] \in S THEN Append(g[i - 1], s[i]) ELSE g[i - 1]
    BY <1>0, OnlyUnfold
<1> HIDE DEF t, k
<1>2. PICK h : /\ Only(t, S) = h[Len(t)] /\ h[0] = << >>
               /\ \A i \in 1..Len(t) :
                     h[i] = IF t[i] \in S THEN Append(h[i - 1], t[i]) ELSE h[i - 1]
    <2>1. Len(t) \in Nat  BY <1>0
    <2> QED  BY <2>1, OnlyUnfold
<1> DEFINE N == {i \in Nat : i <= k => g[i] = h[i]}
<1>3. 0 \in N  BY <1>1, <1>2
<1>4. ASSUME NEW n \in Nat, n \in N PROVE n + 1 \in N
    <2> SUFFICES ASSUME n + 1 <= k PROVE g[n + 1] = h[n + 1]  OBVIOUS
    <2>1. g[n] = h[n] /\ n + 1 \in 1..k /\ n + 1 \in 1..Len(t) /\ (n + 1) - 1 = n
        BY <1>0, <1>4
    <2>2. g[n + 1] = IF s[n + 1] \in S THEN Append(g[n], s[n + 1]) ELSE g[n]
        BY <1>1, <2>1
    <2>3. h[n + 1] = IF t[n + 1] \in S THEN Append(h[n], t[n + 1]) ELSE h[n]
        BY <1>2, <2>1
    <2> QED  BY <1>0, <2>1, <2>2, <2>3
<1> HIDE DEF N
<1>5. \A n \in Nat : n \in N  BY <1>3, <1>4, SetInduction
<1>6. g[k] = h[k]  BY <1>0, <1>5 DEF N
<1>7. k + 1 \in 1..Len(t) /\ (k + 1) - 1 = k  BY <1>0
<1>8. h[k + 1] = IF e \in S THEN Append(h[k], e) ELSE h[k]
    BY <1>0, <1>2, <1>7
<1> QED  BY <1>0, <1>1, <1>2, <1>6, <1>8 DEF t

\* Of nothing, nothing.
LEMMA OnlyEmpty == \A S : Only(<< >>, S) = << >>
<1> SUFFICES ASSUME NEW S PROVE Only(<< >>, S) = << >>  OBVIOUS
<1>1. Len(<< >>) = 0  OBVIOUS
<1> QED  BY <1>1, OnlyUnfold

\* Only of a sequence is one, of elements of both.
LEMMA OnlyType ==
    ASSUME NEW T, NEW S
    PROVE  \A s \in Seq(T) : Only(s, S) \in Seq(T \cap S)
<1> DEFINE P == {s \in Seq(T) : Only(s, S) \in Seq(T \cap S)}
<1>1. << >> \in P
    <2>1. << >> \in Seq(T) /\ << >> \in Seq(T \cap S)  OBVIOUS
    <2> QED  BY Zenon, <2>1, OnlyEmpty
<1>2. ASSUME NEW s \in Seq(T), NEW e \in T, s \in P PROVE Append(s, e) \in P
    <2>1. Only(s, S) \in Seq(T \cap S)  BY <1>2
    <2>2. Only(Append(s, e), S) = IF e \in S THEN Append(Only(s, S), e) ELSE Only(s, S)
        BY OnlyAppend
    <2>3. Only(Append(s, e), S) \in Seq(T \cap S)  BY <2>1, <2>2
    <2> QED  BY <2>3
<1> HIDE DEF P
<1>3. \A s \in Seq(T) : s \in P  BY <1>1, <1>2, SeqInduction
<1> QED  BY <1>3 DEF P

\* Only of a concatenation.
LEMMA OnlyConcat ==
    ASSUME NEW T, NEW s \in Seq(T), NEW S
    PROVE  \A t \in Seq(T) : Only(s \o t, S) = Only(s, S) \o Only(t, S)
<1>a. ASSUME NEW u \in Seq(T), NEW v \in Seq(T), NEW e \in T
      PROVE  Append(u \o v, e) = u \o Append(v, e)
    OBVIOUS
<1> DEFINE P == {t \in Seq(T) : Only(s \o t, S) = Only(s, S) \o Only(t, S)}
<1>1. << >> \in P
    <2>1. Only(s, S) \in Seq(T \cap S)  BY OnlyType
    <2>2. s \o << >> = s /\ Only(s, S) \o << >> = Only(s, S)  BY <2>1
    <2>3. << >> \in Seq(T) /\ Only(<< >>, S) = << >>  BY OnlyEmpty
    <2> QED  BY Zenon, <2>2, <2>3
<1>2. ASSUME NEW r \in Seq(T), NEW e \in T, r \in P PROVE Append(r, e) \in P
    <2>1. PICK t : t = Append(r, e)  BY Zenon
    <2>2. Only(s \o r, S) = Only(s, S) \o Only(r, S)  BY <1>2
    <2>3. PICK u : u = s \o r  BY Zenon
    <2>4. u \in Seq(T) /\ t \in Seq(T) /\ s \o t = Append(u, e)  BY <2>1, <2>3
    <2>5. Only(s \o t, S) = IF e \in S THEN Append(Only(u, S), e) ELSE Only(u, S)
        BY <2>4, OnlyAppend
    <2>6. Only(t, S) = IF e \in S THEN Append(Only(r, S), e) ELSE Only(r, S)
        BY <2>1, OnlyAppend
    <2>7. PICK x, y : x = Only(s, S) /\ y = Only(r, S)  OBVIOUS
    <2>8. x \in Seq(T) /\ y \in Seq(T)
        <3>1. x \in Seq(T \cap S) /\ y \in Seq(T \cap S)  BY <2>7, OnlyType
        <3> QED  BY <3>1
    <2>9. Append(x \o y, e) = x \o Append(y, e)  BY Zenon, <2>8, <1>a
    <2>10. Only(s \o t, S) = Only(s, S) \o Only(t, S)
        BY <2>2, <2>3, <2>5, <2>6, <2>7, <2>9
    <2> QED  BY Zenon, <2>1, <2>4, <2>10
<1> HIDE DEF P
<1>3. \A t \in Seq(T) : t \in P  BY <1>1, <1>2, SeqInduction
<1> QED  BY <1>3 DEF P

\* Only of a prefix is a prefix.
LEMMA OnlyPrefix ==
    ASSUME NEW T, NEW s \in Seq(T), NEW n \in 0..Len(s), NEW S
    PROVE  LET p == Only(SubSeq(s, 1, n), S)
           IN  p = SubSeq(Only(s, S), 1, Len(p)) /\ Len(p) <= Len(Only(s, S))
<1> DEFINE a == SubSeq(s, 1, n)
           b == SubSeq(s, n + 1, Len(s))
           p == Only(a, S)
           q == Only(b, S)
<1>0. /\ a \in Seq(T) /\ b \in Seq(T) /\ Len(a) = n /\ Len(b) = Len(s) - n
      /\ \A i \in 1..n : a[i] = s[i]
      /\ \A i \in 1..(Len(s) - n) : b[i] = s[n + i]
    OBVIOUS
<1> HIDE DEF a, b
<1>1. a \o b = s
    <2>1. Len(s) = Len(a) + Len(b)  BY <1>0
    <2>2. \A i \in 1..Len(a) : s[i] = a[i]  BY <1>0
    <2>3. \A i \in 1..Len(b) : s[Len(a) + i] = b[i]  BY <1>0
    <2>4. a \in Seq(T) /\ b \in Seq(T)  BY <1>0
    <2> QED  BY Zenon, <2>1, <2>2, <2>3, <2>4, ConcatIs
<1>2. Only(s, S) = p \o q
    <2>1. a \in Seq(T) /\ b \in Seq(T)  BY <1>0
    <2>2. Only(a \o b, S) = p \o q  BY <2>1, OnlyConcat
    <2> QED  BY <1>1, <2>2
<1>3. p \in Seq(T \cap S) /\ q \in Seq(T \cap S)  BY <1>0, OnlyType
<1> HIDE DEF p, q
<1>4. p = SubSeq(p \o q, 1, Len(p)) /\ Len(p) <= Len(p \o q)  BY <1>3
<1> QED  BY <1>2, <1>4 DEF a, p

\* Sets that agree on the elements of a sequence select the same of them.
LEMMA OnlyAgree ==
    ASSUME NEW T, NEW R, NEW S, T \cap R = T \cap S
    PROVE  \A s \in Seq(T) : Only(s, R) = Only(s, S)
<1> DEFINE P == {s \in Seq(T) : Only(s, R) = Only(s, S)}
<1>1. << >> \in P  BY OnlyEmpty
<1>2. ASSUME NEW s \in Seq(T), NEW e \in T, s \in P PROVE Append(s, e) \in P
    <2>1. Only(s, R) = Only(s, S) /\ (e \in R <=> e \in S) /\ Append(s, e) \in Seq(T)
        BY <1>2
    <2>2. Only(Append(s, e), R) = IF e \in R THEN Append(Only(s, R), e) ELSE Only(s, R)
        BY OnlyAppend
    <2>3. Only(Append(s, e), S) = IF e \in S THEN Append(Only(s, S), e) ELSE Only(s, S)
        BY OnlyAppend
    <2> QED  BY <2>1, <2>2, <2>3
<1> HIDE DEF P
<1>3. \A s \in Seq(T) : s \in P  BY <1>1, <1>2, SeqInduction
<1> QED  BY <1>3 DEF P

\* A sequence of elements of the set is kept as it is.
LEMMA OnlyAll ==
    ASSUME NEW T, NEW S, T \subseteq S
    PROVE  \A s \in Seq(T) : Only(s, S) = s
<1> DEFINE P == {s \in Seq(T) : Only(s, S) = s}
<1>1. << >> \in P  BY OnlyEmpty
<1>2. ASSUME NEW s \in Seq(T), NEW e \in T, s \in P PROVE Append(s, e) \in P
    <2>1. Only(s, S) = s /\ e \in S /\ Append(s, e) \in Seq(T)  BY <1>2
    <2>2. Only(Append(s, e), S) = IF e \in S THEN Append(Only(s, S), e) ELSE Only(s, S)
        BY OnlyAppend
    <2> QED  BY <2>1, <2>2
<1> HIDE DEF P
<1>3. \A s \in Seq(T) : s \in P  BY <1>1, <1>2, SeqInduction
<1> QED  BY <1>3 DEF P

\* Of a sequence without elements of the set nothing is left.
LEMMA OnlyNone ==
    ASSUME NEW T, NEW S, T \cap S = {}
    PROVE  \A s \in Seq(T) : Only(s, S) = << >>
<1>1. \A s \in Seq(T) : Only(s, S) \in Seq({})  BY OnlyType
<1>2. \A s \in Seq({}) : s = << >>  OBVIOUS
<1> QED  BY <1>1, <1>2

-----------------------------------------------------------------------------
\* The recursion of Replay has a solution, as that of Only.
LEMMA ReplayUnfold ==
    ASSUME NEW ns, NEW qs, Len(qs) \in Nat
    PROVE  \E g : /\ Replay(ns, qs) = g[Len(qs)] /\ g[0] = NoOrders
                  /\ \A i \in 1..Len(qs) : g[i] = Replayed(g[i - 1], ns[i], qs[i])
<1> DEFINE Fcn(g, n) ==
             g = [i \in 0..n |-> IF i = 0 THEN NoOrders ELSE Replayed(g[i - 1], ns[i], qs[i])]
           N == {n \in Nat : \E g : Fcn(g, n)}
<1>1. 0 \in N
    <2>1. Fcn([i \in 0..0 |-> NoOrders], 0)  OBVIOUS
    <2> HIDE DEF Fcn
    <2> QED  BY <2>1
<1>2. ASSUME NEW n \in Nat, n \in N PROVE n + 1 \in N
    <2>1. PICK g : Fcn(g, n)  BY <1>2
    <2> DEFINE h == [i \in 0..(n + 1) |-> IF i = n + 1 THEN Replayed(g[n], ns[n + 1], qs[n + 1])
                                          ELSE g[i]]
    <2>2. \A i \in 0..n : h[i] = g[i]  OBVIOUS
    <2>3. h[n + 1] = Replayed(g[n], ns[n + 1], qs[n + 1])  OBVIOUS
    <2>4. \A i \in 0..n : g[i] = IF i = 0 THEN NoOrders ELSE Replayed(g[i - 1], ns[i], qs[i])
        BY <2>1
    <2>5. h = [i \in 0..(n + 1) |-> h[i]]  OBVIOUS
    <2> HIDE DEF h
    <2>6. \A i \in 0..(n + 1) : h[i] = IF i = 0 THEN NoOrders ELSE Replayed(h[i - 1], ns[i], qs[i])
        <3> SUFFICES ASSUME NEW i \in 0..(n + 1)
                     PROVE  h[i] = IF i = 0 THEN NoOrders ELSE Replayed(h[i - 1], ns[i], qs[i])
            OBVIOUS
        <3>1. CASE i = n + 1
            <4>1. h[i - 1] = g[n] /\ i # 0  BY <3>1, <2>2
            <4> QED  BY <3>1, <4>1, <2>3
        <3>2. CASE i \in 0..n /\ i # 0
            <4>1. h[i] = g[i] /\ h[i - 1] = g[i - 1]  BY <3>2, <2>2
            <4> QED  BY <3>2, <4>1, <2>4
        <3>3. CASE i = 0  BY <3>3, <2>2, <2>4
        <3> QED  BY <3>1, <3>2, <3>3
    <2>7. Fcn(h, n + 1)  BY Zenon, <2>5, <2>6
    <2> HIDE DEF Fcn
    <2> QED  BY <2>7
<1> HIDE DEF N
<1>3. \A n \in Nat : n \in N  BY <1>1, <1>2, SetInduction
<1> DEFINE g == CHOOSE g : Fcn(g, Len(qs))
<1>4. Replay(ns, qs) = g[Len(qs)]  BY DEF Replay, Replayed, NoOrders
<1> HIDE DEF Fcn
<1>5. Fcn(g, Len(qs))  BY <1>3 DEF N
<1> HIDE DEF g
<1>6. \A i \in 0..Len(qs) : g[i] = IF i = 0 THEN NoOrders ELSE Replayed(g[i - 1], ns[i], qs[i])
    BY <1>5 DEF Fcn
<1>7. g[0] = NoOrders /\ \A i \in 1..Len(qs) : g[i] = Replayed(g[i - 1], ns[i], qs[i])
    BY <1>6
<1> QED  BY <1>4, <1>7

\* Nothing was given to the engine.
LEMMA ReplayEmpty == \A ns : Replay(ns, << >>) = NoOrders
<1> SUFFICES ASSUME NEW ns PROVE Replay(ns, << >>) = NoOrders  OBVIOUS
<1>1. Len(<< >>) = 0  OBVIOUS
<1> QED  BY <1>1, ReplayUnfold

\* The engine is given one order more.
LEMMA ReplayAppend ==
    ASSUME NEW A, NEW B, NEW ns \in Seq(A), NEW qs \in Seq(B), Len(ns) = Len(qs),
           NEW n, NEW q
    PROVE  Replay(Append(ns, n), Append(qs, q)) = Replayed(Replay(ns, qs), n, q)
<1> DEFINE ms == Append(ns, n)
           ps == Append(qs, q)
           k == Len(qs)
<1>0. /\ k \in Nat /\ Len(ps) = k + 1 /\ ms[k + 1] = n /\ ps[k + 1] = q
      /\ \A i \in 1..k : ms[i] = ns[i] /\ ps[i] = qs[i]
    OBVIOUS
<1>1. PICK g : /\ Replay(ns, qs) = g[k] /\ g[0] = NoOrders
               /\ \A i \in 1..k : g[i] = Replayed(g[i - 1], ns[i], qs[i])
    BY Zenon, <1>0, ReplayUnfold
<1> HIDE DEF ms, ps, k
<1>2. PICK h : /\ Replay(ms, ps) = h[k + 1] /\ h[0] = NoOrders
               /\ \A i \in 1..(k + 1) : h[i] = Replayed(h[i - 1], ms[i], ps[i])
    BY <1>0, ReplayUnfold
<1> DEFINE N == {i \in Nat : i <= k => g[i] = h[i]}
<1>3. 0 \in N  BY <1>1, <1>2
<1>4. ASSUME NEW i \in Nat, i \in N PROVE i + 1 \in N
    <2> SUFFICES ASSUME i + 1 <= k PROVE g[i + 1] = h[i + 1]  OBVIOUS
    <2>1. g[i] = h[i] /\ i + 1 \in 1..k /\ i + 1 \in 1..(k + 1) /\ (i + 1) - 1 = i
        BY <1>0, <1>4
    <2>2. g[i + 1] = Replayed(g[i], ns[i + 1], qs[i + 1])  BY <1>1, <2>1
    <2>3. h[i + 1] = Replayed(h[i], ms[i + 1], ps[i + 1])  BY <1>2, <2>1
    <2> QED  BY <1>0, <2>1, <2>2, <2>3
<1> HIDE DEF N
<1>5. \A i \in Nat : i \in N  BY <1>3, <1>4, SetInduction
<1>6. g[k] = h[k]  BY <1>0, <1>5 DEF N
<1>7. k + 1 \in 1..(k + 1) /\ (k + 1) - 1 = k  BY <1>0
<1>8. h[k + 1] = Replayed(h[k], n, q)
    <2>1. h[k + 1] = Replayed(h[k], ms[k + 1], ps[k + 1])  BY <1>2, <1>7
    <2> QED  BY <1>0, <2>1
<1> QED  BY <1>1, <1>2, <1>6, <1>8 DEF ms, ps

\* What one order more does to the book and to the trades.
LEMMA ReplayedFieldsHold == ReplayedFields
<1> SUFFICES ASSUME NEW r, NEW n, NEW q
             PROVE  /\ Replayed(r, n, q).book = BookAfter(r.book, n, q)
                    /\ Replayed(r, n, q).trades = r.trades \o TradesOf(r.book, n, q)
    BY Zenon DEF ReplayedFields
<1>1. ASSUME NEW x, NEW y
      PROVE  [book |-> x, trades |-> y].book = x /\ [book |-> x, trades |-> y].trades = y
    OBVIOUS
<1> DEFINE x == BookAfter(r.book, n, q)
           y == r.trades \o TradesOf(r.book, n, q)
<1>2. Replayed(r, n, q) = [book |-> x, trades |-> y]  BY DEF Replayed
<1> HIDE DEF x, y
<1>3. Replayed(r, n, q).book = x /\ Replayed(r, n, q).trades = y  BY <1>1, <1>2
<1> QED  BY <1>3 DEF x, y

-----------------------------------------------------------------------------
\* How many resting orders a new order trades with.
LEMMA FilledType ==
    ASSUME NEW T, NEW b \in Seq(T), NEW q \in Nat
    PROVE  Filled(b, q) \in 0..Len(b)
BY DEF Filled

\* What is left of a book when its first k orders are gone.
LEMMA DropFacts ==
    ASSUME NEW T, NEW b \in Seq(T), NEW k \in 0..Len(b)
    PROVE  /\ SubSeq(b, k + 1, Len(b)) \in Seq(T)
           /\ Len(SubSeq(b, k + 1, Len(b))) = Len(b) - k
           /\ \A i \in 1..(Len(b) - k) : SubSeq(b, k + 1, Len(b))[i] = b[i + k]
OBVIOUS

\* Books and trades name orders that there are.
LEMMA BookTypes ==
    ASSUME NEW N \in Nat, NEW b \in Seq(1..N), NEW n \in 1..N, NEW q \in Nat
    PROVE  /\ BookAfter(b, n, q) \in Seq(1..N)
           /\ TradesOf(b, n, q) \in Seq((1..N) \X (1..N))
<1> DEFINE k == Filled(b, q)
<1>1. k \in 0..Len(b)  BY FilledType
<1>2. BookAfter(b, n, q) = IF q = 0 THEN Append(b, n) ELSE SubSeq(b, k + 1, Len(b))
    BY DEF BookAfter
<1>3. TradesOf(b, n, q) = [i \in 1..k |-> <<b[i], n>>]  BY DEF TradesOf
<1> HIDE DEF k
<1>4. SubSeq(b, k + 1, Len(b)) \in Seq(1..N)  BY <1>1, DropFacts
<1>5. Append(b, n) \in Seq(1..N)  OBVIOUS
<1>6. TradesOf(b, n, q) \in Seq((1..N) \X (1..N))
    <2>1. \A i \in 1..k : <<b[i], n>> \in (1..N) \X (1..N)  BY <1>1
    <2>2. k \in Nat  BY <1>1
    <2> QED  BY <1>3, <2>1, <2>2
<1> QED  BY Zenon, <1>2, <1>4, <1>5, <1>6

\* Orders rest in the order of their positions.
LEMMA BooksAreIncreasing ==
    ASSUME NEW b \in Seq(Nat), NEW n \in Nat, NEW q \in Nat,
           \A i \in 1..Len(b) : b[i] < n,
           \A i, j \in 1..Len(b) : i < j => b[i] < b[j],
           NEW c, c = BookAfter(b, n, q)
    PROVE  /\ \A i \in 1..Len(c) : c[i] <= n
           /\ \A i, j \in 1..Len(c) : i < j => c[i] < c[j]
<1> DEFINE k == Filled(b, q)
<1>1. k \in 0..Len(b)  BY FilledType
<1>2. CASE q = 0
    <2>1. c = Append(b, n)  BY <1>2 DEF BookAfter
    <2>2. /\ Len(c) = Len(b) + 1 /\ c[Len(b) + 1] = n
          /\ \A i \in 1..Len(b) : c[i] = b[i] /\ c[i] \in Nat
        BY <2>1
    <2>3. \A i \in 1..Len(c) : c[i] <= n  BY <2>2
    <2>4. ASSUME NEW i \in 1..Len(c), NEW j \in 1..Len(c), i < j PROVE c[i] < c[j]
        <3>1. i \in 1..Len(b) /\ c[i] = b[i] /\ b[i] < n  BY <2>2, <2>4
        <3>2. CASE j = Len(b) + 1  BY <2>2, <3>1, <3>2
        <3>3. CASE j \in 1..Len(b)  BY <2>2, <2>4, <3>1, <3>3
        <3> QED  BY <2>2, <3>2, <3>3
    <2> QED  BY <2>3, <2>4
<1>3. CASE q # 0
    <2>1. c = SubSeq(b, k + 1, Len(b))  BY Zenon, <1>3 DEF BookAfter
    <2> HIDE DEF k
    <2>2. Len(c) = Len(b) - k /\ \A i \in 1..(Len(b) - k) : c[i] = b[i + k]
        BY <1>1, <2>1, DropFacts
    <2>3. ASSUME NEW i \in 1..Len(c)
          PROVE  i + k \in 1..Len(b) /\ c[i] = b[i + k] /\ c[i] \in Nat
        <3>1. i + k \in 1..Len(b) /\ i \in 1..(Len(b) - k)  BY <1>1, <2>2
        <3>2. c[i] = b[i + k]  BY <2>2, <3>1
        <3> QED  BY <3>1, <3>2
    <2>4. \A i \in 1..Len(c) : c[i] <= n  BY <2>3
    <2>5. \A i, j \in 1..Len(c) : i < j => i + k < j + k  BY <1>1, <2>2
    <2> QED  BY Zenon, <2>3, <2>4, <2>5
<1> QED  BY <1>2, <1>3

\* A new order trades with each resting order at most once.
LEMMA TradesAreDistinct ==
    ASSUME NEW b \in Seq(Nat), NEW n \in Nat, NEW q \in Nat,
           \A i, j \in 1..Len(b) : i < j => b[i] < b[j],
           NEW t, t = TradesOf(b, n, q)
    PROVE  /\ \A i \in 1..Len(t) : t[i][2] = n
           /\ \A i, j \in 1..Len(t) : i # j => t[i] # t[j]
<1> DEFINE k == Filled(b, q)
<1>1. k \in 0..Len(b)  BY FilledType
<1>2. Len(t) = k /\ \A i \in 1..k : t[i] = <<b[i], n>>  BY <1>1 DEF TradesOf
<1> HIDE DEF k
<1>3. \A i, j \in 1..Len(b) : i # j => b[i] # b[j]
    <2>1. \A i, j \in 1..Len(b) : i # j => i < j \/ j < i  OBVIOUS
    <2>2. \A i \in 1..Len(b) : b[i] \in Nat  OBVIOUS
    <2> QED  BY <2>1, <2>2
<1>4. \A i \in 1..Len(t) : t[i][2] = n  BY <1>2
<1>5. ASSUME NEW i \in 1..Len(t), NEW j \in 1..Len(t), i # j PROVE t[i] # t[j]
    <2>1. i \in 1..Len(b) /\ j \in 1..Len(b)  BY <1>1, <1>2
    <2>2. b[i] # b[j]  BY <1>3, <1>5, <2>1
    <2>3. t[i] = <<b[i], n>> /\ t[j] = <<b[j], n>>  BY <1>2
    <2> QED  BY <2>2, <2>3
<1> QED  BY <1>4, <1>5

-----------------------------------------------------------------------------
\* A position of a log is one of a longer log.
LEMMA LongerLogHolds == LongerLog
<1> SUFFICES ASSUME NEW n \in Nat
             PROVE  /\ Seq(1..n) \subseteq Seq(1..(n + 1))
                    /\ Seq((1..n) \X (1..n)) \subseteq Seq((1..(n + 1)) \X (1..(n + 1)))
    BY Zenon DEF LongerLog
<1>1. 1..n \subseteq 1..(n + 1)  OBVIOUS
<1>2. (1..n) \X (1..n) \subseteq (1..(n + 1)) \X (1..(n + 1))  BY <1>1
<1> QED  BY <1>1, <1>2

-----------------------------------------------------------------------------
\* What the other proofs use of Only.
THEOREM OnlyLawsHold == OnlyLaws
<1>1. OnlyOfNothing  BY OnlyEmpty DEF OnlyOfNothing
<1>2. OnlyOfAppend  BY OnlyAppend DEF OnlyOfAppend
<1>3. OnlyOfConcat  BY OnlyConcat DEF OnlyOfConcat
<1>4. OnlyOfPrefix  BY Zenon, OnlyPrefix DEF OnlyOfPrefix
<1>5. OnlyTyped  BY Zenon, OnlyType DEF OnlyTyped
<1>6. OnlyAgrees  BY Zenon, OnlyAgree DEF OnlyAgrees
<1>7. OnlyKeepsAll  BY Zenon, OnlyAll DEF OnlyKeepsAll
<1>8. OnlyKeepsNone  BY Zenon, OnlyNone DEF OnlyKeepsNone
<1> QED  BY <1>1, <1>2, <1>3, <1>4, <1>5, <1>6, <1>7, <1>8 DEF OnlyLaws

\* What they use of Replay and of books.
THEOREM ReplayLawsHold == ReplayLaws
<1>1. ReplayOfNothing  BY ReplayEmpty DEF ReplayOfNothing
<1>2. ReplayOfAppend  BY ReplayAppend DEF ReplayOfAppend
<1>3. BookTyped  BY Zenon, BookTypes DEF BookTyped
<1>4. ASSUME NEW b \in Seq(Nat), NEW n \in Nat, NEW q \in Nat, Increasing(b),
             \A i \in 1..Len(b) : b[i] < n
      PROVE  LET c == BookAfter(b, n, q)
             IN  Increasing(c) /\ \A i \in 1..Len(c) : c[i] <= n
    <2>1. PICK c : c = BookAfter(b, n, q)  BY Zenon
    <2>2. Increasing(c) /\ \A i \in 1..Len(c) : c[i] <= n
        BY <1>4, <2>1, BooksAreIncreasing DEF Increasing
    <2> QED  BY Zenon, <2>1, <2>2
<1>5. ASSUME NEW b \in Seq(Nat), NEW n \in Nat, NEW q \in Nat, Increasing(b)
      PROVE  LET t == TradesOf(b, n, q)
             IN  /\ \A i \in 1..Len(t) : t[i][2] = n
                 /\ \A i, j \in 1..Len(t) : i # j => t[i] # t[j]
    <2>1. PICK t : t = TradesOf(b, n, q)  BY Zenon
    <2>2. /\ \A i \in 1..Len(t) : t[i][2] = n
          /\ \A i, j \in 1..Len(t) : i # j => t[i] # t[j]
        BY <1>5, <2>1, TradesAreDistinct DEF Increasing
    <2> QED  BY Zenon, <2>1, <2>2
<1>6. BookIncreasing /\ TradesDistinct  BY Zenon, <1>4, <1>5 DEF BookIncreasing, TradesDistinct
<1> QED  BY <1>1, <1>2, <1>3, <1>6, ReplayedFieldsHold, LongerLogHolds DEF ReplayLaws

-----------------------------------------------------------------------------
INSTANCE FiniteSetTheorems

\* What they use of finite sets.
THEOREM CountLawsHold == CountLaws
<1>1. CountEmpty  BY FS_EmptySet DEF CountEmpty
<1>2. CountSubset
    <2>1. \A S : IsFiniteSet(S) => Cardinality(S) \in Nat  BY Zenon, FS_CardinalityType
    <2>2. \A S : IsFiniteSet(S) => \A T \in SUBSET S :
                    IsFiniteSet(T) /\ Cardinality(T) <= Cardinality(S)
        BY Zenon, FS_Subset
    <2> QED  BY Zenon, <2>1, <2>2 DEF CountSubset
<1>3. CountPositions
    <2> SUFFICES ASSUME NEW n \in Nat, NEW S \in SUBSET (0..n)
                 PROVE  IsFiniteSet(S) /\ Cardinality(S) \in Nat
        BY Zenon DEF CountPositions
    <2>1. IsFiniteSet(0..n)  BY FS_Interval
    <2> QED  BY Zenon, <2>1, <1>2 DEF CountSubset
<1>4. CountAdded
    <2> SUFFICES ASSUME NEW S, NEW x, IsFiniteSet(S)
                 PROVE  /\ IsFiniteSet(S \cup {x})
                        /\ Cardinality(S \cup {x}) <= Cardinality(S) + 1
        BY Zenon DEF CountAdded
    <2>1. PICK n, u : n = Cardinality(S) /\ u = Cardinality(S \cup {x})  BY Zenon
    <2>2. n \in Nat  BY Zenon, <2>1, FS_CardinalityType
    <2>3. IsFiniteSet(S \cup {x}) /\ u = IF x \in S THEN n ELSE n + 1
        BY Zenon, <2>1, FS_AddElement
    <2>4. u <= n + 1  BY <2>2, <2>3
    <2> QED  BY Zenon, <2>1, <2>3, <2>4
<1>5. CountPairs  BY Zenon, FS_Product DEF CountPairs
<1>6. CountInjection
    <2> SUFFICES ASSUME NEW S, NEW T, NEW f \in [S -> T], IsFiniteSet(T),
                        \A x, y \in S : f[x] = f[y] => x = y
                 PROVE  Cardinality(S) <= Cardinality(T)
        BY Zenon DEF CountInjection
    <2>1. f \in Injection(S, T)  BY Zenon DEF Injection, IsInjective
    <2> QED  BY Zenon, <2>1, FS_Injection
<1> QED  BY <1>1, <1>2, <1>3, <1>4, <1>5, <1>6 DEF CountLaws
=============================================================================
