--------------------------- MODULE ClusterProofs ---------------------------
(***************************************************************************)
(* The sharded system, for any number of shards, gateways, subscribers and *)
(* symbols, any hash and any orders: what the trade logs hold, when an     *)
(* engine warns, and what a subscriber is shown.                           *)
(***************************************************************************)
EXTENDS Cluster, RecursionLaws, TLAPS

Ords == [symbol : Symbols, quantity : Quantities, n : Nat]

\* Types.  Orders are numbered in the order of their appends, and one that is in
\* a shard's log is the one that was pushed under its number.
ClusterTypes ==
    /\ gshards \in [Gateways -> ShardCounts] /\ eshards \in [Shards -> ShardCounts]
    /\ pushes \in Seq(Ords) /\ \A i \in 1..Len(pushes) : pushes[i].n = i
    /\ log \in [Shards -> Seq(Ords)]
    /\ \A sh \in Shards : \A i \in 1..Len(log[sh]) :
          log[sh][i].n \in 1..Len(pushes) /\ pushes[log[sh][i].n] = log[sh][i]
    /\ offset \in [Shards -> Nat] /\ \A sh \in Shards : offset[sh] <= Len(log[sh])
    /\ books \in [Shards -> [Symbols -> Seq(1..Len(pushes))]]
    /\ warned \in [Shards -> BOOLEAN]
    /\ trades \in [Shards -> Seq((1..Len(pushes)) \X (1..Len(pushes)))]

SubscriberTypes ==
    /\ follows \in [Subscribers -> Shards]
    /\ scheckpoint \in [Subscribers -> Nat] /\ soffset \in [Subscribers -> Nat]
    /\ spc \in [Subscribers -> {"down", "loop", "checkpoint", "return"}]
    /\ sstarts \in [Subscribers -> Nat] /\ skills \in [Subscribers -> Nat]
    /\ seen \in [Subscribers -> Seq(Nat)]

\* A subscriber's checkpoint is current whenever it is not being written, as a
\* consumer's is in ShardReplicasProofs.
Unseen(s) == {n \in 1..ReadUpTo(s) : n \notin Range(seen[s])}

SubscriberInv(s) ==
    /\ soffset[s] <= Len(trades[follows[s]])
    /\ spc[s] \in {"loop", "return"} => scheckpoint[s] = soffset[s]
    /\ spc[s] = "checkpoint" => scheckpoint[s] = 0
    /\ spc[s] \in {"checkpoint", "return"} => soffset[s] > 0
    /\ spc[s] = "down" => scheckpoint[s] <= soffset[s]
    /\ skills[s] = 0 => seen[s] = [i \in 1..ReadUpTo(s) |-> i]
    /\ Cardinality(Unseen(s)) <= skills[s]

\* Whatever the counts, a shard's book of a symbol and its trades in it are what
\* one engine makes of the orders for the symbol that the shard has applied.
MatchInv(sh, sym) ==
    /\ books[sh][sym] = OneBook(For(sym, Applied(sh))).book
    /\ Only(trades[sh], In(sym)) = OneBook(For(sym, Applied(sh))).trades

\* Where orders go when all processes count n shards.
AllCount(n) == (\A g \in Gateways : gshards[g] = n) /\ (\A sh \in Shards : eshards[sh] = n)

RouteInv ==
    \A n \in ShardCounts : AllCount(n) => \A sh \in Shards :
        /\ \A i \in 1..Len(log[sh]) : ShardOf(log[sh][i].symbol, n) = sh
        /\ \A sym \in Symbols : ShardOf(sym, n) = sh => For(sym, log[sh]) = For(sym, pushes)

\* An engine has warned when, and only when, it has applied a misplaced order.
WarnInv ==
    \A sh \in Shards :
        warned[sh] <=> \E i \in 1..offset[sh] : Expected(sh, log[sh][i]) # sh

EngineInv ==
    /\ ClusterTypes /\ RouteInv /\ WarnInv
    /\ \A sh \in Shards, sym \in Symbols : MatchInv(sh, sym)

SubscribersInv == SubscriberTypes /\ \A s \in Subscribers : SubscriberInv(s)

\* A trade log has a length.
LEMMA TradeCount ==
    ASSUME ClusterTypes, NEW sh \in Shards PROVE Len(trades[sh]) \in Nat
<1>1. PICK T : T = (1..Len(pushes)) \X (1..Len(pushes))  BY Zenon
<1>2. trades[sh] \in Seq(T)  BY <1>1 DEF ClusterTypes
<1> QED  BY <1>2

\* What a sequence holds when it has one element more.
LEMMA RangeOfAppend ==
    ASSUME NEW t \in Seq(Nat), NEW k \in Nat
    PROVE  \A n \in Nat : n \in Range(Append(t, k)) <=> n \in Range(t) \/ n = k
<1>1. DOMAIN t = 1..Len(t) /\ DOMAIN Append(t, k) = 1..(Len(t) + 1)  OBVIOUS
<1> QED  BY <1>1 DEF Range

\* The orders for a symbol when there is one order more.
LEMMA ForAppend ==
    ASSUME OnlyLaws, NEW os \in Seq(Ords), NEW o \in Ords, NEW sym
    PROVE  For(sym, Append(os, o)) =
               IF o.symbol = sym THEN Append(For(sym, os), o) ELSE For(sym, os)
<1> DEFINE S == [symbol : {sym}, quantity : Quantities, n : Nat]
<1>1. o \in S <=> o.symbol = sym  BY DEF Ords
<1> HIDE DEF S
<1>2. Only(Append(os, o), S) = IF o \in S THEN Append(Only(os, S), o) ELSE Only(os, S)
    BY DEF OnlyLaws, OnlyOfAppend
<1>3. \A u : For(sym, u) = Only(u, S)  BY DEF For, S
<1> QED  BY <1>1, <1>2, <1>3

\* They are orders.
LEMMA ForType ==
    ASSUME OnlyLaws, NEW os \in Seq(Ords), NEW sym
    PROVE  For(sym, os) \in Seq(Ords)
<1> DEFINE S == [symbol : {sym}, quantity : Quantities, n : Nat]
<1> HIDE DEF S
<1>1. Only(os, S) \in Seq(Ords \cap S)  BY DEF OnlyLaws, OnlyTyped
<1>2. Seq(Ords \cap S) \subseteq Seq(Ords)
    <2>1. Ords \cap S \subseteq Ords  OBVIOUS
    <2> QED  BY <2>1
<1> QED  BY <1>1, <1>2 DEF For, S

\* No order, none for a symbol.
LEMMA ForEmpty ==
    ASSUME OnlyLaws PROVE \A sym : For(sym, << >>) = << >>
BY DEF OnlyLaws, OnlyOfNothing, For

\* If there is any order for a symbol, one of the orders is for it.
LEMMA ForSome ==
    ASSUME OnlyLaws, NEW os \in Seq(Ords), NEW sym, For(sym, os) # << >>
    PROVE  \E i \in 1..Len(os) : os[i].symbol = sym
<1> SUFFICES ASSUME \A i \in 1..Len(os) : os[i].symbol # sym PROVE FALSE  OBVIOUS
<1> DEFINE S == [symbol : {sym}, quantity : Quantities, n : Nat]
           T == {o \in Ords : o.symbol # sym}
<1>1. os \in Seq(T)
    <2>1. \A i \in 1..Len(os) : os[i] \in T  OBVIOUS
    <2>2. Len(os) \in Nat /\ os = [i \in 1..Len(os) |-> os[i]]  OBVIOUS
    <2> HIDE DEF T
    <2>3. os \in [1..Len(os) -> T]  BY <2>1, <2>2
    <2> QED  BY <2>2, <2>3
<1>2. T \cap S = {}  OBVIOUS
<1> HIDE DEF S, T
<1>3. Only(os, S) = << >>  BY <1>1, <1>2 DEF OnlyLaws, OnlyKeepsNone
<1> QED  BY <1>3 DEF For, S

\* No order leaves no book and no trades.
LEMMA OneBookEmpty ==
    ASSUME ReplayLaws PROVE OneBook(<< >>) = NoOrders
<1>1. [i \in 1..Len(<< >>) |-> << >>[i].quantity] = << >>  OBVIOUS
<1> QED  BY <1>1 DEF OneBook, ReplayLaws, ReplayOfNothing

\* One order more is matched after the others.
LEMMA OneBookAppend ==
    ASSUME ReplayLaws, NEW os \in Seq(Ords), NEW o \in Ords
    PROVE  OneBook(Append(os, o)) = Replayed(OneBook(os), o.n, o.quantity)
<1> DEFINE k == Len(os)
           t == Append(os, o)
           ns == [i \in 1..k |-> os[i].n]
           qs == [i \in 1..k |-> os[i].quantity]
<1>1. k \in Nat /\ \A i \in 1..k : os[i].n \in Nat /\ os[i].quantity \in Quantities
    <2>1. \A x \in Ords : x.n \in Nat /\ x.quantity \in Quantities  BY DEF Ords
    <2>2. k \in Nat /\ \A i \in 1..k : os[i] \in Ords  OBVIOUS
    <2> QED  BY <2>1, <2>2
<1>2. Len(t) = k + 1 /\ t[k + 1] = o /\ \A i \in 1..k : t[i] = os[i]  OBVIOUS
<1> HIDE DEF k, t
<1>3. ns \in Seq(Nat) /\ Len(ns) = k /\ qs \in Seq(Quantities) /\ Len(qs) = k
    BY <1>1
<1>4. [i \in 1..(k + 1) |-> t[i].n] = Append(ns, o.n)  BY <1>1, <1>2, <1>3
<1>5. [i \in 1..(k + 1) |-> t[i].quantity] = Append(qs, o.quantity)  BY <1>1, <1>2, <1>3
<1>6. OneBook(t) = Replay(Append(ns, o.n), Append(qs, o.quantity))
    BY Zenon, <1>2, <1>4, <1>5 DEF OneBook
<1>7. OneBook(os) = Replay(ns, qs)  BY DEF OneBook, k
<1> HIDE DEF ns, qs
<1>8. Replay(Append(ns, o.n), Append(qs, o.quantity)) = Replayed(Replay(ns, qs), o.n, o.quantity)
    BY <1>3 DEF ReplayLaws, ReplayOfAppend
<1> QED  BY <1>6, <1>7, <1>8 DEF t

\* The orders for a symbol among those a shard has applied are the first ones in
\* its log.
LEMMA ForApplied ==
    ASSUME OnlyLaws, ClusterTypes, NEW sh \in Shards, NEW sym, NEW a, a = For(sym, Applied(sh))
    PROVE  a = SubSeq(For(sym, log[sh]), 1, Len(a)) /\ Len(a) <= Len(For(sym, log[sh]))
<1> DEFINE S == [symbol : {sym}, quantity : Quantities, n : Nat]
           l == log[sh]
           k == offset[sh]
<1>1. l \in Seq(Ords) /\ k \in 0..Len(l)  BY DEF ClusterTypes
<1>2. a = Only(SubSeq(l, 1, k), S) /\ For(sym, log[sh]) = Only(l, S)  BY DEF For, Applied
<1> HIDE DEF S, l, k
<1>3. a = SubSeq(Only(l, S), 1, Len(a)) /\ Len(a) <= Len(Only(l, S))
    BY <1>1, <1>2 DEF OnlyLaws, OnlyOfPrefix
<1> QED  BY <1>2, <1>3

\* What a push does: the order gets the next number and goes to the log of the
\* shard its gateway computes.
LEMMA PushFacts ==
    ASSUME ClusterTypes, NEW g \in Gateways, NEW o \in Order, push(g, o), NEW d, d = Route(g, o)
    PROVE  /\ o \in Ords /\ o.n = Len(pushes) + 1 /\ d \in Shards
           /\ d = ShardOf(o.symbol, gshards[g])
           /\ pushes' = Append(pushes, o)
           /\ log' = [log EXCEPT ![d] = Append(log[d], o)]
           /\ UNCHANGED <<gshards, eshards, offset, books, warned, trades, subVars>>
<1>1. o \in Ords /\ o.n = Len(pushes) + 1 /\ o.symbol \in Symbols
    BY DEF Order, Ords, ClusterTypes
<1>2. gshards[g] \in ShardCounts  BY DEF ClusterTypes
<1>3. d \in Shards
    <2>1. d \in 0..(gshards[g] - 1)  BY Zenon, <1>1, <1>2, ClusterAssumption DEF Route
    <2> QED  BY Zenon, <1>2, <2>1, ClusterAssumption
<1> QED  BY <1>1, <1>3 DEF push, Route, config, engineVars

\* What an engine does with the next order o of its log, which meets the book b
\* and makes the trades ts.
EngineStep(sh, o, b, ts) ==
    /\ o = log[sh][offset[sh] + 1] /\ b = books[sh][o.symbol]
    /\ ts = TradesOf(b, o.n, o.quantity)
    /\ offset[sh] \in Nat /\ offset[sh] + 1 \in 1..Len(log[sh]) /\ o \in Ords
    /\ o.n \in 1..Len(pushes) /\ pushes[o.n] = o /\ b \in Seq(1..Len(pushes))
    /\ BookAfter(b, o.n, o.quantity) \in Seq(1..Len(pushes))
    /\ ts \in Seq((1..Len(pushes)) \X (1..Len(pushes)))
    /\ warned' = [warned EXCEPT ![sh] = warned[sh] \/ Expected(sh, o) # sh]
    /\ books' = [books EXCEPT ![sh] =
                    [books[sh] EXCEPT ![o.symbol] = BookAfter(b, o.n, o.quantity)]]
    /\ trades' = [trades EXCEPT ![sh] = trades[sh] \o ts]
    /\ offset' = [offset EXCEPT ![sh] = offset[sh] + 1]
    /\ UNCHANGED <<gshards, eshards, log, pushes, subVars>>

\* What an iteration of a shard's engine loop does, with the order it takes, the book
\* it finds and the trades it makes named.
LEMMA EngineFacts ==
    ASSUME ReplayLaws, ClusterTypes, NEW sh \in Shards, Engine(sh)
    PROVE  \E o, b, ts : EngineStep(sh, o, b, ts)
<1>0. PICK o, b, ts : /\ o = log[sh][offset[sh] + 1] /\ b = books[sh][o.symbol]
                      /\ ts = TradesOf(b, o.n, o.quantity)
    BY Zenon
<1>1. offset[sh] \in Nat /\ offset[sh] < Len(log[sh]) /\ log[sh] \in Seq(Ords)
    BY DEF ClusterTypes, Engine
<1>2. offset[sh] + 1 \in 1..Len(log[sh])  BY <1>1
<1>3. o \in Ords /\ o.n \in 1..Len(pushes) /\ pushes[o.n] = o
    BY <1>0, <1>1, <1>2 DEF ClusterTypes
<1>4. b \in Seq(1..Len(pushes)) /\ o.quantity \in Nat /\ Len(pushes) \in Nat
    <2>1. o.symbol \in Symbols /\ o.quantity \in Quantities  BY <1>3 DEF Ords
    <2>2. books[sh] \in [Symbols -> Seq(1..Len(pushes))]  BY DEF ClusterTypes
    <2>3. Len(pushes) \in Nat  BY DEF ClusterTypes
    <2> QED  BY Zenon, <1>0, <2>1, <2>2, <2>3, ClusterAssumption
<1>5. /\ BookAfter(b, o.n, o.quantity) \in Seq(1..Len(pushes))
      /\ ts \in Seq((1..Len(pushes)) \X (1..Len(pushes)))
    BY Zenon, <1>0, <1>3, <1>4 DEF ReplayLaws, BookTyped
<1>6. /\ warned' = [warned EXCEPT ![sh] = warned[sh] \/ Expected(sh, o) # sh]
      /\ books' = [books EXCEPT ![sh] =
                      [books[sh] EXCEPT ![o.symbol] = BookAfter(b, o.n, o.quantity)]]
      /\ trades' = [trades EXCEPT ![sh] = trades[sh] \o ts]
      /\ offset' = [offset EXCEPT ![sh] = offset[sh] + 1]
      /\ UNCHANGED <<gshards, eshards, log, pushes, subVars>>
    BY Zenon, <1>0 DEF Engine, publish, config
<1>7. EngineStep(sh, o, b, ts)
    BY Zenon, <1>0, <1>1, <1>2, <1>3, <1>4, <1>5, <1>6 DEF EngineStep
<1> QED  BY <1>7

\* A subscriber changes nothing that an engine or a gateway reads.
LEMMA SubscriberFacts ==
    ASSUME NEW s \in Subscribers, Subscriber(s) /\ UNCHANGED <<config, log, engineVars, pushes>>
    PROVE  UNCHANGED <<gshards, eshards, log, offset, books, warned, pushes, trades, follows>>
BY DEF Subscriber, Attach, Read, try_next, WriteOffset, Show, Detach, KillSubscriber,
       config, engineVars

\* The two invariants give the variables their types.
LEMMA ClusterTypesFollow ==
    ASSUME EngineInv, SubscribersInv PROVE TypeOK
<1>1. ClusterTypes  BY DEF EngineInv
<1>2. pushes \in Seq([symbol : Symbols, quantity : Quantities, n : 1..Len(pushes)])
    <2>1. PICK p, R : /\ p = pushes
                      /\ R = [symbol : Symbols, quantity : Quantities, n : 1..Len(pushes)]
        BY Zenon
    <2>2. p \in Seq(Ords) /\ \A i \in 1..Len(p) : p[i].n = i
        BY <1>1, <2>1 DEF ClusterTypes
    <2>3. ASSUME NEW i \in 1..Len(p) PROVE p[i] \in R
        <3>1. p[i] \in Ords /\ p[i].n = i  BY <2>2
        <3> QED  BY <2>1, <3>1 DEF Ords
    <2>4. Len(p) \in Nat /\ p \in [1..Len(p) -> R]  BY <2>2, <2>3
    <2>5. p \in Seq(R)  BY <2>4
    <2> QED  BY <2>1, <2>5
<1>3. ASSUME NEW sh \in Shards
      PROVE  /\ Range(log[sh]) \subseteq Range(pushes) /\ offset[sh] \in 0..Len(log[sh])
             /\ books[sh] \in [Symbols -> Seq(1..Len(pushes))] /\ warned[sh] \in BOOLEAN
             /\ trades[sh] \in Seq((1..Len(pushes)) \X (1..Len(pushes)))
    <2>1. Range(log[sh]) \subseteq Range(pushes)
        <3>1. PICK l, p : l = log[sh] /\ p = pushes  BY Zenon
        <3>2. /\ l \in Seq(Ords) /\ p \in Seq(Ords)
              /\ \A i \in 1..Len(l) : l[i].n \in 1..Len(p) /\ p[l[i].n] = l[i]
            BY <1>1, <3>1 DEF ClusterTypes
        <3>3. DOMAIN l = 1..Len(l) /\ DOMAIN p = 1..Len(p)  BY <3>2
        <3>4. Range(l) \subseteq Range(p)  BY <3>2, <3>3 DEF Range
        <3> QED  BY <3>1, <3>4
    <2>2. offset[sh] \in 0..Len(log[sh])
        <3>1. offset[sh] \in Nat /\ offset[sh] <= Len(log[sh]) /\ log[sh] \in Seq(Ords)
            BY Zenon, <1>1 DEF ClusterTypes
        <3> QED  BY <3>1
    <2>3. books[sh] \in [Symbols -> Seq(1..Len(pushes))]  BY Zenon, <1>1 DEF ClusterTypes
    <2>4. warned[sh] \in BOOLEAN  BY Zenon, <1>1 DEF ClusterTypes
    <2>5. trades[sh] \in Seq((1..Len(pushes)) \X (1..Len(pushes)))  BY <1>1 DEF ClusterTypes
    <2> QED  BY <2>1, <2>2, <2>3, <2>4, <2>5
<1>4. ASSUME NEW s \in Subscribers
      PROVE  /\ soffset[s] \in 0..Len(trades[follows[s]])
             /\ spc[s] \in {"down", "loop", "checkpoint", "return"}
    <2>1. /\ soffset[s] \in Nat /\ follows[s] \in Shards
          /\ spc[s] \in {"down", "loop", "checkpoint", "return"}
          /\ soffset[s] <= Len(trades[follows[s]])
        BY Zenon DEF SubscribersInv, SubscriberTypes, SubscriberInv
    <2>2. Len(trades[follows[s]]) \in Nat  BY <1>1, <2>1 DEF ClusterTypes
    <2> QED  BY <2>1, <2>2
<1> QED  BY Zenon, <1>2, <1>3, <1>4 DEF TypeOK

\* Before the first order.
LEMMA EngineInvInit ==
    ASSUME OnlyLaws, ReplayLaws, Init PROVE EngineInv
<1>1. /\ gshards \in [Gateways -> ShardCounts] /\ eshards \in [Shards -> ShardCounts]
      /\ pushes = << >> /\ Len(pushes) = 0
      /\ log = [sh \in Shards |-> << >>] /\ offset = [sh \in Shards |-> 0]
      /\ books = [sh \in Shards |-> [sym \in Symbols |-> << >>]]
      /\ warned = [sh \in Shards |-> FALSE] /\ trades = [sh \in Shards |-> << >>]
    BY DEF Init, InitTrades
<1>2. \A sh \in Shards : /\ log[sh] = << >> /\ Len(log[sh]) = 0 /\ offset[sh] = 0
                         /\ trades[sh] = << >> /\ ~warned[sh] /\ Applied(sh) = << >>
                         /\ \A sym \in Symbols : books[sh][sym] = << >>
    BY <1>1 DEF Applied
<1>3. ClusterTypes  BY <1>1, <1>2 DEF ClusterTypes
<1>4. RouteInv  BY <1>1, <1>2, ForEmpty DEF RouteInv
<1>5. WarnInv  BY <1>2 DEF WarnInv
<1>6. ASSUME NEW sh \in Shards, NEW sym \in Symbols PROVE MatchInv(sh, sym)
    <2>1. OneBook(For(sym, Applied(sh))) = NoOrders  BY <1>2, ForEmpty, OneBookEmpty
    <2>2. NoOrders.book = << >> /\ NoOrders.trades = << >>  BY DEF NoOrders
    <2>3. Only(trades[sh], In(sym)) = << >>  BY <1>2 DEF OnlyLaws, OnlyOfNothing
    <2> QED  BY <1>2, <2>1, <2>2, <2>3 DEF MatchInv
<1> QED  BY <1>3, <1>4, <1>5, <1>6 DEF EngineInv

\* Types under a push.
LEMMA PushTypes ==
    ASSUME ReplayLaws, ClusterTypes, NEW g \in Gateways, NEW o \in Order, push(g, o)
    PROVE  ClusterTypes'
<1>0. PICK d : d = Route(g, o)  OBVIOUS
<1>1. /\ o \in Ords /\ o.n = Len(pushes) + 1 /\ d \in Shards
      /\ pushes' = Append(pushes, o)
      /\ log' = [log EXCEPT ![d] = Append(log[d], o)]
      /\ UNCHANGED <<gshards, eshards, offset, books, warned, trades>>
    BY <1>0, PushFacts
<1>2. PICK N : N = Len(pushes)  BY Zenon
<1>3. /\ pushes \in Seq(Ords) /\ \A i \in 1..N : pushes[i].n = i
      /\ log \in [Shards -> Seq(Ords)]
      /\ \A sh \in Shards : \A i \in 1..Len(log[sh]) :
            log[sh][i].n \in 1..N /\ pushes[log[sh][i].n] = log[sh][i]
      /\ offset \in [Shards -> Nat] /\ \A sh \in Shards : offset[sh] <= Len(log[sh])
      /\ books \in [Shards -> [Symbols -> Seq(1..N)]]
      /\ trades \in [Shards -> Seq((1..N) \X (1..N))]
      /\ gshards \in [Gateways -> ShardCounts] /\ eshards \in [Shards -> ShardCounts]
      /\ warned \in [Shards -> BOOLEAN]
    BY <1>2 DEF ClusterTypes
<1>4. /\ N \in Nat /\ Len(pushes') = N + 1 /\ pushes'[N + 1] = o
      /\ pushes' \in Seq(Ords) /\ \A i \in 1..N : pushes'[i] = pushes[i]
    BY <1>1, <1>2, <1>3
<1>5. \A i \in 1..(N + 1) : pushes'[i].n = i
    <2>1. o.n = N + 1  BY <1>1, <1>2
    <2>2. \A i \in 1..(N + 1) : i \in 1..N \/ i = N + 1  BY <1>4
    <2> QED  BY Zenon, <1>3, <1>4, <2>1, <2>2
<1>6. log' \in [Shards -> Seq(Ords)]  BY <1>1, <1>3
<1>7. ASSUME NEW sh \in Shards
      PROVE  /\ Len(log[sh]) \in Nat /\ Len(log[sh]) <= Len(log'[sh])
             /\ \A i \in 1..Len(log'[sh]) :
                   log'[sh][i] = o \/ (i \in 1..Len(log[sh]) /\ log'[sh][i] = log[sh][i])
    <2>1. log[sh] \in Seq(Ords)  BY <1>3
    <2>2. CASE sh # d  BY <1>1, <1>3, <2>1, <2>2
    <2>3. CASE sh = d
        <3>1. log'[sh] = Append(log[sh], o)  BY <1>1, <1>3, <2>3
        <3> QED  BY <2>1, <3>1, <1>1
    <2> QED  BY <2>2, <2>3
<1>8. ASSUME NEW sh \in Shards, NEW i \in 1..Len(log'[sh])
      PROVE  log'[sh][i].n \in 1..(N + 1) /\ pushes'[log'[sh][i].n] = log'[sh][i]
    <2>1. CASE log'[sh][i] = o
        <3>1. o.n = N + 1  BY <1>1, <1>2
        <3> QED  BY <1>4, <2>1, <3>1
    <2>2. CASE i \in 1..Len(log[sh]) /\ log'[sh][i] = log[sh][i]
        <3>1. log[sh][i].n \in 1..N /\ pushes[log[sh][i].n] = log[sh][i]  BY <1>3, <2>2
        <3>2. log[sh][i].n \in 1..(N + 1)  BY <1>4, <3>1
        <3> QED  BY <1>4, <2>2, <3>1, <3>2
    <2> QED  BY <1>7, <2>1, <2>2
<1>9. \A sh \in Shards : offset[sh] <= Len(log'[sh])
    <2>1. ASSUME NEW sh \in Shards PROVE offset[sh] <= Len(log'[sh])
        <3>1. Len(log'[sh]) \in Nat  BY <1>6
        <3> QED  BY <1>3, <1>7, <3>1
    <2> QED  BY <2>1
<1>10. /\ books \in [Shards -> [Symbols -> Seq(1..(N + 1))]]
       /\ trades \in [Shards -> Seq((1..(N + 1)) \X (1..(N + 1)))]
    <2> DEFINE B == Seq(1..N)
               C == Seq(1..(N + 1))
               P == Seq((1..N) \X (1..N))
               Q == Seq((1..(N + 1)) \X (1..(N + 1)))
    <2>1. B \subseteq C /\ P \subseteq Q  BY Zenon, <1>4 DEF ReplayLaws, LongerLog
    <2>2. books \in [Shards -> [Symbols -> B]] /\ trades \in [Shards -> P]  BY <1>3
    <2> HIDE DEF B, C, P, Q
    <2>3. [Symbols -> B] \subseteq [Symbols -> C]  BY <2>1
    <2>4. books \in [Shards -> [Symbols -> C]]  BY <2>2, <2>3
    <2>5. trades \in [Shards -> Q]  BY <2>1, <2>2
    <2> QED  BY <2>4, <2>5 DEF C, Q
<1>11. /\ books' = books /\ trades' = trades /\ offset' = offset /\ warned' = warned
       /\ gshards' = gshards /\ eshards' = eshards
    BY <1>1
<1> QED
    BY <1>3, <1>4, <1>5, <1>6, <1>8, <1>9, <1>10, <1>11 DEF ClusterTypes

\* Types under a step of an engine.
LEMMA EngineTypes ==
    ASSUME ReplayLaws, ClusterTypes, NEW sh \in Shards, Engine(sh) PROVE ClusterTypes'
<1> DEFINE N == Len(pushes)
           P == Seq((1..N) \X (1..N))
<1>0. PICK o, b, ts : EngineStep(sh, o, b, ts)  BY EngineFacts
<1>1. /\ offset[sh] \in Nat /\ offset[sh] + 1 \in 1..Len(log[sh]) /\ o \in Ords
      /\ BookAfter(b, o.n, o.quantity) \in Seq(1..N) /\ ts \in P
      /\ warned' = [warned EXCEPT ![sh] = warned[sh] \/ Expected(sh, o) # sh]
      /\ books' = [books EXCEPT ![sh] =
                      [books[sh] EXCEPT ![o.symbol] = BookAfter(b, o.n, o.quantity)]]
      /\ trades' = [trades EXCEPT ![sh] = trades[sh] \o ts]
      /\ offset' = [offset EXCEPT ![sh] = offset[sh] + 1]
      /\ UNCHANGED <<gshards, eshards, log, pushes>>
    BY Zenon, <1>0 DEF EngineStep
<1>2. /\ books \in [Shards -> [Symbols -> Seq(1..N)]] /\ trades \in [Shards -> P]
      /\ warned \in [Shards -> BOOLEAN]
      /\ offset \in [Shards -> Nat] /\ \A sk \in Shards : offset[sk] <= Len(log[sk])
    BY DEF ClusterTypes
<1>3. trades[sh] \o ts \in P  BY <1>1, <1>2
<1>4. books' \in [Shards -> [Symbols -> Seq(1..N)]]
    <2> DEFINE B == Seq(1..N)
    <2>1. BookAfter(b, o.n, o.quantity) \in B /\ books \in [Shards -> [Symbols -> B]]
        BY <1>1, <1>2
    <2> HIDE DEF B
    <2>2. [books[sh] EXCEPT ![o.symbol] = BookAfter(b, o.n, o.quantity)] \in [Symbols -> B]
        BY Zenon, <2>1
    <2>3. books' \in [Shards -> [Symbols -> B]]  BY <1>1, <2>1, <2>2
    <2> QED  BY <2>3 DEF B
<1>5. trades' \in [Shards -> P]
    <2> HIDE DEF P
    <2> QED  BY <1>1, <1>2, <1>3
<1>6. warned' \in [Shards -> BOOLEAN]
    <2>1. (warned[sh] \/ Expected(sh, o) # sh) \in BOOLEAN  OBVIOUS
    <2> QED  BY <1>1, <1>2, <2>1
<1>7. offset' \in [Shards -> Nat] /\ \A sk \in Shards : offset'[sk] <= Len(log[sk])
    <2>1. offset[sh] + 1 \in Nat /\ offset[sh] + 1 <= Len(log[sh])  BY <1>1
    <2> QED  BY <1>1, <1>2, <2>1
<1>8. Len(pushes') = N  BY <1>1
<1> QED  BY <1>1, <1>4, <1>5, <1>6, <1>7, <1>8 DEF ClusterTypes

\* With one count, a push goes to the shard where the symbol's orders are.
LEMMA PushRoutes ==
    ASSUME OnlyLaws, ClusterTypes, RouteInv, NEW g \in Gateways, NEW o \in Order, push(g, o)
    PROVE  RouteInv'
<1>0. PICK d : d = Route(g, o)  OBVIOUS
<1>1. /\ o \in Ords /\ d \in Shards /\ d = ShardOf(o.symbol, gshards[g])
      /\ pushes' = Append(pushes, o)
      /\ log' = [log EXCEPT ![d] = Append(log[d], o)]
      /\ UNCHANGED <<gshards, eshards>>
    BY <1>0, PushFacts
<1> SUFFICES ASSUME NEW n \in ShardCounts, AllCount(n)', NEW sh \in Shards
             PROVE  /\ \A i \in 1..Len(log'[sh]) : ShardOf(log'[sh][i].symbol, n) = sh
                    /\ \A sym \in Symbols :
                          ShardOf(sym, n) = sh => For(sym, log'[sh]) = For(sym, pushes')
    BY DEF RouteInv
<1>2. AllCount(n) /\ d = ShardOf(o.symbol, n)  BY <1>1 DEF AllCount
<1>3. /\ \A i \in 1..Len(log[sh]) : ShardOf(log[sh][i].symbol, n) = sh
      /\ \A sym \in Symbols : ShardOf(sym, n) = sh => For(sym, log[sh]) = For(sym, pushes)
    BY <1>2 DEF RouteInv
<1>4. log \in [Shards -> Seq(Ords)] /\ log[sh] \in Seq(Ords) /\ pushes \in Seq(Ords)
    BY DEF ClusterTypes
<1>5. ASSUME NEW sym
      PROVE  For(sym, pushes') = IF o.symbol = sym THEN Append(For(sym, pushes), o)
                                 ELSE For(sym, pushes)
    BY <1>1, <1>4, ForAppend
<1>6. CASE sh = d
    <2>1. log'[sh] = Append(log[sh], o)  BY <1>1, <1>4, <1>6
    <2>2. \A i \in 1..Len(log'[sh]) :
             log'[sh][i] = o \/ (i \in 1..Len(log[sh]) /\ log'[sh][i] = log[sh][i])
        BY <1>1, <1>4, <2>1
    <2>3. \A i \in 1..Len(log'[sh]) : ShardOf(log'[sh][i].symbol, n) = sh
        BY <1>2, <1>3, <1>6, <2>2
    <2>4. ASSUME NEW sym \in Symbols, ShardOf(sym, n) = sh
          PROVE  For(sym, log'[sh]) = For(sym, pushes')
        <3>1. For(sym, log'[sh]) = IF o.symbol = sym THEN Append(For(sym, log[sh]), o)
                                   ELSE For(sym, log[sh])
            <4>1. PICK l : l = log[sh]  OBVIOUS
            <4>2. l \in Seq(Ords) /\ o \in Ords  BY <1>1, <1>4, <4>1
            <4>3. For(sym, Append(l, o)) = IF o.symbol = sym THEN Append(For(sym, l), o)
                                           ELSE For(sym, l)
                BY <4>2, ForAppend
            <4> QED  BY <2>1, <4>1, <4>3
        <3>2. For(sym, log[sh]) = For(sym, pushes)  BY <1>3, <2>4
        <3> QED  BY <1>5, <3>1, <3>2
    <2> QED  BY <2>3, <2>4
<1>7. CASE sh # d
    <2>1. log'[sh] = log[sh]  BY <1>1, <1>4, <1>7
    <2>2. ASSUME NEW sym \in Symbols, ShardOf(sym, n) = sh
          PROVE  For(sym, log'[sh]) = For(sym, pushes')
        <3>1. o.symbol # sym  BY <1>2, <1>7, <2>2
        <3> QED  BY <1>3, <1>5, <2>1, <2>2, <3>1
    <2> QED  BY <1>3, <2>1, <2>2
<1> QED  BY <1>6, <1>7

\* A push does not reach what engines have applied.
LEMMA PushApplied ==
    ASSUME ClusterTypes, NEW g \in Gateways, NEW o \in Order, push(g, o), NEW sh \in Shards
    PROVE  /\ Applied(sh)' = Applied(sh)
           /\ \A i \in 1..offset[sh] : log'[sh][i] = log[sh][i]
<1>0. PICK d : d = Route(g, o)  OBVIOUS
<1>1. d \in Shards /\ log' = [log EXCEPT ![d] = Append(log[d], o)] /\ offset' = offset /\ o \in Ords
    BY <1>0, PushFacts
<1>2. /\ log \in [Shards -> Seq(Ords)] /\ log[sh] \in Seq(Ords)
      /\ offset[sh] \in 0..Len(log[sh])
    BY DEF ClusterTypes
<1>3. CASE sh # d
    <2>1. log'[sh] = log[sh]  BY <1>1, <1>2, <1>3
    <2> QED  BY Zenon, <1>1, <2>1 DEF Applied
<1>4. CASE sh = d
    <2>1. log'[sh] = Append(log[sh], o)  BY <1>1, <1>2, <1>4
    <2>2. SubSeq(log'[sh], 1, offset[sh]) = SubSeq(log[sh], 1, offset[sh])
        BY <1>2, <2>1
    <2>3. \A i \in 1..offset[sh] : log'[sh][i] = log[sh][i]  BY <1>2, <2>1
    <2> QED  BY Zenon, <1>1, <2>2, <2>3 DEF Applied
<1> QED  BY <1>3, <1>4

\* So a push changes neither warnings nor matchings.
LEMMA PushMatches ==
    ASSUME OnlyLaws, ClusterTypes, NEW g \in Gateways, NEW o \in Order, push(g, o),
           NEW sh \in Shards, NEW sym \in Symbols, MatchInv(sh, sym)
    PROVE  MatchInv(sh, sym)'
<1> DEFINE T == (1..Len(pushes)) \X (1..Len(pushes))
<1>1. Applied(sh)' = Applied(sh)  BY PushApplied
<1>2. pushes' = Append(pushes, o) /\ UNCHANGED <<books, trades>> /\ o \in Ords  BY PushFacts
<1>3. pushes \in Seq(Ords) /\ trades[sh] \in Seq(T)  BY DEF ClusterTypes
<1>4. T \cap In(sym)' = T \cap In(sym)
    <2>1. /\ Len(pushes) \in Nat /\ Len(pushes') = Len(pushes) + 1
          /\ \A i \in 1..Len(pushes) : pushes'[i] = pushes[i]
        BY <1>2, <1>3
    <2>2. ASSUME NEW t \in T PROVE t \in In(sym)' <=> t \in In(sym)
        <3>1. t[2] \in 1..Len(pushes)  OBVIOUS
        <3>2. pushes'[t[2]] = pushes[t[2]]  BY <2>1, <3>1
        <3>3. t \in (1..Len(pushes')) \X (1..Len(pushes'))  BY <2>1
        <3> QED  BY <3>2, <3>3 DEF In
    <2> QED  BY <2>2
<1>5. Only(trades[sh], In(sym)') = Only(trades[sh], In(sym))
    <2>1. PICK R, S : R = In(sym)' /\ S = In(sym)  OBVIOUS
    <2> HIDE DEF T
    <2>2. Only(trades[sh], R) = Only(trades[sh], S)  BY <1>3, <1>4, <2>1 DEF OnlyLaws, OnlyAgrees
    <2> QED  BY <2>1, <2>2
<1> QED  BY <1>1, <1>2, <1>5 DEF MatchInv

\* A push by a gateway makes no engine warn: engines warn of what they have taken.
LEMMA PushWarns ==
    ASSUME ClusterTypes, WarnInv, NEW g \in Gateways, NEW o \in Order, push(g, o)
    PROVE  WarnInv'
<1>1. UNCHANGED <<eshards, offset, warned>>  BY PushFacts
<1> SUFFICES ASSUME NEW sh \in Shards
             PROVE  warned'[sh] <=> \E i \in 1..offset'[sh] : Expected(sh, log[sh][i])' # sh
    BY DEF WarnInv
<1>2. \A i \in 1..offset[sh] : log'[sh][i] = log[sh][i]  BY PushApplied
<1> QED  BY <1>1, <1>2 DEF WarnInv, Expected

\* An engine warns of the order it takes, and keeps an earlier warning.
LEMMA EngineWarns ==
    ASSUME ReplayLaws, ClusterTypes, WarnInv, NEW sh \in Shards, Engine(sh) PROVE WarnInv'
<1>0. PICK o, b, ts : EngineStep(sh, o, b, ts)  BY EngineFacts
<1>1. /\ offset[sh] \in Nat /\ o = log[sh][offset[sh] + 1]
      /\ warned' = [warned EXCEPT ![sh] = warned[sh] \/ Expected(sh, o) # sh]
      /\ offset' = [offset EXCEPT ![sh] = offset[sh] + 1]
      /\ UNCHANGED <<eshards, log>>
    BY Zenon, <1>0 DEF EngineStep
<1>2. warned \in [Shards -> BOOLEAN] /\ offset \in [Shards -> Nat]  BY DEF ClusterTypes
<1> SUFFICES ASSUME NEW sk \in Shards
             PROVE  warned'[sk] <=> \E i \in 1..offset'[sk] : Expected(sk, log[sk][i])' # sk
    BY DEF WarnInv
<1>3. warned[sk] <=> \E i \in 1..offset[sk] : Expected(sk, log[sk][i]) # sk  BY DEF WarnInv
<1>4. \A i : Expected(sk, log[sk][i])' = Expected(sk, log[sk][i])  BY <1>1 DEF Expected
<1>5. CASE sk # sh
    <2>1. warned'[sk] = warned[sk] /\ offset'[sk] = offset[sk]  BY <1>1, <1>2, <1>5
    <2> QED  BY <1>3, <1>4, <2>1
<1>6. CASE sk = sh
    <2>1. /\ warned'[sk] <=> warned[sk] \/ Expected(sk, o) # sk
          /\ offset'[sk] = offset[sk] + 1
        BY Zenon, <1>1, <1>2, <1>6
    <2>2. 1..(offset[sk] + 1) = (1..offset[sk]) \union {offset[sk] + 1}
        BY <1>1, <1>6
    <2> QED  BY <1>1, <1>3, <1>4, <1>6, <2>1, <2>2
<1> QED  BY <1>5, <1>6

\* What an engine makes of the next order is one order more of its one matching;
\* the books and the trades of the other symbols stay as they are.
LEMMA EngineMatches ==
    ASSUME OnlyLaws, ReplayLaws, ClusterTypes, NEW sh \in Shards, Engine(sh),
           NEW sk \in Shards, NEW sym \in Symbols, MatchInv(sk, sym)
    PROVE  MatchInv(sk, sym)'
<1>0. PICK o, b, ts : EngineStep(sh, o, b, ts)  BY EngineFacts
<1>1. /\ o = log[sh][offset[sh] + 1] /\ b = books[sh][o.symbol]
      /\ ts = TradesOf(b, o.n, o.quantity)
      /\ offset[sh] \in Nat /\ offset[sh] + 1 \in 1..Len(log[sh]) /\ o \in Ords
      /\ o.n \in 1..Len(pushes) /\ pushes[o.n] = o /\ b \in Seq(1..Len(pushes))
      /\ ts \in Seq((1..Len(pushes)) \X (1..Len(pushes)))
      /\ books' = [books EXCEPT ![sh] =
                      [books[sh] EXCEPT ![o.symbol] = BookAfter(b, o.n, o.quantity)]]
      /\ trades' = [trades EXCEPT ![sh] = trades[sh] \o ts]
      /\ offset' = [offset EXCEPT ![sh] = offset[sh] + 1]
      /\ UNCHANGED <<log, pushes>>
    BY Zenon, <1>0 DEF EngineStep
<1>2. /\ books \in [Shards -> [Symbols -> Seq(1..Len(pushes))]]
      /\ trades \in [Shards -> Seq((1..Len(pushes)) \X (1..Len(pushes)))]
      /\ offset \in [Shards -> Nat] /\ log[sh] \in Seq(Ords)
    BY DEF ClusterTypes
<1>3. In(sym)' = In(sym)  BY Zenon, <1>1 DEF In
<1>4. CASE sk # sh
    <2>1. books'[sk] = books[sk] /\ trades'[sk] = trades[sk] /\ offset'[sk] = offset[sk]
        BY Zenon, <1>1, <1>2, <1>4
    <2>2. Applied(sk)' = Applied(sk)  BY Zenon, <1>1, <2>1 DEF Applied
    <2> QED  BY <1>3, <2>1, <2>2 DEF MatchInv
<1>5. CASE sk = sh
    <2>1. PICK a, T, R, u : /\ a = Applied(sh) /\ T = (1..Len(pushes)) \X (1..Len(pushes))
                            /\ R = In(sym) /\ u = trades[sh]
        BY Zenon
    <2>2. a \in Seq(Ords) /\ Applied(sh)' = Append(a, o)
        <3>1. PICK l, k : l = log[sh] /\ k = offset[sh]  OBVIOUS
        <3>2. l \in Seq(Ords) /\ k \in Nat /\ k + 1 \in 1..Len(l)  BY Zenon, <1>1, <1>2, <3>1
        <3>3. SubSeq(l, 1, k) \in Seq(Ords) /\ SubSeq(l, 1, k + 1) = Append(SubSeq(l, 1, k), l[k + 1])
            BY <3>2
        <3>4. Applied(sh)' = SubSeq(l, 1, k + 1) /\ a = SubSeq(l, 1, k) /\ o = l[k + 1]
            BY Zenon, <1>1, <1>2, <2>1, <3>1 DEF Applied
        <3> QED  BY <3>3, <3>4
    <2>3. u \in Seq(T) /\ ts \in Seq(T)  BY Zenon, <1>1, <1>2, <2>1
    <2>4. Only(u \o ts, R) = Only(u, R) \o Only(ts, R)  BY <2>3 DEF OnlyLaws, OnlyOfConcat
    <2>5. trades'[sh] = u \o ts /\ Only(trades[sk], In(sym))' = Only(u, R) \o Only(ts, R)
        BY Zenon, <1>1, <1>2, <1>3, <1>5, <2>1, <2>4
    <2>6. /\ books[sh][sym] = OneBook(For(sym, a)).book
          /\ Only(u, R) = OneBook(For(sym, a)).trades
        BY <1>5, <2>1 DEF MatchInv
    <2>7. \A i \in 1..Len(ts) : ts[i] \in T /\ ts[i][2] = o.n
        <3>1. b \in Seq(1..Len(pushes)) /\ o.quantity \in Nat
            BY Zenon, <1>1, ClusterAssumption DEF Ords
        <3>2. Filled(b, o.quantity) \in 0..Len(b)  BY <3>1 DEF Filled
        <3>3. Len(ts) = Filled(b, o.quantity) /\ \A i \in 1..Len(ts) : ts[i] = <<b[i], o.n>>
            <4>1. PICK k, n : k = Filled(b, o.quantity) /\ n = o.n  OBVIOUS
            <4>2. ts = [i \in 1..k |-> <<b[i], n>>] /\ k \in Nat
                <5>1. ts = TradesOf(b, o.n, o.quantity)  BY Zenon, <1>1
                <5>2. k \in Nat  BY <3>1, <3>2, <4>1
                <5> QED  BY <4>1, <5>1, <5>2 DEF TradesOf
            <4>3. Len(ts) = k /\ \A i \in 1..k : ts[i] = <<b[i], n>>  BY <4>2
            <4> QED  BY <4>1, <4>3
        <3> QED  BY <2>3, <3>3
    <2>8. CASE o.symbol = sym
        <3>1. For(sym, Append(a, o)) = Append(For(sym, a), o)  BY Zenon, <1>1, <2>2, <2>8, ForAppend
        <3>2. PICK os : os = For(sym, a)  OBVIOUS
        <3>3. os \in Seq(Ords)  BY <2>2, <3>2, ForType
        <3>4. PICK m : m = OneBook(os)  OBVIOUS
        <3>5. OneBook(Append(os, o)) = Replayed(m, o.n, o.quantity)
            BY Zenon, <1>1, <3>3, <3>4, OneBookAppend
        <3>6. OneBook(For(sym, Applied(sk)))' = Replayed(m, o.n, o.quantity)
            BY <1>5, <2>2, <3>1, <3>2, <3>5
        <3>7. b = m.book /\ Only(u, R) = m.trades  BY Zenon, <1>1, <2>6, <2>8, <3>2, <3>4
        <3>8. books'[sk][sym] = BookAfter(b, o.n, o.quantity)  BY Zenon, <1>1, <1>2, <1>5, <2>8
        <3>9. Only(ts, R) = ts
            <4>1. \A i \in 1..Len(ts) : ts[i] \in T \cap R
                BY Zenon, <1>1, <2>1, <2>7, <2>8 DEF In
            <4>2. ts \in Seq(T \cap R)
                <5>1. Len(ts) \in Nat /\ ts = [i \in 1..Len(ts) |-> ts[i]]  BY <2>3
                <5>2. ts \in [1..Len(ts) -> T \cap R]  BY <4>1, <5>1
                <5> QED  BY <5>1, <5>2
            <4>3. T \cap R \subseteq R  OBVIOUS
            <4> QED  BY <4>2, <4>3 DEF OnlyLaws, OnlyKeepsAll
        <3>10. PICK x, q, n : x = Replayed(m, o.n, o.quantity) /\ q = o.quantity /\ n = o.n
            OBVIOUS
        <3>11. x.book = BookAfter(m.book, n, q) /\ x.trades = m.trades \o TradesOf(m.book, n, q)
            BY Zenon, <3>10 DEF ReplayLaws, ReplayedFields
        <3>12. books'[sk][sym] = x.book  BY <3>7, <3>8, <3>10, <3>11
        <3>13. Only(trades[sk], In(sym))' = x.trades
            BY Zenon, <1>1, <2>5, <3>7, <3>9, <3>10, <3>11
        <3> QED  BY <3>6, <3>10, <3>12, <3>13 DEF MatchInv
    <2>9. CASE o.symbol # sym
        <3>1. For(sym, Append(a, o)) = For(sym, a)  BY Zenon, <1>1, <2>2, <2>9, ForAppend
        <3>2. For(sym, Applied(sk))' = For(sym, a)  BY <1>5, <2>2, <3>1
        <3>3. books'[sk][sym] = books[sh][sym]  BY Zenon, <1>1, <1>2, <1>5, <2>9
        <3>4. Only(ts, R) = << >>
            <4>1. \A i \in 1..Len(ts) : ts[i] \in T \ R
                BY Zenon, <1>1, <2>1, <2>7, <2>9 DEF In
            <4>2. ts \in Seq(T \ R)
                <5>1. Len(ts) \in Nat /\ ts = [i \in 1..Len(ts) |-> ts[i]]  BY <2>3
                <5>2. ts \in [1..Len(ts) -> T \ R]  BY <4>1, <5>1
                <5> QED  BY <5>1, <5>2
            <4>3. (T \ R) \cap R = {}  OBVIOUS
            <4> QED  BY <4>2, <4>3 DEF OnlyLaws, OnlyKeepsNone
        <3>5. Only(u, R) \in Seq(T \cap R)  BY <2>3 DEF OnlyLaws, OnlyTyped
        <3>6. Only(u, R) \o << >> = Only(u, R)  BY <3>5
        <3>7. Only(trades[sk], In(sym))' = Only(u, R)  BY <2>5, <3>4, <3>6
        <3> QED  BY <2>6, <3>2, <3>3, <3>7 DEF MatchInv
    <2> QED  BY <2>8, <2>9
<1> QED  BY <1>4, <1>5

\* Every step keeps the invariant.
LEMMA EngineInvStep ==
    ASSUME OnlyLaws, ReplayLaws, EngineInv, [Next]_vars PROVE EngineInv'
<1>t. /\ ClusterTypes /\ RouteInv /\ WarnInv
      /\ \A sh \in Shards, sym \in Symbols : MatchInv(sh, sym)
    BY DEF EngineInv
<1>1. ASSUME NEW g \in Gateways, NEW o \in Order, push(g, o) PROVE EngineInv'
    <2>1. \A sh \in Shards, sym \in Symbols : MatchInv(sh, sym)'
        BY <1>1, <1>t, PushMatches
    <2>2. ClusterTypes' /\ RouteInv' /\ WarnInv'
        BY <1>1, <1>t, PushTypes, PushRoutes, PushWarns
    <2> QED  BY <2>1, <2>2 DEF EngineInv
<1>2. ASSUME NEW sh \in Shards, Engine(sh) PROVE EngineInv'
    <2>1. \A sk \in Shards, sym \in Symbols : MatchInv(sk, sym)'
        BY <1>2, <1>t, EngineMatches
    <2>2. ClusterTypes' /\ WarnInv'  BY Zenon, <1>2, <1>t, EngineTypes, EngineWarns
    <2>3. UNCHANGED <<gshards, eshards, log, pushes>>
        BY Zenon, <1>2 DEF Engine, config
    <2>4. RouteInv'  BY <1>t, <2>3 DEF RouteInv, AllCount
    <2> QED  BY <2>1, <2>2, <2>4 DEF EngineInv
<1>3. ASSUME UNCHANGED <<gshards, eshards, log, offset, books, warned, pushes, trades>>
      PROVE  EngineInv'
    <2>1. ClusterTypes'  BY Zenon, <1>3, <1>t DEF ClusterTypes
    <2>2. RouteInv'  BY Zenon, <1>3, <1>t DEF RouteInv, AllCount
    <2>3. WarnInv'  BY <1>3, <1>t DEF WarnInv, Expected
    <2>4. ASSUME NEW sh \in Shards, NEW sym \in Symbols PROVE MatchInv(sh, sym)'
        <3>1. Applied(sh)' = Applied(sh) /\ In(sym)' = In(sym)  BY <1>3 DEF Applied, In
        <3> QED  BY <1>3, <1>t, <3>1 DEF MatchInv
    <2> QED  BY Zenon, <2>1, <2>2, <2>3, <2>4 DEF EngineInv
<1>4. ASSUME NEW s \in Subscribers,
             Subscriber(s) /\ UNCHANGED <<config, log, engineVars, pushes>>
      PROVE  EngineInv'
    BY <1>3, <1>4, SubscriberFacts
<1>5. CASE UNCHANGED vars
    BY <1>3, <1>5 DEF vars, config, engineVars
<1> QED  BY <1>1, <1>2, <1>4, <1>5 DEF Next

\* With one count, what a shard has applied of a symbol is the beginning of all
\* orders for it, or nothing.
LEMMA AppliedPrefix ==
    ASSUME OnlyLaws, EngineInv, NEW n \in ShardCounts, AllCount(n), NEW sh \in Shards,
           NEW sym \in Symbols, NEW a, a = For(sym, Applied(sh))
    PROVE  a = SubSeq(For(sym, pushes), 1, Len(a))
<1>t. ClusterTypes /\ RouteInv  BY DEF EngineInv
<1>1. PICK f : f = For(sym, log[sh])  OBVIOUS
<1>2. a = SubSeq(f, 1, Len(a)) /\ Len(a) <= Len(f)  BY <1>1, <1>t, ForApplied
<1>3. CASE ShardOf(sym, n) = sh
    BY <1>1, <1>2, <1>3, <1>t DEF RouteInv
<1>4. CASE ShardOf(sym, n) # sh
    <2>1. log[sh] \in Seq(Ords)  BY <1>t DEF ClusterTypes
    <2>2. \A i \in 1..Len(log[sh]) : log[sh][i].symbol # sym
        BY <1>4, <1>t DEF RouteInv
    <2>3. f = << >>  BY <1>1, <2>1, <2>2, ForSome
    <2>4. a \in Seq(Ords)
        <3>1. Applied(sh) \in Seq(Ords)
            <4>1. PICK l, k : l = log[sh] /\ k = offset[sh]  BY Zenon
            <4>2. l \in Seq(Ords) /\ k \in 0..Len(l)  BY <1>t, <4>1 DEF ClusterTypes
            <4>3. SubSeq(l, 1, k) \in Seq(Ords)  BY <4>2
            <4> QED  BY <4>1, <4>3 DEF Applied
        <3> QED  BY <3>1, ForType
    <2>5. a = << >>  BY <1>2, <2>3, <2>4
    <2>6. \A s : << >> = SubSeq(s, 1, Len(<< >>))  OBVIOUS
    <2> QED  BY Zenon, <2>5, <2>6
<1> QED  BY <1>3, <1>4

\* The trade logs agree with one matching of a symbol's orders.
LEMMA TransparencyFollows ==
    ASSUME OnlyLaws, EngineInv PROVE ShardingTransparent
<1>1. ASSUME NEW n \in ShardCounts, AllCount(n), NEW sym \in Symbols, NEW sh \in Shards
      PROVE  Only(trades[sh], In(sym)) =
                 OneBook(SubSeq(For(sym, pushes), 1, Len(For(sym, Applied(sh))))).trades
    <2>1. PICK a : a = For(sym, Applied(sh))  BY Zenon
    <2>2. Only(trades[sh], In(sym)) = OneBook(a).trades
        BY <1>1, <2>1 DEF EngineInv, MatchInv
    <2>3. a = SubSeq(For(sym, pushes), 1, Len(a))  BY <1>1, <2>1, AppliedPrefix
    <2> QED  BY Zenon, <2>1, <2>2, <2>3
<1> QED  BY <1>1 DEF ShardingTransparent, Alike, AllCount

\* Who has warned is who has met an order of another shard.
LEMMA WarningFollows ==
    ASSUME OnlyLaws, EngineInv PROVE MismatchWarned
<1>1. ASSUME \A sh, sk \in Shards : eshards[sh] = eshards[sk],
             NEW sym \in Symbols, NEW sh \in Shards, NEW sk \in Shards, sh # sk,
             For(sym, Applied(sh)) # << >>, For(sym, Applied(sk)) # << >>
      PROVE  warned[sh] \/ warned[sk]
    <2>1. ASSUME NEW x \in Shards, For(sym, Applied(x)) # << >>
          PROVE  \E i \in 1..offset[x] : log[x][i].symbol = sym
        <3>1. PICK l, k : l = log[x] /\ k = offset[x]  BY Zenon
        <3>2. l \in Seq(Ords) /\ k \in 0..Len(l)
            BY <1>1, <3>1 DEF EngineInv, ClusterTypes
        <3>0. PICK a : a = SubSeq(l, 1, k)  BY Zenon
        <3>3. a \in Seq(Ords) /\ Len(a) = k /\ \A i \in 1..k : a[i] = l[i]
            BY <3>0, <3>2
        <3>4. Applied(x) = a  BY <3>0, <3>1 DEF Applied
        <3>5. \E i \in 1..k : a[i].symbol = sym
            BY Zenon, <2>1, <3>3, <3>4, ForSome
        <3> QED  BY <3>1, <3>3, <3>5
    <2>2. PICK i \in 1..offset[sh] : log[sh][i].symbol = sym  BY <1>1, <2>1
    <2>3. PICK j \in 1..offset[sk] : log[sk][j].symbol = sym  BY <1>1, <2>1
    <2>4. Expected(sh, log[sh][i]) = Expected(sk, log[sk][j])
        BY <1>1, <2>2, <2>3 DEF Expected
    <2>5. Expected(sh, log[sh][i]) # sh \/ Expected(sk, log[sk][j]) # sk  BY <1>1, <2>4
    <2> QED  BY <1>1, <2>5 DEF EngineInv, WarnInv
<1>2. ASSUME NEW n \in ShardCounts, AllCount(n), NEW sh \in Shards
      PROVE  ~warned[sh]
    <2>1. \A i \in 1..Len(log[sh]) : ShardOf(log[sh][i].symbol, n) = sh
        BY <1>2 DEF EngineInv, RouteInv
    <2>2. \A i \in 1..offset[sh] : i \in 1..Len(log[sh])
        <3>1. offset[sh] \in Nat /\ offset[sh] <= Len(log[sh]) /\ log[sh] \in Seq(Ords)
            BY <1>2 DEF EngineInv, ClusterTypes
        <3> QED  BY <3>1
    <2>3. \A i \in 1..offset[sh] : Expected(sh, log[sh][i]) = sh
        BY <1>2, <2>1, <2>2 DEF Expected, AllCount
    <2> QED  BY <1>2, <2>3 DEF EngineInv, WarnInv
<1> QED  BY <1>1, <1>2 DEF MismatchWarned, Alike, AllCount

-----------------------------------------------------------------------------
\* Nobody has attached yet.
LEMMA SubscribersInvInit ==
    ASSUME CountLaws, Init PROVE SubscribersInv
<1>1. SubscriberTypes  BY DEF Init, InitTrades, SubscriberTypes
<1>2. ASSUME NEW s \in Subscribers PROVE SubscriberInv(s)
    <2>1. /\ soffset[s] = 0 /\ scheckpoint[s] = 0 /\ spc[s] = "down" /\ skills[s] = 0
          /\ seen[s] = << >> /\ trades[follows[s]] = << >>
        BY DEF Init, InitTrades
    <2>2. ReadUpTo(s) = 0  BY <2>1 DEF ReadUpTo
    <2>3. Unseen(s) = {}  BY <2>2 DEF Unseen
    <2>4. Cardinality(Unseen(s)) = 0  BY Zenon, <2>3 DEF CountLaws, CountEmpty
    <2> QED  BY <2>1, <2>2, <2>4 DEF SubscriberInv
<1> QED  BY <1>1, <1>2 DEF SubscribersInv

\* What a step leaves alone of a subscriber.
SameSubscriber(s) ==
    UNCHANGED <<follows[s], spc[s], scheckpoint[s], soffset[s], skills[s], seen[s]>>

\* A subscriber that the step is not of stays as it was, though its log may grow.
LEMMA SubscriberKept ==
    ASSUME NEW s \in Subscribers, SubscriberInv(s), SubscriberTypes, SameSubscriber(s),
           Len(trades[follows[s]]) \in Nat, Len(trades'[follows[s]]) \in Nat,
           Len(trades[follows[s]]) <= Len(trades'[follows[s]])
    PROVE  SubscriberInv(s)'
<1>1. ReadUpTo(s)' = ReadUpTo(s)  BY Zenon DEF SameSubscriber, ReadUpTo
<1>2. Unseen(s)' = Unseen(s)  BY <1>1 DEF SameSubscriber, Unseen
<1>3. soffset[s] <= Len(trades'[follows[s]])
    <2>1. soffset[s] \in Nat /\ soffset[s] <= Len(trades[follows[s]])
        BY Zenon DEF SubscriberInv, SubscriberTypes
    <2>2. PICK k, m, n : /\ k = soffset[s] /\ m = Len(trades[follows[s]])
                         /\ n = Len(trades'[follows[s]])
        BY Zenon
    <2>3. k \in Nat /\ m \in Nat /\ n \in Nat /\ k <= m /\ m <= n  BY Zenon, <2>1, <2>2
    <2>4. k <= n  BY <2>3
    <2> QED  BY Zenon, <2>2, <2>4
<1> QED  BY <1>1, <1>2, <1>3 DEF SubscriberInv, SameSubscriber

\* A step of s that shows it nothing and kills it not.
LEMMA SubscriberMoves ==
    ASSUME NEW s \in Subscribers, SubscriberInv(s), ReadUpTo(s)' = ReadUpTo(s),
           skills'[s] = skills[s], seen'[s] = seen[s],
           soffset'[s] <= Len(trades'[follows'[s]]),
           spc'[s] \in {"loop", "return"} => scheckpoint'[s] = soffset'[s],
           spc'[s] = "checkpoint" => scheckpoint'[s] = 0,
           spc'[s] \in {"checkpoint", "return"} => soffset'[s] > 0,
           spc'[s] = "down" => scheckpoint'[s] <= soffset'[s]
    PROVE  SubscriberInv(s)'
<1>1. Unseen(s)' = Unseen(s)  BY Zenon DEF Unseen
<1> QED  BY Zenon, <1>1 DEF SubscriberInv

\* It is shown the next trade.
LEMMA SubscriberShown ==
    ASSUME SubscriberTypes, NEW s \in Subscribers, SubscriberInv(s), Show(s)
    PROVE  SubscriberInv(s)'
<1>0. PICK k : k = soffset[s]  OBVIOUS
<1>1. /\ k \in Nat /\ k > 0 /\ ReadUpTo(s) = k - 1 /\ scheckpoint[s] = k
      /\ seen[s] \in Seq(Nat) /\ spc[s] = "return"
    <2>1. spc[s] = "return" /\ k \in Nat /\ seen[s] \in Seq(Nat)
        BY <1>0 DEF Show, SubscriberTypes
    <2>2. k > 0 /\ scheckpoint[s] = k  BY <1>0, <2>1 DEF SubscriberInv
    <2>3. ReadUpTo(s) = k - 1  BY <1>0, <2>1 DEF ReadUpTo
    <2> QED  BY <2>1, <2>2, <2>3
<1>2. /\ spc'[s] = "loop" /\ seen'[s] = Append(seen[s], k) /\ soffset'[s] = k
      /\ UNCHANGED <<skills, scheckpoint, trades, follows>>
    BY <1>0 DEF Show, SubscriberTypes
<1>3. ReadUpTo(s)' = k  BY <1>2 DEF ReadUpTo
<1>4. \A n \in Nat : n \in Range(seen'[s]) <=> n \in Range(seen[s]) \/ n = k
    <2>1. PICK t : t = seen[s]  OBVIOUS
    <2>2. t \in Seq(Nat) /\ seen'[s] = Append(t, k)  BY Zenon, <1>1, <1>2, <2>1
    <2> QED  BY Zenon, <1>1, <2>1, <2>2, RangeOfAppend
<1>5. Unseen(s)' = Unseen(s)
    BY <1>1, <1>3, <1>4 DEF Unseen
<1>6. skills[s] = 0 => seen'[s] = [i \in 1..k |-> i]
    <2> SUFFICES ASSUME seen[s] = [i \in 1..(k - 1) |-> i]
                 PROVE  Append(seen[s], k) = [i \in 1..k |-> i]
        BY Zenon, <1>1, <1>2 DEF SubscriberInv
    <2> QED  BY <1>1
<1>7. k <= Len(trades[follows[s]])  BY Zenon, <1>0 DEF SubscriberInv
<1> QED  BY <1>1, <1>2, <1>3, <1>5, <1>6, <1>7 DEF SubscriberInv

\* A kill costs it at most the trade it was reading.
LEMMA SubscriberKilled ==
    ASSUME CountLaws, SubscriberTypes, NEW s \in Subscribers, SubscriberInv(s), KillSubscriber(s)
    PROVE  SubscriberInv(s)'
<1>0. PICK k, m : k = scheckpoint[s] /\ m = ReadUpTo(s) + 1  OBVIOUS
<1>1. /\ k \in Nat /\ skills[s] \in Nat /\ soffset[s] \in Nat
      /\ spc[s] \in {"loop", "checkpoint", "return"}
    BY <1>0 DEF SubscriberTypes, KillSubscriber, Up
<1>2. /\ spc'[s] = "down" /\ seen'[s] = seen[s] /\ skills'[s] = skills[s] + 1
      /\ UNCHANGED <<trades, follows, scheckpoint, soffset>>
    BY DEF SubscriberTypes, KillSubscriber
<1>3. ReadUpTo(s)' = k  BY <1>0, <1>2 DEF ReadUpTo
<1>4. ReadUpTo(s) \in Nat /\ k <= m /\ k <= soffset[s]
    <2>1. CASE spc[s] = "loop"
        BY <1>0, <1>1, <2>1 DEF SubscriberInv, ReadUpTo
    <2>2. CASE spc[s] = "checkpoint"
        BY <1>0, <1>1, <2>2 DEF SubscriberInv, ReadUpTo
    <2>3. CASE spc[s] = "return"
        BY <1>0, <1>1, <2>3 DEF SubscriberInv, ReadUpTo
    <2> QED  BY <1>1, <2>1, <2>2, <2>3
<1>5. Unseen(s)' \subseteq Unseen(s) \union {m}
    BY <1>0, <1>1, <1>2, <1>3, <1>4 DEF Unseen
<1>6. PICK U, V : U = Unseen(s) /\ V = Unseen(s)'  OBVIOUS
<1>7. IsFiniteSet(U) /\ Cardinality(U) \in Nat
    <2>1. U \subseteq 0..ReadUpTo(s)  BY <1>4, <1>6 DEF Unseen
    <2> QED  BY Zenon, <1>4, <2>1 DEF CountLaws, CountPositions
<1>8. IsFiniteSet(U \union {m}) /\ Cardinality(U \union {m}) <= Cardinality(U) + 1
    BY Zenon, <1>7 DEF CountLaws, CountAdded
<1>9. V \subseteq U \union {m}  BY <1>5, <1>6
<1>10. IsFiniteSet(V) /\ Cardinality(V) <= Cardinality(U \union {m})
    BY Zenon, <1>8, <1>9 DEF CountLaws, CountSubset
<1>11. Cardinality(V) \in Nat /\ Cardinality(U \union {m}) \in Nat
    BY Zenon, <1>8, <1>10 DEF CountLaws, CountSubset
<1>12. Cardinality(U) <= skills[s]  BY Zenon, <1>6 DEF SubscriberInv
<1>13. Cardinality(V) <= skills'[s]
    <2>1. PICK x, y, z : x = Cardinality(V) /\ y = Cardinality(U) /\ z = Cardinality(U \union {m})
        OBVIOUS
    <2>2. x \in Nat /\ y \in Nat /\ z \in Nat /\ x <= z /\ z <= y + 1 /\ y <= skills[s]
        BY <1>7, <1>8, <1>10, <1>11, <1>12, <2>1
    <2>3. x <= skills[s] + 1  BY <1>1, <2>2
    <2> QED  BY <1>2, <2>1, <2>3
<1>14. skills'[s] # 0  BY <1>1, <1>2
<1>15. soffset[s] <= Len(trades[follows[s]])  BY DEF SubscriberInv
<1> QED
    BY <1>0, <1>2, <1>4, <1>6, <1>13, <1>14, <1>15 DEF SubscriberInv

\* Types of the subscribers' variables.
LEMMA SubscriberTypesStep ==
    ASSUME SubscriberTypes, NEW s \in Subscribers, Subscriber(s) PROVE SubscriberTypes'
<1>1. CASE Attach(s)  BY <1>1 DEF Attach, read_checkpoint, SubscriberTypes
<1>2. CASE try_next(s)  BY <1>2 DEF try_next, SubscriberTypes
<1>3. CASE WriteOffset(s)  BY <1>3 DEF WriteOffset, Written, SubscriberTypes
<1>4. CASE Show(s)
    <2>1. Append(seen[s], soffset[s]) \in Seq(Nat)  BY DEF SubscriberTypes
    <2> QED  BY <1>4, <2>1 DEF Show, SubscriberTypes
<1>5. CASE Detach(s)  BY <1>5 DEF Detach, SubscriberTypes
<1>6. CASE KillSubscriber(s)  BY <1>6 DEF KillSubscriber, SubscriberTypes
<1> QED  BY <1>1, <1>2, <1>3, <1>4, <1>5, <1>6 DEF Subscriber, Read

\* Every step of a subscriber keeps what is known of it.
LEMMA SubscriberStep ==
    ASSUME CountLaws, SubscriberTypes, NEW s \in Subscribers, SubscriberInv(s), Subscriber(s),
           Len(trades[follows[s]]) \in Nat
    PROVE  SubscriberInv(s)'
<1>n. PICK n : n = Len(trades[follows[s]])  BY Zenon
<1>t. /\ soffset[s] \in Nat /\ scheckpoint[s] \in Nat /\ n \in Nat /\ soffset[s] <= n
    BY Zenon, <1>n DEF SubscriberTypes, SubscriberInv
<1>1. CASE Attach(s)
    <2>1. /\ spc[s] = "down" /\ spc'[s] = "loop" /\ soffset'[s] = scheckpoint[s]
          /\ UNCHANGED <<trades, follows, scheckpoint, skills, seen>>
        BY <1>1 DEF Attach, Up, read_checkpoint, SubscriberTypes
    <2>2. ReadUpTo(s)' = ReadUpTo(s)  BY <2>1 DEF ReadUpTo
    <2>3. soffset'[s] <= Len(trades'[follows'[s]])
        <3>1. scheckpoint[s] <= soffset[s]  BY Zenon, <2>1 DEF SubscriberInv
        <3>2. PICK k, m : k = soffset[s] /\ m = scheckpoint[s]  BY Zenon
        <3>3. k \in Nat /\ m \in Nat /\ n \in Nat /\ m <= k /\ k <= n  BY Zenon, <1>t, <3>1, <3>2
        <3>4. m <= n  BY <3>3
        <3> QED  BY Zenon, <1>n, <2>1, <3>2, <3>4
    <2> QED  BY Zenon, <2>1, <2>2, <2>3, SubscriberMoves
<1>2. CASE try_next(s)
    <2>1. /\ spc[s] = "loop" /\ spc'[s] = "checkpoint" /\ soffset'[s] = soffset[s] + 1
          /\ soffset[s] < Len(trades[follows[s]]) /\ scheckpoint'[s] = 0
          /\ UNCHANGED <<trades, follows, skills, seen>>
        BY <1>2 DEF try_next, Unread, SubscriberTypes
    <2>2. ReadUpTo(s)' = ReadUpTo(s)  BY <1>t, <2>1 DEF ReadUpTo
    <2>3. soffset'[s] <= Len(trades'[follows'[s]])
        <3>1. soffset[s] < n  BY Zenon, <1>n, <2>1
        <3>2. soffset'[s] <= n  BY <1>t, <2>1, <3>1
        <3> QED  BY Zenon, <1>n, <2>1, <3>2
    <2>4. soffset[s] + 1 > 0  BY <1>t
    <2>5. soffset'[s] > 0  BY Zenon, <2>1, <2>4
    <2> QED  BY Zenon, <2>1, <2>2, <2>3, <2>5, SubscriberMoves
<1>3. CASE WriteOffset(s)
    <2>1. /\ spc[s] = "checkpoint" /\ spc'[s] = "return" /\ scheckpoint'[s] = soffset[s]
          /\ UNCHANGED <<trades, follows, soffset, skills, seen>>
        BY <1>3 DEF WriteOffset, Written, SubscriberTypes
    <2>2. ReadUpTo(s)' = ReadUpTo(s)  BY <2>1 DEF ReadUpTo
    <2>3. soffset[s] > 0  BY <2>1 DEF SubscriberInv
    <2>4. soffset[s] <= Len(trades'[follows'[s]])  BY Zenon, <1>n, <1>t, <2>1
    <2> QED  BY Zenon, <2>1, <2>2, <2>3, <2>4, SubscriberMoves
<1>4. CASE Show(s)  BY <1>4, SubscriberShown
<1>5. CASE Detach(s)
    <2>1. /\ spc[s] = "loop" /\ spc'[s] = "down"
          /\ UNCHANGED <<trades, follows, scheckpoint, soffset, skills, seen>>
        BY <1>5 DEF Detach, SubscriberTypes
    <2>2. scheckpoint[s] = soffset[s]  BY <2>1 DEF SubscriberInv
    <2>3. ReadUpTo(s)' = ReadUpTo(s)  BY Zenon, <2>1, <2>2 DEF ReadUpTo
    <2>4. soffset[s] <= Len(trades'[follows'[s]])  BY Zenon, <1>n, <1>t, <2>1
    <2>5. scheckpoint[s] <= soffset[s]  BY <1>t, <2>2
    <2> QED  BY Zenon, <2>1, <2>3, <2>4, <2>5, SubscriberMoves
<1>6. CASE KillSubscriber(s)  BY <1>6, SubscriberKilled
<1> QED  BY <1>1, <1>2, <1>3, <1>4, <1>5, <1>6 DEF Subscriber, Read

\* All of it, for a step of any process.
LEMMA SubscribersInvStep ==
    ASSUME ReplayLaws, CountLaws, EngineInv, EngineInv', SubscribersInv, [Next]_vars
    PROVE  SubscribersInv'
<1>1. SubscriberTypes /\ \A s \in Subscribers : SubscriberInv(s)  BY DEF SubscribersInv
<1>2. /\ \A sh \in Shards : Len(trades[sh]) \in Nat /\ Len(trades'[sh]) \in Nat
      /\ \A s \in Subscribers : follows[s] \in Shards
    <2>1. ASSUME NEW sh \in Shards PROVE Len(trades[sh]) \in Nat
        BY Zenon, TradeCount DEF EngineInv
    <2>2. ASSUME NEW sh \in Shards PROVE Len(trades'[sh]) \in Nat
        <3>1. ClusterTypes'  BY Zenon DEF EngineInv
        <3>2. PICK t : t = trades'[sh]  BY Zenon
        <3>3. \E T : t \in Seq(T)  BY <3>1, <3>2 DEF ClusterTypes
        <3>4. Len(t) \in Nat  BY <3>3
        <3> QED  BY Zenon, <3>2, <3>4
    <2> QED  BY Zenon, <1>1, <2>1, <2>2 DEF SubscriberTypes
<1>3. ASSUME UNCHANGED subVars, \A sh \in Shards : Len(trades[sh]) <= Len(trades'[sh])
      PROVE  SubscribersInv'
    <2>1. SubscriberTypes'  BY <1>1, <1>3 DEF SubscriberTypes, subVars
    <2>2. ASSUME NEW s \in Subscribers PROVE SubscriberInv(s)'
        <3>1. SameSubscriber(s)  BY <1>3 DEF SameSubscriber, subVars
        <3> QED  BY Zenon, <1>1, <1>2, <1>3, <3>1, SubscriberKept
    <2> QED  BY <2>1, <2>2 DEF SubscribersInv
<1>4. ASSUME UNCHANGED trades PROVE \A sh \in Shards : Len(trades[sh]) <= Len(trades'[sh])
    BY <1>2, <1>4
<1>5. ASSUME NEW g \in Gateways, NEW o \in Order, push(g, o) PROVE SubscribersInv'
    BY <1>3, <1>4, <1>5 DEF push
<1>6. ASSUME NEW sh \in Shards, Engine(sh) PROVE SubscribersInv'
    <2>1. ClusterTypes  BY DEF EngineInv
    <2>2. PICK o, b, ts : EngineStep(sh, o, b, ts)  BY <1>6, <2>1, EngineFacts
    <2>3. ASSUME NEW sk \in Shards PROVE Len(trades[sk]) <= Len(trades'[sk])
        <3>1. CASE sk # sh
            <4>1. trades' = [trades EXCEPT ![sh] = trades[sh] \o ts]  BY Zenon, <2>2 DEF EngineStep
            <4>2. DOMAIN trades = Shards  BY <2>1 DEF ClusterTypes
            <4>3. trades'[sk] = trades[sk]  BY <3>1, <4>1, <4>2
            <4> QED  BY <1>2, <4>3
        <3>2. CASE sk = sh
            <4>1. PICK l : l = trades[sh]  OBVIOUS
            <4>2. PICK S : S = (1..Len(pushes)) \X (1..Len(pushes))  BY Zenon
            <4>3. l \in Seq(S) /\ ts \in Seq(S) /\ trades'[sh] = l \o ts
                BY Zenon, <2>1, <2>2, <4>1, <4>2 DEF EngineStep, ClusterTypes
            <4>4. Len(l \o ts) = Len(l) + Len(ts) /\ Len(l) \in Nat /\ Len(ts) \in Nat
                BY <4>3
            <4> QED  BY <3>2, <4>1, <4>3, <4>4
        <3> QED  BY <3>1, <3>2
    <2> QED  BY Zenon, <1>3, <2>2, <2>3 DEF EngineStep
<1>7. ASSUME NEW r \in Subscribers, Subscriber(r), UNCHANGED <<config, log, engineVars, pushes>>
      PROVE  SubscribersInv'
    <2>1. SubscriberTypes'  BY <1>1, <1>7, SubscriberTypesStep
    <2>2. UNCHANGED <<trades, follows>>  BY <1>7, SubscriberFacts
    <2>3. ASSUME NEW s \in Subscribers PROVE SubscriberInv(s)'
        <3>1. CASE s = r  BY <1>1, <1>2, <1>7, <3>1, SubscriberStep
        <3>2. CASE s # r
            <4>1. SameSubscriber(s)
                BY <1>1, <1>7, <3>2 DEF SameSubscriber, SubscriberTypes, Subscriber, Attach,
                   Read, try_next, WriteOffset, Show, Detach, KillSubscriber
            <4> QED  BY Zenon, <1>1, <1>2, <1>4, <2>2, <4>1, SubscriberKept
        <3> QED  BY <3>1, <3>2
    <2> QED  BY <2>1, <2>3 DEF SubscribersInv
<1>8. CASE UNCHANGED vars  BY <1>3, <1>4, <1>8 DEF vars
<1> QED  BY <1>5, <1>6, <1>7, <1>8 DEF Next

-----------------------------------------------------------------------------
(* The theorems.                                                           *)
INSTANCE RecursionProofs

\* The engines' invariant holds in every reachable state.
THEOREM EngineInvariant == Spec => []EngineInv
<1>1. Init => EngineInv  BY OnlyLawsHold, ReplayLawsHold, EngineInvInit
<1>2. EngineInv /\ [Next]_vars => EngineInv'  BY OnlyLawsHold, ReplayLawsHold, EngineInvStep
<1> QED  BY <1>1, <1>2, PTL DEF Spec

\* Sharding cannot be seen on the trade logs, for any hash, any number of shards,
\* gateways and symbols and any orders, as long as all processes count the same.
THEOREM ShardingIsTransparent == Spec => []ShardingTransparent
<1>1. EngineInv => ShardingTransparent  BY OnlyLawsHold, TransparencyFollows
<1> QED  BY <1>1, EngineInvariant, PTL

\* Two shards never both have orders for a symbol in their books before one of
\* them has warned, and nobody warns when all counts agree.
THEOREM MismatchIsWarned == Spec => []MismatchWarned
<1>1. EngineInv => MismatchWarned  BY OnlyLawsHold, WarningFollows
<1> QED  BY <1>1, EngineInvariant, PTL

\* The subscribers' invariant, on top of the engines'.
THEOREM SubscribersInvariant == Spec => []SubscribersInv
<1>1. Init => SubscribersInv  BY CountLawsHold, SubscribersInvInit
<1>2. EngineInv /\ EngineInv' /\ SubscribersInv /\ [Next]_vars => SubscribersInv'
    BY ReplayLawsHold, CountLawsHold, SubscribersInvStep
<1> QED  BY <1>1, <1>2, EngineInvariant, PTL DEF Spec

\* A subscriber that is never killed is shown its shard's trades from the first
\* on, once each and in order, wherever it attaches and however often it is
\* stopped (Subscriber::try_next); each kill costs it at most one trade.
THEOREM HistoryThenLiveHolds == Spec => []HistoryThenLive
<1>1. SubscribersInv => HistoryThenLive
    BY Zenon DEF SubscribersInv, SubscriberInv, HistoryThenLive, Unseen
<1> QED  BY <1>1, SubscribersInvariant, PTL

\* Types: orders in the shards' logs are orders that were pushed, trades name two
\* of them, and no engine or subscriber reads past the end of its log.
THEOREM ClusterTypeCorrect == Spec => []TypeOK
<1>1. EngineInv /\ SubscribersInv => TypeOK  BY ClusterTypesFollow
<1> QED  BY <1>1, EngineInvariant, SubscribersInvariant, PTL
=============================================================================
