---------------------------- MODULE ServerProofs ----------------------------
(***************************************************************************)
(* The server's types, the feed handler's framing and events, and what the *)
(* engine is given, for any number of clients, descriptors, units of a     *)
(* message and events of a batch.                                          *)
(***************************************************************************)
EXTENDS Server, RecursionLaws, TLAPS

-----------------------------------------------------------------------------
(* What is true of the feed handler between two steps.                     *)

\* The orders of client c among those pushed.
Msgs(c) == [client : {c}, message : Nat]
Mine(c) == Only(pushed, Msgs(c))

\* The n units that follow client c's first m messages.
Part(c, m, n) == [k \in 1..n |-> <<c, Units * m + k>>]

Connected(c) == \E f \in Fds : connections[f] # NoConn /\ connections[f].client = c

\* Client c has not been accepted yet.
Waiting(c) == \E i \in 1..Len(backlog) : backlog[i] = c
Fresh(c) == cstate[c] = "idle" \/ Waiting(c)

\* A client has one connection at most, and none before it is accepted.
OwnerInv ==
    /\ \A f, g \in Fds :
          /\ connections[f] # NoConn /\ connections[g] # NoConn
          /\ connections[f].client = connections[g].client
          => f = g
    /\ \A i, j \in 1..Len(backlog) : backlog[i] = backlog[j] => i = j
    /\ \A c \in Clients : cstate[c] = "idle" => ~Waiting(c)
    /\ \A c \in Clients : Fresh(c) => ~Connected(c)

\* A buffer holds the units read after the client's last whole message.
BufferInv ==
    \A f \in Fds : connections[f] # NoConn =>
        LET c == connections[f].client
            n == Len(connections[f].buf)
        IN  /\ connections[f].buf = Part(c, Len(Mine(c)), n)
            /\ received[c] = Units * Len(Mine(c)) + n

\* Nothing was read of a client that has no connection yet; nothing is read
\* that has not arrived; and each client's orders are numbered from 1.
StreamInv ==
    \A c \in Clients :
        /\ Fresh(c) => received[c] = 0 /\ Mine(c) = << >>
        /\ received[c] <= arrived[c]
        /\ \A i \in 1..Len(Mine(c)) : Mine(c)[i].message = i

\* The batch is empty outside it, has one event of a descriptor at most, and
\* each is about the connection it was reported for.
EventsInv ==
    /\ pc \in {"setup", "wait", "returned"} => events = {}
    /\ \A e \in events : e.kind = "client" => e.fd \in Fds /\ e.client \in Clients
    /\ \A d, e \in events :
          d.kind = "client" /\ e.kind = "client" /\ d.fd = e.fd => d = e
    /\ EventsCurrent

FeedTypes ==
    /\ pc \in {"setup", "wait", "events", "accept", "returned"}
    /\ running \in BOOLEAN /\ pipe \in BOOLEAN /\ stopped \in BOOLEAN
    /\ connections \in [Fds -> Connection \union {NoConn}]
    /\ backlog \in Seq(Clients)
    /\ cstate \in [Clients -> {"idle", "open", "closed", "reset"}]
    /\ arrived \in [Clients -> Nat] /\ received \in [Clients -> Nat]
    /\ pushed \in Seq([client : Clients, message : Nat])

FeedInv == FeedTypes /\ OwnerInv /\ BufferInv /\ StreamInv /\ EventsInv

\* What went through the queue is the first part of what the feed handler
\* decoded; the queue is closed when that is all of it, and pop answers false
\* only when the engine has it.
QueueInv ==
    /\ queue \in Seq([client : Clients, message : Nat])
    /\ delivered \in Seq([client : Clients, message : Nat])
    /\ closed \in BOOLEAN /\ ended \in BOOLEAN /\ exited \in BOOLEAN
    /\ Pushes <= Len(pushed)
    /\ delivered \o queue = SubSeq(pushed, 1, Pushes)
    /\ closed => pc = "returned" /\ Pushes = Len(pushed)
    /\ ended => closed /\ queue = << >>
    /\ exited => ended

ServerInv == FeedInv /\ QueueInv

-----------------------------------------------------------------------------
(* Arithmetic of messages of u units.                                      *)

\* Products with a number and with its neighbours.
LEMMA TimesFacts ==
    ASSUME NEW u \in Nat \ {0}, NEW m \in Nat, NEW i \in Nat
    PROVE  /\ u * m \in Nat /\ i * u \in Nat
           /\ u * (m + i) = u * m + i * u
           /\ (i + 1) * u = i * u + u /\ u * (m + i + 1) = u * m + (i + 1) * u
           /\ (u * m) \div u = m
    OBVIOUS

\* i messages fit into n units if i is at most n \div u.
LEMMA WholeFacts ==
    ASSUME NEW u \in Nat \ {0}, NEW n \in Nat
    PROVE  /\ n \div u \in Nat /\ (n \div u) * u \in Nat /\ (n \div u) * u <= n
           /\ \A i \in 1..(n \div u) : i * u <= n
    OBVIOUS

\* A stretch of a client's stream, by position.
LEMMA PartFacts ==
    ASSUME NEW c \in Clients, NEW m \in Nat, NEW n \in Nat
    PROVE  /\ Part(c, m, n) \in Seq(Clients \X Nat) /\ Len(Part(c, m, n)) = n
           /\ \A k \in 1..n : Part(c, m, n)[k] = <<c, Units * m + k>>
<1>1. Units \in Nat \ {0}  BY FeedAssumption
<1>2. Units * m \in Nat  BY <1>1
<1>3. \A k \in 1..n : <<c, Units * m + k>> \in Clients \X Nat  BY <1>2
<1> QED  BY <1>3 DEF Part

\* A sequence that begins with p and goes on with x is p followed by x.
LEMMA Concatenation ==
    ASSUME NEW T, NEW p \in Seq(T), NEW x \in Seq(T), NEW q \in Seq(T),
           Len(q) = Len(p) + Len(x),
           \A k \in 1..Len(p) : q[k] = p[k],
           \A k \in 1..Len(x) : q[Len(p) + k] = x[k]
    PROVE  p \o x = q
<1>1. p \o x \in Seq(T) /\ Len(p \o x) = Len(q)  OBVIOUS
<1>2. ASSUME NEW k \in 1..Len(q) PROVE (p \o x)[k] = q[k]
    <2>1. CASE k \in 1..Len(p)  BY <2>1
    <2>2. CASE k \notin 1..Len(p)
        <3>1. k - Len(p) \in 1..Len(x) /\ Len(p) + (k - Len(p)) = k  BY <2>2
        <3>2. (p \o x)[k] = x[k - Len(p)]  BY <2>2
        <3> QED  BY <3>1, <3>2
    <2> QED  BY <2>1, <2>2
<1> QED  BY <1>1, <1>2

\* What recv returns next continues the stretch in the buffer.
LEMMA PartExtended ==
    ASSUME NEW c \in Clients, NEW m \in Nat, NEW n \in Nat, NEW r \in Nat
    PROVE  Part(c, m, n) \o [i \in 1..r |-> <<c, Units * m + n + i>>] = Part(c, m, n + r)
<1> DEFINE b == Units * m
           x == [i \in 1..r |-> <<c, b + n + i>>]
           p == Part(c, m, n)
           q == Part(c, m, n + r)
<1>1. p \in Seq(Clients \X Nat) /\ Len(p) = n /\ \A k \in 1..n : p[k] = <<c, b + k>>
    BY Zenon, PartFacts
<1>2. n + r \in Nat  OBVIOUS
<1>3. q \in Seq(Clients \X Nat) /\ Len(q) = n + r /\ \A k \in 1..(n + r) : q[k] = <<c, b + k>>
    BY Zenon, <1>2, PartFacts
<1>4. b \in Nat  BY FeedAssumption
<1> HIDE DEF b, p, q
<1>5. x \in Seq(Clients \X Nat) /\ Len(x) = r /\ \A k \in 1..r : x[k] = <<c, b + n + k>>
    BY <1>4
<1> HIDE DEF x
<1>6. \A k \in 1..Len(p) : q[k] = p[k]  BY <1>1, <1>3
<1>7. \A k \in 1..Len(x) : q[Len(p) + k] = x[k]
    <2> SUFFICES ASSUME NEW k \in 1..r PROVE q[n + k] = x[k]  BY <1>1, <1>5
    <2>1. n + k \in 1..(n + r) /\ b + (n + k) = b + n + k  BY <1>4
    <2> QED  BY Zenon, <1>3, <1>5, <2>1
<1>8. p \o x = q  BY Zenon, <1>1, <1>3, <1>5, <1>6, <1>7, Concatenation
<1> QED  BY <1>8 DEF p, q, x, b

\* wire_to_order turns the i-th message of a stretch that begins after m whole
\* messages into the client's order m + i.
LEMMA DecodedOrder ==
    ASSUME NEW c \in Clients, NEW m \in Nat, NEW n \in Nat, NEW i \in 1..(n \div Units)
    PROVE  wire_to_order(SubSeq(Part(c, m, n), (i - 1) * Units + 1, i * Units))
              = [client |-> c, message |-> m + i]
<1> DEFINE w == SubSeq(Part(c, m, n), (i - 1) * Units + 1, i * Units)
           M == (w[1][2] + Units - 1) \div Units
<1>1. Units \in Nat \ {0}  BY FeedAssumption
<1> DEFINE u == Units
<1>2. /\ i \in Nat /\ i - 1 \in Nat /\ i * u <= n /\ n \div u \in Nat
      /\ (i - 1) * u \in Nat /\ i * u = (i - 1) * u + u
      /\ u * m \in Nat /\ u * (m + i) = u * m + i * u
    <2>1. n \div u \in Nat /\ i * u <= n  BY <1>1, WholeFacts
    <2>2. i \in Nat /\ i - 1 \in Nat /\ (i - 1) + 1 = i  BY <2>1
    <2>3. (i - 1) * u \in Nat /\ ((i - 1) + 1) * u = (i - 1) * u + u
        BY <1>1, <2>2, TimesFacts
    <2>4. u * m \in Nat /\ u * (m + i) = u * m + i * u  BY <1>1, <2>2, TimesFacts
    <2> QED  BY <2>1, <2>2, <2>3, <2>4
<1> DEFINE a == (i - 1) * u
           b == u * m
<1>3. w = [k \in 1..u |-> <<c, b + a + k>>]
    <2>1. /\ Part(c, m, n) \in Seq(Clients \X Nat) /\ Len(Part(c, m, n)) = n
          /\ \A k \in 1..n : Part(c, m, n)[k] = <<c, b + k>>
        BY Zenon, PartFacts
    <2> DEFINE p == Part(c, m, n)
    <2> HIDE DEF p
    <2>2. w = SubSeq(p, a + 1, a + u)  BY Zenon, <1>2 DEF p
    <2>3. a \in Nat /\ b \in Nat /\ a + u <= n  BY <1>2
    <2> HIDE DEF a, b, u, w
    <2>4. u \in Nat \ {0}  BY <1>1 DEF u
    <2>5. w = [k \in 1..u |-> p[a + k]]  BY <2>1, <2>2, <2>3, <2>4 DEF p
    <2>6. \A k \in 1..u : a + k \in 1..n /\ b + (a + k) = b + a + k  BY <2>3, <2>4
    <2> QED  BY <2>1, <2>5, <2>6 DEF p
<1>4. a \in Nat /\ b \in Nat /\ u * (m + i) = b + a + u  BY <1>1, <1>2
<1>5. w[1] = <<c, b + a + 1>> /\ w[1][1] = c /\ w[1][2] = b + a + 1
    <2> HIDE DEF w, a, b
    <2> QED  BY <1>1, <1>3
<1>6. M = m + i
    <2>1. M = (u * (m + i)) \div u  BY <1>1, <1>4, <1>5
    <2>2. m + i \in Nat /\ u \in Nat \ {0}  BY <1>1, <1>2
    <2> QED  BY <2>1, <2>2, TimesFacts
<1>7. (M - 1) * u = b + a
    <2>1. M - 1 = m + (i - 1)
        <3> HIDE DEF M
        <3>1. m \in Nat /\ i \in Nat  BY <1>2
        <3> QED  BY <1>6, <3>1
    <2>2. u * (m + (i - 1)) = b + a  BY <1>1, <1>2, TimesFacts
    <2> QED  BY <1>1, <1>2, <2>1, <2>2
<1>8. w = [k \in 1..Units |-> <<c, (M - 1) * Units + k>>]  BY Zenon, <1>3, <1>7
<1> QED  BY Zenon, <1>5, <1>6, <1>8 DEF wire_to_order

\* What stays in the buffer follows the messages that were taken out.
LEMMA RestFacts ==
    ASSUME NEW c \in Clients, NEW m \in Nat, NEW n \in Nat
    PROVE  /\ Whole(Part(c, m, n)) = n \div Units /\ n \div Units \in Nat
           /\ n - (n \div Units) * Units \in Nat
           /\ Rest(Part(c, m, n)) = Part(c, m + n \div Units, n - (n \div Units) * Units)
           /\ Units * m + n
                = Units * (m + n \div Units) + (n - (n \div Units) * Units)
<1> DEFINE u == Units
           q == n \div Units
           p == Part(c, m, n)
<1>1. u \in Nat \ {0}  BY FeedAssumption
<1>2. q \in Nat /\ q * u \in Nat /\ q * u <= n  BY <1>1, WholeFacts
<1>3. u * m \in Nat /\ u * (m + q) = u * m + q * u  BY <1>1, <1>2, TimesFacts
<1>4. /\ p \in Seq(Clients \X Nat) /\ Len(p) = n
      /\ \A k \in 1..n : p[k] = <<c, u * m + k>>
    BY Zenon, PartFacts
<1>5. Whole(p) = q  BY <1>4 DEF Whole
<1>6. Rest(p) = SubSeq(p, q * u + 1, n)  BY <1>4, <1>5 DEF Rest
<1> DEFINE a == q * u
           b == u * m
<1>7. a \in Nat /\ b \in Nat /\ a <= n /\ u * (m + q) = b + a  BY <1>2, <1>3
<1> SUFFICES Rest(p) = Part(c, m + q, n - a) /\ b + n = u * (m + q) + (n - a)
    BY <1>2, <1>5, <1>7
<1>8. Part(c, m + q, n - a) = [k \in 1..(n - a) |-> <<c, (b + a) + k>>]
    BY <1>7 DEF Part
<1> HIDE DEF a, b, p, q, u
<1>9. SubSeq(p, a + 1, n) = [k \in 1..(n - a) |-> p[a + k]]  BY <1>4, <1>7
<1>10. \A k \in 1..(n - a) : a + k \in 1..n /\ b + (a + k) = (b + a) + k  BY <1>7
<1>11. \A k \in 1..n : p[k] = <<c, b + k>>  BY <1>4 DEF b
<1>12. Rest(p) = [k \in 1..(n - a) |-> <<c, (b + a) + k>>]
    BY Zenon, <1>6, <1>9, <1>10, <1>11 DEF a
<1> QED  BY <1>7, <1>8, <1>12

AllMsgs == [client : Clients, message : Nat]

\* Client c's orders from m + 1 on, w of them.
Numbered(c, m, w) == [i \in 1..w |-> [client |-> c, message |-> m + i]]

\* Pushing x, client c's next w orders after m, adds them to c's and to no other's.
PushedAfter(p, x, c, m, w) ==
    /\ x \in Seq(AllMsgs) /\ p \o x \in Seq(AllMsgs) /\ Len(x) = w
    /\ \A i \in 1..w : x[i].message = m + i
    /\ Only(p \o x, Msgs(c)) = Only(p, Msgs(c)) \o x
    /\ \A d \in Clients : d # c => Only(p \o x, Msgs(d)) = Only(p, Msgs(d))

\* The orders of client c, and those of the others, after c's next w were pushed.
LEMMA PushedOrders ==
    ASSUME OnlyLaws, NEW p \in Seq(AllMsgs), NEW c \in Clients, NEW m \in Nat, NEW w \in Nat
    PROVE  PushedAfter(p, Numbered(c, m, w), c, m, w)
<1> DEFINE x == Numbered(c, m, w)
<1>1. x \in Seq(Msgs(c)) /\ Len(x) = w /\ \A i \in 1..w : x[i].message = m + i
    BY DEF Msgs, Numbered
<1>2. Msgs(c) \subseteq AllMsgs  BY DEF Msgs, AllMsgs
<1>3. x \in Seq(AllMsgs)  BY <1>1, <1>2
<1> HIDE DEF x
<1>4. p \o x \in Seq(AllMsgs)  BY <1>3
<1>5. Only(p \o x, Msgs(c)) = Only(p, Msgs(c)) \o x
    <2>1. Only(p \o x, Msgs(c)) = Only(p, Msgs(c)) \o Only(x, Msgs(c))
        BY <1>3 DEF OnlyLaws, OnlyOfConcat
    <2>2. \A s \in Seq(Msgs(c)) : Only(s, Msgs(c)) = s  BY DEF OnlyLaws, OnlyKeepsAll
    <2> QED  BY Zenon, <1>1, <2>1, <2>2
<1>6. ASSUME NEW d \in Clients, d # c
      PROVE  Only(p \o x, Msgs(d)) = Only(p, Msgs(d))
    <2>1. Only(p \o x, Msgs(d)) = Only(p, Msgs(d)) \o Only(x, Msgs(d))
        BY <1>3 DEF OnlyLaws, OnlyOfConcat
    <2>2. Msgs(c) \cap Msgs(d) = {}  BY <1>6 DEF Msgs
    <2>3. \A s \in Seq(Msgs(c)) : Only(s, Msgs(d)) = << >>  BY <2>2 DEF OnlyLaws, OnlyKeepsNone
    <2>4. Only(x, Msgs(d)) = << >>  BY <1>1, <2>3
    <2>5. Only(p, Msgs(d)) \in Seq(AllMsgs \cap Msgs(d))  BY DEF OnlyLaws, OnlyTyped
    <2> QED  BY <2>1, <2>4, <2>5
<1>7. PushedAfter(p, x, c, m, w)  BY <1>1, <1>3, <1>4, <1>5, <1>6 DEF PushedAfter
<1> QED  BY Zenon, <1>7 DEF x

\* The value of a function changed at one point, and everywhere else.
LEMMA ChangedAt ==
    ASSUME NEW S, NEW T, NEW h \in [S -> T], NEW a \in S, NEW v \in T
    PROVE  /\ [h EXCEPT ![a] = v] \in [S -> T]
           /\ [h EXCEPT ![a] = v][a] = v
           /\ \A b \in S : b # a => [h EXCEPT ![a] = v][b] = h[b]
OBVIOUS

\* The orders of a client among those pushed are a sequence.
LEMMA MineType ==
    ASSUME OnlyLaws, NEW p \in Seq(AllMsgs), NEW c
    PROVE  Only(p, Msgs(c)) \in Seq(AllMsgs \cap Msgs(c)) /\ Len(Only(p, Msgs(c))) \in Nat
<1>1. Only(p, Msgs(c)) \in Seq(AllMsgs \cap Msgs(c))  BY DEF OnlyLaws, OnlyTyped
<1> QED  BY <1>1

\* What process_buffer makes of a read that ends with n units beyond the
\* client's m whole messages: w orders more, numbered on, and a shorter rest.
Decoded(p, c, m, n, w, k) ==
    /\ w \in Nat /\ k \in Nat /\ Units * m + n = Units * (m + w) + k
    /\ Rest(Part(c, m, n)) = Part(c, m + w, k)
    /\ p \o [i \in 1..Whole(Part(c, m, n)) |->
                wire_to_order(SubSeq(Part(c, m, n), (i - 1) * Units + 1, i * Units))]
         = p \o Numbered(c, m, w)

\* There are such w and k: process_buffer takes whole messages and keeps the rest.
LEMMA DecodedFacts ==
    ASSUME NEW p, NEW c \in Clients, NEW m \in Nat, NEW n \in Nat
    PROVE  \E w, k : Decoded(p, c, m, n, w, k)
<1> DEFINE w == n \div Units
           k == n - (n \div Units) * Units
           b == Part(c, m, n)
<1>1. /\ Whole(b) = w /\ w \in Nat /\ k \in Nat /\ Rest(b) = Part(c, m + w, k)
      /\ Units * m + n = Units * (m + w) + k
    BY RestFacts
<1>2. \A i \in 1..w : wire_to_order(SubSeq(b, (i - 1) * Units + 1, i * Units))
                        = [client |-> c, message |-> m + i]
    BY DecodedOrder
<1>3. [i \in 1..Whole(b) |-> wire_to_order(SubSeq(b, (i - 1) * Units + 1, i * Units))]
        = Numbered(c, m, w)
    <2> HIDE DEF b, w
    <2> QED  BY Zenon, <1>1, <1>2 DEF Numbered
<1>4. Decoded(p, c, m, n, w, k)
    <2>1. Decoded(p, c, m, n, w, k) =
            (/\ w \in Nat /\ k \in Nat /\ Units * m + n = Units * (m + w) + k
             /\ Rest(b) = Part(c, m + w, k)
             /\ p \o [i \in 1..Whole(b) |->
                     wire_to_order(SubSeq(b, (i - 1) * Units + 1, i * Units))]
                  = p \o Numbered(c, m, w))
        BY Zenon DEF Decoded
    <2> HIDE DEF w, k, b
    <2> QED  BY Zenon, <1>1, <1>3, <2>1
<1> QED  BY <1>4

-----------------------------------------------------------------------------
(* The steps of the feed handler.                                          *)

\* handle_client_data of an open client: w orders more of client c, which had m,
\* and k units of the next one stay in the buffer.
ReadStep(f, c, m, w, k) ==
    /\ c \in Clients /\ c = connections[f].client
    /\ m \in Nat /\ m = Len(Mine(c)) /\ w \in Nat /\ k \in Nat
    /\ pushed' = pushed \o Numbered(c, m, w)
    /\ connections' = [connections EXCEPT ![f].buf = Part(c, m + w, k)]
    /\ received' = [received EXCEPT ![c] = arrived[c]]
    /\ arrived[c] = Units * (m + w) + k

\* handle_client_data of an open client is such a step.
LEMMA ReadFacts ==
    ASSUME OnlyLaws, FeedInv, NEW f \in Fds, connections[f] # NoConn,
           cstate[connections[f].client] = "open", handle_client_data(f)
    PROVE  \E c, m, w, k : ReadStep(f, c, m, w, k)
<1>1. PICK c : c = connections[f].client  OBVIOUS
<1>2. PICK m : m = Len(Mine(c))  BY Zenon
<1>3. PICK n : n = Len(connections[f].buf)  BY Zenon
<1>4. PICK r : r = arrived[c] - received[c]  OBVIOUS
<1>5. c \in Clients /\ n \in Nat
    <2>1. connections[f] \in Connection  BY DEF FeedInv, FeedTypes
    <2> QED  BY <1>1, <1>3, <2>1 DEF Connection
<1>6. m \in Nat
    <2>1. pushed \in Seq(AllMsgs)  BY DEF FeedInv, FeedTypes, AllMsgs
    <2> QED  BY <1>2, <2>1, MineType DEF Mine
<1>7. connections[f].buf = Part(c, m, n) /\ received[c] = Units * m + n
    BY <1>1, <1>2, <1>3 DEF FeedInv, BufferInv
<1>8. /\ arrived[c] \in Nat /\ received[c] \in Nat /\ received[c] <= arrived[c]
      /\ arrived[c] = received[c] + r /\ r \in Nat
    BY <1>4, <1>5 DEF FeedInv, FeedTypes, StreamInv
<1>9. Units * m \in Nat  BY <1>6, FeedAssumption
<1>10. Part(c, m, n) \o [i \in 1..r |-> <<c, received[c] + i>>] = Part(c, m, n + r)
    <2>1. received[c] = Units * m + n  BY <1>7
    <2>2. r \in Nat /\ n \in Nat  BY <1>5, <1>8
    <2>3. Part(c, m, n) \o [i \in 1..r |-> <<c, Units * m + n + i>>] = Part(c, m, n + r)
        BY Zenon, <1>5, <1>6, <2>2, PartExtended
    <2>4. [i \in 1..r |-> <<c, received[c] + i>>]
            = [i \in 1..r |-> <<c, Units * m + n + i>>]
        BY <2>1
    <2> QED  BY Zenon, <2>3, <2>4
<1>11. /\ received' = [received EXCEPT ![c] = arrived[c]]
       /\ process_buffer(f, Part(c, m, n + r))
    BY Zenon, <1>1, <1>4, <1>7, <1>10 DEF handle_client_data
<1>12. PICK w, k : Decoded(pushed, c, m, n + r, w, k)
    <2>1. n + r \in Nat  BY <1>5, <1>8
    <2> QED  BY Zenon, <1>5, <1>6, <2>1, DecodedFacts
<1>13. /\ pushed' = pushed \o Numbered(c, m, w)
       /\ connections' = [connections EXCEPT ![f].buf = Part(c, m + w, k)]
    BY Zenon, <1>11, <1>12 DEF process_buffer, Decoded
<1>14. w \in Nat /\ k \in Nat /\ arrived[c] = Units * (m + w) + k
    <2>1. w \in Nat /\ k \in Nat /\ Units * m + (n + r) = Units * (m + w) + k
        BY <1>12 DEF Decoded
    <2>2. arrived[c] = Units * m + (n + r)  BY <1>5, <1>7, <1>8, <1>9
    <2> QED  BY <2>1, <2>2
<1>15. ReadStep(f, c, m, w, k)
    BY <1>1, <1>2, <1>5, <1>6, <1>11, <1>13, <1>14 DEF ReadStep
<1> QED  BY <1>15

\* A step that leaves the connections and the streams as they are keeps what is
\* said of them.
LEMMA SameStreams ==
    ASSUME OwnerInv, BufferInv, StreamInv,
           UNCHANGED <<network, connections, received, pushed>>
    PROVE  OwnerInv' /\ BufferInv' /\ StreamInv'
<1>1. /\ connections' = connections /\ received' = received /\ pushed' = pushed
      /\ backlog' = backlog /\ cstate' = cstate /\ arrived' = arrived
    BY DEF network
<1>2. \A c : Mine(c)' = Mine(c)  BY <1>1 DEF Mine
<1>3. OwnerInv'  BY <1>1 DEF OwnerInv, Fresh, Waiting, Connected
<1>4. BufferInv'  BY <1>1, <1>2 DEF BufferInv
<1>5. StreamInv'  BY <1>1, <1>2 DEF StreamInv, Fresh, Waiting
<1> QED  BY <1>3, <1>4, <1>5

\* A client connects: it waits, and had neither connection nor data.
LEMMA ConnectStep ==
    ASSUME FeedInv, NEW c \in Clients, Connect(c)
    PROVE  FeedInv'
<1>1. /\ cstate[c] = "idle" /\ cstate' = [cstate EXCEPT ![c] = "open"]
      /\ backlog' = Append(backlog, c)
      /\ connections' = connections /\ received' = received /\ pushed' = pushed
      /\ arrived' = arrived /\ pc' = pc /\ events' = events
      /\ running' = running /\ pipe' = pipe /\ stopped' = stopped
    BY DEF Connect, loop
<1>2. FeedTypes /\ OwnerInv /\ BufferInv /\ StreamInv /\ EventsInv  BY DEF FeedInv
<1>3. FeedTypes'  BY <1>1, <1>2 DEF FeedTypes
<1>4. \A d : Mine(d)' = Mine(d)  BY <1>1 DEF Mine
<1>5. cstate \in [Clients -> {"idle", "open", "closed", "reset"}] /\ backlog \in Seq(Clients)
    BY <1>2 DEF FeedTypes
<1>6. /\ Len(backlog) \in Nat /\ Len(backlog') = Len(backlog) + 1
      /\ backlog'[Len(backlog) + 1] = c
      /\ \A i \in 1..Len(backlog) : backlog'[i] = backlog[i]
    BY <1>1, <1>5
<1>7. \A d \in Clients : Waiting(d)' <=> Waiting(d) \/ d = c
    BY <1>6 DEF Waiting
<1>8. \A d \in Clients : Fresh(d)' <=> Fresh(d)
    BY <1>1, <1>5, <1>7 DEF Fresh
<1>9. OwnerInv'
    <2>1. ~Waiting(c)  BY <1>1, <1>2 DEF OwnerInv
    <2>2. \A i, j \in 1..Len(backlog') : backlog'[i] = backlog'[j] => i = j
        <3>1. \A i \in 1..Len(backlog) : backlog[i] # c  BY <2>1 DEF Waiting
        <3>2. \A i, j \in 1..Len(backlog) : backlog[i] = backlog[j] => i = j
            BY <1>2 DEF OwnerInv
        <3> QED  BY <1>6, <3>1, <3>2
    <2>3. \A d \in Clients : cstate'[d] = "idle" => ~Waiting(d)'
        BY <1>1, <1>2, <1>5, <1>7 DEF OwnerInv
    <2>4. \A d \in Clients : Fresh(d)' => ~Connected(d)'
        BY <1>1, <1>2, <1>8 DEF OwnerInv, Connected
    <2>5. \A f, g \in Fds :
              /\ connections'[f] # NoConn /\ connections'[g] # NoConn
              /\ connections'[f].client = connections'[g].client
              => f = g
        BY <1>1, <1>2 DEF OwnerInv
    <2> QED  BY <2>2, <2>3, <2>4, <2>5 DEF OwnerInv
<1>10. BufferInv'  BY <1>1, <1>2, <1>4 DEF BufferInv
<1>11. StreamInv'  BY <1>1, <1>2, <1>4, <1>8 DEF StreamInv
<1>12. EventsInv'  BY <1>1, <1>2 DEF EventsInv, EventsCurrent
<1> QED  BY <1>3, <1>9, <1>10, <1>11, <1>12 DEF FeedInv

\* A unit arrives.
LEMMA SendStep ==
    ASSUME FeedInv, NEW c \in Clients, Send(c)
    PROVE  FeedInv'
<1>1. /\ arrived' = [arrived EXCEPT ![c] = @ + 1]
      /\ connections' = connections /\ received' = received /\ pushed' = pushed
      /\ cstate' = cstate /\ backlog' = backlog /\ pc' = pc /\ events' = events
      /\ running' = running /\ pipe' = pipe /\ stopped' = stopped
    BY DEF Send, loop
<1>2. FeedTypes /\ OwnerInv /\ BufferInv /\ StreamInv /\ EventsInv  BY DEF FeedInv
<1>3. FeedTypes'  BY <1>1, <1>2 DEF FeedTypes
<1>4. \A d : Mine(d)' = Mine(d)  BY <1>1 DEF Mine
<1>5. OwnerInv'  BY <1>1, <1>2 DEF OwnerInv, Fresh, Waiting, Connected
<1>6. BufferInv'  BY <1>1, <1>2, <1>4 DEF BufferInv
<1>7. StreamInv'
    <2>1. \A d \in Clients : Fresh(d)' = Fresh(d)  BY <1>1 DEF Fresh, Waiting
    <2>2. \A d \in Clients : received[d] <= arrived'[d]
        BY <1>1, <1>2 DEF StreamInv, FeedTypes
    <2> QED  BY <1>1, <1>2, <1>4, <2>1, <2>2 DEF StreamInv
<1>8. EventsInv'  BY <1>1, <1>2 DEF EventsInv, EventsCurrent
<1> QED  BY <1>3, <1>5, <1>6, <1>7, <1>8 DEF FeedInv

\* A client closes or resets its connection.
LEMMA HangupStep ==
    ASSUME FeedInv, NEW c \in Clients, Hangup(c)
    PROVE  FeedInv'
<1>1. PICK s \in {"closed", "reset"} :
         /\ cstate[c] = "open" /\ cstate' = [cstate EXCEPT ![c] = s]
         /\ connections' = connections /\ received' = received /\ pushed' = pushed
         /\ arrived' = arrived /\ backlog' = backlog /\ pc' = pc /\ events' = events
         /\ running' = running /\ pipe' = pipe /\ stopped' = stopped
    BY Zenon DEF Hangup, loop
<1>2. FeedTypes /\ OwnerInv /\ BufferInv /\ StreamInv /\ EventsInv  BY DEF FeedInv
<1>3. FeedTypes'  BY <1>1, <1>2 DEF FeedTypes
<1>4. \A d : Mine(d)' = Mine(d)  BY <1>1 DEF Mine
<1>5. \A d \in Clients : cstate'[d] = "idle" => cstate[d] = "idle"
    BY <1>1, <1>2 DEF FeedTypes
<1>6. \A d : Waiting(d)' = Waiting(d) /\ Connected(d)' = Connected(d)
    BY <1>1 DEF Waiting, Connected
<1>7. \A d \in Clients : Fresh(d)' => Fresh(d)  BY <1>5, <1>6 DEF Fresh
<1>8. OwnerInv'  BY <1>1, <1>2, <1>5, <1>6, <1>7 DEF OwnerInv
<1>9. BufferInv'  BY <1>1, <1>2, <1>4 DEF BufferInv
<1>10. StreamInv'  BY <1>1, <1>2, <1>4, <1>7 DEF StreamInv
<1>11. EventsInv'  BY <1>1, <1>2 DEF EventsInv, EventsCurrent
<1> QED  BY <1>3, <1>8, <1>9, <1>10, <1>11 DEF FeedInv

\* stop, Setup, StopEvent and ListenEvent only move the loop on: a batch that is
\* left empty or as it was.
LEMMA LoopStep ==
    ASSUME FeedInv, stop \/ Setup \/ StopEvent \/ ListenEvent
    PROVE  FeedInv'
<1>1. /\ UNCHANGED <<network, connections, received, pushed>>
      /\ connections' = connections
    BY DEF stop, Setup, StopEvent, ListenEvent
<1>2. FeedTypes /\ OwnerInv /\ BufferInv /\ StreamInv /\ EventsInv  BY DEF FeedInv
<1>3. OwnerInv' /\ BufferInv' /\ StreamInv'  BY <1>1, <1>2, SameStreams
<1>4. pc' \in {"setup", "wait", "events", "accept", "returned"}
    BY <1>2 DEF FeedTypes, stop, Setup, StopEvent, ListenEvent
<1>5. running' \in BOOLEAN /\ pipe' \in BOOLEAN /\ stopped' \in BOOLEAN
    BY Zenon, <1>2 DEF FeedTypes, stop, Setup, StopEvent, ListenEvent, Wake
<1>6. FeedTypes'  BY <1>1, <1>2, <1>4, <1>5 DEF FeedTypes, network
<1>7. events' = events \/ events' = {}
    BY DEF stop, Setup, StopEvent, ListenEvent
<1>8. pc' \in {"setup", "wait", "returned"} => events' = {}
    BY <1>2 DEF EventsInv, stop, Setup, StopEvent, ListenEvent
<1>9. EventsInv'  BY <1>1, <1>2, <1>7, <1>8 DEF EventsInv, EventsCurrent
<1> QED  BY <1>3, <1>6, <1>9 DEF FeedInv

\* epoll_wait reports each connection once, as it is.
LEMMA EpollStep ==
    ASSUME FeedInv, EpollWait
    PROVE  FeedInv'
<1>1. /\ UNCHANGED <<network, connections, received, pushed>>
      /\ connections' = connections /\ pc' = "events" /\ events' \subseteq Ready
      /\ running' = running /\ pipe' = pipe /\ stopped' = stopped
    BY DEF EpollWait
<1>2. FeedTypes /\ OwnerInv /\ BufferInv /\ StreamInv /\ EventsInv  BY DEF FeedInv
<1>3. OwnerInv' /\ BufferInv' /\ StreamInv'  BY <1>1, <1>2, SameStreams
<1>4. FeedTypes'  BY <1>1, <1>2 DEF FeedTypes, network
<1>5. ASSUME NEW e \in events', e.kind = "client"
      PROVE  \E f \in Fds :
                /\ connections[f] # NoConn
                /\ e = Event("client", f, connections[f].client,
                             cstate[connections[f].client] = "reset")
    <2>1. e \in ClientEvents
        <3>1. e \in Ready  BY <1>1
        <3>2. e # Event("listen", 0, NoConn, FALSE) /\ e # Event("stop", 0, NoConn, FALSE)
            BY <1>5 DEF Event
        <3> QED  BY Zenon, <3>1, <3>2 DEF Ready
    <2> QED  BY <2>1 DEF ClientEvents
<1>6. ASSUME NEW e \in events', e.kind = "client"
      PROVE  /\ e.fd \in Fds /\ e.client \in Clients
             /\ connections[e.fd] # NoConn /\ connections[e.fd].client = e.client
             /\ e = Event("client", e.fd, connections[e.fd].client,
                          cstate[connections[e.fd].client] = "reset")
    <2>1. PICK f \in Fds :
             /\ connections[f] # NoConn
             /\ e = Event("client", f, connections[f].client,
                          cstate[connections[f].client] = "reset")
        BY <1>5, <1>6
    <2>2. e.fd = f /\ e.client = connections[f].client  BY <2>1 DEF Event
    <2>3. connections[f] \in Connection  BY <1>2, <2>1 DEF FeedTypes
    <2> QED  BY Zenon, <2>1, <2>2, <2>3 DEF Connection
<1>7. \A d, e \in events' :
          d.kind = "client" /\ e.kind = "client" /\ d.fd = e.fd => d = e
    BY Zenon, <1>6
<1>8. EventsCurrent'  BY <1>1, <1>6 DEF EventsCurrent
<1>9. EventsInv'  BY <1>1, <1>6, <1>7, <1>8 DEF EventsInv
<1> QED  BY <1>3, <1>4, <1>9 DEF FeedInv

\* The rest of the batch: no event of a descriptor that one was handled for.
LEMMA HandledFacts ==
    ASSUME EventsInv, NEW e \in events, Handled(e), running \in BOOLEAN
    PROVE  /\ pc' \in {"wait", "events", "returned"}
           /\ pc' \in {"setup", "wait", "returned"} => events' = {}
           /\ events' \subseteq events
           /\ e.kind = "client" =>
                \A d \in events' : d.kind = "client" => d.fd # e.fd
<1>1. events' = events \ {e} /\ pc' = IF events' = {} THEN Continue ELSE "events"
    BY DEF Handled
<1>2. Continue \in {"wait", "returned"}  BY DEF Continue
<1>3. pc' \in {"wait", "events", "returned"}  BY <1>1, <1>2
<1>4. pc' \in {"setup", "wait", "returned"} => events' = {}  BY <1>1
<1>5. e.kind = "client" => \A d \in events' : d.kind = "client" => d.fd # e.fd
    BY <1>1 DEF EventsInv
<1> QED  BY <1>1, <1>3, <1>4, <1>5

\* What a step says of the batch when it hands out or frees only descriptors
\* that the rest of the batch is not about.
LEMMA BatchKept ==
    ASSUME EventsInv, events' \subseteq events,
           pc' \in {"setup", "wait", "returned"} => events' = {},
           \A e \in events' : e.kind = "client" /\ connections[e.fd] # NoConn =>
               /\ connections'[e.fd] # NoConn
               /\ connections'[e.fd].client = connections[e.fd].client
    PROVE  EventsInv'
<1>1. EventsCurrent'
    <2> SUFFICES ASSUME NEW e \in events', e.kind = "client"
                 PROVE  connections'[e.fd] # NoConn /\ connections'[e.fd].client = e.client
        BY DEF EventsCurrent
    <2>1. connections[e.fd] # NoConn /\ connections[e.fd].client = e.client
        BY DEF EventsInv, EventsCurrent
    <2> QED  BY <2>1
<1> QED  BY <1>1 DEF EventsInv

\* accept_connections: the end of its loop, or one client more.
LEMMA AcceptStep ==
    ASSUME FeedInv, accept_connections
    PROVE  FeedInv'
<1>1. /\ pc = "accept" /\ cstate' = cstate /\ arrived' = arrived /\ received' = received
      /\ pushed' = pushed /\ nofile' = nofile
      /\ running' = running /\ pipe' = pipe /\ stopped' = stopped
    BY DEF accept_connections
<1>2. FeedTypes /\ OwnerInv /\ BufferInv /\ StreamInv /\ EventsInv  BY DEF FeedInv
<1>3. CASE \E e \in events : Handled(e) /\ UNCHANGED <<backlog, connections>>
    <2>1. PICK e \in events : Handled(e) /\ UNCHANGED <<backlog, connections>>  BY <1>3
    <2>2. UNCHANGED <<network, connections, received, pushed>> /\ connections' = connections
        BY <1>1, <2>1 DEF network
    <2>3. OwnerInv' /\ BufferInv' /\ StreamInv'  BY <1>2, <2>2, SameStreams
    <2>4. /\ pc' \in {"wait", "events", "returned"} /\ events' \subseteq events
          /\ pc' \in {"setup", "wait", "returned"} => events' = {}
        <3>1. running \in BOOLEAN  BY <1>2 DEF FeedTypes
        <3> QED  BY <1>2, <2>1, <3>1, HandledFacts
    <2>5. EventsInv'  BY <1>2, <2>2, <2>4, BatchKept
    <2>6. FeedTypes'  BY <1>1, <1>2, <2>2, <2>4 DEF FeedTypes, network
    <2> QED  BY <2>3, <2>5, <2>6 DEF FeedInv
<1>4. CASE \E f \in Fds : /\ backlog # << >> /\ connections[f] = NoConn
                          /\ connections' = [connections EXCEPT ![f] =
                                                [client |-> Head(backlog), buf |-> << >>]]
                          /\ backlog' = Tail(backlog)
                          /\ UNCHANGED <<pc, events>>
    <2>1. PICK f \in Fds :
             /\ backlog # << >> /\ connections[f] = NoConn
             /\ connections' = [connections EXCEPT ![f] =
                                   [client |-> Head(backlog), buf |-> << >>]]
             /\ backlog' = Tail(backlog)
             /\ pc' = pc /\ events' = events
        BY Zenon, <1>4
    <2>2. PICK c : c = Head(backlog)  OBVIOUS
    <2>3. PICK n : n = Len(backlog)  BY Zenon
    <2>4. /\ c \in Clients /\ c = backlog[1] /\ n \in Nat /\ n >= 1
          /\ Tail(backlog) \in Seq(Clients) /\ Len(Tail(backlog)) = n - 1
          /\ \A i \in 1..(n - 1) : Tail(backlog)[i] = backlog[i + 1]
        <3>1. backlog \in Seq(Clients)  BY <1>2 DEF FeedTypes
        <3> QED  BY <2>1, <2>2, <2>3, <3>1
    <2>5. PICK r : r = [client |-> c, buf |-> << >>]  BY Zenon
    <2>6. r \in Connection /\ r # NoConn /\ r.client = c /\ r.buf = << >>
        <3>1. r \in Connection /\ r.client = c /\ r.buf = << >>
            BY <2>4, <2>5 DEF Connection
        <3> QED  BY <3>1, FeedAssumption
    <2>7. /\ connections' \in [Fds -> Connection \union {NoConn}]
          /\ connections'[f] = r
          /\ \A g \in Fds : g # f => connections'[g] = connections[g]
        BY <1>2, <2>1, <2>2, <2>5, <2>6 DEF FeedTypes
    <2>8. FeedTypes'  BY <1>1, <1>2, <2>1, <2>4, <2>7 DEF FeedTypes
    <2>9. Waiting(c) /\ c \in Clients
        <3>1. 1 \in 1..n  BY <2>4
        <3> QED  BY <2>3, <2>4, <3>1 DEF Waiting
    <2>10. \A i \in 2..n : backlog[i] # c
        BY <1>2, <2>3, <2>4 DEF OwnerInv
    <2>11. \A d : Waiting(d)' => Waiting(d) /\ d # c
        <3> SUFFICES ASSUME NEW d, NEW i \in 1..(n - 1), Tail(backlog)[i] = d
                     PROVE  Waiting(d) /\ d # c
            BY <2>1, <2>4 DEF Waiting
        <3>1. i + 1 \in 1..n /\ i + 1 \in 2..n /\ backlog[i + 1] = d  BY <2>4
        <3> QED  BY <2>3, <2>10, <3>1 DEF Waiting
    <2>12. Fresh(c) /\ ~Connected(c) /\ received[c] = 0 /\ Mine(c) = << >> /\ cstate[c] # "idle"
        BY <1>2, <2>9 DEF Fresh, OwnerInv, StreamInv
    <2>13. \A d \in Clients : Fresh(d)' => Fresh(d) /\ d # c
        BY <1>1, <2>11, <2>12 DEF Fresh
    <2>14. \A d \in Clients : Connected(d)' => Connected(d) \/ d = c
        BY <2>6, <2>7 DEF Connected
    <2>15. OwnerInv'
        <3>1. \A g, h \in Fds :
                 /\ connections'[g] # NoConn /\ connections'[h] # NoConn
                 /\ connections'[g].client = connections'[h].client
                 => g = h
            <4>1. \A g \in Fds : g # f /\ connections'[g] # NoConn =>
                      connections'[g].client # c
                BY <2>7, <2>12 DEF Connected
            <4>2. \A g, h \in Fds :
                     /\ connections[g] # NoConn /\ connections[h] # NoConn
                     /\ connections[g].client = connections[h].client
                     => g = h
                BY <1>2 DEF OwnerInv
            <4> QED  BY <2>6, <2>7, <4>1, <4>2
        <3>2. \A i, j \in 1..Len(backlog') : backlog'[i] = backlog'[j] => i = j
            <4> SUFFICES ASSUME NEW i \in 1..(n - 1), NEW j \in 1..(n - 1),
                                Tail(backlog)[i] = Tail(backlog)[j]
                         PROVE  i = j
                BY <2>1, <2>4
            <4>1. i + 1 \in 1..n /\ j + 1 \in 1..n /\ backlog[i + 1] = backlog[j + 1]
                BY <2>4
            <4>2. i + 1 = j + 1  BY <1>2, <2>3, <4>1 DEF OwnerInv
            <4> QED  BY <4>2
        <3>3. \A d \in Clients : cstate'[d] = "idle" => ~Waiting(d)'
            BY <1>1, <1>2, <2>11 DEF OwnerInv
        <3>4. \A d \in Clients : Fresh(d)' => ~Connected(d)'
            BY <1>2, <2>13, <2>14 DEF OwnerInv
        <3> QED  BY <3>1, <3>2, <3>3, <3>4 DEF OwnerInv
    <2>16. \A d : Mine(d)' = Mine(d)  BY <1>1 DEF Mine
    <2>17. BufferInv'
        <3>1. /\ r.buf = Part(c, 0, 0) /\ Len(r.buf) = 0 /\ Len(Mine(c)) = 0
              /\ Units * 0 + 0 = 0
            BY <2>6, <2>12, FeedAssumption DEF Part
        <3> SUFFICES ASSUME NEW g \in Fds, connections'[g] # NoConn
                     PROVE  LET d == connections'[g].client
                                k == Len(connections'[g].buf)
                            IN  /\ connections'[g].buf = Part(d, Len(Mine(d)), k)
                                /\ received[d] = Units * Len(Mine(d)) + k
            BY <1>1, <2>16 DEF BufferInv
        <3>2. CASE g = f  BY <2>6, <2>7, <2>12, <3>1, <3>2
        <3>3. CASE g # f  BY <1>2, <2>7, <3>3 DEF BufferInv
        <3> QED  BY <3>2, <3>3
    <2>18. StreamInv'  BY <1>1, <1>2, <2>13, <2>16 DEF StreamInv
    <2>19. EventsInv'
        <3>1. \A e \in events' : e.kind = "client" /\ connections[e.fd] # NoConn =>
                  /\ connections'[e.fd] # NoConn
                  /\ connections'[e.fd].client = connections[e.fd].client
            BY <1>2, <2>1, <2>7 DEF EventsInv
        <3>2. pc' \in {"setup", "wait", "returned"} => events' = {}
            BY <1>2, <2>1 DEF EventsInv
        <3> QED  BY <1>2, <2>1, <3>1, <3>2, BatchKept
    <2> QED  BY <2>8, <2>15, <2>17, <2>18, <2>19 DEF FeedInv
<1>5. \/ \E e \in events : Handled(e) /\ UNCHANGED <<backlog, connections>>
      \/ \E f \in Fds : /\ backlog # << >> /\ connections[f] = NoConn
                        /\ connections' = [connections EXCEPT ![f] =
                                              [client |-> Head(backlog), buf |-> << >>]]
                        /\ backlog' = Tail(backlog)
                        /\ UNCHANGED <<pc, events>>
    BY Zenon DEF accept_connections, FreeFds
<1> QED  BY <1>3, <1>4, <1>5

\* close_connection, for the destructor too: a set C of connections goes, and
\* nothing else of them changes but how much was read.
LEMMA ClosedKeeps ==
    ASSUME FeedInv, NEW C \in SUBSET Fds,
           connections' = [f \in Fds |-> IF f \in C THEN NoConn ELSE connections[f]],
           pushed' = pushed, cstate' = cstate, backlog' = backlog, arrived' = arrived,
           received' \in [Clients -> Nat],
           \A c \in Clients : received'[c] # received[c] =>
               /\ received'[c] <= arrived[c]
               /\ \E f \in C : connections[f] # NoConn /\ connections[f].client = c
    PROVE  OwnerInv' /\ BufferInv' /\ StreamInv'
<1>1. FeedTypes /\ OwnerInv /\ BufferInv /\ StreamInv  BY DEF FeedInv
<1>2. \A f \in Fds : connections'[f] # NoConn =>
          f \notin C /\ connections'[f] = connections[f] /\ connections[f] # NoConn
    OBVIOUS
<1>3. \A c : Mine(c)' = Mine(c)  BY DEF Mine
<1>4. \A c : Waiting(c)' = Waiting(c) /\ Fresh(c)' = Fresh(c)  BY DEF Fresh, Waiting
<1>5. \A c : Connected(c)' => Connected(c)  BY <1>2 DEF Connected
<1>6. OwnerInv'
    <2>1. \A f, g \in Fds :
             /\ connections'[f] # NoConn /\ connections'[g] # NoConn
             /\ connections'[f].client = connections'[g].client
             => f = g
        BY <1>1, <1>2 DEF OwnerInv
    <2> QED  BY <1>1, <1>4, <1>5, <2>1 DEF OwnerInv
<1>7. BufferInv'
    <2> SUFFICES ASSUME NEW f \in Fds, connections'[f] # NoConn
                 PROVE  LET c == connections'[f].client
                            n == Len(connections'[f].buf)
                        IN  /\ connections'[f].buf = Part(c, Len(Mine(c)), n)
                            /\ received'[c] = Units * Len(Mine(c)) + n
        BY <1>3 DEF BufferInv
    <2>1. f \notin C /\ connections'[f] = connections[f] /\ connections[f] # NoConn
        BY <1>2
    <2>2. connections[f].client \in Clients
        BY <1>1, <2>1 DEF FeedTypes, Connection
    <2>3. received'[connections[f].client] = received[connections[f].client]
        BY <1>1, <2>1, <2>2 DEF OwnerInv
    <2> QED  BY <1>1, <2>1, <2>3 DEF BufferInv
<1>8. StreamInv'
    <2> SUFFICES ASSUME NEW c \in Clients
                 PROVE  /\ Fresh(c) => received'[c] = 0 /\ Mine(c) = << >>
                        /\ received'[c] <= arrived[c]
                        /\ \A i \in 1..Len(Mine(c)) : Mine(c)[i].message = i
        BY <1>3, <1>4 DEF StreamInv
    <2>1. Fresh(c) => received'[c] = received[c]
        BY <1>1 DEF OwnerInv, Connected
    <2> QED  BY <1>1, <2>1 DEF StreamInv
<1> QED  BY <1>6, <1>7, <1>8

\* A client's event closes its connection: after a reset, or at the end of the
\* stream, when what was read of it is thrown away.
LEMMA CloseStep ==
    ASSUME FeedInv, NEW e \in events, ClientEvent(e), close_connection(e.fd),
           pushed' = pushed,
           \/ received' = received
           \/ LET c == connections[e.fd].client
              IN  received' = [received EXCEPT ![c] = arrived[c]]
    PROVE  FeedInv'
<1>1. FeedTypes /\ OwnerInv /\ BufferInv /\ StreamInv /\ EventsInv  BY DEF FeedInv
<1>2. /\ e.kind = "client" /\ Handled(e)
      /\ backlog' = backlog /\ cstate' = cstate /\ arrived' = arrived
      /\ running' = running /\ pipe' = pipe /\ stopped' = stopped
    BY DEF ClientEvent, network
<1>3. e.fd \in Fds /\ connections[e.fd] # NoConn  BY <1>1, <1>2 DEF EventsInv, EventsCurrent
<1>4. PICK f : f = e.fd  OBVIOUS
<1>5. PICK c : c = connections[f].client  OBVIOUS
<1>6. c \in Clients  BY <1>1, <1>3, <1>4, <1>5 DEF FeedTypes, Connection
<1>7. connections' = [g \in Fds |-> IF g \in {f} THEN NoConn ELSE connections[g]]
    BY Zenon, <1>1, <1>3, <1>4 DEF FeedTypes, close_connection
<1>8. received \in [Clients -> Nat] /\ arrived \in [Clients -> Nat]
    BY <1>1 DEF FeedTypes
<1>9. /\ received' \in [Clients -> Nat]
      /\ \A d \in Clients : received'[d] # received[d] => d = c /\ received'[d] <= arrived[d]
    BY <1>4, <1>5, <1>6, <1>8
<1>10. OwnerInv' /\ BufferInv' /\ StreamInv'
    <2>1. \A d \in Clients : received'[d] # received[d] =>
              /\ received'[d] <= arrived[d]
              /\ \E g \in {f} : connections[g] # NoConn /\ connections[g].client = d
        BY <1>3, <1>4, <1>5, <1>9
    <2>2. {f} \in SUBSET Fds  BY <1>3, <1>4
    <2> QED  BY Zenon, <1>2, <1>7, <1>9, <2>1, <2>2, ClosedKeeps
<1>11. /\ pc' \in {"wait", "events", "returned"} /\ events' \subseteq events
       /\ pc' \in {"setup", "wait", "returned"} => events' = {}
       /\ \A d \in events' : d.kind = "client" => d.fd # f
    <2>1. running \in BOOLEAN  BY <1>1 DEF FeedTypes
    <2> QED  BY <1>1, <1>2, <1>4, <2>1, HandledFacts
<1>12. EventsInv'
    <2>1. \A d \in events' : d.kind = "client" /\ connections[d.fd] # NoConn =>
              /\ connections'[d.fd] # NoConn
              /\ connections'[d.fd].client = connections[d.fd].client
        BY <1>1, <1>7, <1>11 DEF EventsInv
    <2> QED  BY <1>1, <1>11, <2>1, BatchKept
<1>13. connections' \in [Fds -> Connection \union {NoConn}]
    BY <1>1, <1>7 DEF FeedTypes
<1>14. FeedTypes'  BY Zenon, <1>1, <1>2, <1>9, <1>11, <1>13 DEF FeedTypes
<1> QED  BY <1>10, <1>12, <1>14 DEF FeedInv

\* A client's event with data: its orders go on where they ended, its buffer
\* too, and nothing of another client changes.
LEMMA DataStep ==
    ASSUME OnlyLaws, FeedInv, NEW e \in events, ClientEvent(e), handle_client_data(e.fd),
           cstate[connections[e.fd].client] = "open"
    PROVE  FeedInv'
<1>1. FeedTypes /\ OwnerInv /\ BufferInv /\ StreamInv /\ EventsInv  BY Zenon DEF FeedInv
<1>2. /\ e.kind = "client" /\ Handled(e)
      /\ backlog' = backlog /\ cstate' = cstate /\ arrived' = arrived
      /\ running' = running /\ pipe' = pipe /\ stopped' = stopped
    BY DEF ClientEvent, network
<1>3. e.fd \in Fds /\ connections[e.fd] # NoConn  BY <1>1, <1>2 DEF EventsInv, EventsCurrent
<1>4. PICK f : f = e.fd  OBVIOUS
<1>5. PICK c, m, w, k : ReadStep(f, c, m, w, k)  BY <1>3, <1>4, ReadFacts
<1>6. /\ c \in Clients /\ c = connections[f].client /\ f \in Fds /\ connections[f] # NoConn
      /\ m \in Nat /\ m = Len(Mine(c)) /\ w \in Nat /\ k \in Nat
      /\ connections' = [connections EXCEPT ![f].buf = Part(c, m + w, k)]
      /\ received' = [received EXCEPT ![c] = arrived[c]]
      /\ arrived[c] = Units * (m + w) + k
    BY <1>3, <1>4, <1>5 DEF ReadStep
<1>t. c \in Clients /\ m \in Nat /\ w \in Nat /\ k \in Nat  BY <1>6
<1> DEFINE x == Numbered(c, m, w)
<1>7. /\ pushed' \in Seq(AllMsgs) /\ x \in Seq(AllMsgs) /\ Len(x) = w
      /\ \A i \in 1..w : x[i].message = m + i
      /\ Mine(c)' = Mine(c) \o x
      /\ \A d \in Clients : d # c => Mine(d)' = Mine(d)
    <2>1. pushed \in Seq(AllMsgs)  BY <1>1 DEF FeedTypes, AllMsgs
    <2>2. pushed' = pushed \o x  BY <1>5 DEF ReadStep
    <2>3. PushedAfter(pushed, x, c, m, w)  BY Zenon, <1>t, <2>1, PushedOrders
    <2> HIDE DEF x
    <2> QED  BY <2>2, <2>3 DEF Mine, PushedAfter
<1> HIDE DEF x
<1>9. Len(Mine(c)') = m + w /\ \A i \in 1..(m + w) : Mine(c)'[i].message = i
    <2>1. \A i \in 1..m : Mine(c)[i].message = i  BY <1>1, <1>6 DEF StreamInv
    <2>2. Mine(c) \in Seq(AllMsgs \cap Msgs(c))
        <3>1. pushed \in Seq(AllMsgs)  BY <1>1 DEF FeedTypes, AllMsgs
        <3> QED  BY <3>1, MineType DEF Mine
    <2>3. PICK s : s = Mine(c)  OBVIOUS
    <2>4. /\ Len(s \o x) = m + w
          /\ \A i \in 1..(m + w) : (s \o x)[i] = IF i <= m THEN s[i] ELSE x[i - m]
        <3>1. s \in Seq(AllMsgs \cap Msgs(c)) /\ Len(s) = m  BY <1>6, <2>2, <2>3
        <3>2. s \in Seq(AllMsgs)  BY <3>1
        <3>3. x \in Seq(AllMsgs) /\ Len(x) = w  BY <1>7
        <3>4. ASSUME NEW p \in Seq(AllMsgs), NEW q \in Seq(AllMsgs)
              PROVE  /\ Len(p \o q) = Len(p) + Len(q)
                     /\ \A i \in 1..(Len(p) + Len(q)) :
                           (p \o q)[i] = IF i <= Len(p) THEN p[i] ELSE q[i - Len(p)]
            OBVIOUS
        <3> QED  BY Zenon, <3>1, <3>2, <3>3, <3>4
    <2>5. \A i \in 1..(m + w) : (s \o x)[i].message = i
        <3> SUFFICES ASSUME NEW i \in 1..(m + w) PROVE (s \o x)[i].message = i  BY Zenon
        <3>1. CASE i <= m
            <4>1. i \in 1..m  BY <3>1
            <4> QED  BY <2>1, <2>3, <2>4, <3>1, <4>1
        <3>2. CASE ~(i <= m)
            <4>1. i - m \in 1..w /\ m + (i - m) = i  BY <1>6, <3>2
            <4> QED  BY <1>7, <2>4, <3>2, <4>1
        <3> QED  BY Zenon, <3>1, <3>2
    <2> QED  BY <1>7, <2>3, <2>4, <2>5
<1>10. /\ Part(c, m + w, k) \in Seq(Clients \X Nat) /\ Len(Part(c, m + w, k)) = k
    <2>1. m + w \in Nat  BY <1>6
    <2> QED  BY <1>6, <2>1, PartFacts
<1>11. PICK r : r = [client |-> c, buf |-> Part(c, m + w, k)]  BY Zenon
<1>12. r \in Connection /\ r # NoConn /\ r.client = c /\ r.buf = Part(c, m + w, k)
    <2>1. r \in Connection /\ r.client = c /\ r.buf = Part(c, m + w, k)
        BY <1>6, <1>10, <1>11 DEF Connection
    <2> QED  BY <2>1, FeedAssumption
<1>13. /\ connections' \in [Fds -> Connection \union {NoConn}]
       /\ connections'[f] = r
       /\ \A g \in Fds : g # f => connections'[g] = connections[g]
    <2>1. connections[f] \in Connection  BY <1>1, <1>6 DEF FeedTypes
    <2>2. [connections[f] EXCEPT !.buf = Part(c, m + w, k)] = r
        <3>1. PICK b : b = Part(c, m + w, k)  OBVIOUS
        <3>2. PICK q : q = connections[f]  OBVIOUS
        <3>3. q \in [client : Clients, buf : Seq(Clients \X Nat)] /\ q.client = c
            BY <1>6, <2>1, <3>2 DEF Connection
        <3>4. [q EXCEPT !.buf = b] = [client |-> c, buf |-> b]  BY <3>3
        <3> QED  BY <1>11, <3>1, <3>2, <3>4
    <2>3. connections' = [connections EXCEPT ![f] = r]
        BY Zenon, <1>6, <2>2
    <2>4. connections \in [Fds -> Connection \union {NoConn}]  BY Zenon, <1>1 DEF FeedTypes
    <2>5. r \in Connection \union {NoConn} /\ f \in Fds  BY Zenon, <1>6, <1>12
    <2> QED  BY Zenon, <2>3, <2>4, <2>5, ChangedAt
<1>14. /\ received \in [Clients -> Nat] /\ arrived \in [Clients -> Nat]
       /\ received' \in [Clients -> Nat] /\ received'[c] = arrived[c]
       /\ \A d \in Clients : d # c => received'[d] = received[d]
    BY <1>1, <1>6 DEF FeedTypes
<1>15. \A d : Waiting(d)' = Waiting(d) /\ Fresh(d)' = Fresh(d)
    BY <1>2 DEF Fresh, Waiting
<1>16. \A g \in Fds : /\ connections'[g] # NoConn <=> connections[g] # NoConn
                      /\ connections[g] # NoConn =>
                            connections'[g].client = connections[g].client
    BY <1>6, <1>12, <1>13
<1>17. \A d : Connected(d)' => Connected(d)  BY Zenon, <1>16 DEF Connected
<1>18. OwnerInv'
    <2>1. \A g, h \in Fds :
             /\ connections'[g] # NoConn /\ connections'[h] # NoConn
             /\ connections'[g].client = connections'[h].client
             => g = h
        BY Zenon, <1>1, <1>16 DEF OwnerInv
    <2> QED  BY Zenon, <1>1, <1>2, <1>15, <1>17, <2>1 DEF OwnerInv
<1>19. BufferInv'
    <2> SUFFICES ASSUME NEW g \in Fds, connections'[g] # NoConn,
                        NEW d, d = connections'[g].client,
                        NEW n, n = Len(connections'[g].buf)
                 PROVE  /\ connections'[g].buf = Part(d, Len(Mine(d)'), n)
                        /\ received'[d] = Units * Len(Mine(d)') + n
        BY DEF BufferInv, Mine
    <2>1. CASE g = f
        <3>1. d = c /\ connections'[g].buf = Part(c, m + w, k) /\ n = k
            BY <1>10, <1>12, <1>13, <2>1
        <3>2. received'[c] = Units * (m + w) + k  BY <1>6, <1>14
        <3> QED  BY <1>9, <3>1, <3>2
    <2>2. CASE g # f
        <3>1. connections'[g] = connections[g] /\ connections[g] # NoConn  BY <1>13, <2>2
        <3>2. d \in Clients  BY <1>1, <3>1 DEF FeedTypes, Connection
        <3>3. d # c  BY Zenon, <1>1, <1>6, <2>2, <3>1 DEF OwnerInv
        <3>4. Mine(d)' = Mine(d) /\ received'[d] = received[d]  BY Zenon, <1>7, <1>14, <3>2, <3>3
        <3>5. connections[g].buf = Part(d, Len(Mine(d)), n) /\ received[d] = Units * Len(Mine(d)) + n
            BY <1>1, <3>1 DEF BufferInv
        <3> QED  BY <3>1, <3>4, <3>5
    <2> QED  BY <2>1, <2>2
<1>20. StreamInv'
    <2> SUFFICES ASSUME NEW d \in Clients
                 PROVE  /\ Fresh(d) => received'[d] = 0 /\ Mine(d)' = << >>
                        /\ received'[d] <= arrived[d]
                        /\ \A i \in 1..Len(Mine(d)') : Mine(d)'[i].message = i
        BY <1>2, <1>15 DEF StreamInv
    <2>1. CASE d = c
        <3>1. ~Fresh(c)  BY <1>1, <1>6 DEF OwnerInv, Connected
        <3> QED  BY <1>6, <1>9, <1>14, <2>1, <3>1
    <2>2. CASE d # c
        BY <1>1, <1>7, <1>14, <2>2 DEF StreamInv
    <2> QED  BY <2>1, <2>2
<1>21. /\ pc' \in {"wait", "events", "returned"} /\ events' \subseteq events
       /\ pc' \in {"setup", "wait", "returned"} => events' = {}
    <2>1. running \in BOOLEAN  BY <1>1 DEF FeedTypes
    <2> QED  BY <1>1, <1>2, <2>1, HandledFacts
<1>22. EventsInv'
    <2>1. \A d \in events' : d.kind = "client" /\ connections[d.fd] # NoConn =>
              /\ connections'[d.fd] # NoConn
              /\ connections'[d.fd].client = connections[d.fd].client
        BY <1>1, <1>16, <1>21 DEF EventsInv
    <2> QED  BY <1>1, <1>21, <2>1, BatchKept
<1>23. FeedTypes'
    BY Zenon, <1>1, <1>2, <1>7, <1>13, <1>14, <1>21 DEF FeedTypes, AllMsgs
<1> QED  BY <1>18, <1>19, <1>20, <1>22, <1>23 DEF FeedInv

\* The invariant holds when the handler was constructed.
LEMMA FeedInvInit ==
    ASSUME OnlyLaws, FeedInit PROVE FeedInv
<1>1. \A c : Mine(c) = << >>  BY DEF OnlyLaws, OnlyOfNothing, FeedInit, Mine
<1>2. \A f \in Fds : connections[f] = NoConn  BY DEF FeedInit
<1>3. \A c : ~Waiting(c)  BY DEF FeedInit, Waiting
<1>4. FeedTypes
    <2>1. running \in BOOLEAN /\ pipe \in BOOLEAN /\ stopped \in BOOLEAN
        BY Zenon DEF FeedInit
    <2>2. /\ connections \in [Fds -> Connection \union {NoConn}]
          /\ cstate \in [Clients -> {"idle", "open", "closed", "reset"}]
          /\ arrived \in [Clients -> Nat] /\ received \in [Clients -> Nat]
        BY DEF FeedInit
    <2>3. /\ backlog \in Seq(Clients) /\ pushed \in Seq([client : Clients, message : Nat])
          /\ pc \in {"setup", "wait", "events", "accept", "returned"}
        BY DEF FeedInit
    <2> QED  BY Zenon, <2>1, <2>2, <2>3 DEF FeedTypes
<1>5. OwnerInv  BY <1>2, <1>3 DEF FeedInit, OwnerInv, Connected
<1>6. BufferInv  BY <1>2 DEF BufferInv
<1>7. StreamInv  BY <1>1 DEF FeedInit, StreamInv
<1>8. EventsInv  BY DEF FeedInit, EventsInv, EventsCurrent
<1> QED  BY <1>4, <1>5, <1>6, <1>7, <1>8 DEF FeedInv

\* A step of the other threads leaves the feed handler's state as it is.
LEMMA SameFeed ==
    ASSUME FeedInv, UNCHANGED feedVars
    PROVE  FeedInv'
<1>1. FeedTypes /\ OwnerInv /\ BufferInv /\ StreamInv /\ EventsInv  BY DEF FeedInv
<1>2. UNCHANGED <<network, connections, received, pushed>>  BY DEF feedVars
<1>3. /\ connections' = connections /\ received' = received /\ pushed' = pushed
      /\ backlog' = backlog /\ cstate' = cstate /\ arrived' = arrived
      /\ pc' = pc /\ events' = events
      /\ running' = running /\ pipe' = pipe /\ stopped' = stopped
    BY DEF feedVars, network, loop
<1>4. OwnerInv' /\ BufferInv' /\ StreamInv'  BY <1>1, <1>2, SameStreams
<1>5. FeedTypes'  BY <1>1, <1>3 DEF FeedTypes
<1>6. EventsInv'  BY <1>1, <1>3 DEF EventsInv, EventsCurrent
<1> QED  BY <1>4, <1>5, <1>6 DEF FeedInv

\* What clients and Ctrl-C do keeps the invariant.
LEMMA EnvironmentStep ==
    ASSUME FeedInv, (\E c \in Clients : Connect(c) \/ Send(c) \/ Hangup(c)) \/ stop
    PROVE  FeedInv'
    BY ConnectStep, SendStep, HangupStep, LoopStep

\* So does every step of run().
LEMMA RunStep ==
    ASSUME OnlyLaws, FeedInv, Setup \/ EventLoop
    PROVE  FeedInv'
<1>1. CASE Setup \/ StopEvent \/ ListenEvent  BY <1>1, LoopStep
<1>2. CASE EpollWait  BY <1>2, EpollStep
<1>3. CASE accept_connections  BY <1>3, AcceptStep
<1>4. ASSUME NEW e \in events, ClientEvent(e) PROVE FeedInv'
    <2>1. \/ close_connection(e.fd) /\ UNCHANGED <<received, pushed>>
          \/ handle_client_data(e.fd)
        BY <1>4 DEF ClientEvent
    <2>2. CASE close_connection(e.fd) /\ UNCHANGED <<received, pushed>>
        BY <1>4, <2>2, CloseStep
    <2>3. CASE handle_client_data(e.fd)
        <3>1. CASE cstate[connections[e.fd].client] = "open"
            BY <1>4, <2>3, <3>1, DataStep
        <3>2. CASE cstate[connections[e.fd].client] # "open"
            <4>1. /\ close_connection(e.fd) /\ pushed' = pushed
                  /\ received' = [received EXCEPT ![connections[e.fd].client] =
                                     arrived[connections[e.fd].client]]
                BY <2>3, <3>2 DEF handle_client_data
            <4> QED  BY Zenon, <1>4, <4>1, CloseStep
        <3> QED  BY <3>1, <3>2
    <2> QED  BY <2>1, <2>2, <2>3
<1> QED  BY <1>1, <1>2, <1>3, <1>4 DEF EventLoop

\* The destructor closes every connection; the batch is empty then.
LEMMA ExitStep ==
    ASSUME FeedInv, QueueInv, Exit
    PROVE  FeedInv'
<1>1. FeedTypes /\ OwnerInv /\ BufferInv /\ StreamInv /\ EventsInv  BY DEF FeedInv
<1>2. /\ connections' = [f \in Fds |-> NoConn] /\ closed
      /\ pc' = pc /\ events' = events /\ received' = received /\ pushed' = pushed
      /\ backlog' = backlog /\ cstate' = cstate /\ arrived' = arrived
      /\ running' = running /\ pipe' = pipe /\ stopped' = stopped
    BY DEF Exit, loop, network
<1>3. connections' = [f \in Fds |-> IF f \in Fds THEN NoConn ELSE connections[f]]
    BY <1>2
<1>4. received' \in [Clients -> Nat]  BY <1>1, <1>2 DEF FeedTypes
<1>5. OwnerInv' /\ BufferInv' /\ StreamInv'
    <2>1. Fds \in SUBSET Fds  OBVIOUS
    <2>2. \A c \in Clients : received'[c] # received[c] =>
              /\ received'[c] <= arrived[c]
              /\ \E f \in Fds : connections[f] # NoConn /\ connections[f].client = c
        BY <1>2
    <2> QED  BY <1>2, <1>3, <1>4, <2>1, <2>2, ClosedKeeps
<1>6. events = {}  BY <1>1, <1>2 DEF QueueInv, EventsInv
<1>7. EventsInv'  BY <1>1, <1>2, <1>6 DEF EventsInv, EventsCurrent
<1>8. connections' \in [Fds -> Connection \union {NoConn}]  BY <1>2
<1>9. FeedTypes'  BY Zenon, <1>1, <1>2, <1>8 DEF FeedTypes
<1> QED  BY <1>5, <1>7, <1>9 DEF FeedInv

-----------------------------------------------------------------------------
(* The queue between the two threads.                                      *)

\* run appends to what was decoded, and does nothing more once it has returned.
LEMMA PushedGrows ==
    ASSUME OnlyLaws, FeedInv, Setup \/ EventLoop
    PROVE  /\ pc # "returned"
           /\ pushed' \in Seq(AllMsgs) /\ Len(pushed') >= Len(pushed)
           /\ \A i \in 1..Len(pushed) : pushed'[i] = pushed[i]
<1>1. pc # "returned"
    BY DEF EventLoop, Setup, EpollWait, StopEvent, ListenEvent, accept_connections, ClientEvent
<1>2. pushed \in Seq(AllMsgs)  BY DEF FeedInv, FeedTypes, AllMsgs
<1>3. \/ pushed' = pushed
      \/ \E e \in events : ClientEvent(e) /\ handle_client_data(e.fd)
                             /\ cstate[connections[e.fd].client] = "open"
    BY Zenon DEF EventLoop, Setup, EpollWait, StopEvent, ListenEvent, accept_connections,
           ClientEvent, handle_client_data
<1>4. CASE pushed' = pushed  BY <1>1, <1>2, <1>4
<1>5. ASSUME NEW e \in events, ClientEvent(e), handle_client_data(e.fd),
             cstate[connections[e.fd].client] = "open"
      PROVE  /\ pushed' \in Seq(AllMsgs) /\ Len(pushed') >= Len(pushed)
             /\ \A i \in 1..Len(pushed) : pushed'[i] = pushed[i]
    <2>1. e.fd \in Fds /\ connections[e.fd] # NoConn
        BY Zenon, <1>5 DEF FeedInv, EventsInv, EventsCurrent, ClientEvent
    <2>2. PICK c, m, w, k : ReadStep(e.fd, c, m, w, k)  BY <1>5, <2>1, ReadFacts
    <2>3. PICK x : x = Numbered(c, m, w)  OBVIOUS
    <2>4. c \in Clients /\ m \in Nat /\ w \in Nat /\ pushed' = pushed \o x
        BY <2>2, <2>3 DEF ReadStep
    <2>5. PushedAfter(pushed, x, c, m, w)  BY Zenon, <1>2, <2>3, <2>4, PushedOrders
    <2>6. x \in Seq(AllMsgs)  BY Zenon, <2>5 DEF PushedAfter
    <2> QED  BY <1>2, <2>4, <2>6
<1> QED  BY <1>1, <1>3, <1>4, <1>5

\* What QueueInv says of the queue as long as what was pushed only grows.
LEMMA SamePrefix ==
    ASSUME NEW p \in Seq(AllMsgs), NEW q \in Seq(AllMsgs), NEW n \in 0..Len(p),
           Len(q) >= Len(p), \A i \in 1..Len(p) : q[i] = p[i]
    PROVE  SubSeq(q, 1, n) = SubSeq(p, 1, n) /\ n <= Len(q)
<1>1. SubSeq(q, 1, n) = [i \in 1..n |-> q[i]] /\ SubSeq(p, 1, n) = [i \in 1..n |-> p[i]]
    OBVIOUS
<1>2. \A i \in 1..n : q[i] = p[i]  OBVIOUS
<1> QED  BY <1>1, <1>2

\* A push goes behind what went through the queue and what is in it.
LEMMA PushAtEnd ==
    ASSUME NEW T, NEW d \in Seq(T), NEW q \in Seq(T), NEW o \in T
    PROVE  d \o Append(q, o) = Append(d \o q, o)
    OBVIOUS

\* The engine takes what the queue has at its front.
LEMMA PopAtFront ==
    ASSUME NEW T, NEW d \in Seq(T), NEW q \in Seq(T), q # << >>
    PROVE  /\ Append(d, Head(q)) \in Seq(T) /\ Tail(q) \in Seq(T)
           /\ Append(d, Head(q)) \o Tail(q) = d \o q
           /\ Len(Append(d, Head(q))) + Len(Tail(q)) = Len(d) + Len(q)
<1>1. Head(q) \in T /\ Tail(q) \in Seq(T) /\ Len(Tail(q)) = Len(q) - 1 /\ Len(q) \in Nat
    OBVIOUS
<1>2. Append(d, Head(q)) \in Seq(T) /\ Len(Append(d, Head(q))) = Len(d) + 1 /\ Len(d) \in Nat
    BY <1>1
<1>3. \A k \in 1..Len(Append(d, Head(q))) : (d \o q)[k] = Append(d, Head(q))[k]
    BY <1>1
<1>4. \A k \in 1..Len(Tail(q)) :
          (d \o q)[Len(Append(d, Head(q))) + k] = Tail(q)[k]
    BY <1>1, <1>2
<1>5. d \o q \in Seq(T) /\ Len(d \o q) = Len(d) + Len(q)  OBVIOUS
<1>6. PICK a, b, r : a = Append(d, Head(q)) /\ b = Tail(q) /\ r = d \o q  BY Zenon
<1>7. a \in Seq(T) /\ b \in Seq(T) /\ r \in Seq(T) /\ Len(r) = Len(a) + Len(b)
    BY <1>1, <1>2, <1>5, <1>6
<1>8. (\A k \in 1..Len(a) : r[k] = a[k]) /\ \A k \in 1..Len(b) : r[Len(a) + k] = b[k]
    BY <1>3, <1>4, <1>6
<1>9. a \o b = r  BY Zenon, <1>7, <1>8, Concatenation
<1> QED  BY <1>1, <1>2, <1>6, <1>9

\* At the start nothing was decoded and nothing queued.
LEMMA QueueInvInit == Init => QueueInv
<1> SUFFICES ASSUME Init PROVE QueueInv  OBVIOUS
<1>1. /\ queue = << >> /\ delivered = << >> /\ closed = FALSE /\ ended = FALSE
      /\ exited = FALSE /\ pushed = << >>
    BY DEF Init, FeedInit, Queue!Init
<1>2. Pushes = 0 /\ Len(pushed) = 0 /\ SubSeq(pushed, 1, 0) = << >> /\ delivered \o queue = << >>
    BY <1>1 DEF Pushes
<1>3. closed \in BOOLEAN /\ ended \in BOOLEAN /\ exited \in BOOLEAN  BY Zenon, <1>1
<1> QED  BY <1>1, <1>2, <1>3 DEF QueueInv

\* The parts of QueueInv for a state in which the threads' variables are known.
LEMMA QueueInvStep ==
    ASSUME OnlyLaws, FeedInv, QueueInv, Next
    PROVE  QueueInv'
<1>1. /\ queue \in Seq(AllMsgs) /\ delivered \in Seq(AllMsgs) /\ pushed \in Seq(AllMsgs)
      /\ Pushes \in Nat /\ Pushes = Len(delivered) + Len(queue)
      /\ Pushes <= Len(pushed) /\ delivered \o queue = SubSeq(pushed, 1, Pushes)
    BY DEF QueueInv, FeedInv, FeedTypes, Pushes, AllMsgs
<1>2. /\ closed \in BOOLEAN /\ ended \in BOOLEAN /\ exited \in BOOLEAN
      /\ closed => pc = "returned" /\ Pushes = Len(pushed)
      /\ ended => closed /\ queue = << >>
      /\ exited => ended
    BY DEF QueueInv
<1>3. CASE Environment
    <2>1. /\ queue' = queue /\ delivered' = delivered /\ closed' = closed /\ ended' = ended
          /\ exited' = exited /\ pushed' = pushed
          /\ pc = "returned" => pc' = "returned"
        BY Zenon, <1>3 DEF Environment, queueVars, Connect, Send, Hangup, stop, loop
    <2>2. Pushes' = Pushes  BY <2>1 DEF Pushes
    <2> QED  BY <1>1, <1>2, <2>1, <2>2 DEF QueueInv, AllMsgs
<1>4. CASE Run
    <2>1. /\ queue' = queue /\ delivered' = delivered /\ closed' = closed /\ ended' = ended
          /\ exited' = exited /\ Pushes = Len(pushed) /\ (Setup \/ EventLoop)
        BY <1>4 DEF Run, queueVars
    <2>2. Pushes' = Pushes  BY <2>1 DEF Pushes
    <2>3. /\ pc # "returned" /\ pushed' \in Seq(AllMsgs) /\ Len(pushed') >= Len(pushed)
          /\ \A i \in 1..Len(pushed) : pushed'[i] = pushed[i]
        BY <2>1, PushedGrows
    <2>4. Pushes \in 0..Len(pushed)  BY <1>1
    <2>5. SubSeq(pushed', 1, Pushes) = SubSeq(pushed, 1, Pushes) /\ Pushes <= Len(pushed')
        BY <1>1, <2>3, <2>4, SamePrefix
    <2>6. ~closed  BY <1>2, <2>3
    <2> QED  BY Zenon, <1>1, <1>2, <2>1, <2>2, <2>3, <2>5, <2>6 DEF QueueInv, AllMsgs
<1>5. CASE Push
    <2>1. /\ Pushes < Len(pushed) /\ queue' = Append(queue, pushed[Pushes + 1])
          /\ delivered' = delivered /\ closed' = closed /\ ended' = ended
          /\ exited' = exited /\ pushed' = pushed /\ pc' = pc
        BY <1>5 DEF Push, Queue!Push, feedVars, loop
    <2>2. PICK o : o = pushed[Pushes + 1]  OBVIOUS
    <2>3. o \in AllMsgs  BY <1>1, <2>1, <2>2
    <2>4. PICK n : n = Pushes  OBVIOUS
    <2>5. n \in Nat /\ n + 1 <= Len(pushed)  BY <1>1, <2>1, <2>4
    <2>6. Append(queue, o) \in Seq(AllMsgs) /\ Pushes' = n + 1
        BY <1>1, <2>1, <2>2, <2>3, <2>4 DEF Pushes
    <2>7. delivered \o Append(queue, o) = SubSeq(pushed, 1, n + 1)
        <3>1. delivered \o Append(queue, o) = Append(delivered \o queue, o)
            BY <1>1, <2>3, PushAtEnd
        <3>2. Append(SubSeq(pushed, 1, n), pushed[n + 1]) = SubSeq(pushed, 1, n + 1)
            BY <1>1, <2>5
        <3> QED  BY <1>1, <2>2, <2>4, <3>1, <3>2
    <2>8. ~closed /\ ~ended  BY <1>1, <1>2, <2>1
    <2> QED  BY <1>1, <1>2, <2>1, <2>2, <2>5, <2>6, <2>7, <2>8 DEF QueueInv, AllMsgs
<1>6. CASE EngineThread /\ Queue!Pop
    <2>1. /\ queue # << >> /\ delivered' = Append(delivered, Head(queue)) /\ queue' = Tail(queue)
          /\ closed' = closed /\ ended' = ended
          /\ exited' = exited /\ pushed' = pushed /\ pc' = pc
        BY <1>6 DEF EngineThread, Queue!Pop, feedVars, loop
    <2>2. /\ delivered' \in Seq(AllMsgs) /\ queue' \in Seq(AllMsgs)
          /\ delivered' \o queue' = delivered \o queue
          /\ Len(delivered') + Len(queue') = Len(delivered) + Len(queue)
        BY <1>1, <2>1, PopAtFront
    <2>3. Pushes' = Pushes  BY <2>2 DEF Pushes
    <2> QED  BY Zenon, <1>1, <1>2, <2>1, <2>2, <2>3 DEF QueueInv, AllMsgs
<1>7. CASE EngineThread /\ Queue!End
    <2>1. /\ closed /\ queue = << >> /\ ended' = TRUE
          /\ queue' = queue /\ delivered' = delivered /\ closed' = closed
          /\ exited' = exited /\ pushed' = pushed /\ pc' = pc
        BY <1>7 DEF EngineThread, Queue!End, feedVars, loop
    <2>2. Pushes' = Pushes  BY <2>1 DEF Pushes
    <2> QED  BY <1>1, <1>2, <2>1, <2>2 DEF QueueInv, AllMsgs
<1>8. CASE ShutdownQueue
    <2>1. /\ pc = "returned" /\ Pushes = Len(pushed) /\ closed' = TRUE
          /\ queue' = queue /\ delivered' = delivered /\ ended' = ended
          /\ exited' = exited /\ pushed' = pushed /\ pc' = pc
        BY <1>8 DEF ShutdownQueue, Queue!Shutdown, feedVars, loop
    <2>2. Pushes' = Pushes  BY <2>1 DEF Pushes
    <2> QED  BY <1>1, <1>2, <2>1, <2>2 DEF QueueInv, AllMsgs
<1>9. CASE Exit
    <2>1. /\ ended /\ exited' = TRUE
          /\ queue' = queue /\ delivered' = delivered /\ closed' = closed /\ ended' = ended
          /\ pushed' = pushed /\ pc' = pc
        BY <1>9 DEF Exit, Joined, queueVars, loop
    <2>2. Pushes' = Pushes  BY <2>1 DEF Pushes
    <2> QED  BY <1>1, <1>2, <2>1, <2>2 DEF QueueInv, AllMsgs
<1>10. \/ Environment \/ Run \/ Push \/ ShutdownQueue \/ Exit
       \/ (EngineThread /\ Queue!Pop) \/ (EngineThread /\ Queue!End)
    <2>1. EngineThread => Queue!Pop \/ Queue!End  BY Zenon DEF EngineThread
    <2> QED  BY Zenon, <2>1 DEF Next, Main
<1> QED  BY <1>3, <1>4, <1>5, <1>6, <1>7, <1>8, <1>9, <1>10

-----------------------------------------------------------------------------
(* The invariant of the feed handler and the queue, and what it implies.   *)

\* Before the first step it holds.
LEMMA ServerInvInit ==
    ASSUME OnlyLaws, Init PROVE ServerInv
BY FeedInvInit, QueueInvInit DEF Init, ServerInv

\* Every step of a client, of main and of the engine's thread keeps it.
LEMMA ServerInvStep ==
    ASSUME OnlyLaws, ServerInv, [Next]_vars PROVE ServerInv'
<1>1. FeedInv /\ QueueInv  BY DEF ServerInv
<1>2. CASE Next
    <2>1. QueueInv'  BY <1>1, <1>2, QueueInvStep
    <2>2. CASE Environment  BY <1>1, <2>1, <2>2, EnvironmentStep DEF Environment, ServerInv
    <2>3. CASE Run  BY <1>1, <2>1, <2>3, RunStep DEF Run, ServerInv
    <2>4. CASE Exit  BY <1>1, <2>1, <2>4, ExitStep DEF ServerInv
    <2>5. CASE Push \/ ShutdownQueue \/ EngineThread
        <3>1. UNCHANGED feedVars  BY <2>5 DEF Push, ShutdownQueue, EngineThread
        <3>2. FeedInv'  BY <1>1, <3>1, SameFeed
        <3> QED  BY <2>1, <3>2 DEF ServerInv
    <2> QED  BY <1>2, <2>2, <2>3, <2>4, <2>5 DEF Next, Main
<1>3. CASE UNCHANGED vars
    <2>1. UNCHANGED feedVars /\ UNCHANGED queueVars /\ exited' = exited  BY <1>3 DEF vars
    <2>2. FeedInv'  BY <1>1, <2>1, SameFeed
    <2>3. /\ queue' = queue /\ delivered' = delivered /\ closed' = closed
          /\ ended' = ended /\ exited' = exited /\ pushed' = pushed /\ pc' = pc
        BY <2>1 DEF queueVars, feedVars, loop
    <2>4. QueueInv'  BY <1>1, <2>3 DEF QueueInv, Pushes
    <2> QED  BY <2>2, <2>4 DEF ServerInv
<1> QED  BY <1>2, <1>3

\* It gives the variables their types.
LEMMA ServerTypes ==
    ASSUME ServerInv PROVE TypeOK
<1>1. FeedTypes /\ EventsInv /\ QueueInv  BY DEF ServerInv, FeedInv
<1>2. \A f \in Fds : connections[f] # NoConn => connections[f] \in Connection
    BY <1>1 DEF FeedTypes
<1>3. FeedTypeOK  BY <1>1, <1>2 DEF FeedTypes, EventsInv, FeedTypeOK
<1> QED  BY <1>1, <1>3 DEF QueueInv, TypeOK

\* It makes the orders pushed for a client those it has sent, from the first on.
LEMMA FramingFollows ==
    ASSUME OnlyLaws, ServerInv PROVE FramingExact
<1> SUFFICES ASSUME NEW c \in Clients
             PROVE  From(c, pushed) = [i \in 1..Len(From(c, pushed)) |-> i]
    BY DEF FramingExact
<1>1. From(c, pushed) = [i \in 1..Len(Mine(c)) |-> Mine(c)[i].message]
    BY DEF From, Mine, Msgs
<1>2. Len(Mine(c)) \in Nat
    <2>1. pushed \in Seq(AllMsgs)  BY DEF ServerInv, FeedInv, FeedTypes, AllMsgs
    <2> QED  BY <2>1, MineType DEF Mine
<1>3. \A i \in 1..Len(Mine(c)) : Mine(c)[i].message = i
    BY DEF ServerInv, FeedInv, StreamInv
<1>4. PICK n : n = Len(Mine(c))  BY Zenon
<1>5. From(c, pushed) = [i \in 1..n |-> i]  BY <1>1, <1>3, <1>4
<1>6. Len(From(c, pushed)) = n  BY <1>2, <1>4, <1>5
<1> QED  BY Zenon, <1>5, <1>6

\* It makes what the engine was given the first of the orders pushed.
LEMMA DeliveryFollows ==
    ASSUME ServerInv PROVE EngineGetsAll
<1>1. QueueInv /\ pushed \in Seq(AllMsgs)
    BY DEF ServerInv, FeedInv, FeedTypes, AllMsgs
<1>2. delivered \o queue = SubSeq(pushed, 1, Pushes)  BY <1>1 DEF QueueInv
<1>3. ASSUME exited PROVE delivered = pushed
    <2>1. /\ queue = << >> /\ Pushes = Len(pushed)
          /\ delivered \in Seq([client : Clients, message : Nat])
        BY <1>1, <1>3 DEF QueueInv
    <2>2. delivered \o queue = delivered  BY <2>1
    <2>3. SubSeq(pushed, 1, Len(pushed)) = pushed  BY <1>1
    <2> QED  BY <1>2, <2>1, <2>2, <2>3
<1> QED  BY <1>2, <1>3 DEF EngineGetsAll

-----------------------------------------------------------------------------
(* The theorems.                                                           *)
INSTANCE RecursionProofs

\* The invariant of the feed handler and the queue holds in every state.
THEOREM ServerInvariant == Spec => []ServerInv
<1>1. Init => ServerInv  BY OnlyLawsHold, ServerInvInit
<1>2. ServerInv /\ [Next]_vars => ServerInv'  BY OnlyLawsHold, ServerInvStep
<1> QED  BY <1>1, <1>2, PTL DEF Spec

\* The variables of the server have their types.
THEOREM ServerTypeCorrect == Spec => []TypeOK
<1>1. ServerInv => TypeOK  BY ServerTypes
<1> QED  BY <1>1, ServerInvariant, PTL

\* However a client's bytes are split over reads and whichever descriptor its
\* connection gets, process_buffer pushes its orders whole, once, in order and
\* without a gap.
THEOREM FramingIsExact == Spec => []FramingExact
<1>1. ServerInv => FramingExact  BY OnlyLawsHold, FramingFollows
<1> QED  BY <1>1, ServerInvariant, PTL

\* The loop handles an event on the connection epoll reported it for, although
\* descriptors are closed and given out again while a batch is handled.
THEOREM EventsAreCurrent == Spec => []EventsCurrent
<1>1. ServerInv => EventsCurrent  BY DEF ServerInv, FeedInv, EventsInv
<1> QED  BY <1>1, ServerInvariant, PTL

\* The engine is given what was decoded, in order and without a gap, and all of
\* it when main returns.
THEOREM EngineGetsEveryOrder == Spec => []EngineGetsAll
<1>1. ServerInv => EngineGetsAll  BY DeliveryFollows
<1> QED  BY <1>1, ServerInvariant, PTL
=============================================================================
