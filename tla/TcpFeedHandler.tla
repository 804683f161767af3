--------------------------- MODULE TcpFeedHandler ---------------------------
(***************************************************************************)
(* The order entry of src/src/tcp_feed_handler.cpp: one thread, level-     *)
(* triggered epoll, one accumulation buffer per connection, and stop()     *)
(* called from a signal handler at any time.                               *)
(*                                                                         *)
(* Clients, the network and the kernel are external.  Client c sends a     *)
(* stream of units <<c, 1>>, <<c, 2>>, ...; every Units of them are one    *)
(* WireOrder, and they arrive one by one, so a message may be split at any *)
(* unit.  A handler runs to its end in one step: what arrives while its    *)
(* recv loop runs might as well have arrived before.  The events of one    *)
(* epoll_wait are a set; the kernel reports them in any order.             *)
(***************************************************************************)
EXTENDS Naturals, Sequences, FiniteSets, FiniteSetsExt, Subsequence

CONSTANTS Clients,
          Fds,        \* descriptor numbers for clients
          Units,      \* units of one WireOrder
          MaxUnits,   \* bound: units that the clients send together
          MaxEvents,  \* MAX_EVENTS
          NoConn      \* a descriptor that is not open

\* A ClientConnection: the client behind it, and its buffer.
Connection == [client : Clients, buf : Seq(Clients \X Nat)]

ASSUME FeedAssumption ==
    /\ Fds \subseteq Nat /\ Units \in Nat \ {0} /\ MaxEvents \in Nat \ {0}
    /\ MaxUnits \in Nat /\ NoConn \notin Connection

VARIABLES nofile,       \* RLIMIT_NOFILE: descriptors are less than this
          pc,           \* where run() is
          running,      \* running_
          pipe,         \* a byte waits in the stop pipe
          stopped,      \* history: stop() found the loop running
          events,       \* reported by epoll_wait and not yet handled
          connections,  \* connections_: the client behind each fd, and buf
          backlog,      \* clients waiting to be accepted
          cstate,       \* the client's end of each connection
          arrived,      \* units of each client that reached this host
          received,     \* units of each client that recv has returned
          pushed        \* everything pushed into queue_

loop == <<pc, running, pipe, stopped, events>>
network == <<nofile, backlog, cstate, arrived>>
feedVars == <<loop, network, connections, received, pushed>>

FeedInit ==
    /\ pc = "setup" /\ running = FALSE /\ pipe = FALSE /\ stopped = FALSE
    /\ events = {}
    /\ nofile \in {f + 1 : f \in Fds}
    /\ connections = [f \in Fds |-> NoConn]
    /\ backlog = << >>
    /\ cstate = [c \in Clients |-> "idle"]
    /\ arrived = [c \in Clients |-> 0]
    /\ received = [c \in Clients |-> 0]
    /\ pushed = << >>

-----------------------------------------------------------------------------
\* Clients connect, once the socket listens, and send; they close in an orderly
\* way or reset the connection.  Nobody notices what they do after run().
Listening == pc \notin {"setup", "returned"}

Connect(c) ==
    /\ Listening /\ cstate[c] = "idle"
    /\ cstate' = [cstate EXCEPT ![c] = "open"]
    /\ backlog' = Append(backlog, c)
    /\ UNCHANGED <<loop, nofile, arrived, connections, received, pushed>>

Send(c) ==
    /\ Listening /\ cstate[c] = "open"
    /\ MapThenSumSet(LAMBDA d : arrived[d], Clients) < MaxUnits
    /\ arrived' = [arrived EXCEPT ![c] = @ + 1]
    /\ UNCHANGED <<loop, nofile, backlog, cstate, connections, received, pushed>>

Hangup(c) ==
    /\ Listening /\ cstate[c] = "open"
    /\ \E s \in {"closed", "reset"} : cstate' = [cstate EXCEPT ![c] = s]
    /\ UNCHANGED <<loop, nofile, backlog, arrived, connections, received, pushed>>

-----------------------------------------------------------------------------
\* Mutant: the loop is not woken.
Wake_none == UNCHANGED pipe

Wake == pipe' = TRUE

\* stop(): exchange, and the byte that wakes epoll_wait.  If the signal came to
\* the thread that waits there, epoll_wait also returns with EINTR.  A stop()
\* that finds running_ false, before run() has stored true, changes nothing.
stop ==
    /\ running
    /\ running' = FALSE /\ stopped' = TRUE
    /\ Wake
    /\ pc' \in {pc} \union (IF pc = "wait" THEN {"returned"} ELSE {})
    /\ UNCHANGED <<events, network, connections, received, pushed>>

\* run(), up to and including running_.store(true).
Setup ==
    /\ pc = "setup"
    /\ running' = TRUE
    /\ pc' = "wait"
    /\ UNCHANGED <<pipe, stopped, events, network, connections, received, pushed>>

\* What epoll reports of a client's socket: EPOLLERR and EPOLLHUP after a
\* reset, else EPOLLIN for unread data and for the end of the stream.
Event(kind, f, c, hup) == [kind |-> kind, fd |-> f, client |-> c, hup |-> hup]

ClientEvents ==
    {Event("client", f, connections[f].client, cstate[connections[f].client] = "reset") : f \in
        {g \in Fds : /\ connections[g] # NoConn
                     /\ LET c == connections[g].client
                        IN  cstate[c] # "open" \/ received[c] < arrived[c]}}

Ready ==
    ClientEvents
        \union (IF backlog # << >> THEN {Event("listen", 0, NoConn, FALSE)} ELSE {})
        \union (IF pipe THEN {Event("stop", 0, NoConn, FALSE)} ELSE {})

EpollWait ==
    /\ pc = "wait"
    /\ events' \in SUBSET Ready
    /\ events' # {} /\ Cardinality(events') <= MaxEvents
    /\ pc' = "events"
    /\ UNCHANGED <<running, pipe, stopped, network, connections, received, pushed>>

\* The condition of the loop, after a batch.
Continue == IF running THEN "wait" ELSE "returned"

\* Mutant: a client's event stays in the batch.
Handled_again(e) ==
    /\ events' = IF e.kind = "client" THEN events ELSE events \ {e}
    /\ pc' = IF events' = {} THEN Continue ELSE "events"

\* The rest of the batch when event e has been handled.
Handled(e) ==
    /\ events' = events \ {e}
    /\ pc' = IF events' = {} THEN Continue ELSE "events"

\* The stop pipe: the rest of the batch is left.
StopEvent ==
    /\ pc = "events"
    /\ \E e \in events : e.kind = "stop"
    /\ running' = FALSE
    /\ events' = {} /\ pc' = "returned"
    /\ UNCHANGED <<pipe, stopped, network, connections, received, pushed>>

ListenEvent ==
    /\ pc = "events"
    /\ \E e \in events : e.kind = "listen"
    /\ pc' = "accept"
    /\ UNCHANGED <<running, pipe, stopped, events, network, connections, received, pushed>>

FreeFds == {f \in Fds : f < nofile /\ connections[f] = NoConn}

\* One iteration of the loop of accept_connections: the kernel gives the lowest
\* free descriptor.  Without one accept fails and the loop tries again at once,
\* which changes nothing.
accept_connections ==
    /\ pc = "accept"
    /\ \/ /\ backlog = << >>
          /\ \E e \in events : e.kind = "listen" /\ Handled(e)
          /\ UNCHANGED <<backlog, connections>>
       \/ /\ backlog # << >>
          /\ \E f \in FreeFds :
                /\ \A g \in FreeFds : f <= g
                /\ connections' = [connections EXCEPT ![f] =
                                      [client |-> Head(backlog), buf |-> << >>]]
          /\ backlog' = Tail(backlog)
          /\ UNCHANGED <<pc, events>>
    /\ UNCHANGED <<running, pipe, stopped, nofile, cstate, arrived, received, pushed>>

\* Mutant: the entry is not erased.
close_connection_kept(f) == connections' = [connections EXCEPT ![f].client = NoConn]

close_connection(f) == connections' = [connections EXCEPT ![f] = NoConn]

\* The order in one message: the client's m-th if it is made of just its units,
\* else nonsense, here number 0.  The fields are copied; the framing decides
\* whose bytes they are.
wire_to_order(w) ==
    LET c == w[1][1]
        m == (w[1][2] + Units - 1) \div Units
    IN  [client |-> c, message |->
            IF w = [k \in 1..Units |-> <<c, (m - 1) * Units + k>>] THEN m ELSE 0]

\* Mutant: a message is taken out only when more bytes follow.
Whole_late(buf) == IF buf = << >> THEN 0 ELSE (Len(buf) - 1) \div Units

\* How many messages are taken out of a buffer.
Whole(buf) == Len(buf) \div Units

\* Mutant: the buffer is cleared with a part of a message in it.
Rest_cleared(buf) == << >>

Rest(buf) == SubSeq(buf, Whole(buf) * Units + 1, Len(buf))

\* Every whole message in the buffer is pushed, a part of one stays.
process_buffer(f, buf) ==
    /\ pushed' = pushed \o [i \in 1..Whole(buf) |->
                      wire_to_order(SubSeq(buf, (i - 1) * Units + 1, i * Units))]
    /\ connections' = [connections EXCEPT ![f].buf = Rest(buf)]

\* Read until EAGAIN, then look for messages; but close at the end of the stream
\* or on an error.
handle_client_data(f) ==
    LET c     == connections[f].client
        nread == arrived[c] - received[c]
        buf   == connections[f].buf \o [i \in 1..nread |-> <<c, received[c] + i>>]
    IN  /\ received' = [received EXCEPT ![c] = arrived[c]]
        /\ \/ cstate[c] = "open" /\ process_buffer(f, buf)
           \/ cstate[c] # "open" /\ close_connection(f) /\ UNCHANGED pushed

ClientEvent(e) ==
    /\ pc = "events" /\ e.kind = "client"
    /\ \/ e.hup /\ close_connection(e.fd) /\ UNCHANGED <<received, pushed>>
       \/ ~e.hup /\ handle_client_data(e.fd)
    /\ Handled(e)
    /\ UNCHANGED <<running, pipe, stopped, network>>

EventLoop ==
    \/ EpollWait \/ StopEvent \/ ListenEvent \/ accept_connections
    \/ \E e \in events : ClientEvent(e)

FeedNext ==
    \/ \E c \in Clients : Connect(c) \/ Send(c) \/ Hangup(c)
    \/ stop \/ Setup \/ EventLoop

FeedSpec == FeedInit /\ [][FeedNext]_feedVars

\* run() is a thread that is always runnable; clients and Ctrl-C are not forced.
FairFeedSpec == FeedSpec /\ WF_feedVars(Setup \/ EventLoop)

-----------------------------------------------------------------------------
\* Types of the variables.
FeedTypeOK ==
    /\ pc \in {"setup", "wait", "events", "accept", "returned"}
    /\ running \in BOOLEAN /\ pipe \in BOOLEAN /\ stopped \in BOOLEAN
    /\ \A e \in events : e.kind = "client" => e.fd \in Fds /\ e.client \in Clients
    /\ \A f \in Fds : connections[f] # NoConn => connections[f] \in Connection
    /\ backlog \in Seq(Clients)
    /\ cstate \in [Clients -> {"idle", "open", "closed", "reset"}]
    /\ arrived \in [Clients -> Nat] /\ received \in [Clients -> Nat]
    /\ pushed \in Seq([client : Clients, message : Nat])

\* The orders of client c in q, as their numbers.
From(c, q) ==
    LET mine == Only(q, [client : {c}, message : Nat])
    IN  [i \in 1..Len(mine) |-> mine[i].message]

\* Framing: whatever way the stream is split and however descriptors are reused,
\* each client's orders are pushed whole, once, in order and without a gap.
FramingExact == \A c \in Clients : From(c, pushed) = [i \in 1..Len(From(c, pushed)) |-> i]

\* An event is handled on the connection it was reported for: in one batch no
\* descriptor is closed, given to another client and then looked at again.
EventsCurrent ==
    \A e \in events : e.kind = "client" =>
        connections[e.fd] # NoConn /\ connections[e.fd].client = e.client

\* A client waits and the process has no descriptor left: accept fails, the
\* loop takes that for a transient error and calls it again, for ever
\* (tcp_feed_handler.cpp:143-146).
OutOfDescriptors == pc = "accept" /\ backlog # << >> /\ FreeFds = {}

\* A stop() that finds the loop running makes run() return ("Signal the event
\* loop to stop", tcp_feed_handler.hpp:55), whatever the loop is doing; the one
\* place it cannot leave is accept without a descriptor.
StopEndsRun == stopped ~> (pc = "returned" \/ OutOfDescriptors)

\* "reads WireOrder messages and pushes Orders into the queue"
\* (tcp_feed_handler.hpp:51-52): also the last ones before an orderly close.
ClosedClientsOrdersPushed ==
    \A c \in Clients : \A m \in 1..(MaxUnits \div Units) :
        (cstate[c] = "closed" /\ arrived[c] >= m * Units)
            ~> (Len(From(c, pushed)) >= m \/ ~running)
=============================================================================
