------------------------------ MODULE Acceptor ------------------------------
(***************************************************************************)
(* How clients get to a server: TcpServer::Start, which starts the pool    *)
(* and has the Acceptor listen; the Acceptor's HandleRead on the base      *)
(* loop, whose accept may fail; and the Sockets of the connections, whose  *)
(* descriptors are few. What becomes of a connection is module TcpServer's *)
(* business: here it ends some time, on whichever thread, and its Socket   *)
(* closes the descriptor.                                                  *)
(***************************************************************************)
EXTENDS Naturals, SequencesExt

CONSTANTS Clients,
          MaxThreads,   \* bound on what SetThreadNum is given
          MaxConns      \* descriptors the process has left for connections

ASSUME MaxThreadsAssumption == MaxThreads \in Nat
ASSUME MaxConnsAssumption == MaxConns \in Nat \ {0}

VARIABLES
    callback,    \* new_conn_callback_ is set, as TcpServer does
    started,     \* TcpServer's started_
    threads,     \* the pool's num_threads_
    loops,       \* the pool's loops_.size()
    next,        \* the pool's next_
    given,       \* history: how many connections each loop was given, the base
                 \* loop (0) and those of the pool, counted from 1
    listening,   \* listenning_, and accept_channel_ is enabled
    at,          \* the base loop's thread: "outside" Loop(), in epoll_wait
                 \* ("poll"), or handling "events"
    readable,    \* accept_channel_ is active and not yet handled
    backlog,     \* the connections the kernel has made and nobody accepted
    client       \* where each client is

serverVars == <<callback, started, threads, loops, next, given, listening>>
vars == <<serverVars, at, readable, backlog, client>>

Served == {c \in Clients : client[c] = "served"}
Free == Cardinality(Served) < MaxConns

Init == /\ callback \in BOOLEAN
        /\ started = FALSE
        /\ threads = 0
        /\ loops = 0
        /\ next = 0
        /\ given = [l \in 0 .. MaxThreads |-> 0]
        /\ listening = FALSE
        /\ at = "outside"
        /\ readable = FALSE
        /\ backlog = <<>>
        /\ client = [c \in Clients |-> "away"]
-----------------------------------------------------------------------------
(* The base loop's thread. *)

\* A pool that was started is not changed by it.
SetThreadNum(n) == /\ at # "poll"
                   /\ threads' = n
                   /\ UNCHANGED <<callback, started, loops, next, given,
                                  listening, at, readable, backlog, client>>

\* TcpServer::Start, before Loop() or in a callback, once or more often.
Start == /\ at # "poll"
         /\ started' = TRUE
         /\ loops' = IF started THEN loops ELSE threads
         /\ listening' = TRUE
         /\ UNCHANGED <<callback, threads, next, given, at, readable, backlog,
                        client>>

EnterLoop == /\ at = "outside"
             /\ at' = "poll"
             /\ UNCHANGED <<serverVars, readable, backlog, client>>

\* epoll_wait returns: the listening socket is readable, or other channels are.
Poll == /\ at = "poll"
        /\ at' = "events"
        /\ readable' = (listening /\ backlog # <<>>)
        /\ UNCHANGED <<serverVars, backlog, client>>

\* Mutant: the last loop of the pool is left out.
AfterShort == IF next + 1 >= loops - 1 THEN 0 ELSE next + 1

\* Mutant: next_ is compared with loops_.size() the wrong way.
AfterPast == IF next + 1 > loops THEN 0 ELSE next + 1

After == IF next + 1 >= loops THEN 0 ELSE next + 1

\* EventLoopThreadPool::GetNextLoop, for the connection TcpServer makes.
GetNextLoop ==
    \/ loops = 0 /\ given' = [given EXCEPT ![0] = @ + 1] /\ UNCHANGED next
    \/ loops > 0 /\ given' = [given EXCEPT ![next + 1] = @ + 1] /\ next' = After

\* HandleRead when accept gives a descriptor: to TcpServer::NewConnection, or
\* closed at once.
HandleRead == /\ at = "events" /\ readable
              /\ backlog # <<>> /\ Free
              /\ backlog' = Tail(backlog)
              /\ readable' = FALSE
              /\ IF callback
                 THEN /\ client' = [client EXCEPT ![Head(backlog)] = "served"]
                      /\ GetNextLoop
                 ELSE /\ client' = [client EXCEPT ![Head(backlog)] = "gone"]
                      /\ UNCHANGED <<given, next>>
              /\ UNCHANGED <<callback, started, threads, loops, listening, at>>

\* Mutant: the connection that could not be accepted is lost.
HandleReadFailsDrops == /\ at = "events" /\ readable
                        /\ ~Free
                        /\ readable' = FALSE
                        /\ backlog' = IF backlog = <<>> THEN <<>> ELSE Tail(backlog)
                        /\ UNCHANGED <<serverVars, at, client>>

\* Mutant: the channel is disabled until somebody enables it again.
HandleReadFailsQuiet == /\ at = "events" /\ readable
                        /\ backlog = <<>> \/ ~Free
                        /\ readable' = FALSE
                        /\ listening' = FALSE
                        /\ UNCHANGED <<callback, started, threads, loops, next,
                                       given, at, backlog, client>>

\* HandleRead when accept fails: for the lack of descriptors (EMFILE), or since
\* the client is gone by now (EAGAIN, ECONNABORTED).
HandleReadFails == /\ at = "events" /\ readable
                   /\ backlog = <<>> \/ ~Free
                   /\ readable' = FALSE
                   /\ UNCHANGED <<serverVars, at, backlog, client>>

EndRound == /\ at = "events" /\ ~readable
            /\ at' = "poll"
            /\ UNCHANGED <<serverVars, readable, backlog, client>>
-----------------------------------------------------------------------------
(* The clients, and the loops their connections are on. *)

Connect(c) == /\ listening
              /\ client[c] = "away"
              /\ client' = [client EXCEPT ![c] = "waiting"]
              /\ backlog' = Append(backlog, c)
              /\ UNCHANGED <<serverVars, at, readable>>

\* A client that was not accepted yet leaves; the kernel forgets it.
Leave(c) == /\ client[c] = "waiting"
            /\ client' = [client EXCEPT ![c] = "gone"]
            /\ \E i \in DOMAIN backlog :
                  /\ backlog[i] = c
                  /\ backlog' = RemoveAt(backlog, i)
            /\ UNCHANGED <<serverVars, at, readable>>

\* The last pointer to a connection goes, and with it its Socket.
CloseSocket(c) == /\ client[c] = "served"
                  /\ client' = [client EXCEPT ![c] = "gone"]
                  /\ UNCHANGED <<serverVars, at, readable, backlog>>

LoopStep == Poll \/ HandleRead \/ HandleReadFails \/ EndRound

Next == \/ \E n \in 0 .. MaxThreads : SetThreadNum(n)
        \/ Start \/ EnterLoop \/ LoopStep
        \/ \E c \in Clients : Connect(c) \/ Leave(c) \/ CloseSocket(c)

\* The base loop goes round. Nobody has to come, or to leave.
Fairness == WF_vars(LoopStep)

Spec == Init /\ [][Next]_vars /\ Fairness
-----------------------------------------------------------------------------
TypeOK == /\ callback \in BOOLEAN
          /\ started \in BOOLEAN
          /\ threads \in 0 .. MaxThreads
          /\ loops \in 0 .. MaxThreads
          /\ next \in Nat /\ (loops > 0 => next < loops)
          /\ given \in [0 .. MaxThreads -> Nat]
          /\ listening \in BOOLEAN
          /\ at \in {"outside", "poll", "events"}
          /\ readable \in BOOLEAN
          /\ backlog \in Seq(Clients)
          /\ client \in [Clients -> {"away", "waiting", "served", "gone"}]

\* The loops of the pool take turns: at any time they were given the same number
\* of connections up to one, and the base loop none if there is a pool.
Balanced == /\ loops > 0 => given[0] = 0
            /\ \A l, m \in 1 .. loops : given[l] <= given[m] + 1

\* The clients that wait are those in the backlog, once each: an accept that
\* fails loses nobody.
NobodyLost == /\ \A i, j \in DOMAIN backlog : backlog[i] = backlog[j] => i = j
              /\ \A c \in Clients : client[c] = "waiting" <=>
                                    \E i \in DOMAIN backlog : backlog[i] = c

\* If descriptors become free again and again, a client that waits is accepted,
\* or leaves: though accept fails while there are none, the listening socket is
\* tried again.
AcceptedInTheEnd ==
    []<>Free => \A c \in Clients : (client[c] = "waiting" /\ at # "outside")
                                       ~> (client[c] # "waiting")
=============================================================================
