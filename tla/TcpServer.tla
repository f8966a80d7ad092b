----------------------------- MODULE TcpServer -----------------------------
(***************************************************************************)
(* TcpServer and its TcpConnections from accept to destruction, over the   *)
(* event loops they are spread on.                                         *)
(*                                                                         *)
(* Loop 0 accepts; connections live on loops 1 .. PoolSize in turn, or on  *)
(* loop 0 when the pool is empty. Every loop goes through the phases of    *)
(* EventLoop::Loop; that a queued functor wakes its loop is what module    *)
(* EventLoop establishes, and is taken for granted here. A connection is   *)
(* managed by shared_ptr: Alive collects who owns one, an object nobody    *)
(* owns is freed, and functors that were bound to the raw `this' own       *)
(* nothing. What is sent is abstracted to whether output is left over.     *)
(*                                                                         *)
(* A failing assert, or a call on a freed connection, sets fault and ends  *)
(* the behaviour.                                                          *)
(***************************************************************************)
EXTENDS Naturals, Sequences, FiniteSets

CONSTANTS Conns,      \* the connections clients may open
          None,
          MaxPool,    \* the most loops a program has beside the base loop
          Programs,   \* the programs that use the library
          MaxTimers,  \* bound on the pending Close timers of a connection
          MaxQueue    \* bound on the queues that other threads still fill

\* What the users' callbacks and threads may do.
Ops == {"send", "shutdown", "close", "hold", "writeComplete", "worker", "quit"}

ASSUME NoneAssumption == None \notin Conns
ASSUME PoolAssumption == MaxPool \in Nat
ASSUME ProgramAssumption ==
    Programs \subseteq [pool : 0 .. MaxPool,      \* SetThreadNum
                       clients : SUBSET Conns,   \* those that may come
                       ops : SUBSET Ops]
ASSUME BoundAssumption == MaxTimers \in Nat /\ MaxQueue \in Nat

VARIABLES
    \* per connection
    state,        \* state_, or "none" before it is accepted
    loopOf,       \* loop_
    out,          \* output_buffer_ is not empty
    wc,           \* write_complete__callback_ is set
    events,       \* its Channel's events_
    index,        \* its Channel's index_
    revents,      \* its Channel's revents_, less what HandleEvent is done with
    shut,         \* the socket's writing side is shut down
    peer,         \* the client's side
    timers,       \* how many Close timers are pending
    \* TcpServer
    connections,  \* connections_
    next,         \* EventLoopThreadPool's next_
    server,       \* "running", "quit" once the base loop is told to quit, or
                  \* "ending" inside the destructor
    \* per loop
    at,           \* the phase of Loop() the thread is in
    active,       \* active_channels_ not yet handled
    cur,          \* the connection being handled, or None
    queue,        \* pending_functors_
    batch,        \* DoPendingFunctors' local list, not yet run
    held,         \* connections owned by the functors of that list already run
    \* users
    refs,         \* connections the users keep a TcpConnectionPtr to
    worker,       \* a thread of the users: the call it is inside
    program,      \* which of Programs this is
    fault

serverVars == <<connections, next, loopOf>>
connVars == <<state, out, wc, shut>>
chanVars == <<events, index>>
loopVars == <<at, active, cur, revents, batch, held>>
userVars == <<refs, worker, timers>>
vars == <<serverVars, connVars, chanVars, loopVars, userVars, peer, queue,
          server, program, fault>>

Loops == 0 .. MaxPool
States == {"none", "connecting", "connected", "disconnecting", "disconnected"}

Functor(o, c) == [op |-> o, conn |-> c]
\* Mutant: ConnDestroyed is bound to the raw `this'.
OwningOpsRaw == {"established", "remove", "writeComplete"}
OwningOps == {"established", "remove", "destroyed", "writeComplete"}
RawOps == {"send", "shutdown"}
Functors == [op : OwningOps \cup RawOps, conn : Conns]
NoCall == Functor("idle", None)

\* Phases in which a callback of the users runs on the loop.
UserCode == {"up", "message", "down", "writeComplete"}

Entries(s) == {s[i] : i \in DOMAIN s}
Owns(fs, c) == \E f \in fs : f.op \in OwningOps /\ f.conn = c

\* Somebody holds a TcpConnectionPtr to c. Callbacks are passed one.
Alive(c) == \/ c \in connections
            \/ c \in refs
            \/ worker.conn = c
            \/ \E l \in Loops :
                  \/ Owns(Entries(queue[l]) \cup Entries(batch[l]), c)
                  \/ c \in held[l]
                  \/ cur[l] = c /\ at[l] \in UserCode

Freed(c) == state[c] # "none" /\ ~Alive(c)

Init ==
    /\ state = [c \in Conns |-> "none"]
    /\ loopOf = [c \in Conns |-> 0]
    /\ out = [c \in Conns |-> FALSE]
    /\ wc = [c \in Conns |-> FALSE]
    /\ events = [c \in Conns |-> {}]
    /\ index = [c \in Conns |-> "new"]
    /\ revents = [c \in Conns |-> {}]
    /\ shut = [c \in Conns |-> FALSE]
    /\ peer = [c \in Conns |-> "open"]
    /\ timers = [c \in Conns |-> 0]
    /\ connections = {}
    /\ next = 1
    /\ at = [l \in Loops |-> "poll"]
    /\ active = [l \in Loops |-> {}]
    /\ cur = [l \in Loops |-> None]
    /\ queue = [l \in Loops |-> <<>>]
    /\ batch = [l \in Loops |-> <<>>]
    /\ held = [l \in Loops |-> {}]
    /\ refs = {}
    /\ worker = NoCall
    /\ server = "running"
    /\ program \in Programs
    /\ fault = "none"
-----------------------------------------------------------------------------
(* What the handlers are made of.                                          *)

\* Mutant: the epoll operation is stored for the index.
UpdateChannelOp(c, ev) ==
    /\ events' = [events EXCEPT ![c] = ev]
    /\ index' = [index EXCEPT ![c] = IF ev = {} THEN "del" ELSE "added"]

\* Channel::Update down to Epoller::UpdateChannel: a channel that was not in
\* the epoll set is added to it, whatever its events are.
UpdateChannel(c, ev) ==
    /\ events' = [events EXCEPT ![c] = ev]
    /\ index' = [index EXCEPT ![c] =
                    IF index[c] = "added" /\ ev = {} THEN "deleted"
                    ELSE "added"]

QueueInLoop(l, f) == queue' = [queue EXCEPT ![l] = Append(@, f)]

Assert(holds) == fault' = IF holds THEN fault ELSE "assert"

\* What ~Channel asserts of event_handling_: the object is not destroyed inside
\* HandleEvent.
ChannelIdle(c) == \A l \in Loops : cur[l] = c /\ at[l] = "channel" => Alive(c)

\* Mutant: ConnDestroyed is not queued, the last reference just goes.
RemoveConnectionInLoopAtOnce(c) ==
    /\ Assert(c \in connections)
    /\ connections' = connections \ {c}
    /\ UNCHANGED queue

\* Mutant: the connection stays in connections_.
RemoveConnectionInLoopKeeps(c) ==
    /\ Assert(c \in connections)
    /\ QueueInLoop(loopOf[c], Functor("destroyed", c))
    /\ UNCHANGED connections

\* Mutant: ConnDestroyed is queued to the server's loop, not the connection's.
RemoveConnectionInLoopHere(c) ==
    /\ Assert(c \in connections)
    /\ connections' = connections \ {c}
    /\ QueueInLoop(0, Functor("destroyed", c))

\* TcpServer::RemoveConnectionInLoop.
RemoveConnectionInLoop(c) ==
    /\ Assert(c \in connections)
    /\ connections' = connections \ {c}
    /\ QueueInLoop(loopOf[c], Functor("destroyed", c))

\* TcpServer::RemoveConnection, called on c's loop.
RemoveConnection(c) ==
    IF loopOf[c] = 0
    THEN RemoveConnectionInLoop(c)
    ELSE /\ QueueInLoop(0, Functor("remove", c))
         /\ UNCHANGED <<connections, fault>>

\* Mutant: HandleClose leaves the channel on.
HandleCloseListens(c) ==
    IF Alive(c) /\ state[c] \in {"connected", "disconnecting"}
    THEN RemoveConnection(c) /\ UNCHANGED chanVars
    ELSE /\ fault' = IF Alive(c) THEN "assert" ELSE "freed"
         /\ UNCHANGED <<chanVars, connections, queue>>

\* Mutant: state_ is not looked at.
HandleCloseUnasked(c) ==
    IF Alive(c)
    THEN UpdateChannel(c, {}) /\ RemoveConnection(c)
    ELSE fault' = "freed" /\ UNCHANGED <<chanVars, connections, queue>>

\* TcpConnection::HandleClose. state_ stays as it is.
HandleClose(c) ==
    IF Alive(c) /\ state[c] \in {"connected", "disconnecting"}
    THEN UpdateChannel(c, {}) /\ RemoveConnection(c)
    ELSE /\ fault' = IF Alive(c) THEN "assert" ELSE "freed"
         /\ UNCHANGED <<chanVars, connections, queue>>

\* TcpConnection::SendInLoop: all of the message is written, or some of it is
\* left over (nothing was written while earlier output waits, a short write,
\* or a failed one, which is treated alike).
SendInLoop(c) ==
    \/ /\ "write" \notin events[c] /\ ~out[c]
       /\ ~shut[c] /\ peer[c] # "reset"
       /\ wc' = [wc EXCEPT ![c] = FALSE]
       /\ IF wc[c] THEN QueueInLoop(loopOf[c], Functor("writeComplete", c))
                   ELSE UNCHANGED queue
       /\ UNCHANGED <<chanVars, out>>
    \/ /\ out' = [out EXCEPT ![c] = TRUE]
       /\ IF "write" \in events[c] THEN UNCHANGED chanVars
          ELSE UpdateChannel(c, events[c] \cup {"write"})
       /\ UNCHANGED <<wc, queue>>

\* TcpConnection::ShutdownInLoop.
ShutdownInLoop(c) ==
    shut' = [shut EXCEPT ![c] = @ \/ "write" \notin events[c]]
-----------------------------------------------------------------------------
(* The phases of Loop().                                                   *)

\* epoll_wait's answer for c, given the connections with fresh data and those
\* with room to write. POLLERR and POLLHUP come unasked. (The client's side is
\* TCP's: FIN reads as end of file, both directions closed is POLLHUP.)
Ready(c, data, room) ==
    {e \in {"in", "out", "hup", "err"} :
        \/ /\ e = "in"
           /\ "read" \in events[c] /\ (c \in data \/ peer[c] # "open")
        \/ /\ e = "out"
           /\ "write" \in events[c] /\ (c \in room \/ peer[c] = "reset")
        \/ e = "hup" /\ (peer[c] = "reset" \/ (peer[c] = "fin" /\ shut[c]))
        \/ e = "err" /\ peer[c] = "reset"}

\* The epoll set; a descriptor that is closed leaves it.
Registered(l) ==
    {c \in Conns : loopOf[c] = l /\ index[c] = "added" /\ Alive(c)}

\* What makes epoll_wait return beside the connections: a wakeup (of Quit, too),
\* a timer, the listening socket.
OtherEvent(l) == \/ queue[l] # <<>>
                 \/ \E c \in Conns : loopOf[c] = l /\ timers[c] > 0
                 \/ l = 0 /\ \E c \in program.clients : state[c] = "none"
                 \/ l = 0 /\ "quit" \in program.ops

\* Rounds that find nothing to do (the time-out) change nothing: left out.
Poll(l) ==
    /\ at[l] = "poll"
    /\ l = 0 => server = "running"
    /\ \E data \in SUBSET {c \in Registered(l) : peer[c] = "open"},
          room \in SUBSET {c \in Registered(l) : "write" \in events[c]} :
          /\ revents' = [c \in Conns |-> IF c \in Registered(l)
                                         THEN Ready(c, data, room)
                                         ELSE revents[c]]
          /\ active' = [active EXCEPT ![l] =
                            {c \in Registered(l) : Ready(c, data, room) # {}}]
          /\ active'[l] # {} \/ OtherEvent(l)
    /\ at' = [at EXCEPT ![l] = "events"]
    /\ UNCHANGED <<serverVars, connVars, chanVars, userVars, peer, queue, fault,
                   cur, batch, held>>

\* A channel's HandleEvent is entered.
StartEvent(l) ==
    /\ at[l] = "events"
    /\ \E c \in active[l] :
          /\ active' = [active EXCEPT ![l] = @ \ {c}]
          /\ cur' = [cur EXCEPT ![l] = c]
          /\ fault' = IF Alive(c) THEN fault ELSE "freed"
    /\ at' = [at EXCEPT ![l] = "channel"]
    /\ UNCHANGED <<serverVars, connVars, chanVars, userVars, peer, queue,
                   revents, batch, held>>

Handled(l, es) == revents' = [revents EXCEPT ![cur[l]] = @ \ es]

\* POLLHUP without POLLIN.
HupEvent(l) ==
    /\ at[l] = "channel"
    /\ "hup" \in revents[cur[l]] /\ "in" \notin revents[cur[l]]
    /\ HandleClose(cur[l])
    /\ Handled(l, {"hup"})
    /\ UNCHANGED <<connVars, userVars, peer, next, loopOf, at, active, cur,
                   batch, held>>

\* TcpConnection::HandleRead. After a reset the first of HandleError's
\* getsockopt (POLLERR) and read fetches the error; a read after it finds the
\* end of file.
ReadMessage(l) ==
    /\ at[l] = "channel"
    /\ "in" \in revents[cur[l]]
    /\ peer[cur[l]] = "open"
    /\ Handled(l, {"in", "hup"})
    /\ at' = [at EXCEPT ![l] = "message"]
    /\ UNCHANGED <<serverVars, connVars, chanVars, userVars, peer, queue, fault,
                   active, cur, batch, held>>

\* Mutant: an end of file is taken for an empty message.
ReadEofIgnored(l) ==
    /\ at[l] = "channel"
    /\ "in" \in revents[cur[l]]
    /\ peer[cur[l]] # "open"
    /\ Handled(l, {"in", "hup"})
    /\ UNCHANGED <<serverVars, connVars, chanVars, userVars, peer, queue, fault,
                   at, active, cur, batch, held>>

ReadEof(l) ==
    /\ at[l] = "channel"
    /\ "in" \in revents[cur[l]]
    /\ \/ peer[cur[l]] = "fin"
       \/ peer[cur[l]] = "reset" /\ "err" \in revents[cur[l]]
    /\ HandleClose(cur[l])
    /\ Handled(l, {"in", "hup"})
    /\ UNCHANGED <<connVars, userVars, peer, next, loopOf, at, active, cur,
                   batch, held>>

ReadError(l) ==
    /\ at[l] = "channel"
    /\ "in" \in revents[cur[l]]
    /\ peer[cur[l]] = "reset" /\ "err" \notin revents[cur[l]]
    /\ Handled(l, {"in", "hup"})
    /\ UNCHANGED <<serverVars, connVars, chanVars, userVars, peer, queue, fault,
                   at, active, cur, batch, held>>

\* POLLOUT comes last. TcpConnection::HandleWrite drains the output buffer, or
\* part of it, or is refused.
Writable(l) == /\ at[l] = "channel"
               /\ revents[cur[l]] \cap {"in", "hup"} = {}
               /\ "out" \in revents[cur[l]]

WriteRest(l) ==
    LET c == cur[l] IN
    /\ Writable(l)
    /\ "write" \in events[c]
    /\ ~shut[c] /\ peer[c] # "reset"
    /\ out' = [out EXCEPT ![c] = FALSE]
    /\ UpdateChannel(c, events[c] \ {"write"})
    /\ IF wc[c] THEN QueueInLoop(l, Functor("writeComplete", c))
                ELSE UNCHANGED queue
    /\ shut' = [shut EXCEPT ![c] = state[c] = "disconnecting"]
    /\ Handled(l, {"out"})
    /\ UNCHANGED <<serverVars, userVars, peer, fault, state, wc, at, active,
                   cur, batch, held>>

WriteSome(l) ==
    /\ Writable(l)
    /\ Handled(l, {"out"})
    /\ UNCHANGED <<serverVars, connVars, chanVars, userVars, peer, queue, fault,
                   at, active, cur, batch, held>>

EndEvent(l) ==
    /\ at[l] = "channel"
    /\ revents[cur[l]] \subseteq {"err"}
    /\ revents' = [revents EXCEPT ![cur[l]] = {}]
    /\ cur' = [cur EXCEPT ![l] = None]
    /\ at' = [at EXCEPT ![l] = "events"]
    /\ UNCHANGED <<serverVars, connVars, chanVars, userVars, peer, queue, fault,
                   active, batch, held>>

\* EventLoopThreadPool::GetNextLoop.
NextLoop == IF program.pool = 0 THEN 0 ELSE next

\* TcpConnection::ConnEstablished, up to the users' callback.
ConnEstablished(l, c) ==
    /\ state' = [state EXCEPT ![c] = "connected"]
    /\ UpdateChannel(c, {"read"})
    /\ cur' = [cur EXCEPT ![l] = c]
    /\ at' = [at EXCEPT ![l] = "up"]

\* The listening socket is among the active channels: Acceptor::HandleRead,
\* TcpServer::NewConnection.
NewConnection(c) ==
    /\ at[0] = "events"
    /\ c \in program.clients
    /\ state[c] = "none"
    /\ loopOf' = [loopOf EXCEPT ![c] = NextLoop]
    /\ next' = IF next >= program.pool THEN 1 ELSE next + 1
    /\ connections' = connections \cup {c}
    /\ wc' = [wc EXCEPT ![c] = "writeComplete" \in program.ops]
    /\ IF NextLoop = 0
       THEN ConnEstablished(0, c) /\ UNCHANGED queue
       ELSE /\ state' = [state EXCEPT ![c] = "connecting"]
            /\ QueueInLoop(NextLoop, Functor("established", c))
            /\ UNCHANGED <<chanVars, cur, at>>
    /\ UNCHANGED <<userVars, peer, fault, out, shut, active, revents, batch,
                   held>>

\* The timer queue's channel is: a timer set by Close runs HandleClose.
CloseTimer(l, c) ==
    /\ at[l] = "events"
    /\ loopOf[c] = l /\ timers[c] > 0
    /\ timers' = [timers EXCEPT ![c] = @ - 1]
    /\ HandleClose(c)
    /\ UNCHANGED <<connVars, loopVars, peer, next, loopOf, refs, worker>>

\* DoPendingFunctors, up to the swap; all of it when nothing is pending.
TakeBatch(l) ==
    /\ at[l] = "events"
    /\ active[l] = {}
    /\ batch' = [batch EXCEPT ![l] = queue[l]]
    /\ queue' = [queue EXCEPT ![l] = <<>>]
    /\ at' = [at EXCEPT ![l] = IF queue[l] = <<>> THEN "poll" ELSE "functors"]
    /\ UNCHANGED <<serverVars, connVars, chanVars, userVars, peer, fault,
                   active, cur, revents, held>>

\* The next functor is run: f is at the head of the list.
Run(l, f) ==
    /\ at[l] = "functors"
    /\ batch[l] # <<>>
    /\ f = Head(batch[l])
    /\ batch' = [batch EXCEPT ![l] = Tail(@)]
    /\ held' = [held EXCEPT ![l] = IF f.op \in OwningOps THEN @ \cup {f.conn}
                                                         ELSE @]

RunEstablished(l, c) ==
    /\ Run(l, Functor("established", c))
    /\ Assert(state[c] = "connecting")
    /\ ConnEstablished(l, c)
    /\ UNCHANGED <<serverVars, userVars, peer, queue, out, wc, shut, active,
                   revents>>

RunRemove(l, c) ==
    /\ Run(l, Functor("remove", c))
    /\ RemoveConnectionInLoop(c)
    /\ UNCHANGED <<connVars, chanVars, userVars, peer, next, loopOf, at, active,
                   cur, revents>>

\* Mutant: the second DisableAll is left out.
RunDestroyedOnce(l, c) ==
    /\ Run(l, Functor("destroyed", c))
    /\ Assert(state[c] \in {"connected", "disconnecting"})
    /\ state' = [state EXCEPT ![c] = "disconnected"]
    /\ cur' = [cur EXCEPT ![l] = c]
    /\ at' = [at EXCEPT ![l] = "down"]
    /\ UNCHANGED <<serverVars, chanVars, userVars, peer, queue, out, wc, shut,
                   active, revents>>

\* Mutant: state_ is not set.
RunDestroyedConnected(l, c) ==
    /\ Run(l, Functor("destroyed", c))
    /\ Assert(state[c] \in {"connected", "disconnecting"})
    /\ UpdateChannel(c, {})
    /\ cur' = [cur EXCEPT ![l] = c]
    /\ at' = [at EXCEPT ![l] = "down"]
    /\ UNCHANGED <<serverVars, connVars, userVars, peer, queue, active, revents>>

\* TcpConnection::ConnDestroyed, up to the users' callback.
RunDestroyed(l, c) ==
    /\ Run(l, Functor("destroyed", c))
    /\ Assert(state[c] \in {"connected", "disconnecting"})
    /\ state' = [state EXCEPT ![c] = "disconnected"]
    /\ UpdateChannel(c, {})
    /\ cur' = [cur EXCEPT ![l] = c]
    /\ at' = [at EXCEPT ![l] = "down"]
    /\ UNCHANGED <<serverVars, userVars, peer, queue, out, wc, shut, active,
                   revents>>

RunWriteComplete(l, c) ==
    /\ Run(l, Functor("writeComplete", c))
    /\ cur' = [cur EXCEPT ![l] = c]
    /\ at' = [at EXCEPT ![l] = "writeComplete"]
    /\ UNCHANGED <<serverVars, connVars, chanVars, userVars, peer, queue, fault,
                   active, revents>>

\* The functors that other threads' Send and Shutdown left: bound to `this'.
RunSend(l, c) ==
    /\ Run(l, Functor("send", c))
    /\ IF Alive(c)
       THEN SendInLoop(c) /\ UNCHANGED fault
       ELSE fault' = "freed" /\ UNCHANGED <<chanVars, out, wc, queue>>
    /\ UNCHANGED <<serverVars, userVars, peer, state, shut, at, active, cur,
                   revents>>

RunShutdown(l, c) ==
    /\ Run(l, Functor("shutdown", c))
    /\ IF Alive(c)
       THEN ShutdownInLoop(c) /\ UNCHANGED fault
       ELSE fault' = "freed" /\ UNCHANGED shut
    /\ UNCHANGED <<serverVars, chanVars, userVars, peer, queue, state, out, wc,
                   at, active, cur, revents>>

\* The local list of functors is destroyed at the end of DoPendingFunctors.
EndBatch(l) ==
    /\ at[l] = "functors"
    /\ batch[l] = <<>>
    /\ held' = [held EXCEPT ![l] = {}]
    /\ at' = [at EXCEPT ![l] = "poll"]
    /\ UNCHANGED <<serverVars, connVars, chanVars, userVars, peer, queue, fault,
                   active, cur, revents, batch>>
-----------------------------------------------------------------------------
(* The users' callbacks, on the loop of the connections they use: the one  *)
(* the callback is for, and those they kept a TcpConnectionPtr to.         *)

Usable(l, c) == /\ at[l] \in UserCode
                /\ c \in refs \cup {cur[l]}
                /\ loopOf[c] = l

UserSend(l, c) ==
    /\ "send" \in program.ops
    /\ Usable(l, c)
    /\ state[c] = "connected"
    /\ SendInLoop(c)
    /\ UNCHANGED <<serverVars, loopVars, userVars, peer, fault, state, shut>>

UserShutdown(l, c) ==
    /\ "shutdown" \in program.ops
    /\ Usable(l, c)
    /\ state[c] = "connected"
    /\ state' = [state EXCEPT ![c] = "disconnecting"]
    /\ ShutdownInLoop(c)
    /\ UNCHANGED <<serverVars, chanVars, loopVars, userVars, peer, queue, fault,
                   out, wc>>

UserClose(l, c) ==
    /\ "close" \in program.ops
    /\ Usable(l, c)
    /\ timers[c] < MaxTimers
    /\ timers' = [timers EXCEPT ![c] = @ + 1]
    /\ UNCHANGED <<serverVars, connVars, chanVars, loopVars, peer, queue, fault,
                   refs, worker>>

UserHold(l) ==
    /\ "hold" \in program.ops
    /\ at[l] \in UserCode
    /\ refs' = refs \cup {cur[l]}
    /\ UNCHANGED <<serverVars, connVars, chanVars, loopVars, peer, queue, fault,
                   worker, timers>>

\* The callback returns. ConnDestroyed goes on to Epoller::RemoveChannel.
UserReturn(l) ==
    LET c == cur[l] IN
    /\ at[l] \in UserCode
    /\ at' = [at EXCEPT ![l] = IF @ = "message" THEN "channel"
                               ELSE IF @ = "up" /\ l = 0 THEN "events"
                               ELSE "functors"]
    /\ cur' = [cur EXCEPT ![l] = IF at[l] = "message" THEN c ELSE None]
    /\ UNCHANGED <<serverVars, connVars, userVars, peer, queue, events, active,
                   revents, batch, held>>
    /\ IF at[l] = "down"
       THEN /\ Assert(events[c] = {} /\ index[c] # "new")
            /\ index' = [index EXCEPT ![c] = "new"]
       ELSE Assert(ChannelIdle(c)') /\ UNCHANGED index

\* A TcpConnectionPtr kept by the users is given up.
UserDrop(c) ==
    /\ c \in refs
    /\ refs' = refs \ {c}
    /\ UNCHANGED <<serverVars, connVars, chanVars, loopVars, peer, queue, fault,
                   worker, timers>>

\* A thread that is not c's loop calls Send or Shutdown: state_ is tested, set
\* by Shutdown, and the functor queued, with no lock around the three.
WorkerCall(o, c) ==
    /\ "worker" \in program.ops
    /\ worker = NoCall
    /\ c \in refs
    /\ state[c] = "connected"
    /\ \/ o = "send" /\ "send" \in program.ops
       \/ o = "mark" /\ "shutdown" \in program.ops
    /\ worker' = Functor(o, c)
    /\ UNCHANGED <<serverVars, connVars, chanVars, loopVars, peer, queue, fault,
                   refs, timers>>

WorkerMark ==
    /\ worker.op = "mark"
    /\ state' = [state EXCEPT ![worker.conn] = "disconnecting"]
    /\ worker' = [worker EXCEPT !.op = "shutdown"]
    /\ UNCHANGED <<serverVars, chanVars, loopVars, peer, queue, fault, out, wc,
                   shut, refs, timers>>

WorkerPost ==
    /\ worker.op \in RawOps
    /\ \A l \in Loops : Len(queue[l]) < MaxQueue
    /\ IF at[loopOf[worker.conn]] = "stopped"
       THEN fault' = "freed" /\ UNCHANGED queue
       ELSE QueueInLoop(loopOf[worker.conn], worker) /\ UNCHANGED fault
    /\ worker' = NoCall
    /\ UNCHANGED <<serverVars, connVars, chanVars, loopVars, peer, refs, timers>>

\* The client closes, or resets, its side.
PeerCloses(c) ==
    /\ state[c] # "none"
    /\ peer[c] = "open"
    /\ peer' = [peer EXCEPT ![c] = "fin"]
    /\ UNCHANGED <<serverVars, connVars, chanVars, loopVars, userVars, queue,
                   fault>>

PeerResets(c) ==
    /\ state[c] # "none"
    /\ peer[c] # "reset"
    /\ peer' = [peer EXCEPT ![c] = "reset"]
    /\ UNCHANGED <<serverVars, connVars, chanVars, loopVars, userVars, queue,
                   fault>>
-----------------------------------------------------------------------------
(* The end of the server. Its members are destroyed in reverse order:      *)
(* connections_, then the pool, which joins its threads one by one, then   *)
(* the acceptor.                                                           *)

\* Somebody calls Quit on the base loop, which finishes its round. (A Quit while
\* it is in epoll_wait comes to the same: the wakeup starts a round.)
QuitBase ==
    /\ "quit" \in program.ops
    /\ server = "running"
    /\ at[0] # "poll"
    /\ server' = "quit"
    /\ UNCHANGED <<serverVars, connVars, chanVars, loopVars, userVars, peer,
                   queue, fault>>

\* Loop() has returned, and ~TcpServer begins.
Destroy ==
    /\ server = "quit"
    /\ at[0] = "poll"
    /\ server' = "ending"
    /\ UNCHANGED <<serverVars, connVars, chanVars, loopVars, userVars, peer,
                   queue, fault>>

DropConnection(c) ==
    /\ server = "ending"
    /\ c \in connections
    /\ connections' = connections \ {c}
    /\ UNCHANGED <<connVars, chanVars, loopVars, userVars, peer, queue, server,
                   next, loopOf>>
    /\ Assert(ChannelIdle(c)')

\* ~EventLoopThread: the loop of a pool thread ends its round and Loop(), and
\* goes, with the functors that were not run.
StopLoop(l) ==
    /\ server = "ending"
    /\ connections = {}
    /\ l \in 1 .. program.pool
    /\ at[l] = "poll"
    /\ \A k \in 1 .. l - 1 : at[k] = "stopped"
    /\ at' = [at EXCEPT ![l] = "stopped"]
    /\ queue' = [queue EXCEPT ![l] = <<>>]
    /\ UNCHANGED <<serverVars, connVars, chanVars, userVars, peer, fault, server,
                   active, cur, revents, batch, held>>
-----------------------------------------------------------------------------
ChannelStep(l) == \/ StartEvent(l) \/ HupEvent(l) \/ ReadMessage(l)
                  \/ ReadEof(l) \/ ReadError(l) \/ WriteRest(l)
                  \/ WriteSome(l) \/ EndEvent(l)

FunctorStep(l) == \/ TakeBatch(l)
                  \/ \E c \in Conns : \/ RunEstablished(l, c)
                                      \/ RunRemove(l, c)
                                      \/ RunDestroyed(l, c)
                                      \/ RunWriteComplete(l, c)
                                      \/ RunSend(l, c)
                                      \/ RunShutdown(l, c)
                  \/ EndBatch(l)

UserStep == \/ \E l \in Loops, c \in Conns : \/ UserSend(l, c)
                                             \/ UserShutdown(l, c)
                                             \/ UserClose(l, c)
            \/ \E l \in Loops : UserHold(l)
            \/ \E c \in Conns : UserDrop(c)
            \/ \E o \in {"send", "mark"}, c \in Conns : WorkerCall(o, c)
            \/ WorkerMark
            \/ WorkerPost

PeerStep == \E c \in Conns : PeerCloses(c) \/ PeerResets(c)

RunStep == \/ \E l \in Loops : \/ Poll(l)
                               \/ ChannelStep(l)
                               \/ FunctorStep(l)
                               \/ UserReturn(l)
           \/ \E c \in Conns : NewConnection(c)
           \/ \E l \in Loops, c \in Conns : CloseTimer(l, c)
           \/ UserStep
           \/ PeerStep

EndStep == \/ QuitBase
           \/ Destroy
           \/ \E c \in Conns : DropConnection(c)
           \/ \E l \in Loops : StopLoop(l)

Next == /\ fault = "none"
        /\ UNCHANGED program
        /\ \/ RunStep /\ UNCHANGED server
           \/ EndStep

\* The loops run on and callbacks return. Poll only has to return when it has
\* something to do: a functor (see module EventLoop) or a ready channel.
Busy(l) == \/ queue[l] # <<>>
           \/ \E c \in Registered(l) : Ready(c, {}, {}) # {}

LoopStep(l) == /\ fault = "none"
               /\ UNCHANGED <<server, program>>
               /\ \/ Busy(l) /\ Poll(l)
                  \/ ChannelStep(l)
                  \/ FunctorStep(l)
                  \/ UserReturn(l)

Fairness == \A l \in Loops : WF_vars(LoopStep(l))

Spec == Init /\ [][Next]_vars /\ Fairness
-----------------------------------------------------------------------------
TypeOK ==
    /\ state \in [Conns -> States]
    /\ loopOf \in [Conns -> Loops]
    /\ out \in [Conns -> BOOLEAN]
    /\ wc \in [Conns -> BOOLEAN]
    /\ events \in [Conns -> SUBSET {"read", "write"}]
    /\ index \in [Conns -> {"new", "added", "deleted"}]
    /\ revents \in [Conns -> SUBSET {"in", "out", "hup", "err"}]
    /\ shut \in [Conns -> BOOLEAN]
    /\ peer \in [Conns -> {"open", "fin", "reset"}]
    /\ timers \in [Conns -> 0 .. MaxTimers]
    /\ connections \in SUBSET Conns
    /\ next \in Nat
    /\ at \in [Loops -> UserCode \cup {"poll", "events", "channel", "functors",
                                 "stopped"}]
    /\ active \in [Loops -> SUBSET Conns]
    /\ cur \in [Loops -> Conns \cup {None}]
    /\ queue \in [Loops -> Seq(Functors)]
    /\ batch \in [Loops -> Seq(Functors)]
    /\ held \in [Loops -> SUBSET Conns]
    /\ refs \in SUBSET Conns
    /\ worker \in [op : RawOps \cup {"mark"}, conn : Conns] \cup {NoCall}
    /\ server \in {"running", "quit", "ending"}
    /\ program \in Programs
    /\ fault \in {"none", "assert", "freed"}

(* What is promised depends on the program. A careful one closes its       *)
(* connections by shutting them down, calls nothing from other threads,    *)
(* ends a server only if all of it is on one thread, and, with more        *)
(* threads, does not send late; other programs can make it fail (see the   *)
(* runs that find violations). A program that serves does not end the      *)
(* server.                                                                 *)

\* Send may be called on a connection that HandleClose has given up and that is
\* still connected by its state_: from its write-complete callback, or from a
\* callback of another connection.
SendsLate == /\ "send" \in program.ops
             /\ \/ "writeComplete" \in program.ops
                \/ /\ "hold" \in program.ops
                   /\ \E c, d \in program.clients : c # d

Careful == /\ program.ops \cap {"close", "worker"} = {}
           /\ "quit" \in program.ops => program.pool = 0
           /\ program.pool > 0 => ~SendsLate
Serves == Careful /\ "quit" \notin program.ops

\* No assert of TcpConnection, TcpServer, Channel and Epoller fails, and no
\* member function is called on a freed connection: HandleClose, whose
\* close_callback_ erases the connection from connections_, runs once per
\* connection, and only between ConnEstablished and ConnDestroyed.
NoFault == Careful => fault = "none"

\* The asserts alone, whatever the program does.
NoAssertFails == fault # "assert"

\* No connection is used after it was freed, whatever the program does.
NoneUsedFreed == fault # "freed"

\* No Channel that epoll_wait returned, and none that is inside HandleEvent, is
\* freed: whatever the other handlers of the round do, ConnDestroyed waits in
\* the queue and owns the connection until they are done.
HandlersAlive ==
    Careful => \A l \in Loops : \A c \in Conns :
                   c \in active[l] \/ cur[l] = c => Alive(c)

\* The epoll set, and the table of channels of the Epoller, hold no pointer to
\* the Channel of a freed connection.
RegisteredAlive == Serves => \A c \in Conns : index[c] # "new" => Alive(c)

\* The functors on their way that end c's life.
Removing(c) == {f \in UNION {Entries(queue[l]) \cup Entries(batch[l]) :
                                 l \in Loops} :
                   f.conn = c /\ f.op \in {"remove", "destroyed"}}

\* Once HandleClose has given the connection up, no event is asked for on it:
\* nobody turns its channel on again while the removal travels to the base loop
\* and back, though its state_ still says connected.
QuietOnceClosed ==
    Careful /\ ~SendsLate =>
        \A c \in Conns :
            Removing(c) # {} => events[c] = {} /\ index[c] = "deleted"

\* A connection missing from connections_ is either destroyed or its
\* ConnDestroyed is on the way, and one that is on the list has no
\* ConnDestroyed on the way: none is forgotten half-way.
RemovedOnce ==
    Serves =>
        \A c \in Conns :
            state[c] \notin {"none", "disconnected"} =>
                (c \notin connections <=> Functor("destroyed", c) \in Removing(c))

\* What connections_ lists is not destroyed, nor about to be, whoever closes the
\* connection and from wherever it is closed, and though the server ends.
ListedNotDestroyed == \A c \in connections :
    /\ state[c] # "disconnected"
    /\ Functor("destroyed", c) \notin Removing(c)

\* ConnDestroyed has taken c's Channel off the Epoller.
Gone(c) == state[c] \notin {"none", "connecting"} /\ index[c] = "new"

\* A connection that is gone stays gone, however long the users keep it: neither
\* its Close timers nor functors that come late register its Channel again, also
\* when a Shutdown of another thread, which tested state_ before, turns it from
\* disconnected back to disconnecting. (Not so for a Send of another thread, and
\* for a Close timer that meets such a state_.)
StaysGone == [][("worker" \in program.ops => program.ops \cap {"send", "close"} = {})
                    => \A c \in Conns : Gone(c) => Gone(c)']_vars

\* No thread but its loop's touches a connection, whatever the program does: its
\* events are handled and its functors run on the loop it was given to, and
\* those that change connections_ on the base loop, though they are queued from
\* both, from callbacks, timers and other threads. (AssertInLoopThread would
\* print a line and go on.)
InLoopThread == \A l \in Loops :
    /\ \A c \in Conns : c \in active[l] \/ cur[l] = c => loopOf[c] = l
    /\ \A f \in Entries(queue[l]) \cup Entries(batch[l]) :
          IF f.op = "remove" THEN l = 0 ELSE loopOf[f.conn] = l

Phase(c) == CASE state[c] = "none" -> "new"
              [] state[c] = "connecting" /\ Alive(c) -> "accepted"
              [] state[c] \in {"connected", "disconnecting"} /\ Alive(c) -> "up"
              [] state[c] = "disconnected" /\ Alive(c) -> "down"
              [] state[c] = "disconnected" /\ ~Alive(c) -> "freed"
              [] OTHER -> "lost"

\* What module Lifecycle speaks of, for the programs that serve.
L == INSTANCE Lifecycle
         WITH phase <- [c \in Conns |-> IF Serves THEN Phase(c) ELSE "new"],
              messages <- {cur[l] : l \in {k \in Loops :
                                               Serves /\ at[k] = "message"}}

\* Every connection goes through its callbacks in the promised order and is
\* freed after the last of them, never before.
ImplementsLifecycle == L!Spec

\* When the client closes or resets, the connection is taken down on all of its
\* loops, and freed unless the users keep a pointer to it.
ClosedInTheEnd == \A c \in Conns :
    (Serves /\ peer[c] # "open") ~> /\ state[c] = "disconnected"
                                    /\ index[c] = "new"
                                    /\ Freed(c) \/ c \in refs
=============================================================================
