------------------------------- MODULE Stream -------------------------------
(***************************************************************************)
(* The bytes of one established TcpConnection: output_buffer_ and the      *)
(* writing channel between Send and the socket, input_buffer_ between the  *)
(* socket and the message callback, and Shutdown.                          *)
(*                                                                         *)
(* Each round of the connection's loop handles POLLIN, then POLLOUT, then  *)
(* the functors. Code of the users runs on the loop between any two of     *)
(* these, and on other threads at any time. A write to the socket takes    *)
(* any part of the data, or fails when it is shut down; the two are        *)
(* treated alike by the code. The client stays; that it closes or resets,  *)
(* and what the callbacks do then, is the subject of module TcpServer.     *)
(***************************************************************************)
EXTENDS Buffer

CONSTANTS Messages,   \* what is sent, each message at most once
          Threads,    \* the users' threads other than the loop's
          LoopThread,
          Sender,     \* Sender[m]: the thread that sends m
          None,
          Incoming,   \* what the client sends
          ExtraSize   \* the size of ReadFd's extrabuf

Callers == Threads \cup {LoopThread}

ASSUME MessagesAssumption == Messages \subseteq Seq(Byte)
ASSUME ThreadsAssumption == LoopThread \notin Threads /\ None \notin Callers
ASSUME SenderAssumption == Sender \in [Messages -> Callers]
ASSUME IncomingAssumption == Incoming \in Seq(Byte) /\ ExtraSize \in Nat \ {0}

VARIABLES
    state,     \* state_: "connected" or "disconnecting"
    closer,    \* history: the thread whose Shutdown made it so, or None
    out,       \* output_buffer_
    writing,   \* the channel's IsWriting()
    shut,      \* the socket's writing side is shut down
    wire,      \* what the socket took
    taken,     \* history: what SendInLoop was given
    accepted,  \* history: the messages that Send did not turn away
    in,        \* input_buffer_
    arrived,   \* what the socket has for us
    offered,   \* how much the client has sent
    consumed,  \* what the message callback has retrieved
    at,        \* where the loop is
    revents,   \* the channel's events not yet handled
    queue,     \* pending_functors_, those of this connection
    batch,     \* DoPendingFunctors' local list
    call       \* call[t]: the call the foreign thread t is inside

outVars == <<out, writing, wire, taken>>
inVars == <<in, arrived, offered, consumed>>
closeVars == <<state, closer, shut>>
loopVars == <<at, revents, batch>>
vars == <<outVars, inVars, closeVars, loopVars, accepted, queue, call>>

Functor(o, m) == [op |-> o, msg |-> m]
NoCall == Functor("idle", <<>>)

Lesser(a, b) == IF a < b THEN a ELSE b
Taking(s, n) == SubSeq(s, 1, n)
Dropping(s, n) == SubSeq(s, n + 1, Len(s))
Elements(s) == {s[i] : i \in DOMAIN s}

Init == /\ state = "connected"
        /\ closer = None
        /\ out = NewBuffer
        /\ writing = FALSE
        /\ shut = FALSE
        /\ wire = <<>>
        /\ taken = <<>>
        /\ accepted = {}
        /\ in = NewBuffer
        /\ arrived = <<>>
        /\ offered = 0
        /\ consumed = <<>>
        /\ at = "poll"
        /\ revents = {}
        /\ queue = <<>>
        /\ batch = <<>>
        /\ call = [t \in Threads |-> NoCall]
-----------------------------------------------------------------------------
(* Output.                                                                 *)

\* Mutant: the channel is not told to write.
SendPartQuiet(m, n) ==
    /\ taken' = taken \o m
    /\ wire' = wire \o Taking(m, n)
    /\ IF n < Len(m) THEN out' = Appended(out, Dropping(m, n)) ELSE UNCHANGED out
    /\ UNCHANGED writing

\* TcpConnection::SendInLoop: n bytes of m are written at once, the rest waits
\* in the buffer.
SendPart(m, n) ==
    /\ taken' = taken \o m
    /\ wire' = wire \o Taking(m, n)
    /\ IF n < Len(m)
       THEN out' = Appended(out, Dropping(m, n)) /\ writing' = TRUE
       ELSE UNCHANGED <<out, writing>>

\* Mutant: waiting output is not looked at.
SendInLoopAhead(m) == \E n \in 0 .. Len(m) : (shut => n = 0) /\ SendPart(m, n)

SendInLoop(m) ==
    IF ~writing /\ ReadableBytes(out) = 0
    THEN \E n \in 0 .. Len(m) : (shut => n = 0) /\ SendPart(m, n)
    ELSE SendPart(m, 0)

\* Mutant: output that waits is not looked at.
ShutdownInLoopAtOnce == shut' = TRUE

\* TcpConnection::ShutdownInLoop.
ShutdownInLoop == shut' = (shut \/ ~writing)

\* Mutant: writing stays enabled.
HandleWriteOn ==
    /\ at = "events"
    /\ revents = {"out"}
    /\ writing
    /\ revents' = {}
    /\ \E n \in 1 .. ReadableBytes(out) :
          /\ ~shut
          /\ wire' = wire \o Taking(Content(out), n)
          /\ out' = Retrieve(out, n)
          /\ shut' = (n = ReadableBytes(out) /\ state = "disconnecting")
    /\ UNCHANGED <<inVars, accepted, at, batch, queue, call, state, closer,
                   taken, writing>>

\* Mutant: nobody remembers that the connection is to be shut down.
HandleWriteOpen ==
    /\ at = "events"
    /\ revents = {"out"}
    /\ writing
    /\ revents' = {}
    /\ \E n \in 1 .. ReadableBytes(out) :
          /\ ~shut
          /\ wire' = wire \o Taking(Content(out), n)
          /\ out' = Retrieve(out, n)
          /\ writing' = (n < ReadableBytes(out))
    /\ UNCHANGED <<inVars, accepted, at, batch, queue, call, closeVars, taken>>

\* TcpConnection::HandleWrite: some of the output is written; when it was the
\* last of it, writing is disabled and a waiting Shutdown is made up for.
HandleWrite ==
    /\ at = "events"
    /\ revents = {"out"}
    /\ writing
    /\ revents' = {}
    /\ \E n \in 1 .. ReadableBytes(out) :
          /\ ~shut
          /\ wire' = wire \o Taking(Content(out), n)
          /\ out' = Retrieve(out, n)
          /\ writing' = (n < ReadableBytes(out))
          /\ shut' = (n = ReadableBytes(out) /\ state = "disconnecting")
    /\ UNCHANGED <<inVars, accepted, at, batch, queue, call, state, closer,
                   taken>>

\* The socket is shut down: the write fails, and the channel goes on writing.
WriteRefused ==
    /\ at = "events"
    /\ revents = {"out"}
    /\ writing
    /\ shut
    /\ revents' = {}
    /\ UNCHANGED <<outVars, inVars, closeVars, accepted, at, batch, queue, call>>
-----------------------------------------------------------------------------
(* Input.                                                                  *)

PeerSends ==
    /\ \E n \in 1 .. Len(Incoming) - offered :
          /\ arrived' = arrived \o SubSeq(Incoming, offered + 1, offered + n)
          /\ offered' = offered + n
    /\ UNCHANGED <<outVars, closeVars, loopVars, accepted, in, consumed, queue,
                   call>>

\* TcpConnection::HandleRead with the message callback, which retrieves some of
\* the input or, with RetrieveAsString, all of it.
HandleRead ==
    LET n == Lesser(Len(arrived), WritableBytes(in) + ExtraSize)
        b == ReadFd(in, Taking(arrived, n))
    IN  /\ at = "events"
        /\ "in" \in revents
        /\ revents' = revents \ {"in"}
        /\ arrived' = Dropping(arrived, n)
        /\ \/ in' = RetrieveAll(b) /\ consumed' = consumed \o Content(b)
           \/ \E k \in 0 .. ReadableBytes(b) :
                 /\ in' = Retrieve(b, k)
                 /\ consumed' = consumed \o Taking(Content(b), k)
        /\ UNCHANGED <<outVars, closeVars, accepted, offered, at, batch, queue,
                       call>>
-----------------------------------------------------------------------------
(* The loop.                                                               *)

\* epoll_wait: the channel is among the active ones, or only others are. There
\* may be no room to write at the moment.
Poll == /\ at = "poll"
        /\ \/ revents' = IF arrived # <<>> THEN {"in"} ELSE {}
           \/ /\ writing
              /\ revents' = (IF arrived # <<>> THEN {"in"} ELSE {}) \cup {"out"}
        /\ at' = "events"
        /\ UNCHANGED <<outVars, inVars, closeVars, accepted, batch, queue, call>>

\* Mutant: the pending list becomes one element of the local one.
TakeBatchNested == /\ at = "events"
                   /\ revents = {}
                   /\ batch' = <<queue>>
                   /\ queue' = <<>>
                   /\ at' = "functors"
                   /\ UNCHANGED <<outVars, inVars, closeVars, accepted, revents,
                                  call>>

TakeBatch == /\ at = "events"
             /\ revents = {}
             /\ batch' = queue
             /\ queue' = <<>>
             /\ at' = "functors"
             /\ UNCHANGED <<outVars, inVars, closeVars, accepted, revents, call>>

Run(o) == /\ at = "functors"
          /\ batch # <<>>
          /\ Head(batch).op = o
          /\ batch' = Tail(batch)

RunSend == /\ Run("send")
           /\ SendInLoop(Head(batch).msg)
           /\ UNCHANGED <<inVars, closeVars, accepted, at, revents, queue, call>>

RunShutdown == /\ Run("shutdown")
               /\ ShutdownInLoop
               /\ UNCHANGED <<outVars, inVars, accepted, at, revents, queue,
                              call, state, closer>>

EndBatch == /\ at = "functors"
            /\ batch = <<>>
            /\ at' = "poll"
            /\ UNCHANGED <<outVars, inVars, closeVars, accepted, revents, batch,
                           queue, call>>
-----------------------------------------------------------------------------
(* The users.                                                              *)

\* Send and Shutdown on the loop's own thread, in a callback.
UserSend(m) == /\ at # "poll"
               /\ Sender[m] = LoopThread /\ m \notin accepted
               /\ state = "connected"
               /\ accepted' = accepted \cup {m}
               /\ SendInLoop(m)
               /\ UNCHANGED <<inVars, closeVars, loopVars, queue, call>>

UserShutdown == /\ at # "poll"
                /\ state = "connected"
                /\ state' = "disconnecting"
                /\ closer' = LoopThread
                /\ ShutdownInLoop
                /\ UNCHANGED <<outVars, inVars, loopVars, accepted, queue, call>>

\* Send and Shutdown of another thread: state_ is tested, and set by Shutdown,
\* before the functor is queued.
CallSend(t, m) == /\ call[t] = NoCall
                  /\ Sender[m] = t /\ m \notin accepted
                  /\ state = "connected"
                  /\ accepted' = accepted \cup {m}
                  /\ call' = [call EXCEPT ![t] = Functor("send", m)]
                  /\ UNCHANGED <<outVars, inVars, closeVars, loopVars, queue>>

CallShutdown(t) == /\ call[t] = NoCall
                   /\ state = "connected"
                   /\ call' = [call EXCEPT ![t] = Functor("mark", <<>>)]
                   /\ UNCHANGED <<outVars, inVars, closeVars, loopVars, accepted,
                                  queue>>

Mark(t) == /\ call[t].op = "mark"
           /\ state' = "disconnecting"
           /\ closer' = IF closer = None THEN t ELSE closer
           /\ call' = [call EXCEPT ![t] = Functor("shutdown", <<>>)]
           /\ UNCHANGED <<outVars, inVars, loopVars, accepted, shut, queue>>

Post(t) == /\ call[t].op \in {"send", "shutdown"}
           /\ queue' = Append(queue, call[t])
           /\ call' = [call EXCEPT ![t] = NoCall]
           /\ UNCHANGED <<outVars, inVars, closeVars, loopVars, accepted>>
-----------------------------------------------------------------------------
LoopStep == \/ HandleRead \/ HandleWrite \/ WriteRefused
            \/ TakeBatch \/ RunSend \/ RunShutdown \/ EndBatch

UserStep == \/ UserShutdown
            \/ \E m \in Messages : UserSend(m)
            \/ \E t \in Threads : \/ CallShutdown(t)
                                  \/ \E m \in Messages : CallSend(t, m)

Next == \/ Poll
        \/ LoopStep
        \/ UserStep
        \/ \E t \in Threads : Mark(t) \/ Post(t)
        \/ PeerSends

\* The loop runs on, epoll_wait returns when a functor was queued (module
\* EventLoop), and a thread inside Send or Shutdown leaves it. The client keeps
\* reading: again and again there is room to write.
Fairness == /\ WF_vars(LoopStep)
            /\ WF_vars(queue # <<>> /\ Poll)
            /\ SF_vars(Poll /\ "out" \in revents')
            /\ \A t \in Threads : WF_vars(Mark(t)) /\ WF_vars(Post(t))

Spec == Init /\ [][Next]_vars /\ Fairness
-----------------------------------------------------------------------------
Functors == [op : {"send"}, msg : Messages] \cup {Functor("shutdown", <<>>)}

TypeOK == /\ state \in {"connected", "disconnecting"}
          /\ closer \in Callers \cup {None}
          /\ writing \in BOOLEAN
          /\ shut \in BOOLEAN
          /\ wire \in Seq(Byte)
          /\ taken \in Seq(Byte)
          /\ accepted \in SUBSET Messages
          /\ arrived \in Seq(Byte)
          /\ offered \in 0 .. Len(Incoming)
          /\ consumed \in Seq(Byte)
          /\ at \in {"poll", "events", "functors"}
          /\ revents \in SUBSET {"in", "out"}
          /\ queue \in Seq(Functors)
          /\ batch \in Seq(Functors)
          /\ call \in [Threads -> Functors \cup {NoCall, Functor("mark", <<>>)}]

\* The indices of both buffers stay as Buffer.h draws them, whatever mixture of
\* appended, read and retrieved pieces they see: nothing is written outside the
\* vector and no subtraction of indices wraps around.
BuffersOK == IsBuffer(out) /\ IsBuffer(in)

\* The channel asks for POLLOUT exactly while output waits: none is forgotten,
\* and the loop is not woken for nothing.
WritingWhileWaiting == writing <=> Content(out) # <<>>

Output == INSTANCE Pipe WITH Data <- Messages,
                             sent <- taken, received <- wire, closed <- shut

\* What SendInLoop is given goes out in that order, each byte once, whatever
\* part of it is written at once, kept, moved inside the buffer or written
\* later; and the socket is shut down only when all of it is out.
ImplementsOutput == Output!Spec

\* The message callback gets what the client sends, in that order, each byte
\* once, however it retrieves it and whether or not ReadFd needs its extrabuf.
InputInOrder == consumed \o Content(in) \o arrived = Taking(Incoming, offered)

\* Output that waits is written in the end, as long as the client reads and
\* the socket is not shut down.
OutputDrains == (wire # taken) ~> (wire = taken \/ shut)

\* A Shutdown is carried out: the socket is shut down in the end, whether or
\* not output waits when Shutdown comes to look.
ShutInTheEnd == (state = "disconnecting") ~> shut

\* What was sent on the loop's own thread is written before the socket is shut
\* down, whichever thread calls Shutdown and whoever else sends.
LoopSendsArrive ==
    shut => \A m \in accepted :
               Sender[m] = LoopThread => Elements(m) \subseteq Elements(wire)

\* Shutdown closes the connection gracefully: what a thread sent before it
\* called Shutdown is written before the socket is shut down.
GracefulShutdown ==
    shut => \A m \in accepted :
               Sender[m] = closer => Elements(m) \subseteq Elements(wire)
=============================================================================
