--------------------------- MODULE TcpServerProofs ---------------------------
(***************************************************************************)
(* Proofs about module TcpServer, for any connections, any programs, any   *)
(* number of loops and any bounds.                                         *)
(***************************************************************************)
EXTENDS TcpServer, SequenceTheorems, TLAPS

\* The functors on their way to loop l.
OnWay(l) == Entries(queue[l]) \cup Entries(batch[l])

LEMMA EntriesOfAppend ==
    ASSUME NEW S, NEW s \in Seq(S), NEW f \in S
    PROVE  Append(s, f) \in Seq(S) /\ Entries(Append(s, f)) = Entries(s) \cup {f}
  <1>1. Append(s, f) \in Seq(S) /\ Len(Append(s, f)) = Len(s) + 1
        /\ \A i \in 1 .. Len(s) : Append(s, f)[i] = s[i]
        /\ Append(s, f)[Len(s) + 1] = f
    BY AppendProperties
  <1>2. DOMAIN s = 1 .. Len(s) /\ DOMAIN Append(s, f) = 1 .. Len(s) + 1 /\ Len(s) \in Nat
    BY <1>1
  <1>3. ASSUME NEW x \in Entries(Append(s, f))
        PROVE  x \in Entries(s) \cup {f}
    BY <1>1, <1>2 DEF Entries
  <1>4. ASSUME NEW x \in Entries(s) \cup {f}
        PROVE  x \in Entries(Append(s, f))
    <2>1. CASE x \in Entries(s)
      BY <1>1, <1>2, <2>1 DEF Entries
    <2>2. CASE x = f
      <3>1. Len(s) + 1 \in DOMAIN Append(s, f)
        BY <1>2
      <3>2. QED BY <1>1, <2>2, <3>1 DEF Entries
    <2>3. QED BY <2>1, <2>2
  <1>5. QED BY <1>1, <1>3, <1>4

LEMMA EntriesOfTail ==
    ASSUME NEW S, NEW s \in Seq(S), s # <<>>
    PROVE  /\ Tail(s) \in Seq(S)
           /\ Head(s) \in S
           /\ Entries(s) = Entries(Tail(s)) \cup {Head(s)}
  <1>1. /\ Tail(s) \in Seq(S) /\ Head(s) \in S /\ Head(s) = s[1]
        /\ Len(s) \in Nat \ {0} /\ DOMAIN s = 1 .. Len(s)
        /\ DOMAIN Tail(s) = 1 .. Len(s) - 1
        /\ \A i \in 1 .. Len(s) - 1 : Tail(s)[i] = s[i + 1]
    OBVIOUS
  <1>2. ASSUME NEW x \in Entries(s)
        PROVE  x \in Entries(Tail(s)) \cup {Head(s)}
    <2>1. PICK i \in 1 .. Len(s) : x = s[i]
      BY <1>1 DEF Entries
    <2>2. CASE i = 1
      BY <1>1, <2>1, <2>2
    <2>3. CASE i # 1
      <3>1. i - 1 \in 1 .. Len(s) - 1 /\ x = Tail(s)[i - 1]
        BY <1>1, <2>1, <2>3
      <3>2. QED BY <1>1, <3>1 DEF Entries
    <2>4. QED BY <2>2, <2>3
  <1>3. ASSUME NEW x \in Entries(Tail(s)) \cup {Head(s)}
        PROVE  x \in Entries(s)
    BY <1>1 DEF Entries
  <1>4. QED BY <1>1, <1>2, <1>3

LEMMA EntriesOfEmpty == Entries(<<>>) = {}
  BY DEF Entries

LEMMA EntriesHaveType ==
    ASSUME NEW S, NEW s \in Seq(S)
    PROVE  Entries(s) \subseteq S
  BY DEF Entries
-----------------------------------------------------------------------------
(* Types.                                                                  *)

\* A loop is busy with a connection in the phases below, and in no other.
WithConn == UserCode \cup {"channel"}
CurInv == \A l \in Loops : cur[l] \in Conns <=> at[l] \in WithConn

\* next_ is a loop of the pool.
NextInv == program.pool > 0 => next \in 1 .. program.pool

Types == TypeOK /\ CurInv /\ NextInv

LEMMA ProgramTypes ==
    ASSUME TypeOK
    PROVE  /\ program.pool \in 0 .. MaxPool /\ program.clients \subseteq Conns
           /\ program.ops \subseteq Ops /\ program.pool \in Nat
  BY ProgramAssumption, PoolAssumption DEF TypeOK

LEMMA UpdateChannelTypes ==
    ASSUME TypeOK, NEW c \in Conns, NEW ev \in SUBSET {"read", "write"},
           UpdateChannel(c, ev)
    PROVE  /\ events' \in [Conns -> SUBSET {"read", "write"}]
           /\ index' \in [Conns -> {"new", "added", "deleted"}]
  BY DEF TypeOK, UpdateChannel

LEMMA QueueTypes ==
    ASSUME TypeOK, NEW l \in Loops, NEW f \in Functors, QueueInLoop(l, f)
    PROVE  queue' \in [Loops -> Seq(Functors)]
  <1>1. Append(queue[l], f) \in Seq(Functors)
    BY EntriesOfAppend DEF TypeOK
  <1>2. QED BY <1>1 DEF TypeOK, QueueInLoop

LEMMA FunctorTypes ==
    ASSUME NEW c \in Conns, NEW o \in OwningOps \cup RawOps
    PROVE  Functor(o, c) \in Functors /\ Functor(o, c).op = o /\ Functor(o, c).conn = c
  BY DEF Functor, Functors

LEMMA FunctorOps ==
    /\ "established" \in OwningOps /\ "remove" \in OwningOps
    /\ "destroyed" \in OwningOps /\ "writeComplete" \in OwningOps
    /\ "send" \in RawOps /\ "shutdown" \in RawOps
    /\ "send" \notin OwningOps /\ "shutdown" \notin OwningOps
    /\ "idle" \notin OwningOps \cup RawOps /\ "mark" \notin OwningOps \cup RawOps
  BY DEF OwningOps, RawOps

LEMMA RemoveConnectionTypes ==
    ASSUME TypeOK, NEW c \in Conns, RemoveConnection(c)
    PROVE  /\ connections' \in SUBSET Conns
           /\ queue' \in [Loops -> Seq(Functors)]
           /\ fault' \in {"none", "assert", "freed"}
  <1>1. loopOf[c] \in Loops /\ 0 \in Loops
    BY PoolAssumption DEF TypeOK, Loops
  <1>2. Functor("destroyed", c) \in Functors /\ Functor("remove", c) \in Functors
    BY FunctorTypes, FunctorOps
  <1>3. CASE loopOf[c] = 0
    <2>1. RemoveConnectionInLoop(c)
      BY <1>3 DEF RemoveConnection
    <2>2. queue' \in [Loops -> Seq(Functors)]
      BY <1>1, <1>2, <2>1, QueueTypes DEF RemoveConnectionInLoop
    <2>3. QED BY <2>1, <2>2 DEF RemoveConnectionInLoop, Assert, TypeOK
  <1>4. CASE loopOf[c] # 0
    <2>1. QueueInLoop(0, Functor("remove", c)) /\ UNCHANGED <<connections, fault>>
      BY <1>4 DEF RemoveConnection
    <2>2. QED BY <1>1, <1>2, <2>1, QueueTypes DEF TypeOK
  <1>5. QED BY <1>3, <1>4

LEMMA HandleCloseTypes ==
    ASSUME TypeOK, NEW c \in Conns, HandleClose(c)
    PROVE  /\ events' \in [Conns -> SUBSET {"read", "write"}]
           /\ index' \in [Conns -> {"new", "added", "deleted"}]
           /\ connections' \in SUBSET Conns
           /\ queue' \in [Loops -> Seq(Functors)]
           /\ fault' \in {"none", "assert", "freed"}
  <1>1. CASE UpdateChannel(c, {}) /\ RemoveConnection(c)
    BY <1>1, UpdateChannelTypes, RemoveConnectionTypes
  <1>2. CASE fault' \in {"assert", "freed"} /\ UNCHANGED <<chanVars, connections, queue>>
    BY <1>2 DEF TypeOK, chanVars
  <1>3. QED BY <1>1, <1>2 DEF HandleClose

LEMMA SendTypes ==
    ASSUME TypeOK, NEW c \in Conns, SendInLoop(c)
    PROVE  /\ events' \in [Conns -> SUBSET {"read", "write"}]
           /\ index' \in [Conns -> {"new", "added", "deleted"}]
           /\ queue' \in [Loops -> Seq(Functors)]
           /\ out' \in [Conns -> BOOLEAN]
           /\ wc' \in [Conns -> BOOLEAN]
  <1>1. loopOf[c] \in Loops /\ Functor("writeComplete", c) \in Functors
    BY FunctorTypes, FunctorOps DEF TypeOK
  <1>2. CASE /\ wc' = [wc EXCEPT ![c] = FALSE]
             /\ \/ QueueInLoop(loopOf[c], Functor("writeComplete", c))
                \/ UNCHANGED queue
             /\ UNCHANGED <<chanVars, out>>
    <2>1. queue' \in [Loops -> Seq(Functors)]
      BY <1>1, <1>2, QueueTypes DEF TypeOK
    <2>2. QED BY <1>2, <2>1 DEF TypeOK, chanVars
  <1>3. CASE /\ out' = [out EXCEPT ![c] = TRUE]
             /\ \/ UNCHANGED chanVars
                \/ UpdateChannel(c, events[c] \cup {"write"})
             /\ UNCHANGED <<wc, queue>>
    <2>1. events[c] \cup {"write"} \in SUBSET {"read", "write"}
      BY DEF TypeOK
    <2>2. QED BY <1>3, <2>1, UpdateChannelTypes DEF TypeOK, chanVars
  <1>4. QED BY <1>2, <1>3 DEF SendInLoop

LEMMA RunTypes ==
    ASSUME TypeOK, NEW l \in Loops, NEW c \in Conns, NEW o, Run(l, Functor(o, c))
    PROVE  /\ batch' \in [Loops -> Seq(Functors)]
           /\ held' \in [Loops -> SUBSET Conns]
  <1>1. Tail(batch[l]) \in Seq(Functors)
    BY EntriesOfTail DEF TypeOK, Run
  <1>2. Functor(o, c).conn = c
    BY DEF Functor
  <1>3. QED BY <1>1, <1>2 DEF TypeOK, Run

\* What a step of Next leaves alone beside what its action does.
Step == /\ UNCHANGED program
        /\ server' \in {"running", "quit", "ending"}

LEMMA Kinds ==
    /\ {"up", "message", "down", "writeComplete", "channel"} = WithConn
    /\ "poll" \notin WithConn /\ "events" \notin WithConn
    /\ "functors" \notin WithConn /\ "stopped" \notin WithConn
  BY DEF WithConn, UserCode

LEMMA PollTypes ==
    ASSUME Types, NEW l \in Loops, Poll(l), Step
    PROVE  Types'
  <1>1. /\ revents' \in [Conns -> SUBSET {"in", "out", "hup", "err"}]
        /\ active' \in [Loops -> SUBSET Conns]
    BY DEF Types, TypeOK, Poll, Ready, Registered
  <1>2. CurInv'
    BY Kinds DEF Types, TypeOK, CurInv, Poll
  <1>3. QED BY <1>1, <1>2 DEF Types, TypeOK, NextInv, Step, Poll, serverVars, connVars,
                              chanVars, userVars

LEMMA StartEventTypes ==
    ASSUME Types, NEW l \in Loops, StartEvent(l), Step
    PROVE  Types'
  <1>1. /\ active' \in [Loops -> SUBSET Conns]
        /\ cur' \in [Loops -> Conns \cup {None}]
        /\ CurInv'
    BY Kinds, NoneAssumption DEF Types, TypeOK, CurInv, StartEvent
  <1>2. fault' \in {"none", "assert", "freed"}
    BY DEF Types, TypeOK, StartEvent
  <1>3. QED BY <1>1, <1>2 DEF Types, TypeOK, NextInv, Step, StartEvent, serverVars,
                              connVars, chanVars, userVars

LEMMA HandledTypes ==
    ASSUME TypeOK, NEW l \in Loops, NEW es, Handled(l, es)
    PROVE  revents' \in [Conns -> SUBSET {"in", "out", "hup", "err"}]
  BY DEF TypeOK, Handled

\* HupEvent and ReadEof.
LEMMA CloseEventTypes ==
    ASSUME Types, NEW l \in Loops, HupEvent(l) \/ ReadEof(l), Step
    PROVE  Types'
  <1>1. cur[l] \in Conns
    BY Kinds DEF Types, CurInv, HupEvent, ReadEof
  <1>2. revents' \in [Conns -> SUBSET {"in", "out", "hup", "err"}]
    BY HandledTypes DEF Types, HupEvent, ReadEof
  <1>3. HandleClose(cur[l]) /\ UNCHANGED <<connVars, userVars, peer, next, loopOf, at,
                                           active, cur, batch, held>>
    BY DEF HupEvent, ReadEof
  <1>4. CurInv'
    BY <1>3 DEF Types, CurInv
  <1>5. /\ events' \in [Conns -> SUBSET {"read", "write"}]
        /\ index' \in [Conns -> {"new", "added", "deleted"}]
        /\ connections' \in SUBSET Conns
        /\ queue' \in [Loops -> Seq(Functors)]
        /\ fault' \in {"none", "assert", "freed"}
    BY <1>1, <1>3, HandleCloseTypes DEF Types
  <1>6. QED BY <1>2, <1>3, <1>4, <1>5 DEF Types, TypeOK, NextInv, Step, connVars, userVars

LEMMA ReadTypes ==
    ASSUME Types, NEW l \in Loops, ReadMessage(l) \/ ReadError(l) \/ WriteSome(l), Step
    PROVE  Types'
  <1>1. revents' \in [Conns -> SUBSET {"in", "out", "hup", "err"}]
    BY HandledTypes DEF Types, ReadMessage, ReadError, WriteSome
  <1>2. /\ (at' = [at EXCEPT ![l] = "message"] /\ at[l] = "channel") \/ at' = at
        /\ UNCHANGED <<serverVars, connVars, chanVars, userVars, peer, queue, fault,
                       active, cur, batch, held>>
    BY DEF ReadMessage, ReadError, WriteSome
  <1>3. CurInv' /\ at' \in [Loops -> UserCode \cup {"poll", "events", "channel", "functors",
                                                    "stopped"}]
    BY <1>2, Kinds, ZenonT(30) DEF Types, TypeOK, CurInv, UserCode
  <1>4. QED BY <1>1, <1>2, <1>3 DEF Types, TypeOK, NextInv, Step, serverVars, connVars,
                                    chanVars, userVars

LEMMA WriteRestTypes ==
    ASSUME Types, NEW l \in Loops, WriteRest(l), Step
    PROVE  Types'
  <1>1. cur[l] \in Conns
    BY Kinds DEF Types, CurInv, WriteRest, Writable
  <1>2. revents' \in [Conns -> SUBSET {"in", "out", "hup", "err"}]
    BY HandledTypes DEF Types, WriteRest
  <1>3. events[cur[l]] \ {"write"} \in SUBSET {"read", "write"}
    BY <1>1 DEF Types, TypeOK
  <1>4. /\ events' \in [Conns -> SUBSET {"read", "write"}]
        /\ index' \in [Conns -> {"new", "added", "deleted"}]
    BY <1>1, <1>3, UpdateChannelTypes DEF Types, WriteRest
  <1>5. queue' \in [Loops -> Seq(Functors)]
    <2>1. Functor("writeComplete", cur[l]) \in Functors
      BY <1>1, FunctorTypes, FunctorOps
    <2>2. CASE QueueInLoop(l, Functor("writeComplete", cur[l]))
      BY <2>1, <2>2, QueueTypes DEF Types
    <2>3. CASE UNCHANGED queue
      BY <2>3 DEF Types, TypeOK
    <2>4. QED BY <2>2, <2>3 DEF WriteRest
  <1>6. out' \in [Conns -> BOOLEAN] /\ shut' \in [Conns -> BOOLEAN]
    BY <1>1 DEF Types, TypeOK, WriteRest
  <1>7. CurInv'
    BY DEF Types, CurInv, WriteRest
  <1>8. QED BY <1>2, <1>4, <1>5, <1>6, <1>7 DEF Types, TypeOK, NextInv, Step, WriteRest,
                                                serverVars, userVars

LEMMA EndEventTypes ==
    ASSUME Types, NEW l \in Loops, EndEvent(l), Step
    PROVE  Types'
  <1>1. /\ revents' \in [Conns -> SUBSET {"in", "out", "hup", "err"}]
        /\ cur' \in [Loops -> Conns \cup {None}]
        /\ CurInv'
    BY Kinds, NoneAssumption DEF Types, TypeOK, CurInv, EndEvent
  <1>2. QED BY <1>1 DEF Types, TypeOK, NextInv, Step, EndEvent, serverVars, connVars,
                        chanVars, userVars

LEMMA NewConnectionTypes ==
    ASSUME Types, NEW c \in Conns, NewConnection(c), Step
    PROVE  Types'
  <1>1. /\ program.pool \in 0 .. MaxPool /\ program.pool \in Nat
        /\ 0 \in Loops /\ NextLoop \in Loops
    BY ProgramTypes, PoolAssumption, SMTT(30) DEF Types, NextInv, NextLoop, Loops, TypeOK
  <1>2. /\ loopOf' \in [Conns -> Loops]
        /\ connections' \in SUBSET Conns
        /\ next' \in Nat
        /\ wc' \in [Conns -> BOOLEAN]
    BY <1>1 DEF Types, TypeOK, NewConnection
  <1>3. NextInv'
    BY <1>1 DEF Types, NextInv, TypeOK, NewConnection, Step
  <1>4. CASE ConnEstablished(0, c) /\ UNCHANGED queue
    <2>1. /\ state' = [state EXCEPT ![c] = "connected"]
          /\ UpdateChannel(c, {"read"})
          /\ cur' = [cur EXCEPT ![0] = c]
          /\ at' = [at EXCEPT ![0] = "up"]
      BY <1>4 DEF ConnEstablished
    <2>2. /\ events' \in [Conns -> SUBSET {"read", "write"}]
          /\ index' \in [Conns -> {"new", "added", "deleted"}]
      BY <2>1, UpdateChannelTypes DEF Types
    <2>3. /\ at' \in [Loops -> UserCode \cup {"poll", "events", "channel", "functors",
                                              "stopped"}]
          /\ cur' \in [Loops -> Conns \cup {None}]
          /\ state' \in [Conns -> States]
          /\ CurInv'
      BY <1>1, <2>1, Kinds DEF Types, TypeOK, CurInv, UserCode, States
    <2>4. QED BY <1>2, <1>3, <1>4, <2>2, <2>3 DEF Types, TypeOK, Step, NewConnection, userVars
  <1>5. CASE /\ state' = [state EXCEPT ![c] = "connecting"]
             /\ QueueInLoop(NextLoop, Functor("established", c))
             /\ UNCHANGED <<chanVars, cur, at>>
    <2>1. queue' \in [Loops -> Seq(Functors)]
      BY <1>1, <1>5, QueueTypes, FunctorTypes, FunctorOps DEF Types
    <2>2. state' \in [Conns -> States] /\ CurInv'
      BY <1>5 DEF Types, TypeOK, States, CurInv
    <2>3. QED BY <1>2, <1>3, <1>5, <2>1, <2>2 DEF Types, TypeOK, Step, NewConnection,
                                                  userVars, chanVars
  <1>6. QED BY <1>4, <1>5 DEF NewConnection

LEMMA CloseTimerTypes ==
    ASSUME Types, NEW l \in Loops, NEW c \in Conns, CloseTimer(l, c), Step
    PROVE  Types'
  <1>1. timers' \in [Conns -> 0 .. MaxTimers]
    BY BoundAssumption DEF Types, TypeOK, CloseTimer
  <1>2. /\ events' \in [Conns -> SUBSET {"read", "write"}]
        /\ index' \in [Conns -> {"new", "added", "deleted"}]
        /\ connections' \in SUBSET Conns
        /\ queue' \in [Loops -> Seq(Functors)]
        /\ fault' \in {"none", "assert", "freed"}
    BY HandleCloseTypes DEF Types, CloseTimer
  <1>3. QED BY <1>1, <1>2 DEF Types, TypeOK, CurInv, NextInv, Step, CloseTimer, connVars,
                              loopVars

LEMMA BatchTypes ==
    ASSUME Types, NEW l \in Loops, TakeBatch(l) \/ EndBatch(l), Step
    PROVE  Types'
  <1>1. /\ at' = [at EXCEPT ![l] = "poll"] \/ at' = [at EXCEPT ![l] = "functors"]
        /\ at[l] \notin WithConn
        /\ UNCHANGED <<serverVars, connVars, chanVars, userVars, peer, fault, active, cur,
                       revents>>
    BY Kinds DEF TakeBatch, EndBatch
  <1>2. CurInv' /\ at' \in [Loops -> UserCode \cup {"poll", "events", "channel", "functors",
                                                    "stopped"}]
    <2>1. CASE at' = [at EXCEPT ![l] = "poll"]
      BY <1>1, <2>1, Kinds DEF Types, TypeOK, CurInv
    <2>2. CASE at' = [at EXCEPT ![l] = "functors"]
      BY <1>1, <2>2, Kinds DEF Types, TypeOK, CurInv
    <2>3. QED BY <1>1, <2>1, <2>2
  <1>3. queue' \in [Loops -> Seq(Functors)] /\ batch' \in [Loops -> Seq(Functors)]
        /\ held' \in [Loops -> SUBSET Conns]
    <2>1. CASE TakeBatch(l)
      <3>1. <<>> \in Seq(Functors) /\ queue[l] \in Seq(Functors)
        BY DEF Types, TypeOK
      <3>2. QED BY <2>1, <3>1 DEF Types, TypeOK, TakeBatch
    <2>2. CASE EndBatch(l)
      BY <2>2 DEF Types, TypeOK, EndBatch
    <2>3. QED BY <2>1, <2>2
  <1>4. QED BY <1>1, <1>2, <1>3 DEF Types, TypeOK, NextInv, Step, serverVars, connVars,
                                    chanVars, userVars

\* The functors that end in a callback of the users.
LEMMA RunConnTypes ==
    ASSUME Types, NEW l \in Loops, NEW c \in Conns, Step,
           RunEstablished(l, c) \/ RunDestroyed(l, c) \/ RunWriteComplete(l, c)
    PROVE  Types'
  <1>1. /\ at[l] = "functors"
        /\ \E a \in {"up", "down", "writeComplete"} : at' = [at EXCEPT ![l] = a]
        /\ cur' = [cur EXCEPT ![l] = c]
        /\ UNCHANGED <<serverVars, userVars, peer, queue, out, wc, shut, active, revents>>
    BY DEF RunEstablished, RunDestroyed, RunWriteComplete, ConnEstablished, Run, connVars
  <1>2. /\ at' \in [Loops -> UserCode \cup {"poll", "events", "channel", "functors",
                                            "stopped"}]
        /\ cur' \in [Loops -> Conns \cup {None}]
        /\ CurInv'
    BY <1>1, Kinds DEF Types, TypeOK, CurInv, UserCode
  <1>3. batch' \in [Loops -> Seq(Functors)] /\ held' \in [Loops -> SUBSET Conns]
    BY RunTypes DEF Types, RunEstablished, RunDestroyed, RunWriteComplete
  <1>4. state' \in [Conns -> States] /\ fault' \in {"none", "assert", "freed"}
    BY DEF Types, TypeOK, States, RunEstablished, RunDestroyed, RunWriteComplete,
           ConnEstablished, Assert, connVars
  <1>5. /\ events' \in [Conns -> SUBSET {"read", "write"}]
        /\ index' \in [Conns -> {"new", "added", "deleted"}]
    <2>1. CASE UpdateChannel(c, {"read"})
      BY <2>1, UpdateChannelTypes DEF Types
    <2>2. CASE UpdateChannel(c, {})
      BY <2>2, UpdateChannelTypes DEF Types
    <2>3. CASE UNCHANGED chanVars
      BY <2>3 DEF Types, TypeOK, chanVars
    <2>4. QED BY <2>1, <2>2, <2>3 DEF RunEstablished, RunDestroyed, RunWriteComplete,
                                      ConnEstablished
  <1>6. QED BY <1>1, <1>2, <1>3, <1>4, <1>5 DEF Types, TypeOK, NextInv, Step, serverVars,
                                                userVars

LEMMA RunRemoveTypes ==
    ASSUME Types, NEW l \in Loops, NEW c \in Conns, RunRemove(l, c), Step
    PROVE  Types'
  <1>1. batch' \in [Loops -> Seq(Functors)] /\ held' \in [Loops -> SUBSET Conns]
    BY RunTypes DEF Types, RunRemove
  <1>2. queue' \in [Loops -> Seq(Functors)]
    <2>1. loopOf[c] \in Loops /\ Functor("destroyed", c) \in Functors
      BY FunctorTypes, FunctorOps DEF Types, TypeOK
    <2>2. QED BY <2>1, QueueTypes DEF Types, RunRemove, RemoveConnectionInLoop
  <1>3. connections' \in SUBSET Conns /\ fault' \in {"none", "assert", "freed"}
    BY DEF Types, TypeOK, RunRemove, RemoveConnectionInLoop, Assert
  <1>4. QED BY <1>1, <1>2, <1>3 DEF Types, TypeOK, CurInv, NextInv, Step, RunRemove,
                                    connVars, chanVars, userVars

LEMMA RunSendTypes ==
    ASSUME Types, NEW l \in Loops, NEW c \in Conns, RunSend(l, c), Step
    PROVE  Types'
  <1>1. batch' \in [Loops -> Seq(Functors)] /\ held' \in [Loops -> SUBSET Conns]
    BY RunTypes DEF Types, RunSend
  <1>2. /\ events' \in [Conns -> SUBSET {"read", "write"}]
        /\ index' \in [Conns -> {"new", "added", "deleted"}]
        /\ queue' \in [Loops -> Seq(Functors)]
        /\ out' \in [Conns -> BOOLEAN]
        /\ wc' \in [Conns -> BOOLEAN]
    <2>1. CASE SendInLoop(c)
      BY <2>1, SendTypes DEF Types
    <2>2. CASE UNCHANGED <<chanVars, out, wc, queue>>
      BY <2>2 DEF Types, TypeOK, chanVars
    <2>3. QED BY <2>1, <2>2 DEF RunSend
  <1>3. fault' \in {"none", "assert", "freed"}
    BY DEF Types, TypeOK, RunSend
  <1>4. QED BY <1>1, <1>2, <1>3 DEF Types, TypeOK, CurInv, NextInv, Step, RunSend,
                                    serverVars, userVars

LEMMA ShutTypes ==
    ASSUME TypeOK, NEW c \in Conns, ShutdownInLoop(c)
    PROVE  shut' \in [Conns -> BOOLEAN]
  BY DEF TypeOK, ShutdownInLoop

LEMMA RunShutdownTypes ==
    ASSUME Types, NEW l \in Loops, NEW c \in Conns, RunShutdown(l, c), Step
    PROVE  Types'
  <1>1. batch' \in [Loops -> Seq(Functors)] /\ held' \in [Loops -> SUBSET Conns]
    BY RunTypes DEF Types, RunShutdown
  <1>2. shut' \in [Conns -> BOOLEAN]
    BY ShutTypes DEF Types, TypeOK, RunShutdown
  <1>3. fault' \in {"none", "assert", "freed"}
    BY DEF Types, TypeOK, RunShutdown
  <1>4. QED BY <1>1, <1>2, <1>3 DEF Types, TypeOK, CurInv, NextInv, Step, RunShutdown,
                                    serverVars, chanVars, userVars

LEMMA UserSendTypes ==
    ASSUME Types, NEW l \in Loops, NEW c \in Conns, UserSend(l, c), Step
    PROVE  Types'
  <1>1. /\ events' \in [Conns -> SUBSET {"read", "write"}]
        /\ index' \in [Conns -> {"new", "added", "deleted"}]
        /\ queue' \in [Loops -> Seq(Functors)]
        /\ out' \in [Conns -> BOOLEAN]
        /\ wc' \in [Conns -> BOOLEAN]
    BY SendTypes DEF Types, UserSend
  <1>2. QED BY <1>1 DEF Types, TypeOK, CurInv, NextInv, Step, UserSend, serverVars,
                        loopVars, userVars

LEMMA UserShutdownTypes ==
    ASSUME Types, NEW l \in Loops, NEW c \in Conns, UserShutdown(l, c), Step
    PROVE  Types'
  <1>1. shut' \in [Conns -> BOOLEAN]
    BY ShutTypes DEF Types, UserShutdown
  <1>2. state' \in [Conns -> States]
    BY DEF Types, TypeOK, States, UserShutdown
  <1>3. QED BY <1>1, <1>2 DEF Types, TypeOK, CurInv, NextInv, Step, UserShutdown,
                              serverVars, chanVars, loopVars, userVars

LEMMA UserReturnTypes ==
    ASSUME Types, NEW l \in Loops, UserReturn(l), Step
    PROVE  Types'
  <1>1. /\ at' \in [Loops -> UserCode \cup {"poll", "events", "channel", "functors",
                                            "stopped"}]
        /\ cur' \in [Loops -> Conns \cup {None}]
    BY DEF Types, TypeOK, UserReturn
  <1>2. CurInv'
    <2>1. CASE at[l] = "message"
      <3>1. at' = [at EXCEPT ![l] = "channel"] /\ cur' = [cur EXCEPT ![l] = cur[l]]
        BY <2>1 DEF Types, TypeOK, UserReturn
      <3>2. cur[l] \in Conns
        BY <2>1, Kinds DEF Types, CurInv
      <3>3. QED BY <3>1, <3>2, Kinds DEF Types, TypeOK, CurInv
    <2>2. CASE at[l] # "message"
      <3>1. /\ at' = [at EXCEPT ![l] = "events"] \/ at' = [at EXCEPT ![l] = "functors"]
            /\ cur' = [cur EXCEPT ![l] = None]
        BY <2>2 DEF Types, TypeOK, UserReturn
      <3>2. at'[l] \notin WithConn /\ cur'[l] \notin Conns
        BY <3>1, Kinds, NoneAssumption DEF Types, TypeOK
      <3>3. \A k \in Loops \ {l} : at'[k] = at[k] /\ cur'[k] = cur[k]
        BY <3>1 DEF Types, TypeOK
      <3>4. QED BY <3>2, <3>3 DEF Types, CurInv
    <2>3. QED BY <2>1, <2>2
  <1>3. /\ index' \in [Conns -> {"new", "added", "deleted"}]
        /\ fault' \in {"none", "assert", "freed"}
    <2>1. CASE at[l] = "down"
      BY <2>1 DEF Types, TypeOK, UserReturn, Assert
    <2>2. CASE at[l] # "down"
      <3>1. Assert(ChannelIdle(cur[l])') /\ UNCHANGED index
        BY <2>2 DEF UserReturn
      <3>2. fault' = fault \/ fault' = "assert"
        BY <3>1 DEF Assert
      <3>3. QED BY <3>1, <3>2 DEF Types, TypeOK
    <2>3. QED BY <2>1, <2>2
  <1>4. QED BY <1>1, <1>2, <1>3 DEF Types, TypeOK, NextInv, Step, UserReturn, serverVars,
                                    connVars, userVars

\* What users do to their pointers and timers.
LEMMA UserKeepTypes ==
    ASSUME Types, NEW l \in Loops, NEW c \in Conns, Step,
           UserClose(l, c) \/ UserHold(l) \/ UserDrop(c)
    PROVE  Types'
  <1>1. UserHold(l) => cur[l] \in Conns
    BY Kinds DEF Types, CurInv, UserHold, WithConn
  <1>2. refs' \in SUBSET Conns
    BY <1>1 DEF Types, TypeOK, UserClose, UserHold, UserDrop
  <1>3. timers' \in [Conns -> 0 .. MaxTimers]
    <2>1. CASE UserClose(l, c)
      <3>1. timers[c] + 1 \in 0 .. MaxTimers
        BY <2>1, BoundAssumption DEF Types, TypeOK, UserClose
      <3>2. QED BY <2>1, <3>1 DEF Types, TypeOK, UserClose
    <2>2. CASE UserHold(l) \/ UserDrop(c)
      BY <2>2 DEF Types, TypeOK, UserHold, UserDrop
    <2>3. QED BY <2>1, <2>2
  <1>4. UNCHANGED <<serverVars, connVars, chanVars, loopVars, peer, queue, fault, worker>>
    BY DEF UserClose, UserHold, UserDrop
  <1>5. QED BY <1>2, <1>3, <1>4 DEF Types, TypeOK, CurInv, NextInv, Step, serverVars,
                                    connVars, chanVars, loopVars

LEMMA WorkerTypes ==
    ASSUME Types, Step,
           \/ \E o \in {"send", "mark"}, c \in Conns : WorkerCall(o, c)
           \/ WorkerMark
           \/ WorkerPost
    PROVE  Types'
  <1>1. worker.op = "mark" \/ worker.op \in RawOps =>
            worker.conn \in Conns /\ worker \in [op : RawOps \cup {"mark"}, conn : Conns]
    BY FunctorOps DEF Types, TypeOK, NoCall, Functor
  <1>2. CASE \E o \in {"send", "mark"}, c \in Conns : WorkerCall(o, c)
    <2>1. worker' \in [op : RawOps \cup {"mark"}, conn : Conns]
      BY <1>2, FunctorOps DEF WorkerCall, Functor
    <2>2. UNCHANGED <<serverVars, connVars, chanVars, loopVars, peer, queue, fault, refs,
                      timers>>
      BY <1>2 DEF WorkerCall
    <2>3. QED BY <2>1, <2>2 DEF Types, TypeOK, CurInv, NextInv, Step, serverVars, connVars,
                                chanVars, loopVars
  <1>3. CASE WorkerMark
    <2>1. worker' \in [op : RawOps \cup {"mark"}, conn : Conns]
      BY <1>1, <1>3, FunctorOps DEF WorkerMark
    <2>2. state' \in [Conns -> States]
      BY <1>3 DEF Types, TypeOK, States, WorkerMark
    <2>3. QED BY <1>3, <2>1, <2>2 DEF WorkerMark, Types, TypeOK, CurInv, NextInv, Step,
                                      serverVars, chanVars, loopVars
  <1>4. CASE WorkerPost
    <2>1. worker' = NoCall
      BY <1>4 DEF WorkerPost
    <2>2. queue' \in [Loops -> Seq(Functors)] /\ fault' \in {"none", "assert", "freed"}
      <3>1. worker \in Functors /\ loopOf[worker.conn] \in Loops
        BY <1>1, <1>4 DEF WorkerPost, Types, TypeOK, Functors
      <3>2. CASE QueueInLoop(loopOf[worker.conn], worker) /\ UNCHANGED fault
        BY <3>1, <3>2, QueueTypes DEF Types, TypeOK
      <3>3. CASE fault' = "freed" /\ UNCHANGED queue
        BY <3>3 DEF Types, TypeOK
      <3>4. QED BY <1>4, <3>2, <3>3 DEF WorkerPost
    <2>3. QED BY <1>4, <2>1, <2>2 DEF WorkerPost, Types, TypeOK, CurInv, NextInv, Step,
                                      serverVars, connVars, chanVars, loopVars
  <1>5. QED BY <1>2, <1>3, <1>4

LEMMA PeerTypes ==
    ASSUME Types, NEW c \in Conns, PeerCloses(c) \/ PeerResets(c), Step
    PROVE  Types'
  <1>1. peer' \in [Conns -> {"open", "fin", "reset"}]
    <2>1. peer \in [Conns -> {"open", "fin", "reset"}]
      BY DEF Types, TypeOK
    <2>2. \E x \in {"fin", "reset"} : peer' = [peer EXCEPT ![c] = x]
      BY DEF PeerCloses, PeerResets
    <2>3. QED BY <2>1, <2>2
  <1>2. UNCHANGED <<serverVars, connVars, chanVars, loopVars, userVars, queue, fault>>
    BY DEF PeerCloses, PeerResets
  <1>3. QED BY <1>1, <1>2 DEF Types, TypeOK, CurInv, NextInv, Step, serverVars, connVars,
                              chanVars, loopVars, userVars

LEMMA EndTypes ==
    ASSUME Types, EndStep, Step
    PROVE  Types'
  <1>1. CASE QuitBase \/ Destroy
    BY <1>1 DEF QuitBase, Destroy, Types, TypeOK, CurInv, NextInv, Step, serverVars,
                connVars, chanVars, loopVars, userVars
  <1>2. ASSUME NEW c \in Conns, DropConnection(c)
        PROVE  Types'
    <2>1. connections' \in SUBSET Conns
      BY <1>2 DEF DropConnection, Types, TypeOK
    <2>2. fault' \in {"none", "assert", "freed"}
      <3>1. Assert(ChannelIdle(c)')
        BY <1>2 DEF DropConnection
      <3>2. fault' = fault \/ fault' = "assert"
        BY <3>1 DEF Assert
      <3>3. QED BY <3>2 DEF Types, TypeOK
    <2>3. QED BY <1>2, <2>1, <2>2 DEF DropConnection, Types, TypeOK, CurInv, NextInv, Step,
                                      connVars, chanVars, loopVars, userVars
  <1>3. ASSUME NEW l \in Loops, StopLoop(l)
        PROVE  Types'
    <2>1. /\ at' \in [Loops -> UserCode \cup {"poll", "events", "channel", "functors",
                                              "stopped"}]
          /\ queue' \in [Loops -> Seq(Functors)]
      BY <1>3 DEF StopLoop, Types, TypeOK
    <2>2. CurInv'
      BY <1>3, Kinds DEF StopLoop, Types, TypeOK, CurInv
    <2>3. QED BY <1>3, <2>1, <2>2 DEF StopLoop, Types, TypeOK, NextInv, Step, serverVars,
                                      connVars, chanVars, userVars
  <1>4. QED BY <1>1, <1>2, <1>3 DEF EndStep

LEMMA TypesKept ==
    ASSUME Types, [Next]_vars
    PROVE  Types'
  <1>1. CASE UNCHANGED vars
    BY <1>1 DEF vars, Types, TypeOK, CurInv, NextInv, serverVars, connVars, chanVars,
                loopVars, userVars
  <1>2. CASE Next
    <2>1. Step
      BY <1>2 DEF Next, EndStep, QuitBase, Destroy, DropConnection, StopLoop, Step, Types,
                  TypeOK, serverVars
    <2>2. ASSUME NEW l \in Loops, ChannelStep(l)
          PROVE  Types'
      BY <2>1, <2>2, StartEventTypes, CloseEventTypes, ReadTypes, WriteRestTypes,
         EndEventTypes DEF ChannelStep
    <2>3. ASSUME NEW l \in Loops, FunctorStep(l)
          PROVE  Types'
      BY <2>1, <2>3, BatchTypes, RunConnTypes, RunRemoveTypes, RunSendTypes,
         RunShutdownTypes DEF FunctorStep
    <2>4. ASSUME UserStep
          PROVE  Types'
      <3>1. ASSUME NEW l \in Loops, UserHold(l)
            PROVE  Types'
        <4>1. cur[l] \in Conns
          BY <3>1, Kinds DEF Types, CurInv, UserHold, WithConn
        <4>2. QED BY <2>1, <3>1, <4>1, UserKeepTypes
      <3>2. ASSUME NEW c \in Conns, UserDrop(c)
            PROVE  Types'
        <4>1. 0 \in Loops
          BY PoolAssumption DEF Loops
        <4>2. QED BY <2>1, <3>2, <4>1, UserKeepTypes
      <3>3. QED BY <2>1, <2>4, <3>1, <3>2, UserSendTypes, UserShutdownTypes, UserKeepTypes,
                   WorkerTypes DEF UserStep
    <2>5. ASSUME RunStep
          PROVE  Types'
      BY <2>1, <2>2, <2>3, <2>4, <2>5, PollTypes, UserReturnTypes, NewConnectionTypes,
         CloseTimerTypes, PeerTypes DEF RunStep, PeerStep
    <2>6. QED BY <1>2, <2>1, <2>5, EndTypes DEF Next
  <1>3. QED BY <1>1, <1>2

LEMMA TypesInitially ==
    ASSUME Init
    PROVE  Types
  <1>1. 0 \in Loops
    BY PoolAssumption DEF Loops
  <1>2. program \in Programs /\ program.pool \in 0 .. MaxPool
    BY ProgramAssumption DEF Init
  <1>3. TypeOK
    BY <1>1, <1>2, BoundAssumption DEF Init, TypeOK, States
  <1>4. CurInv
    BY Kinds, NoneAssumption DEF Init, CurInv
  <1>5. NextInv
    BY <1>2, PoolAssumption DEF Init, NextInv
  <1>6. QED BY <1>3, <1>4, <1>5 DEF Types
-----------------------------------------------------------------------------
(* The functors on their way.                                              *)

AllOps == OwningOps \cup RawOps

LEMMA OnWayTypes ==
    ASSUME TypeOK, NEW l \in Loops
    PROVE  OnWay(l) \subseteq Functors
  BY EntriesHaveType DEF TypeOK, OnWay

LEMMA QueueOnWay ==
    ASSUME TypeOK, NEW l \in Loops, NEW f \in Functors, QueueInLoop(l, f)
    PROVE  /\ Entries(queue'[l]) = Entries(queue[l]) \cup {f}
           /\ \A k \in Loops \ {l} : queue'[k] = queue[k]
           /\ queue'[l] = Append(queue[l], f)
  <1>1. queue'[l] = Append(queue[l], f) /\ \A k \in Loops \ {l} : queue'[k] = queue[k]
    BY DEF TypeOK, QueueInLoop
  <1>2. Entries(Append(queue[l], f)) = Entries(queue[l]) \cup {f}
    BY EntriesOfAppend DEF TypeOK
  <1>3. QED BY <1>1, <1>2

LEMMA RunOnWay ==
    ASSUME TypeOK, NEW l \in Loops, NEW f, Run(l, f)
    PROVE  /\ f \in Functors
           /\ Entries(batch[l]) = Entries(batch'[l]) \cup {f}
           /\ \A k \in Loops \ {l} : batch'[k] = batch[k]
           /\ batch'[l] = Tail(batch[l]) /\ f = Head(batch[l]) /\ batch[l] # <<>>
           /\ at[l] = "functors"
  <1>1. /\ batch[l] # <<>> /\ f = Head(batch[l]) /\ at[l] = "functors"
        /\ batch'[l] = Tail(batch[l]) /\ \A k \in Loops \ {l} : batch'[k] = batch[k]
    BY DEF TypeOK, Run
  <1>2. batch[l] \in Seq(Functors)
    BY DEF TypeOK
  <1>3. QED BY <1>1, <1>2, EntriesOfTail

\* The functors about connection c stay as they are, or some are dropped.
SameWay(c) == \A l \in Loops, o \in AllOps :
                  Functor(o, c) \in OnWay(l)' <=> Functor(o, c) \in OnWay(l)

LEMMA OtherFunctor ==
    ASSUME NEW c, NEW d, NEW o, NEW p, c # d
    PROVE  Functor(o, c) # Functor(p, d)
  BY DEF Functor

LEMMA NoneSameWay ==
    ASSUME UNCHANGED <<queue, batch>>, NEW c
    PROVE  SameWay(c)
  BY DEF SameWay, OnWay

LEMMA QueueSameWay ==
    ASSUME TypeOK, NEW l \in Loops, NEW d \in Conns, NEW p \in AllOps,
           QueueInLoop(l, Functor(p, d)), UNCHANGED batch, NEW c \in Conns \ {d}
    PROVE  SameWay(c)
  <1>1. Functor(p, d) \in Functors
    BY FunctorTypes DEF AllOps
  <1>2. /\ Entries(queue'[l]) = Entries(queue[l]) \cup {Functor(p, d)}
        /\ \A k \in Loops \ {l} : queue'[k] = queue[k]
    BY <1>1, QueueOnWay
  <1>3. ASSUME NEW k \in Loops, NEW o \in AllOps
        PROVE  Functor(o, c) \in OnWay(k)' <=> Functor(o, c) \in OnWay(k)
    <2>1. Functor(o, c) # Functor(p, d)
      BY OtherFunctor
    <2>2. CASE k = l
      BY <1>2, <2>1, <2>2 DEF OnWay
    <2>3. CASE k # l
      BY <1>2, <2>3 DEF OnWay
    <2>4. QED BY <2>2, <2>3
  <1>4. QED BY <1>3 DEF SameWay

LEMMA RunSameWay ==
    ASSUME TypeOK, NEW l \in Loops, NEW d \in Conns, NEW p, Run(l, Functor(p, d)),
           \/ UNCHANGED queue
           \/ \E k \in Loops, q \in AllOps : QueueInLoop(k, Functor(q, d)),
           NEW c \in Conns \ {d}
    PROVE  SameWay(c)
  <1>1. /\ Entries(batch[l]) = Entries(batch'[l]) \cup {Functor(p, d)}
        /\ \A k \in Loops \ {l} : batch'[k] = batch[k]
    BY RunOnWay
  <1>2. ASSUME NEW k \in Loops, NEW o \in AllOps
        PROVE  Functor(o, c) \in Entries(batch'[k]) <=> Functor(o, c) \in Entries(batch[k])
    BY <1>1, OtherFunctor
  <1>3. ASSUME NEW k \in Loops, NEW o \in AllOps
        PROVE  Functor(o, c) \in Entries(queue'[k]) <=> Functor(o, c) \in Entries(queue[k])
    <2>1. CASE UNCHANGED queue
      BY <2>1
    <2>2. ASSUME NEW m \in Loops, NEW q \in AllOps, QueueInLoop(m, Functor(q, d))
          PROVE  Functor(o, c) \in Entries(queue'[k]) <=> Functor(o, c) \in Entries(queue[k])
      <3>1. Functor(q, d) \in Functors
        BY FunctorTypes DEF AllOps
      <3>2. /\ Entries(queue'[m]) = Entries(queue[m]) \cup {Functor(q, d)}
            /\ \A n \in Loops \ {m} : queue'[n] = queue[n]
        BY <2>2, <3>1, QueueOnWay
      <3>3. QED BY <3>2, OtherFunctor
    <2>3. QED BY <2>1, <2>2
  <1>4. QED BY <1>2, <1>3 DEF SameWay, OnWay

\* What HandleClose does to the queues.
LEMMA HandleCloseSameWay ==
    ASSUME TypeOK, NEW d \in Conns, HandleClose(d), UNCHANGED batch, NEW c \in Conns \ {d}
    PROVE  SameWay(c)
  <1>1. \/ UNCHANGED queue
        \/ \E l \in Loops, p \in AllOps : QueueInLoop(l, Functor(p, d))
    <2>1. 0 \in Loops /\ loopOf[d] \in Loops
      BY PoolAssumption DEF TypeOK, Loops
    <2>2. "destroyed" \in AllOps /\ "remove" \in AllOps
      BY FunctorOps DEF AllOps
    <2>3. QED BY <2>1, <2>2 DEF HandleClose, RemoveConnection, RemoveConnectionInLoop
  <1>2. QED BY <1>1, NoneSameWay, QueueSameWay

LEMMA SendSameWay ==
    ASSUME TypeOK, NEW d \in Conns, SendInLoop(d), UNCHANGED batch, NEW c \in Conns \ {d}
    PROVE  SameWay(c)
  <1>1. "writeComplete" \in AllOps /\ loopOf[d] \in Loops
    BY FunctorOps DEF AllOps, TypeOK
  <1>2. UNCHANGED queue \/ QueueInLoop(loopOf[d], Functor("writeComplete", d))
    BY DEF SendInLoop
  <1>3. QED BY <1>1, <1>2, NoneSameWay, QueueSameWay

-----------------------------------------------------------------------------
(* The phases of a round: events are handled, then functors are run.       *)

EventPhase(l) == {"events", "channel", "message"} \cup (IF l = 0 THEN {"up"} ELSE {})
FunctorPhase(l) == {"functors", "down", "writeComplete"}
                       \cup (IF l = 0 THEN {} ELSE {"up"})

PhaseInv == \A l \in Loops : /\ active[l] = {} \/ at[l] \in EventPhase(l)
                             /\ batch[l] = <<>> \/ at[l] \in FunctorPhase(l)

\* Connections of the base loop are established at once.
BaseInv == \A c \in Conns : Functor("established", c) \notin OnWay(0)

LEMMA ZeroIsLoop == 0 \in Loops
  BY PoolAssumption DEF Loops

LEMMA NextLoopIsLoop ==
    ASSUME Types
    PROVE  NextLoop \in Loops
  <1>1. program.pool \in 0 .. MaxPool /\ program.pool \in Nat
    BY ProgramTypes DEF Types
  <1>2. QED BY <1>1, PoolAssumption, ZeroIsLoop DEF Types, NextInv, NextLoop, Loops

\* Steps that queue no established functor for the base loop.
LEMMA BaseKept ==
    ASSUME Types, PhaseInv, BaseInv, [Next]_vars
    PROVE  BaseInv'
  <1> DEFINE Fine == \A c \in Conns : Functor("established", c) \in OnWay(0)' =>
                                          Functor("established", c) \in OnWay(0)
  <1>1. Fine => BaseInv'
    BY DEF BaseInv
  <1>2. ASSUME UNCHANGED <<queue, batch>>
        PROVE  Fine
    BY <1>2 DEF OnWay
  <1>3. ASSUME NEW l \in Loops, NEW d \in Conns, NEW p \in AllOps \ {"established"},
               QueueInLoop(l, Functor(p, d)), NEW c \in Conns,
               Functor("established", c) \in Entries(queue'[0])
        PROVE  Functor("established", c) \in Entries(queue[0])
    <2>1. Functor(p, d) \in Functors /\ Functor(p, d) # Functor("established", c)
      BY FunctorTypes DEF AllOps, Functor
    <2>2. /\ Entries(queue'[l]) = Entries(queue[l]) \cup {Functor(p, d)}
          /\ \A k \in Loops \ {l} : queue'[k] = queue[k]
      BY <2>1, <1>3, QueueOnWay DEF Types
    <2>3. QED BY <1>3, <2>1, <2>2, ZeroIsLoop
  <1>4. ASSUME NEW l \in Loops, NEW f, Run(l, f), NEW c \in Conns,
               Functor("established", c) \in Entries(batch'[0])
        PROVE  Functor("established", c) \in Entries(batch[0])
    <2>1. /\ Entries(batch[l]) = Entries(batch'[l]) \cup {f}
          /\ \A k \in Loops \ {l} : batch'[k] = batch[k]
      BY <1>4, RunOnWay DEF Types
    <2>2. QED BY <1>4, <2>1, ZeroIsLoop
  <1>5. /\ "remove" \in AllOps \ {"established"} /\ "destroyed" \in AllOps \ {"established"}
        /\ "writeComplete" \in AllOps \ {"established"}
        /\ "established" \in AllOps
        /\ RawOps \subseteq AllOps \ {"established"}
    BY DEF AllOps, OwningOps, RawOps
  <1>6. ASSUME NEW d \in Conns, HandleClose(d)
        PROVE  \/ UNCHANGED queue
               \/ \E l \in Loops, p \in AllOps \ {"established"} :
                     QueueInLoop(l, Functor(p, d))
    <2>1. loopOf[d] \in Loops
      BY DEF Types, TypeOK
    <2>2. QED BY <1>5, <1>6, <2>1, ZeroIsLoop
              DEF HandleClose, RemoveConnection, RemoveConnectionInLoop
  <1>7. ASSUME NEW d \in Conns, SendInLoop(d)
        PROVE  \/ UNCHANGED queue
               \/ \E l \in Loops, p \in AllOps \ {"established"} :
                     QueueInLoop(l, Functor(p, d))
    <2>1. loopOf[d] \in Loops
      BY DEF Types, TypeOK
    <2>2. QED BY <1>5, <1>7, <2>1 DEF SendInLoop
  <1>8. ASSUME NEW d \in Conns, UNCHANGED batch,
               \/ UNCHANGED queue
               \/ \E l \in Loops, p \in AllOps \ {"established"} :
                     QueueInLoop(l, Functor(p, d))
        PROVE  Fine
    BY <1>3, <1>8 DEF OnWay
  <1>9. ASSUME NEW d \in Conns, NEW f, NEW k \in Loops, Run(k, f),
               \/ UNCHANGED queue
               \/ \E l \in Loops, p \in AllOps \ {"established"} :
                     QueueInLoop(l, Functor(p, d))
        PROVE  Fine
    BY <1>3, <1>4, <1>9 DEF OnWay
  <1>10. ASSUME NEW l \in Loops, ChannelStep(l)
         PROVE  Fine
    <2>1. CASE StartEvent(l) \/ ReadMessage(l) \/ ReadError(l) \/ WriteSome(l) \/ EndEvent(l)
      BY <1>2, <2>1 DEF StartEvent, ReadMessage, ReadError, WriteSome, EndEvent
    <2>2. CASE HupEvent(l) \/ ReadEof(l)
      <3>1. cur[l] \in Conns /\ HandleClose(cur[l]) /\ UNCHANGED batch
        BY <2>2, Kinds DEF Types, CurInv, HupEvent, ReadEof
      <3>2. QED BY <1>6, <1>8, <3>1
    <2>3. CASE WriteRest(l)
      <3>1. cur[l] \in Conns /\ UNCHANGED batch
        BY <2>3, Kinds DEF Types, CurInv, WriteRest, Writable
      <3>2. UNCHANGED queue \/ QueueInLoop(l, Functor("writeComplete", cur[l]))
        BY <2>3 DEF WriteRest
      <3>3. QED BY <1>5, <1>8, <3>1, <3>2
    <2>4. QED BY <1>10, <2>1, <2>2, <2>3 DEF ChannelStep
  <1>11. ASSUME NEW c \in Conns, NewConnection(c)
         PROVE  Fine
    <2>1. CASE UNCHANGED queue
      BY <1>2, <1>11, <2>1 DEF NewConnection
    <2>2. CASE NextLoop # 0 /\ QueueInLoop(NextLoop, Functor("established", c))
      <3>1. NextLoop \in Loops
        BY NextLoopIsLoop
      <3>2. queue'[0] = queue[0]
        BY <2>2, <3>1, ZeroIsLoop DEF QueueInLoop, Types, TypeOK
      <3>3. QED BY <1>11, <3>2 DEF OnWay, NewConnection
    <2>3. QED BY <1>11, <2>1, <2>2 DEF NewConnection
  <1>12. ASSUME NEW l \in Loops, FunctorStep(l)
         PROVE  Fine
    <2>1. CASE TakeBatch(l)
      <3>1. queue' = [queue EXCEPT ![l] = <<>>] /\ batch' = [batch EXCEPT ![l] = queue[l]]
        BY <2>1 DEF TakeBatch
      <3>2. queue'[l] = <<>> /\ batch'[l] = queue[l]
            /\ \A k \in Loops \ {l} : queue'[k] = queue[k] /\ batch'[k] = batch[k]
        BY <3>1 DEF Types, TypeOK
      <3>3. QED BY <3>2, ZeroIsLoop, EntriesOfEmpty DEF OnWay
    <2>2. CASE EndBatch(l)
      BY <1>2, <2>2 DEF EndBatch
    <2>3. ASSUME NEW c \in Conns,
                 RunEstablished(l, c) \/ RunDestroyed(l, c) \/ RunWriteComplete(l, c)
                    \/ RunShutdown(l, c)
          PROVE  Fine
      <3>1. UNCHANGED queue /\ \E o : Run(l, Functor(o, c))
        BY <2>3 DEF RunEstablished, RunDestroyed, RunWriteComplete, RunShutdown
      <3>2. QED BY <1>9, <3>1
    <2>4. ASSUME NEW c \in Conns, RunRemove(l, c)
          PROVE  Fine
      <3>1. loopOf[c] \in Loops
        BY DEF Types, TypeOK
      <3>2. Run(l, Functor("remove", c)) /\ QueueInLoop(loopOf[c], Functor("destroyed", c))
        BY <2>4 DEF RunRemove, RemoveConnectionInLoop
      <3>3. QED BY <1>5, <1>9, <3>1, <3>2
    <2>5. ASSUME NEW c \in Conns, RunSend(l, c)
          PROVE  Fine
      <3>1. Run(l, Functor("send", c)) /\ (UNCHANGED queue \/ SendInLoop(c))
        BY <2>5 DEF RunSend
      <3>2. QED BY <1>7, <1>9, <3>1
    <2>6. QED BY <1>12, <2>1, <2>2, <2>3, <2>4, <2>5 DEF FunctorStep
  <1>13. ASSUME UserStep
         PROVE  Fine
    <2>1. ASSUME NEW l \in Loops, NEW c \in Conns, UserSend(l, c)
          PROVE  Fine
      BY <1>7, <1>8, <2>1 DEF UserSend, loopVars
    <2>2. CASE WorkerPost
      <3>1. CASE UNCHANGED queue
        BY <1>2, <2>2, <3>1 DEF WorkerPost, loopVars
      <3>2. CASE QueueInLoop(loopOf[worker.conn], worker)
        <4>1. worker.op \in RawOps /\ worker.conn \in Conns
              /\ worker = Functor(worker.op, worker.conn)
          BY <2>2, FunctorOps DEF WorkerPost, Types, TypeOK, NoCall, Functor
        <4>2. loopOf[worker.conn] \in Loops
          BY <4>1 DEF Types, TypeOK
        <4>3. QED BY <1>5, <1>8, <2>2, <3>2, <4>1, <4>2 DEF WorkerPost, loopVars
      <3>3. QED BY <2>2, <3>1, <3>2 DEF WorkerPost
    <2>3. QED BY <1>2, <1>13, <2>1, <2>2
              DEF UserStep, UserShutdown, UserClose, UserHold, UserDrop, WorkerCall,
                  WorkerMark, loopVars
  <1>14. ASSUME NEW l \in Loops, NEW c \in Conns, CloseTimer(l, c)
         PROVE  Fine
    BY <1>6, <1>8, <1>14 DEF CloseTimer, loopVars
  <1>15. ASSUME EndStep
         PROVE  Fine
    <2>1. ASSUME NEW l \in Loops, StopLoop(l)
          PROVE  Fine
      <3>1. queue'[l] = <<>> /\ batch' = batch /\ \A k \in Loops \ {l} : queue'[k] = queue[k]
        BY <2>1 DEF StopLoop, Types, TypeOK
      <3>2. QED BY <3>1, ZeroIsLoop, EntriesOfEmpty DEF OnWay
    <2>2. QED BY <1>2, <1>15, <2>1 DEF EndStep, QuitBase, Destroy, DropConnection, loopVars
  <1>16. QED
    <2>1. ASSUME NEW l \in Loops, Poll(l) \/ UserReturn(l)
          PROVE  Fine
      BY <1>2, <2>1 DEF Poll, UserReturn
    <2>2. ASSUME PeerStep
          PROVE  Fine
      BY <1>2, <2>2 DEF PeerStep, PeerCloses, PeerResets, loopVars
    <2>3. ASSUME UNCHANGED vars
          PROVE  Fine
      <3>1. UNCHANGED <<queue, batch>>
        BY <2>3 DEF vars, loopVars
      <3>2. QED BY <1>2, <3>1
    <2> HIDE DEF Fine
    <2>4. QED BY <1>1, <1>10, <1>11, <1>12, <1>13, <1>14, <1>15, <2>1, <2>2, <2>3
              DEF Next, RunStep

LEMMA PhaseKept ==
    ASSUME Types, PhaseInv, BaseInv, [Next]_vars
    PROVE  PhaseInv'
  <1> DEFINE Ok(l) == /\ active[l] = {} \/ at[l] \in EventPhase(l)
                      /\ batch[l] = <<>> \/ at[l] \in FunctorPhase(l)
  <1>1. \A l \in Loops : Ok(l)
    BY DEF PhaseInv
  <1>2. (\A l \in Loops : Ok(l)') => PhaseInv'
    BY DEF PhaseInv
  <1>3. ASSUME UNCHANGED <<at, active, batch>>
        PROVE  PhaseInv'
    BY <1>3 DEF PhaseInv, EventPhase, FunctorPhase
  <1>4. ASSUME NEW l \in Loops, Ok(l)',
               \A k \in Loops \ {l} : /\ at'[k] = at[k] /\ active'[k] = active[k]
                                      /\ batch'[k] = batch[k]
        PROVE  PhaseInv'
    <2>1. \A k \in Loops \ {l} : Ok(k)'
      BY <1>1, <1>4 DEF EventPhase, FunctorPhase
    <2>2. QED BY <1>2, <1>4, <2>1
  <1>5. ASSUME NEW l \in Loops, Poll(l)
        PROVE  PhaseInv'
    <2>1. batch[l] = <<>> /\ at'[l] = "events" /\ UNCHANGED batch
      BY <1>1, <1>5 DEF Poll, FunctorPhase, Types, TypeOK
    <2>2. \A k \in Loops \ {l} : /\ at'[k] = at[k] /\ active'[k] = active[k]
                                 /\ batch'[k] = batch[k]
      BY <1>5 DEF Poll, Types, TypeOK
    <2>3. QED BY <1>4, <2>1, <2>2 DEF EventPhase
  <1>6. ASSUME NEW l \in Loops, StartEvent(l) \/ ReadMessage(l) \/ EndEvent(l)
        PROVE  PhaseInv'
    <2>1. /\ at[l] \in {"events", "channel"} /\ UNCHANGED batch
          /\ at'[l] \in {"events", "channel", "message"}
      BY <1>6 DEF StartEvent, ReadMessage, EndEvent, Types, TypeOK
    <2>2. batch[l] = <<>>
      BY <1>1, <2>1 DEF FunctorPhase
    <2>3. \A k \in Loops \ {l} : /\ at'[k] = at[k] /\ active'[k] = active[k]
                                 /\ batch'[k] = batch[k]
      BY <1>6 DEF StartEvent, ReadMessage, EndEvent, Types, TypeOK
    <2>4. QED BY <1>4, <2>1, <2>2, <2>3 DEF EventPhase
  <1>7. ASSUME NEW c \in Conns, NewConnection(c)
        PROVE  PhaseInv'
    <2>1. CASE ConnEstablished(0, c)
      <3>1. batch[0] = <<>> /\ at'[0] = "up" /\ UNCHANGED <<batch, active>>
        BY <1>1, <1>7, <2>1, ZeroIsLoop
           DEF NewConnection, ConnEstablished, FunctorPhase, Types, TypeOK
      <3>2. \A k \in Loops \ {0} : at'[k] = at[k]
        BY <2>1 DEF ConnEstablished, Types, TypeOK
      <3>3. QED BY <1>4, <3>1, <3>2, ZeroIsLoop DEF EventPhase
    <2>2. CASE UNCHANGED at
      BY <1>3, <1>7, <2>2 DEF NewConnection
    <2>3. QED BY <1>7, <2>1, <2>2 DEF NewConnection
  <1>8. ASSUME NEW l \in Loops, FunctorStep(l)
        PROVE  PhaseInv'
    <2>1. CASE TakeBatch(l)
      <3>1. active[l] = {} /\ batch'[l] = queue[l] /\ UNCHANGED active
            /\ at'[l] = IF queue[l] = <<>> THEN "poll" ELSE "functors"
        BY <2>1 DEF TakeBatch, Types, TypeOK
      <3>2. \A k \in Loops \ {l} : at'[k] = at[k] /\ batch'[k] = batch[k]
        BY <2>1 DEF TakeBatch, Types, TypeOK
      <3>3. QED BY <1>4, <3>1, <3>2 DEF FunctorPhase
    <2>2. CASE EndBatch(l)
      <3>1. active[l] = {} /\ batch[l] = <<>> /\ UNCHANGED <<active, batch>>
        BY <1>1, <2>2 DEF EndBatch, EventPhase, Types, TypeOK
      <3>2. \A k \in Loops \ {l} : at'[k] = at[k]
        BY <2>2 DEF EndBatch, Types, TypeOK
      <3>3. QED BY <1>4, <3>1, <3>2
    <2>3. ASSUME NEW c \in Conns,
                 RunEstablished(l, c) \/ RunRemove(l, c) \/ RunDestroyed(l, c)
                    \/ RunWriteComplete(l, c) \/ RunSend(l, c) \/ RunShutdown(l, c)
          PROVE  PhaseInv'
      <3>1. PICK o \in AllOps : /\ Run(l, Functor(o, c))
                                /\ o = "established" <=> RunEstablished(l, c)
        <4>1. CASE RunEstablished(l, c)
          BY <4>1, FunctorOps DEF RunEstablished, AllOps
        <4>2. CASE ~RunEstablished(l, c)
          BY <2>3, <4>2, FunctorOps DEF RunRemove, RunDestroyed, RunWriteComplete, RunSend,
                                        RunShutdown, AllOps
        <4>3. QED BY <4>1, <4>2
      <3>2. /\ Functor(o, c) \in Entries(batch[l]) /\ at[l] = "functors"
            /\ \A k \in Loops \ {l} : batch'[k] = batch[k]
        BY <3>1, RunOnWay DEF Types
      <3>3. active[l] = {} /\ UNCHANGED active
        BY <1>1, <2>3, <3>2 DEF EventPhase, RunEstablished, RunRemove, RunDestroyed,
                                RunWriteComplete, RunSend, RunShutdown
      <3>4. /\ \/ at'[l] \in {"functors", "down", "writeComplete"}
               \/ RunEstablished(l, c) /\ at'[l] = "up"
            /\ \A k \in Loops \ {l} : at'[k] = at[k]
        <4>1. CASE RunRemove(l, c) \/ RunSend(l, c) \/ RunShutdown(l, c)
          <5>1. UNCHANGED at
            BY <4>1 DEF RunRemove, RunSend, RunShutdown
          <5>2. QED BY <3>2, <5>1
        <4>2. CASE RunEstablished(l, c)
          BY <4>2 DEF RunEstablished, ConnEstablished, Types, TypeOK
        <4>3. CASE RunDestroyed(l, c) \/ RunWriteComplete(l, c)
          <5>1. PICK a \in {"down", "writeComplete"} : at' = [at EXCEPT ![l] = a]
            BY <4>3 DEF RunDestroyed, RunWriteComplete
          <5>2. QED BY <5>1 DEF Types, TypeOK
        <4>4. QED BY <2>3, <4>1, <4>2, <4>3
      <3>5. RunEstablished(l, c) => l # 0
        BY <3>1, <3>2 DEF BaseInv, OnWay
      <3>6. QED BY <1>4, <3>2, <3>3, <3>4, <3>5 DEF FunctorPhase
    <2>4. QED BY <1>8, <2>1, <2>2, <2>3 DEF FunctorStep
  <1>9. ASSUME NEW l \in Loops, UserReturn(l)
        PROVE  PhaseInv'
    <2>1. /\ at[l] \in UserCode
          /\ at'[l] = IF at[l] = "message" THEN "channel"
                      ELSE IF at[l] = "up" /\ l = 0 THEN "events" ELSE "functors"
          /\ \A k \in Loops \ {l} : at'[k] = at[k]
          /\ UNCHANGED <<active, batch>>
      BY <1>9 DEF UserReturn, Types, TypeOK
    <2>2. QED BY <1>1, <1>4, <2>1 DEF UserCode, EventPhase, FunctorPhase
  <1>10. ASSUME NEW l \in Loops, StopLoop(l)
         PROVE  PhaseInv'
    <2>1. active[l] = {} /\ batch[l] = <<>> /\ UNCHANGED <<active, batch>>
      BY <1>1, <1>10 DEF StopLoop, EventPhase, FunctorPhase
    <2>2. \A k \in Loops \ {l} : at'[k] = at[k]
      BY <1>10 DEF StopLoop, Types, TypeOK
    <2>3. QED BY <1>4, <2>1, <2>2
  <1>11. ASSUME NEW l \in Loops, ChannelStep(l)
         PROVE  PhaseInv'
    BY <1>3, <1>6, <1>11 DEF ChannelStep, HupEvent, ReadEof, ReadError, WriteRest, WriteSome
  <1>12. ASSUME UserStep \/ PeerStep
         PROVE  PhaseInv'
    BY <1>3, <1>12 DEF UserStep, PeerStep, UserSend, UserShutdown, UserClose, UserHold,
                       UserDrop, WorkerCall, WorkerMark, WorkerPost, PeerCloses, PeerResets,
                       loopVars
  <1>13. ASSUME NEW l \in Loops, NEW c \in Conns, CloseTimer(l, c)
         PROVE  PhaseInv'
    BY <1>3, <1>13 DEF CloseTimer, loopVars
  <1>14. ASSUME EndStep
         PROVE  PhaseInv'
    BY <1>3, <1>10, <1>14 DEF EndStep, QuitBase, Destroy, DropConnection, loopVars
  <1>15. CASE UNCHANGED vars
    BY <1>3, <1>15 DEF vars, loopVars
  <1>16. QED BY <1>5, <1>7, <1>8, <1>9, <1>11, <1>12, <1>13, <1>14, <1>15
             DEF Next, RunStep

-----------------------------------------------------------------------------
(* A step is about one connection and leaves the others as they are.       *)

SameData(c) == /\ state'[c] = state[c] /\ loopOf'[c] = loopOf[c] /\ wc'[c] = wc[c]
               /\ events'[c] = events[c] /\ index'[c] = index[c]
               /\ revents'[c] = revents[c] /\ timers'[c] = timers[c]
               /\ c \in connections' <=> c \in connections
               /\ c \in refs' <=> c \in refs
               /\ worker'.conn = c <=> worker.conn = c

SameLoops(c) == \A l \in Loops : /\ c \in active'[l] <=> c \in active[l]
                                 /\ cur'[l] = c <=> cur[l] = c
                                 /\ cur[l] = c => at'[l] = at[l]

Same(c) == SameData(c) /\ SameLoops(c) /\ SameWay(c)

\* Loop l turns to d, or away from it.
LEMMA TurnSameLoops ==
    ASSUME Types, NEW l \in Loops, NEW d \in Conns, NEW c \in Conns \ {d},
           cur[l] \in {d, None},
           \E x \in {d, None} : cur' = [cur EXCEPT ![l] = x],
           \E p : at' = [at EXCEPT ![l] = p],
           \/ UNCHANGED active
           \/ active' = [active EXCEPT ![l] = @ \ {d}]
    PROVE  SameLoops(c)
  <1>1. ASSUME NEW k \in Loops
        PROVE  c \in active'[k] <=> c \in active[k]
    <2>1. CASE UNCHANGED active
      BY <2>1
    <2>2. CASE active' = [active EXCEPT ![l] = @ \ {d}]
      <3>1. active'[k] = IF k = l THEN active[l] \ {d} ELSE active[k]
        BY <2>2 DEF Types, TypeOK
      <3>2. QED BY <3>1
    <2>3. QED BY <2>1, <2>2
  <1>2. \A k \in Loops \ {l} : cur'[k] = cur[k] /\ at'[k] = at[k]
    BY DEF Types, TypeOK
  <1>3. cur[l] # c /\ cur'[l] # c
    BY NoneAssumption DEF Types, TypeOK
  <1>4. QED BY <1>1, <1>2, <1>3 DEF SameLoops

LEMMA StillSameLoops ==
    ASSUME UNCHANGED <<active, cur, at>>, NEW c
    PROVE  SameLoops(c)
  BY DEF SameLoops

LEMMA NotWithConn ==
    ASSUME Types, NEW l \in Loops, at[l] \in {"poll", "events", "functors", "stopped"}
    PROVE  cur[l] = None
  BY Kinds, NoneAssumption DEF Types, TypeOK, CurInv

LEMMA HandledSame ==
    ASSUME Types, NEW l \in Loops, NEW es, Handled(l, es), NEW c \in Conns \ {cur[l]}
    PROVE  revents'[c] = revents[c]
  BY DEF Types, TypeOK, Handled

LEMMA UpdateSame ==
    ASSUME Types, NEW d \in Conns, NEW ev, UpdateChannel(d, ev), NEW c \in Conns \ {d}
    PROVE  events'[c] = events[c] /\ index'[c] = index[c]
  BY DEF Types, TypeOK, UpdateChannel

LEMMA HandleCloseSame ==
    ASSUME Types, NEW d \in Conns, HandleClose(d), UNCHANGED batch, NEW c \in Conns \ {d}
    PROVE  /\ events'[c] = events[c] /\ index'[c] = index[c]
           /\ c \in connections' <=> c \in connections
           /\ SameWay(c)
  <1>1. SameWay(c)
    BY HandleCloseSameWay DEF Types
  <1>2. events'[c] = events[c] /\ index'[c] = index[c]
    BY UpdateSame DEF HandleClose, chanVars
  <1>3. c \in connections' <=> c \in connections
    BY DEF HandleClose, RemoveConnection, RemoveConnectionInLoop
  <1>4. QED BY <1>1, <1>2, <1>3

LEMMA SendSame ==
    ASSUME Types, NEW d \in Conns, SendInLoop(d), NEW c \in Conns \ {d}
    PROVE  events'[c] = events[c] /\ index'[c] = index[c] /\ wc'[c] = wc[c]
  <1>1. events'[c] = events[c] /\ index'[c] = index[c]
    BY UpdateSame DEF SendInLoop, chanVars
  <1>2. wc'[c] = wc[c]
    BY DEF SendInLoop, Types, TypeOK
  <1>3. QED BY <1>1, <1>2

LEMMA ChannelSame ==
    ASSUME Types, NEW l \in Loops, ChannelStep(l)
    PROVE  \E d \in Conns : (d = cur[l] \/ d = cur'[l]) /\ \A c \in Conns \ {d} : Same(c)
  <1>1. CASE StartEvent(l)
    <2>1. PICK d \in active[l] : /\ active' = [active EXCEPT ![l] = @ \ {d}]
                                 /\ cur' = [cur EXCEPT ![l] = d]
      BY <1>1 DEF StartEvent
    <2>2. d \in Conns /\ cur'[l] = d /\ cur[l] = None
      BY <1>1, <2>1, NotWithConn DEF StartEvent, Types, TypeOK
    <2>3. ASSUME NEW c \in Conns \ {d}
          PROVE  Same(c)
      <3>1. SameLoops(c)
        BY <1>1, <2>1, <2>2, TurnSameLoops DEF StartEvent
      <3>2. SameData(c) /\ SameWay(c)
        BY <1>1, NoneSameWay DEF StartEvent, SameData, serverVars, connVars, chanVars, userVars
      <3>3. QED BY <3>1, <3>2 DEF Same
    <2>4. QED BY <2>2, <2>3
  <1>2. CASE ~StartEvent(l)
    <2> DEFINE d == cur[l]
    <2>1. d \in Conns /\ at[l] = "channel"
      BY <1>2, Kinds DEF Types, CurInv, ChannelStep, HupEvent, ReadMessage, ReadEof, ReadError,
                         WriteRest, WriteSome, Writable, EndEvent
    <2>2. ASSUME NEW c \in Conns \ {d}
          PROVE  Same(c)
      <3>1. CASE HupEvent(l) \/ ReadEof(l)
        <4>1. HandleClose(d) /\ UNCHANGED batch
          BY <3>1 DEF HupEvent, ReadEof
        <4>2. revents'[c] = revents[c]
          BY <3>1, HandledSame DEF HupEvent, ReadEof
        <4>3. SameLoops(c)
          BY <3>1, StillSameLoops DEF HupEvent, ReadEof
        <4>4. SameData(c) /\ SameWay(c)
          BY <3>1, <4>1, <4>2, <2>1, HandleCloseSame DEF HupEvent, ReadEof, SameData, connVars,
                                                         userVars
        <4>5. QED BY <4>3, <4>4 DEF Same
      <3>2. CASE ReadMessage(l) \/ ReadError(l) \/ WriteSome(l)
        <4>1. revents'[c] = revents[c]
          BY <3>2, HandledSame DEF ReadMessage, ReadError, WriteSome
        <4>2. /\ UNCHANGED <<serverVars, connVars, chanVars, userVars, queue, active, cur, batch>>
              /\ UNCHANGED at \/ at' = [at EXCEPT ![l] = "message"]
          BY <3>2 DEF ReadMessage, ReadError, WriteSome
        <4>3. SameLoops(c)
          <5>1. \A k \in Loops \ {l} : at'[k] = at[k]
            BY <4>2 DEF Types, TypeOK
          <5>2. QED BY <4>2, <5>1 DEF SameLoops
        <4>4. SameData(c) /\ SameWay(c)
          BY <4>1, <4>2, NoneSameWay DEF SameData, serverVars, connVars, chanVars, userVars
        <4>5. QED BY <4>3, <4>4 DEF Same
      <3>3. CASE WriteRest(l)
        <4>1. revents'[c] = revents[c]
          BY <3>3, HandledSame DEF WriteRest
        <4>2. events'[c] = events[c] /\ index'[c] = index[c]
          BY <2>1, <3>3, UpdateSame DEF WriteRest
        <4>3. SameLoops(c)
          BY <3>3, StillSameLoops DEF WriteRest
        <4>4. SameWay(c)
          <5>1. "writeComplete" \in AllOps
            BY FunctorOps DEF AllOps
          <5>2. /\ UNCHANGED queue \/ QueueInLoop(l, Functor("writeComplete", d))
                /\ UNCHANGED batch
            BY <3>3 DEF WriteRest
          <5>3. QED BY <2>1, <5>1, <5>2, NoneSameWay, QueueSameWay DEF Types
        <4>5. SameData(c)
          BY <3>3, <4>1, <4>2 DEF WriteRest, SameData, serverVars, userVars
        <4>6. QED BY <4>3, <4>4, <4>5 DEF Same
      <3>4. CASE EndEvent(l)
        <4>1. revents'[c] = revents[c]
          BY <3>4 DEF EndEvent, Types, TypeOK
        <4>2. SameLoops(c)
          BY <2>1, <3>4, TurnSameLoops DEF EndEvent
        <4>3. SameData(c) /\ SameWay(c)
          BY <3>4, <4>1, NoneSameWay DEF EndEvent, SameData, serverVars, connVars, chanVars,
                                         userVars
        <4>4. QED BY <4>2, <4>3 DEF Same
      <3>5. QED BY <1>2, <3>1, <3>2, <3>3, <3>4 DEF ChannelStep
    <2>3. QED BY <2>1, <2>2
  <1>3. QED BY <1>1, <1>2

LEMMA NewConnectionSame ==
    ASSUME Types, NEW d \in Conns, NewConnection(d), NEW c \in Conns \ {d}
    PROVE  Same(c)
  <1>1. /\ loopOf'[c] = loopOf[c] /\ wc'[c] = wc[c]
        /\ c \in connections' <=> c \in connections
    BY DEF NewConnection, Types, TypeOK
  <1>2. CASE ConnEstablished(0, d) /\ UNCHANGED queue
    <2>1. state'[c] = state[c] /\ events'[c] = events[c] /\ index'[c] = index[c]
      BY <1>2, UpdateSame DEF ConnEstablished, Types, TypeOK
    <2>2. cur[0] = None
      BY ZeroIsLoop, NotWithConn DEF NewConnection
    <2>3. SameLoops(c)
      BY <1>2, <2>2, ZeroIsLoop, TurnSameLoops DEF ConnEstablished, NewConnection
    <2>4. SameWay(c)
      BY <1>2, NoneSameWay DEF NewConnection
    <2>5. SameData(c)
      BY <1>1, <2>1 DEF SameData, NewConnection, userVars
    <2>6. QED BY <2>3, <2>4, <2>5 DEF Same
  <1>3. CASE /\ state' = [state EXCEPT ![d] = "connecting"]
             /\ QueueInLoop(NextLoop, Functor("established", d))
             /\ UNCHANGED <<chanVars, cur, at>>
    <2>1. state'[c] = state[c] /\ events'[c] = events[c] /\ index'[c] = index[c]
      BY <1>3 DEF Types, TypeOK, chanVars
    <2>2. SameLoops(c)
      BY <1>3, StillSameLoops DEF NewConnection
    <2>3. SameWay(c)
      <3>1. "established" \in AllOps /\ UNCHANGED batch
        BY FunctorOps DEF AllOps, NewConnection
      <3>2. QED BY <1>3, <3>1, NextLoopIsLoop, QueueSameWay DEF Types
    <2>4. SameData(c)
      BY <1>1, <2>1 DEF SameData, NewConnection, userVars
    <2>5. QED BY <2>2, <2>3, <2>4 DEF Same
  <1>4. QED BY <1>2, <1>3 DEF NewConnection

LEMMA CloseTimerSame ==
    ASSUME Types, NEW l \in Loops, NEW d \in Conns, CloseTimer(l, d), NEW c \in Conns \ {d}
    PROVE  Same(c)
  <1>1. HandleClose(d) /\ UNCHANGED batch
    BY DEF CloseTimer, loopVars
  <1>2. timers'[c] = timers[c]
    BY DEF CloseTimer, Types, TypeOK
  <1>3. SameData(c) /\ SameWay(c)
    BY <1>1, <1>2, HandleCloseSame DEF SameData, CloseTimer, connVars, loopVars
  <1>4. SameLoops(c)
    BY StillSameLoops DEF CloseTimer, loopVars
  <1>5. QED BY <1>3, <1>4 DEF Same

LEMMA FunctorSame ==
    ASSUME Types, NEW l \in Loops, NEW d \in Conns,
           RunEstablished(l, d) \/ RunRemove(l, d) \/ RunDestroyed(l, d)
               \/ RunWriteComplete(l, d) \/ RunSend(l, d) \/ RunShutdown(l, d),
           NEW c \in Conns \ {d}
    PROVE  Same(c)
  <1>1. at[l] = "functors" /\ cur[l] = None
    <2>1. at[l] = "functors"
      BY DEF RunEstablished, RunRemove, RunDestroyed, RunWriteComplete, RunSend, RunShutdown, Run
    <2>2. QED BY <2>1, NotWithConn
  <1>2. CASE RunEstablished(l, d) \/ RunDestroyed(l, d) \/ RunWriteComplete(l, d)
    <2>1. /\ cur' = [cur EXCEPT ![l] = d] /\ UNCHANGED active
          /\ \E p : at' = [at EXCEPT ![l] = p]
          /\ \E o : Run(l, Functor(o, d))
          /\ UNCHANGED <<serverVars, userVars, queue, wc, revents>>
      BY <1>2 DEF RunEstablished, RunDestroyed, RunWriteComplete, ConnEstablished, connVars
    <2>2. SameLoops(c)
      BY <1>1, <2>1, TurnSameLoops
    <2>3. SameWay(c)
      BY <2>1, RunSameWay DEF Types
    <2>4. state'[c] = state[c]
      BY <1>2 DEF RunEstablished, RunDestroyed, RunWriteComplete, ConnEstablished, connVars,
                  Types, TypeOK
    <2>5. events'[c] = events[c] /\ index'[c] = index[c]
      BY <1>2, UpdateSame DEF RunEstablished, RunDestroyed, RunWriteComplete, ConnEstablished,
                              chanVars
    <2>6. SameData(c)
      BY <2>1, <2>4, <2>5 DEF SameData, serverVars, userVars
    <2>7. QED BY <2>2, <2>3, <2>6 DEF Same
  <1>3. CASE RunRemove(l, d)
    <2>1. SameLoops(c)
      BY <1>3, StillSameLoops DEF RunRemove
    <2>2. SameWay(c)
      <3>1. loopOf[d] \in Loops /\ "destroyed" \in AllOps
        BY FunctorOps DEF Types, TypeOK, AllOps
      <3>2. QED BY <1>3, <3>1, RunSameWay DEF RunRemove, RemoveConnectionInLoop, Types
    <2>3. SameData(c)
      BY <1>3 DEF RunRemove, RemoveConnectionInLoop, SameData, connVars, chanVars, userVars
    <2>4. QED BY <2>1, <2>2, <2>3 DEF Same
  <1>4. CASE RunSend(l, d)
    <2>1. SameLoops(c)
      BY <1>4, StillSameLoops DEF RunSend
    <2>2. UNCHANGED <<chanVars, wc, queue>> \/ SendInLoop(d)
      BY <1>4 DEF RunSend
    <2>3. SameWay(c)
      <3>1. loopOf[d] \in Loops /\ "writeComplete" \in AllOps
        BY FunctorOps DEF Types, TypeOK, AllOps
      <3>2. UNCHANGED queue \/ QueueInLoop(loopOf[d], Functor("writeComplete", d))
        BY <2>2 DEF SendInLoop
      <3>3. QED BY <1>4, <3>1, <3>2, RunSameWay DEF RunSend, Types
    <2>4. events'[c] = events[c] /\ index'[c] = index[c] /\ wc'[c] = wc[c]
      BY <2>2, SendSame DEF chanVars
    <2>5. SameData(c)
      BY <1>4, <2>4 DEF RunSend, SameData, serverVars, userVars
    <2>6. QED BY <2>1, <2>3, <2>5 DEF Same
  <1>5. CASE RunShutdown(l, d)
    <2>1. SameLoops(c)
      BY <1>5, StillSameLoops DEF RunShutdown
    <2>2. SameWay(c)
      BY <1>5, RunSameWay DEF RunShutdown, Types
    <2>3. SameData(c)
      BY <1>5 DEF RunShutdown, SameData, serverVars, chanVars, userVars
    <2>4. QED BY <2>1, <2>2, <2>3 DEF Same
  <1>6. QED BY <1>2, <1>3, <1>4, <1>5

LEMMA BatchSame ==
    ASSUME Types, PhaseInv, NEW l \in Loops, TakeBatch(l) \/ EndBatch(l), NEW c \in Conns
    PROVE  Same(c)
  <1>1. cur[l] = None
    BY NotWithConn DEF TakeBatch, EndBatch
  <1>2. SameLoops(c)
    <2>1. \A k \in Loops \ {l} : at'[k] = at[k]
      BY DEF TakeBatch, EndBatch, Types, TypeOK
    <2>2. UNCHANGED <<active, cur>>
      BY DEF TakeBatch, EndBatch
    <2>3. QED BY <1>1, <2>1, <2>2, NoneAssumption DEF SameLoops
  <1>3. SameWay(c)
    <2>1. CASE TakeBatch(l)
      <3>1. batch[l] = <<>>
        BY <2>1 DEF TakeBatch, PhaseInv, FunctorPhase
      <3>2. /\ queue'[l] = <<>> /\ batch'[l] = queue[l]
            /\ \A k \in Loops \ {l} : queue'[k] = queue[k] /\ batch'[k] = batch[k]
        BY <2>1 DEF TakeBatch, Types, TypeOK
      <3>3. \A k \in Loops : OnWay(k)' = OnWay(k)
        BY <3>1, <3>2, EntriesOfEmpty DEF OnWay
      <3>4. QED BY <3>3 DEF SameWay
    <2>2. CASE EndBatch(l)
      BY <2>2, NoneSameWay DEF EndBatch
    <2>3. QED BY <2>1, <2>2
  <1>4. SameData(c)
    BY DEF TakeBatch, EndBatch, SameData, serverVars, connVars, chanVars, userVars
  <1>5. QED BY <1>2, <1>3, <1>4 DEF Same

LEMMA UserOpSame ==
    ASSUME Types, NEW l \in Loops, NEW d \in Conns,
           UserSend(l, d) \/ UserShutdown(l, d) \/ UserClose(l, d) \/ UserDrop(d)
               \/ (UserHold(l) /\ d = cur[l]),
           NEW c \in Conns \ {d}
    PROVE  Same(c)
  <1>1. SameLoops(c)
    BY StillSameLoops DEF UserSend, UserShutdown, UserClose, UserDrop, UserHold, loopVars
  <1>2. SameWay(c)
    BY NoneSameWay, SendSameWay
       DEF UserSend, UserShutdown, UserClose, UserDrop, UserHold, loopVars, Types
  <1>3. SameData(c)
    <2>1. CASE UserSend(l, d)
      <3>1. events'[c] = events[c] /\ index'[c] = index[c] /\ wc'[c] = wc[c]
        BY <2>1, SendSame DEF UserSend
      <3>2. QED BY <2>1, <3>1 DEF UserSend, SameData, serverVars, loopVars, userVars
    <2>2. CASE UserShutdown(l, d)
      <3>1. state'[c] = state[c]
        BY <2>2 DEF UserShutdown, Types, TypeOK
      <3>2. QED BY <2>2, <3>1 DEF UserShutdown, SameData, serverVars, chanVars, loopVars,
                                  userVars
    <2>3. CASE UserClose(l, d)
      <3>1. timers'[c] = timers[c]
        BY <2>3 DEF UserClose, Types, TypeOK
      <3>2. QED BY <2>3, <3>1 DEF UserClose, SameData, serverVars, connVars, chanVars, loopVars
    <2>4. CASE UserDrop(d) \/ (UserHold(l) /\ d = cur[l])
      <3>1. c \in refs' <=> c \in refs
        BY <2>4 DEF UserDrop, UserHold
      <3>2. QED BY <2>4, <3>1 DEF UserDrop, UserHold, SameData, serverVars, connVars, chanVars,
                                  loopVars
    <2>5. QED BY <2>1, <2>2, <2>3, <2>4
  <1>4. QED BY <1>1, <1>2, <1>3 DEF Same

LEMMA UserReturnSame ==
    ASSUME Types, NEW l \in Loops, UserReturn(l), NEW c \in Conns \ {cur[l]}
    PROVE  Same(c)
  <1>1. cur[l] \in Conns
    BY Kinds DEF Types, CurInv, UserReturn, WithConn
  <1>2. /\ \E x \in {cur[l], None} : cur' = [cur EXCEPT ![l] = x]
        /\ \E p : at' = [at EXCEPT ![l] = p]
        /\ UNCHANGED <<serverVars, connVars, userVars, queue, events, active, revents, batch>>
    BY DEF UserReturn
  <1>3. SameLoops(c)
    BY <1>1, <1>2, TurnSameLoops
  <1>4. SameWay(c)
    BY <1>2, NoneSameWay
  <1>5. index'[c] = index[c]
    BY DEF UserReturn, Types, TypeOK
  <1>6. SameData(c)
    BY <1>2, <1>5 DEF SameData, serverVars, connVars, userVars
  <1>7. QED BY <1>3, <1>4, <1>6 DEF Same

\* What happens outside of the loops.
LEMMA OutsideSame ==
    ASSUME Types, NEW c \in Conns, PeerStep \/ QuitBase \/ Destroy \/ UNCHANGED vars
    PROVE  Same(c)
  <1>1. UNCHANGED <<serverVars, connVars, chanVars, loopVars, userVars, queue>>
    BY DEF PeerStep, PeerCloses, PeerResets, QuitBase, Destroy, vars
  <1>2. SameLoops(c)
    BY <1>1, StillSameLoops DEF loopVars
  <1>3. SameWay(c)
    BY <1>1, NoneSameWay DEF loopVars
  <1>4. SameData(c)
    BY <1>1 DEF SameData, serverVars, connVars, chanVars, loopVars, userVars
  <1>5. QED BY <1>2, <1>3, <1>4 DEF Same

LEMMA WorkerSame ==
    ASSUME Types, NEW d \in Conns,
           \/ \E o \in {"send", "mark"} : WorkerCall(o, d)
           \/ (WorkerMark \/ WorkerPost) /\ d = worker.conn,
           NEW c \in Conns \ {d}
    PROVE  Same(c)
  <1>1. SameLoops(c)
    BY StillSameLoops DEF WorkerCall, WorkerMark, WorkerPost, loopVars
  <1>2. SameWay(c)
    <2>1. CASE WorkerPost /\ QueueInLoop(loopOf[worker.conn], worker)
      <3>1. worker.op \in AllOps /\ worker = Functor(worker.op, d) /\ d = worker.conn
            /\ loopOf[d] \in Loops
        BY <2>1, FunctorOps DEF WorkerPost, WorkerCall, WorkerMark, AllOps, Types, TypeOK,
                                NoCall, Functor
      <3>2. QED BY <2>1, <3>1, QueueSameWay DEF WorkerPost, loopVars, Types
    <2>2. CASE UNCHANGED queue
      BY <2>2, NoneSameWay DEF WorkerCall, WorkerMark, WorkerPost, loopVars
    <2>3. QED BY <2>1, <2>2 DEF WorkerCall, WorkerMark, WorkerPost
  <1>3. worker'.conn # c /\ worker.conn # c
    BY NoneAssumption DEF WorkerCall, WorkerMark, WorkerPost, NoCall, Functor, Types, TypeOK
  <1>4. state'[c] = state[c]
    BY DEF WorkerCall, WorkerMark, WorkerPost, connVars, Types, TypeOK
  <1>5. SameData(c)
    BY <1>3, <1>4 DEF SameData, WorkerCall, WorkerMark, WorkerPost, serverVars, connVars,
                      chanVars, loopVars
  <1>6. QED BY <1>1, <1>2, <1>5 DEF Same

LEMMA DropSame ==
    ASSUME Types, NEW d \in Conns, DropConnection(d), NEW c \in Conns \ {d}
    PROVE  Same(c)
  <1>1. SameLoops(c)
    BY StillSameLoops DEF DropConnection, loopVars
  <1>2. SameWay(c)
    BY NoneSameWay DEF DropConnection, loopVars
  <1>3. SameData(c)
    BY DEF DropConnection, SameData, connVars, chanVars, loopVars, userVars
  <1>4. QED BY <1>1, <1>2, <1>3 DEF Same

-----------------------------------------------------------------------------
(* A connection that was not accepted is nowhere, and one that is listed   *)
(* is not destroyed.                                                       *)

Touched(c) == \/ c \in refs \/ worker.conn = c \/ timers[c] > 0
              \/ index[c] # "new" \/ c \in connections
              \/ \E l \in Loops : c \in active[l] \/ cur[l] = c
              \/ \E l \in Loops, o \in AllOps : Functor(o, c) \in OnWay(l)

FreshAt(c) == state[c] = "none" => ~Touched(c)
ListedAt(c) == c \in connections =>
                   /\ state[c] # "disconnected"
                   /\ \A l \in Loops : Functor("destroyed", c) \notin OnWay(l)
RosterInv == \A c \in Conns : FreshAt(c) /\ ListedAt(c)

LEMMA SameKeepsRoster ==
    ASSUME NEW c \in Conns, Same(c), FreshAt(c) /\ ListedAt(c)
    PROVE  FreshAt(c)' /\ ListedAt(c)'
  <1>1. FreshAt(c)'
    BY DEF Same, SameData, SameLoops, SameWay, FreshAt, Touched
  <1>2. ListedAt(c)'
    <2>1. "destroyed" \in AllOps
      BY FunctorOps DEF AllOps
    <2>2. QED BY <2>1 DEF Same, SameData, SameWay, ListedAt
  <1>3. QED BY <1>1, <1>2

\* What a step adds to the functors on their way.
LEMMA WayShrinks ==
    ASSUME TypeOK, UNCHANGED queue, UNCHANGED batch \/ \E l \in Loops, f \in Functors : Run(l, f)
    PROVE  \A k \in Loops : OnWay(k)' \subseteq OnWay(k)
  <1>1. CASE UNCHANGED batch
    BY <1>1 DEF OnWay
  <1>2. ASSUME NEW l \in Loops, NEW f \in Functors, Run(l, f)
        PROVE  \A k \in Loops : OnWay(k)' \subseteq OnWay(k)
    <2>1. /\ Entries(batch[l]) = Entries(batch'[l]) \cup {f}
          /\ \A k \in Loops \ {l} : batch'[k] = batch[k]
      BY <1>2, RunOnWay
    <2>2. QED BY <2>1 DEF OnWay
  <1>3. QED BY <1>1, <1>2

LEMMA WayGrows ==
    ASSUME TypeOK, NEW m \in Loops, NEW g \in Functors, QueueInLoop(m, g),
           UNCHANGED batch \/ \E l \in Loops, f \in Functors : Run(l, f)
    PROVE  /\ OnWay(m)' \subseteq OnWay(m) \cup {g}
           /\ \A k \in Loops \ {m} : OnWay(k)' \subseteq OnWay(k)
  <1>1. /\ Entries(queue'[m]) = Entries(queue[m]) \cup {g}
        /\ \A k \in Loops \ {m} : queue'[k] = queue[k]
    BY QueueOnWay
  <1>2. \A k \in Loops : Entries(batch'[k]) \subseteq Entries(batch[k])
    <2>1. CASE UNCHANGED batch
      BY <2>1
    <2>2. ASSUME NEW l \in Loops, NEW f \in Functors, Run(l, f)
          PROVE  \A k \in Loops : Entries(batch'[k]) \subseteq Entries(batch[k])
      <3>1. /\ Entries(batch[l]) = Entries(batch'[l]) \cup {f}
            /\ \A k \in Loops \ {l} : batch'[k] = batch[k]
        BY <2>2, RunOnWay
      <3>2. QED BY <3>1
    <2>3. QED BY <2>1, <2>2
  <1>3. QED BY <1>1, <1>2 DEF OnWay

\* Nothing comes back to "none".
LEMMA StateStays ==
    ASSUME Types, [Next]_vars, NEW c \in Conns, state'[c] = "none"
    PROVE  state[c] = "none"
  <1>1. \/ UNCHANGED state
        \/ \E d \in Conns, s \in States \ {"none"} : state' = [state EXCEPT ![d] = s]
    <2>1. {"connecting", "connected", "disconnecting", "disconnected"} = States \ {"none"}
      BY DEF States
    <2>2. ASSUME NEW d \in Conns, NewConnection(d)
          PROVE  \E s \in States \ {"none"} : state' = [state EXCEPT ![d] = s]
      BY <2>1, <2>2 DEF NewConnection, ConnEstablished
    <2>3. ASSUME NEW l \in Loops, ChannelStep(l)
          PROVE  UNCHANGED state
      BY <2>3 DEF ChannelStep, StartEvent, HupEvent, ReadMessage, ReadEof, ReadError, WriteRest,
                  WriteSome, EndEvent, connVars
    <2>4. ASSUME NEW l \in Loops, FunctorStep(l)
          PROVE  \/ UNCHANGED state
                 \/ \E d \in Conns, s \in States \ {"none"} : state' = [state EXCEPT ![d] = s]
      BY <2>1, <2>4 DEF FunctorStep, TakeBatch, EndBatch, RunEstablished, RunRemove, RunDestroyed,
                        RunWriteComplete, RunSend, RunShutdown, ConnEstablished, connVars
    <2>5. ASSUME UserStep
          PROVE  \/ UNCHANGED state
                 \/ \E d \in Conns, s \in States \ {"none"} : state' = [state EXCEPT ![d] = s]
      <3>1. CASE WorkerMark
        <4>1. worker.conn \in Conns
          BY <3>1 DEF WorkerMark, Types, TypeOK, NoCall, Functor
        <4>2. QED BY <2>1, <3>1, <4>1 DEF WorkerMark
      <3>2. ASSUME NEW l \in Loops, NEW d \in Conns, UserShutdown(l, d)
            PROVE  \E s \in States \ {"none"} : state' = [state EXCEPT ![d] = s]
        BY <2>1, <3>2 DEF UserShutdown
      <3>3. QED BY <2>5, <3>1, <3>2 DEF UserStep, UserSend, UserClose, UserHold, UserDrop,
                                        WorkerCall, WorkerPost, connVars
    <2>6. ASSUME EndStep \/ PeerStep \/ UNCHANGED vars
          PROVE  UNCHANGED state
      BY <2>6 DEF EndStep, QuitBase, Destroy, DropConnection, StopLoop, PeerStep, PeerCloses,
                  PeerResets, vars, connVars
    <2>7. ASSUME NEW l \in Loops, Poll(l) \/ UserReturn(l) \/ \E d \in Conns : CloseTimer(l, d)
          PROVE  UNCHANGED state
      BY <2>7 DEF Poll, UserReturn, CloseTimer, connVars
    <2>8. QED BY <2>2, <2>3, <2>4, <2>5, <2>6, <2>7 DEF Next, RunStep
  <1>2. ASSUME NEW d \in Conns, NEW s \in States \ {"none"}, state' = [state EXCEPT ![d] = s]
        PROVE  state[c] = "none"
    BY <1>2 DEF Types, TypeOK
  <1>3. QED BY <1>1, <1>2

LEMMA CloseListed ==
    ASSUME Types, NEW d \in Conns, HandleClose(d), UNCHANGED <<batch, state>>, ListedAt(d)
    PROVE  ListedAt(d)'
  <1>1. CASE RemoveConnectionInLoop(d)
    BY <1>1 DEF RemoveConnectionInLoop, ListedAt
  <1>2. CASE QueueInLoop(0, Functor("remove", d)) /\ UNCHANGED connections
    <2>1. Functor("remove", d) \in Functors /\ Functor("remove", d) # Functor("destroyed", d)
      BY FunctorTypes, FunctorOps DEF Functor
    <2>2. \A k \in Loops : OnWay(k)' \subseteq OnWay(k) \cup {Functor("remove", d)}
      BY <1>2, <2>1, ZeroIsLoop, WayGrows DEF Types
    <2>3. QED BY <1>2, <2>1, <2>2 DEF ListedAt
  <1>3. CASE UNCHANGED <<connections, queue>>
    BY <1>3 DEF ListedAt, OnWay
  <1>4. QED BY <1>1, <1>2, <1>3 DEF HandleClose, RemoveConnection

LEMMA SendListed ==
    ASSUME Types, NEW d \in Conns, SendInLoop(d), UNCHANGED <<connections, state>>,
           UNCHANGED batch \/ \E l \in Loops, f \in Functors : Run(l, f), ListedAt(d)
    PROVE  ListedAt(d)'
  <1>1. CASE QueueInLoop(loopOf[d], Functor("writeComplete", d))
    <2>1. /\ Functor("writeComplete", d) \in Functors /\ loopOf[d] \in Loops
          /\ Functor("writeComplete", d) # Functor("destroyed", d)
      BY FunctorTypes, FunctorOps DEF Functor, Types, TypeOK
    <2>2. \A k \in Loops : OnWay(k)' \subseteq OnWay(k) \cup {Functor("writeComplete", d)}
      BY <1>1, <2>1, WayGrows DEF Types
    <2>3. QED BY <2>1, <2>2 DEF ListedAt
  <1>2. CASE UNCHANGED queue
    <2>1. \A k \in Loops : OnWay(k)' \subseteq OnWay(k)
      BY <1>2, WayShrinks DEF Types
    <2>2. QED BY <2>1 DEF ListedAt
  <1>3. QED BY <1>1, <1>2 DEF SendInLoop

\* The functors of DoPendingFunctors.
FunctorRun(l, c) == RunEstablished(l, c) \/ RunRemove(l, c) \/ RunDestroyed(l, c)
                        \/ RunWriteComplete(l, c) \/ RunSend(l, c) \/ RunShutdown(l, c)

LEMMA FunctorIsRun ==
    ASSUME Types, NEW l \in Loops, NEW d \in Conns, FunctorRun(l, d)
    PROVE  \E o \in AllOps : /\ Run(l, Functor(o, d)) /\ Functor(o, d) \in OnWay(l)
                             /\ Functor(o, d) \in Functors
  <1>1. PICK o \in AllOps : Run(l, Functor(o, d))
    BY FunctorOps DEF FunctorRun, RunEstablished, RunRemove, RunDestroyed, RunWriteComplete,
                      RunSend, RunShutdown, AllOps
  <1>2. Functor(o, d) \in Entries(batch[l]) /\ Functor(o, d) \in Functors
    BY <1>1, RunOnWay DEF Types
  <1>3. QED BY <1>1, <1>2 DEF OnWay

LEMMA FunctorListed ==
    ASSUME Types, NEW l \in Loops, NEW d \in Conns, FunctorRun(l, d), ListedAt(d)
    PROVE  ListedAt(d)'
  <1>1. PICK o \in AllOps : /\ Run(l, Functor(o, d)) /\ Functor(o, d) \in OnWay(l)
                            /\ Functor(o, d) \in Functors
    BY FunctorIsRun
  <1>2. CASE UNCHANGED queue
    <2>1. \A k \in Loops : OnWay(k)' \subseteq OnWay(k)
      BY <1>1, <1>2, WayShrinks DEF Types
    <2>2. CASE RunDestroyed(l, d)
      <3>1. Functor("destroyed", d) \in OnWay(l)
        BY <2>2, RunOnWay DEF RunDestroyed, OnWay, Types
      <3>2. QED BY <2>2, <3>1 DEF RunDestroyed, ListedAt, serverVars
    <2>3. CASE RunRemove(l, d)
      BY <2>3 DEF RunRemove, RemoveConnectionInLoop, ListedAt
    <2>4. CASE RunEstablished(l, d)
      <3>1. state'[d] = "connected" /\ UNCHANGED connections
        BY <2>4 DEF RunEstablished, ConnEstablished, serverVars, Types, TypeOK
      <3>2. QED BY <2>1, <3>1 DEF ListedAt
    <2>5. CASE RunWriteComplete(l, d) \/ RunSend(l, d) \/ RunShutdown(l, d)
      <3>1. UNCHANGED <<state, connections>>
        BY <2>5 DEF RunWriteComplete, RunSend, RunShutdown, serverVars, connVars
      <3>2. QED BY <2>1, <3>1 DEF ListedAt
    <2>6. QED BY <2>2, <2>3, <2>4, <2>5 DEF FunctorRun
  <1>3. CASE ~UNCHANGED queue
    <2>1. CASE RunRemove(l, d)
      BY <2>1 DEF RunRemove, RemoveConnectionInLoop, ListedAt
    <2>2. CASE RunSend(l, d)
      BY <1>1, <1>3, <2>2, SendListed DEF RunSend, serverVars
    <2>3. QED BY <1>3, <2>1, <2>2 DEF FunctorRun, RunEstablished, RunDestroyed,
                                      RunWriteComplete, RunShutdown
  <1>4. QED BY <1>2, <1>3

LEMMA RosterKept ==
    ASSUME Types, PhaseInv, RosterInv, [Next]_vars
    PROVE  RosterInv'
  <1>1. ASSUME NEW d \in Conns, Touched(d) \/ state'[d] # "none", ListedAt(d)',
               \A c \in Conns \ {d} : Same(c)
        PROVE  RosterInv'
    <2>1. state'[d] # "none"
      BY <1>1, StateStays DEF RosterInv, FreshAt
    <2>2. FreshAt(d)'
      BY <2>1 DEF FreshAt
    <2>3. QED BY <1>1, <2>2, SameKeepsRoster DEF RosterInv
  <1>2. ASSUME \A c \in Conns : Same(c)
        PROVE  RosterInv'
    BY <1>2, SameKeepsRoster DEF RosterInv
  <1>3. \A d \in Conns : ListedAt(d)
    BY DEF RosterInv
  <1>4. ASSUME NEW l \in Loops, Poll(l)
        PROVE  RosterInv'
    <2>1. ASSUME NEW c \in Conns, FreshAt(c)
          PROVE  FreshAt(c)'
      <3>1. ASSUME state[c] = "none", NEW k \in Loops
            PROVE  c \notin active'[k]
        BY <1>4, <2>1, <3>1 DEF Poll, Registered, FreshAt, Touched, Types, TypeOK
      <3>2. UNCHANGED <<serverVars, connVars, chanVars, userVars, queue, cur, batch>>
        BY <1>4 DEF Poll
      <3>3. QED BY <2>1, <3>1, <3>2 DEF FreshAt, Touched, OnWay, serverVars, connVars, chanVars,
                                        userVars
    <2>2. ASSUME NEW c \in Conns
          PROVE  ListedAt(c)'
      BY <1>3, <1>4 DEF Poll, ListedAt, OnWay, serverVars, connVars
    <2>3. QED BY <2>1, <2>2 DEF RosterInv
  <1>5. ASSUME NEW l \in Loops, ChannelStep(l)
        PROVE  RosterInv'
    <2>1. PICK d \in Conns : (d = cur[l] \/ d = cur'[l]) /\ \A c \in Conns \ {d} : Same(c)
      BY <1>5, ChannelSame
    <2>2. Touched(d)
      <3>1. CASE StartEvent(l)
        <4>1. cur[l] = None /\ cur'[l] \in active[l]
          BY <3>1, NotWithConn DEF StartEvent, Types, TypeOK
        <4>2. QED BY <2>1, <4>1, NoneAssumption DEF Touched
      <3>2. CASE EndEvent(l)
        <4>1. cur'[l] = None
          BY <3>2 DEF EndEvent, Types, TypeOK
        <4>2. QED BY <2>1, <4>1, NoneAssumption DEF Touched
      <3>3. CASE UNCHANGED cur
        BY <2>1, <3>3 DEF Touched
      <3>4. QED BY <1>5, <3>1, <3>2, <3>3 DEF ChannelStep, HupEvent, ReadMessage, ReadEof,
                                              ReadError, WriteRest, WriteSome
    <2>3. ListedAt(d)'
      <3>1. CASE HupEvent(l) \/ ReadEof(l)
        <4>1. cur[l] \in Conns /\ UNCHANGED <<cur, batch, state>> /\ HandleClose(cur[l])
          BY <3>1, Kinds DEF HupEvent, ReadEof, connVars, Types, CurInv
        <4>2. QED BY <1>3, <2>1, <4>1, CloseListed
      <3>2. CASE WriteRest(l)
        <4>1. d = cur[l] /\ UNCHANGED <<batch, state, connections>>
          BY <2>1, <3>2 DEF WriteRest, serverVars
        <4>2. CASE UNCHANGED queue
          BY <1>3, <4>1, <4>2 DEF ListedAt, OnWay
        <4>3. CASE QueueInLoop(l, Functor("writeComplete", d))
          <5>1. Functor("writeComplete", d) \in Functors
                /\ Functor("writeComplete", d) # Functor("destroyed", d)
            BY FunctorTypes, FunctorOps DEF Functor
          <5>2. \A k \in Loops : OnWay(k)' \subseteq OnWay(k) \cup {Functor("writeComplete", d)}
            BY <4>1, <4>3, <5>1, WayGrows DEF Types
          <5>3. QED BY <1>3, <4>1, <5>1, <5>2 DEF ListedAt
        <4>4. QED BY <3>2, <4>1, <4>2, <4>3 DEF WriteRest
      <3>3. CASE UNCHANGED <<queue, batch, state, connections>>
        BY <1>3, <3>3 DEF ListedAt, OnWay
      <3>4. QED BY <1>5, <3>1, <3>2, <3>3 DEF ChannelStep, StartEvent, ReadMessage, ReadError,
                                              WriteSome, EndEvent, serverVars, connVars
    <2>4. QED BY <1>1, <2>1, <2>2, <2>3
  <1>6. ASSUME NEW l \in Loops, FunctorStep(l)
        PROVE  RosterInv'
    <2>1. CASE TakeBatch(l) \/ EndBatch(l)
      BY <1>2, <2>1, BatchSame
    <2>2. ASSUME NEW d \in Conns, FunctorRun(l, d)
          PROVE  RosterInv'
      <3>1. \A c \in Conns \ {d} : Same(c)
        BY <2>2, FunctorSame DEF FunctorRun
      <3>2. Touched(d)
        BY <2>2, FunctorIsRun DEF Touched
      <3>3. QED BY <1>1, <1>3, <2>2, <3>1, <3>2, FunctorListed
    <2>3. QED BY <1>6, <2>1, <2>2 DEF FunctorStep, FunctorRun
  <1>7. ASSUME NEW l \in Loops, UserReturn(l)
        PROVE  RosterInv'
    <2>1. cur[l] \in Conns
      BY <1>7, Kinds DEF Types, CurInv, UserReturn, WithConn
    <2>2. PICK d \in Conns : d = cur[l]
      BY <2>1
    <2>3. Touched(d)
      BY <2>2 DEF Touched
    <2>4. ListedAt(d)'
      <3>1. UNCHANGED <<state, connections, queue, batch>>
        BY <1>7 DEF UserReturn, serverVars, connVars
      <3>2. QED BY <1>3, <3>1 DEF ListedAt, OnWay
    <2>5. \A c \in Conns \ {d} : Same(c)
      BY <1>7, <2>2, UserReturnSame
    <2>6. QED BY <1>1, <2>3, <2>4, <2>5
  <1>8. ASSUME NEW d \in Conns, NewConnection(d)
        PROVE  RosterInv'
    <2>1. state'[d] \in {"connecting", "connected"} /\ UNCHANGED batch
      BY <1>8 DEF NewConnection, ConnEstablished, Types, TypeOK
    <2>2. \A k \in Loops : Functor("destroyed", d) \notin OnWay(k)
      BY <1>8, FunctorOps DEF NewConnection, RosterInv, FreshAt, Touched, AllOps
    <2>3. \A k \in Loops : OnWay(k)' \subseteq OnWay(k) \cup {Functor("established", d)}
      <3>1. Functor("established", d) \in Functors
        BY FunctorTypes, FunctorOps
      <3>2. CASE UNCHANGED queue
        BY <2>1, <3>2 DEF OnWay
      <3>3. CASE QueueInLoop(NextLoop, Functor("established", d))
        BY <2>1, <3>1, <3>3, WayGrows, NextLoopIsLoop DEF Types
      <3>4. QED BY <1>8, <3>2, <3>3 DEF NewConnection
    <2>4. ListedAt(d)'
      BY <2>1, <2>2, <2>3 DEF ListedAt, Functor
    <2>5. QED BY <1>1, <1>8, <2>1, <2>4, NewConnectionSame
  <1>9. ASSUME NEW l \in Loops, NEW d \in Conns, CloseTimer(l, d)
        PROVE  RosterInv'
    <2>1. Touched(d)
      BY <1>9 DEF CloseTimer, Touched
    <2>2. ListedAt(d)'
      BY <1>3, <1>9, CloseListed DEF CloseTimer, loopVars, connVars
    <2>3. QED BY <1>1, <1>9, <2>1, <2>2, CloseTimerSame
  <1>10. ASSUME UserStep
         PROVE  RosterInv'
    <2>1. ASSUME NEW l \in Loops, NEW d \in Conns,
                 UserSend(l, d) \/ UserShutdown(l, d) \/ UserClose(l, d) \/ UserDrop(d)
                     \/ (UserHold(l) /\ d = cur[l])
          PROVE  RosterInv'
      <3>1. Touched(d)
        BY <2>1 DEF UserSend, UserShutdown, UserClose, UserDrop, UserHold, Usable, Touched
      <3>2. ListedAt(d)'
        <4>1. CASE UserSend(l, d)
          BY <1>3, <4>1, SendListed DEF UserSend, serverVars, loopVars
        <4>2. CASE UserShutdown(l, d)
          <5>1. state'[d] = "disconnecting"
            BY <4>2 DEF UserShutdown, Types, TypeOK
          <5>2. QED BY <1>3, <4>2, <5>1 DEF UserShutdown, serverVars, loopVars, ListedAt, OnWay
        <4>3. CASE UNCHANGED <<serverVars, connVars, loopVars, queue>>
          BY <1>3, <4>3 DEF ListedAt, OnWay, serverVars, connVars, loopVars
        <4>4. QED BY <2>1, <4>1, <4>2, <4>3 DEF UserClose, UserDrop, UserHold
      <3>3. QED BY <1>1, <2>1, <3>1, <3>2, UserOpSame
    <2>2. ASSUME NEW d \in Conns,
                 \/ \E o \in {"send", "mark"} : WorkerCall(o, d)
                 \/ (WorkerMark \/ WorkerPost) /\ d = worker.conn
          PROVE  RosterInv'
      <3>1. Touched(d)
        BY <2>2 DEF WorkerCall, WorkerMark, WorkerPost, Touched
      <3>2. ListedAt(d)'
        <4>1. CASE UNCHANGED <<serverVars, connVars, loopVars, queue>>
          BY <1>3, <4>1 DEF ListedAt, OnWay, serverVars, connVars, loopVars
        <4>2. CASE WorkerMark /\ d = worker.conn
          <5>1. state'[d] = "disconnecting"
            BY <4>2 DEF WorkerMark, Types, TypeOK
          <5>2. QED BY <1>3, <4>2, <5>1 DEF WorkerMark, serverVars, loopVars, ListedAt, OnWay
        <4>3. CASE WorkerPost /\ d = worker.conn /\ QueueInLoop(loopOf[worker.conn], worker)
          <5>1. /\ worker \in Functors /\ worker # Functor("destroyed", d)
                /\ loopOf[worker.conn] \in Loops
            BY <4>3, FunctorOps DEF WorkerPost, Functors, Functor, Types, TypeOK, NoCall, RawOps
          <5>2. \A k \in Loops : OnWay(k)' \subseteq OnWay(k) \cup {worker}
            BY <4>3, <5>1, WayGrows DEF WorkerPost, Types, loopVars
          <5>3. QED BY <1>3, <4>3, <5>1, <5>2 DEF WorkerPost, ListedAt, serverVars, connVars
        <4>4. QED BY <2>2, <4>1, <4>2, <4>3 DEF WorkerCall, WorkerPost
      <3>3. QED BY <1>1, <2>2, <3>1, <3>2, WorkerSame
    <2>3. ASSUME NEW l \in Loops, UserHold(l)
          PROVE  RosterInv'
      <3>1. cur[l] \in Conns
        BY <2>3, Kinds DEF Types, CurInv, UserHold, WithConn
      <3>2. QED BY <2>1, <2>3, <3>1
    <2>4. ASSUME WorkerMark \/ WorkerPost
          PROVE  RosterInv'
      <3>1. worker.conn \in Conns
        BY <2>4, FunctorOps DEF WorkerMark, WorkerPost, Types, TypeOK, NoCall, Functor
      <3>2. QED BY <2>2, <2>4, <3>1
    <2>5. ASSUME NEW d \in Conns, UserDrop(d)
          PROVE  RosterInv'
      <3>1. \/ UserSend(0, d) \/ UserShutdown(0, d) \/ UserClose(0, d) \/ UserDrop(d)
            \/ (UserHold(0) /\ d = cur[0])
        BY <2>5
      <3>2. QED BY <2>1, <3>1, ZeroIsLoop
    <2>6. ASSUME NEW o \in {"send", "mark"}, NEW d \in Conns, WorkerCall(o, d)
          PROVE  RosterInv'
      <3>1. \/ \E p \in {"send", "mark"} : WorkerCall(p, d)
            \/ (WorkerMark \/ WorkerPost) /\ d = worker.conn
        BY <2>6
      <3>2. QED BY <2>2, <3>1
    <2>7. ASSUME NEW l \in Loops, NEW d \in Conns,
                 UserSend(l, d) \/ UserShutdown(l, d) \/ UserClose(l, d)
          PROVE  RosterInv'
      BY <2>1, <2>7
    <2>8. QED BY <1>10, <2>3, <2>4, <2>5, <2>6, <2>7 DEF UserStep
  <1>11. ASSUME EndStep
         PROVE  RosterInv'
    <2>1. CASE QuitBase \/ Destroy
      BY <1>2, <2>1, OutsideSame
    <2>2. ASSUME NEW d \in Conns, DropConnection(d)
          PROVE  RosterInv'
      <3>1. Touched(d)
        BY <2>2 DEF DropConnection, Touched
      <3>2. ListedAt(d)'
        BY <1>3, <2>2 DEF DropConnection, ListedAt, OnWay, connVars, loopVars
      <3>3. QED BY <1>1, <2>2, <3>1, <3>2, DropSame
    <2>3. ASSUME NEW l \in Loops, StopLoop(l)
          PROVE  RosterInv'
      <3>1. \A k \in Loops : OnWay(k)' \subseteq OnWay(k)
        <4>1. queue'[l] = <<>> /\ batch' = batch /\ \A k \in Loops \ {l} : queue'[k] = queue[k]
          BY <2>3 DEF StopLoop, Types, TypeOK
        <4>2. QED BY <4>1, EntriesOfEmpty DEF OnWay
      <3>2. UNCHANGED <<serverVars, connVars, chanVars, userVars, active, cur>>
        BY <2>3 DEF StopLoop
      <3>3. ASSUME NEW c \in Conns
            PROVE  FreshAt(c)' /\ ListedAt(c)'
        <4>1. FreshAt(c) /\ ListedAt(c)
          BY DEF RosterInv
        <4>2. FreshAt(c)'
          BY <3>1, <3>2, <4>1 DEF FreshAt, Touched, serverVars, connVars, chanVars, userVars
        <4>3. ListedAt(c)'
          BY <3>1, <3>2, <4>1 DEF ListedAt, serverVars, connVars
        <4>4. QED BY <4>2, <4>3
      <3>4. QED BY <3>3 DEF RosterInv
    <2>4. QED BY <1>11, <2>1, <2>2, <2>3 DEF EndStep
  <1>12. QED
    <2>1. ASSUME PeerStep \/ UNCHANGED vars
          PROVE  RosterInv'
      BY <1>2, <2>1, OutsideSame
    <2>2. QED BY <1>4, <1>5, <1>6, <1>7, <1>8, <1>9, <1>10, <1>11, <2>1 DEF Next, RunStep

-----------------------------------------------------------------------------
(* What holds of every program.                                            *)

AnyInv == Types /\ PhaseInv /\ BaseInv /\ RosterInv

LEMMA AnyInitially ==
    ASSUME Init
    PROVE  AnyInv
  <1>1. Types
    BY TypesInitially
  <1>2. \A l \in Loops : OnWay(l) = {}
    BY EntriesOfEmpty DEF Init, OnWay
  <1>3. PhaseInv
    BY DEF Init, PhaseInv
  <1>4. BaseInv
    BY <1>2, ZeroIsLoop DEF BaseInv
  <1>5. RosterInv
    <2>1. ASSUME NEW c \in Conns
          PROVE  ~Touched(c) /\ c \notin connections
      <3>1. worker.conn # c
        BY NoneAssumption DEF Init, NoCall, Functor
      <3>2. QED BY <1>2, <3>1, NoneAssumption DEF Init, Touched
    <2>2. QED BY <2>1 DEF RosterInv, FreshAt, ListedAt
  <1>6. QED BY <1>1, <1>3, <1>4, <1>5 DEF AnyInv

LEMMA AnyHolds == Spec => []AnyInv
  <1>1. Init => AnyInv
    BY AnyInitially
  <1>2. AnyInv /\ [Next]_vars => AnyInv'
    BY TypesKept, PhaseKept, BaseKept, RosterKept DEF AnyInv
  <1>3. QED BY <1>1, <1>2, PTL DEF Spec

\* Type correctness of TcpServer, TcpConnection and their loops.
THEOREM ServerTypeCorrect == Spec => []TypeOK
  <1>1. AnyInv => TypeOK
    BY DEF AnyInv, Types
  <1>2. QED BY <1>1, AnyHolds, PTL

\* Whatever a program does, TcpServer::RemoveConnectionInLoop and ~TcpServer erase
\* a connection from connections_ before ConnDestroyed is queued for it.
THEOREM ListedStaysUp == Spec => []ListedNotDestroyed
  <1>1. ASSUME AnyInv
        PROVE  ListedNotDestroyed
    <2>1. SUFFICES ASSUME NEW c \in connections
                   PROVE  state[c] # "disconnected" /\ Functor("destroyed", c) \notin Removing(c)
      BY DEF ListedNotDestroyed
    <2>2. c \in Conns
      BY <1>1 DEF AnyInv, Types, TypeOK
    <2>3. ListedAt(c)
      BY <1>1, <2>2 DEF AnyInv, RosterInv
    <2>4. QED BY <2>3 DEF ListedAt, OnWay, Removing
  <1>2. QED BY <1>1, AnyHolds, PTL

-----------------------------------------------------------------------------
(* Every loop keeps to its own connections.                                *)

\* The loop for functor o of connection c.
LoopFor(o, c) == IF o = "remove" THEN 0 ELSE loopOf[c]

HandledAt(c) == \A l \in Loops : c \in active[l] \/ cur[l] = c => loopOf[c] = l
SentTo(c) == \A l \in Loops, o \in AllOps : Functor(o, c) \in OnWay(l) => l = LoopFor(o, c)
HomeInv == \A c \in Conns : HandledAt(c) /\ SentTo(c)

LEMMA SameKeepsHome ==
    ASSUME NEW c \in Conns, Same(c), HandledAt(c), SentTo(c)
    PROVE  HandledAt(c)' /\ SentTo(c)'
  <1>1. loopOf'[c] = loopOf[c]
    BY DEF Same, SameData
  <1>2. HandledAt(c)'
    BY <1>1 DEF Same, SameLoops, HandledAt
  <1>3. SentTo(c)'
    BY <1>1 DEF Same, SameWay, SentTo, LoopFor
  <1>4. QED BY <1>2, <1>3

LEMMA SentLess ==
    ASSUME NEW d \in Conns, SentTo(d), loopOf'[d] = loopOf[d],
           \A k \in Loops : OnWay(k)' \subseteq OnWay(k)
    PROVE  SentTo(d)'
  BY DEF SentTo, LoopFor

LEMMA SentMore ==
    ASSUME Types, NEW d \in Conns, SentTo(d), loopOf'[d] = loopOf[d],
           NEW p \in AllOps, QueueInLoop(LoopFor(p, d), Functor(p, d)),
           UNCHANGED batch \/ \E l \in Loops, f \in Functors : Run(l, f)
    PROVE  SentTo(d)'
  <1>1. PICK m \in Loops : m = LoopFor(p, d)
    BY ZeroIsLoop DEF LoopFor, Types, TypeOK
  <1>2. Functor(p, d) \in Functors
    BY FunctorTypes DEF AllOps
  <1>3. /\ OnWay(m)' \subseteq OnWay(m) \cup {Functor(p, d)}
        /\ \A k \in Loops \ {m} : OnWay(k)' \subseteq OnWay(k)
    BY <1>1, <1>2, WayGrows DEF Types
  <1>4. ASSUME NEW l \in Loops, NEW o \in AllOps, Functor(o, d) \in OnWay(l)'
        PROVE  l = LoopFor(o, d)
    <2>1. CASE Functor(o, d) \in OnWay(l)
      BY <2>1 DEF SentTo
    <2>2. CASE Functor(o, d) \notin OnWay(l)
      <3>1. l = m /\ Functor(o, d) = Functor(p, d)
        BY <1>3, <1>4, <2>2
      <3>2. QED BY <1>1, <3>1 DEF Functor
    <2>3. QED BY <2>1, <2>2
  <1>5. \A o \in AllOps : LoopFor(o, d)' = LoopFor(o, d)
    BY DEF LoopFor
  <1>6. QED BY <1>4, <1>5 DEF SentTo

LEMMA RemoveHome ==
    ASSUME Types, NEW d \in Conns, SentTo(d), loopOf'[d] = loopOf[d], RemoveConnectionInLoop(d),
           UNCHANGED batch \/ \E l \in Loops, f \in Functors : Run(l, f)
    PROVE  SentTo(d)'
  <1>1. "destroyed" \in AllOps /\ LoopFor("destroyed", d) = loopOf[d]
    BY FunctorOps DEF AllOps, LoopFor
  <1>2. QED BY <1>1, SentMore DEF RemoveConnectionInLoop

LEMMA CloseHome ==
    ASSUME Types, NEW d \in Conns, SentTo(d), loopOf'[d] = loopOf[d], HandleClose(d),
           UNCHANGED batch
    PROVE  SentTo(d)'
  <1>1. CASE RemoveConnectionInLoop(d)
    BY <1>1, RemoveHome
  <1>2. CASE QueueInLoop(0, Functor("remove", d))
    <2>1. "remove" \in AllOps /\ LoopFor("remove", d) = 0
      BY FunctorOps DEF AllOps, LoopFor
    <2>2. QED BY <1>2, <2>1, SentMore
  <1>3. CASE UNCHANGED queue
    <2>1. \A k \in Loops : OnWay(k)' \subseteq OnWay(k)
      BY <1>3 DEF OnWay
    <2>2. QED BY <2>1, SentLess
  <1>4. QED BY <1>1, <1>2, <1>3 DEF HandleClose, RemoveConnection

\* A write-complete callback is queued, or nothing is.
LEMMA CompleteHome ==
    ASSUME Types, NEW d \in Conns, SentTo(d), loopOf'[d] = loopOf[d],
           UNCHANGED queue \/ QueueInLoop(loopOf[d], Functor("writeComplete", d)),
           UNCHANGED batch \/ \E l \in Loops, f \in Functors : Run(l, f)
    PROVE  SentTo(d)'
  <1>1. CASE UNCHANGED queue
    <2>1. \A k \in Loops : OnWay(k)' \subseteq OnWay(k)
      BY <1>1, WayShrinks DEF Types
    <2>2. QED BY <2>1, SentLess
  <1>2. CASE QueueInLoop(loopOf[d], Functor("writeComplete", d))
    <2>1. "writeComplete" \in AllOps /\ LoopFor("writeComplete", d) = loopOf[d]
      BY FunctorOps DEF AllOps, LoopFor, Functor
    <2>2. QED BY <1>2, <2>1, SentMore
  <1>3. QED BY <1>1, <1>2

LEMMA FunctorHome ==
    ASSUME Types, NEW l \in Loops, NEW d \in Conns, FunctorRun(l, d), HandledAt(d), SentTo(d)
    PROVE  HandledAt(d)' /\ SentTo(d)'
  <1>1. PICK o \in AllOps : /\ Run(l, Functor(o, d)) /\ Functor(o, d) \in OnWay(l)
                            /\ Functor(o, d) \in Functors
    BY FunctorIsRun
  <1>2. l = LoopFor(o, d)
    BY <1>1 DEF SentTo
  <1>3. loopOf' = loopOf /\ active' = active
    BY DEF FunctorRun, RunEstablished, RunRemove, RunDestroyed, RunWriteComplete, RunSend,
           RunShutdown, serverVars
  <1>4. HandledAt(d)'
    <2>1. CASE UNCHANGED cur
      BY <1>3, <2>1 DEF HandledAt
    <2>2. CASE RunEstablished(l, d) \/ RunDestroyed(l, d) \/ RunWriteComplete(l, d)
      <3>1. \E p \in {"established", "destroyed", "writeComplete"} : Run(l, Functor(p, d))
        BY <2>2 DEF RunEstablished, RunDestroyed, RunWriteComplete
      <3>2. o # "remove"
        BY <1>1, <3>1 DEF Run, Functor
      <3>3. loopOf[d] = l
        BY <1>2, <3>2 DEF LoopFor
      <3>4. cur' = [cur EXCEPT ![l] = d]
        BY <2>2 DEF RunEstablished, RunDestroyed, RunWriteComplete, ConnEstablished
      <3>5. \A k \in Loops \ {l} : cur'[k] = cur[k]
        BY <3>4 DEF Types, TypeOK
      <3>6. QED BY <1>3, <3>3, <3>5 DEF HandledAt
    <2>3. QED BY <2>1, <2>2 DEF FunctorRun, RunRemove, RunSend, RunShutdown
  <1>5. SentTo(d)'
    <2>1. CASE RunRemove(l, d)
      BY <1>1, <1>3, <2>1, RemoveHome DEF RunRemove
    <2>2. CASE ~RunRemove(l, d)
      <3>1. UNCHANGED queue \/ QueueInLoop(loopOf[d], Functor("writeComplete", d))
        BY <2>2 DEF FunctorRun, RunEstablished, RunDestroyed, RunWriteComplete, RunSend,
                    RunShutdown, SendInLoop
      <3>2. QED BY <1>1, <1>3, <3>1, CompleteHome
    <2>3. QED BY <2>1, <2>2
  <1>6. QED BY <1>4, <1>5

LEMMA HomeKept ==
    ASSUME Types, PhaseInv, RosterInv, HomeInv, [Next]_vars
    PROVE  HomeInv'
  <1>1. ASSUME NEW d \in Conns, HandledAt(d)', SentTo(d)', \A c \in Conns \ {d} : Same(c)
        PROVE  HomeInv'
    BY <1>1, SameKeepsHome DEF HomeInv
  <1>2. ASSUME \A c \in Conns : Same(c)
        PROVE  HomeInv'
    BY <1>2, SameKeepsHome DEF HomeInv
  <1>3. \A d \in Conns : HandledAt(d) /\ SentTo(d)
    BY DEF HomeInv
  <1>4. ASSUME NEW d \in Conns, UNCHANGED <<loopOf, active, cur>>
        PROVE  HandledAt(d)'
    BY <1>3, <1>4 DEF HandledAt
  <1>5. ASSUME NEW d \in Conns, UNCHANGED <<loopOf, queue, batch>>
        PROVE  SentTo(d)'
    BY <1>3, <1>5 DEF SentTo, OnWay, LoopFor
  <1>6. ASSUME NEW l \in Loops, Poll(l)
        PROVE  HomeInv'
    <2>1. ASSUME NEW c \in Conns
          PROVE  HandledAt(c)'
      <3>1. \A k \in Loops : c \in active'[k] => c \in active[k] \/ loopOf[c] = k
        BY <1>6 DEF Poll, Registered, Types, TypeOK
      <3>2. UNCHANGED <<loopOf, cur>>
        BY <1>6 DEF Poll, serverVars
      <3>3. QED BY <1>3, <3>1, <3>2 DEF HandledAt
    <2>2. ASSUME NEW c \in Conns
          PROVE  SentTo(c)'
      BY <1>5, <1>6 DEF Poll, serverVars
    <2>3. QED BY <2>1, <2>2 DEF HomeInv
  <1>7. ASSUME NEW l \in Loops, ChannelStep(l)
        PROVE  HomeInv'
    <2>1. PICK d \in Conns : (d = cur[l] \/ d = cur'[l]) /\ \A c \in Conns \ {d} : Same(c)
      BY <1>7, ChannelSame
    <2>2. loopOf' = loopOf
      BY <1>7 DEF ChannelStep, StartEvent, HupEvent, ReadMessage, ReadEof, ReadError, WriteRest,
                  WriteSome, EndEvent, serverVars
    <2>3. loopOf[d] = l
      <3>1. CASE StartEvent(l)
        <4>1. cur[l] = None /\ cur'[l] \in active[l]
          BY <3>1, NotWithConn DEF StartEvent, Types, TypeOK
        <4>2. QED BY <1>3, <2>1, <4>1, NoneAssumption DEF HandledAt
      <3>2. CASE EndEvent(l)
        <4>1. cur'[l] = None
          BY <3>2 DEF EndEvent, Types, TypeOK
        <4>2. QED BY <1>3, <2>1, <4>1, NoneAssumption DEF HandledAt
      <3>3. CASE UNCHANGED cur
        BY <1>3, <2>1, <3>3 DEF HandledAt
      <3>4. QED BY <1>7, <3>1, <3>2, <3>3 DEF ChannelStep, HupEvent, ReadMessage, ReadEof,
                                              ReadError, WriteRest, WriteSome
    <2>4. HandledAt(d)'
      <3>1. \A k \in Loops : active'[k] \subseteq active[k]
        <4>1. CASE StartEvent(l)
          BY <4>1 DEF StartEvent, Types, TypeOK
        <4>2. CASE UNCHANGED active
          BY <4>2
        <4>3. QED BY <1>7, <4>1, <4>2 DEF ChannelStep, HupEvent, ReadMessage, ReadEof, ReadError,
                                          WriteRest, WriteSome, EndEvent
      <3>2. \A k \in Loops \ {l} : cur'[k] = cur[k]
        <4>1. CASE StartEvent(l) \/ EndEvent(l)
          BY <4>1 DEF StartEvent, EndEvent, Types, TypeOK
        <4>2. CASE UNCHANGED cur
          BY <4>2
        <4>3. QED BY <1>7, <4>1, <4>2 DEF ChannelStep, HupEvent, ReadMessage, ReadEof, ReadError,
                                          WriteRest, WriteSome
      <3>3. QED BY <1>3, <2>2, <2>3, <3>1, <3>2 DEF HandledAt
    <2>5. SentTo(d)'
      <3>1. CASE HupEvent(l) \/ ReadEof(l)
        <4>1. cur[l] \in Conns /\ UNCHANGED <<cur, batch>> /\ HandleClose(cur[l])
          BY <3>1, Kinds DEF HupEvent, ReadEof, Types, CurInv
        <4>2. QED BY <1>3, <2>1, <2>2, <4>1, CloseHome
      <3>2. CASE WriteRest(l)
        <4>1. d = cur[l] /\ UNCHANGED batch
          BY <2>1, <3>2 DEF WriteRest
        <4>2. UNCHANGED queue \/ QueueInLoop(loopOf[d], Functor("writeComplete", d))
          BY <2>3, <3>2, <4>1 DEF WriteRest
        <4>3. QED BY <1>3, <2>2, <4>1, <4>2, CompleteHome
      <3>3. CASE UNCHANGED <<queue, batch>>
        BY <1>5, <2>2, <3>3
      <3>4. QED BY <1>7, <3>1, <3>2, <3>3 DEF ChannelStep, StartEvent, ReadMessage, ReadError,
                                              WriteSome, EndEvent
    <2>6. QED BY <1>1, <2>1, <2>4, <2>5
  <1>8. ASSUME NEW l \in Loops, FunctorStep(l)
        PROVE  HomeInv'
    <2>1. CASE TakeBatch(l) \/ EndBatch(l)
      BY <1>2, <2>1, BatchSame
    <2>2. ASSUME NEW d \in Conns, FunctorRun(l, d)
          PROVE  HomeInv'
      <3>1. \A c \in Conns \ {d} : Same(c)
        BY <2>2, FunctorSame DEF FunctorRun
      <3>2. HandledAt(d)' /\ SentTo(d)'
        BY <1>3, <2>2, FunctorHome
      <3>3. QED BY <1>1, <3>1, <3>2
    <2>3. QED BY <1>8, <2>1, <2>2 DEF FunctorStep, FunctorRun
  <1>9. ASSUME NEW l \in Loops, UserReturn(l)
        PROVE  HomeInv'
    <2>1. PICK d \in Conns : d = cur[l]
      BY <1>9, Kinds DEF Types, CurInv, UserReturn, WithConn
    <2>2. UNCHANGED <<loopOf, active, queue, batch>>
      BY <1>9 DEF UserReturn, serverVars
    <2>3. HandledAt(d)'
      <3>1. \A k \in Loops : cur'[k] = d => cur[k] = d
        BY <1>9, <2>1, NoneAssumption DEF UserReturn, Types, TypeOK
      <3>2. QED BY <1>3, <2>2, <3>1 DEF HandledAt
    <2>4. SentTo(d)'
      BY <1>5, <2>2
    <2>5. \A c \in Conns \ {d} : Same(c)
      BY <1>9, <2>1, UserReturnSame
    <2>6. QED BY <1>1, <2>3, <2>4, <2>5
  <1>10. ASSUME NEW d \in Conns, NewConnection(d)
         PROVE  HomeInv'
    <2>1. ~Touched(d) /\ UNCHANGED <<active, batch>>
      BY <1>10 DEF NewConnection, RosterInv, FreshAt
    <2>2. loopOf'[d] = NextLoop
      BY <1>10 DEF NewConnection, Types, TypeOK
    <2>3. HandledAt(d)'
      <3>1. \A k \in Loops : cur'[k] = d => cur[k] = d \/ (k = 0 /\ NextLoop = 0)
        <4>1. CASE NextLoop = 0
          <5>1. cur' = [cur EXCEPT ![0] = d]
            BY <1>10, <4>1 DEF NewConnection, ConnEstablished
          <5>2. QED BY <4>1, <5>1 DEF Types, TypeOK
        <4>2. CASE NextLoop # 0
          BY <1>10, <4>2 DEF NewConnection
        <4>3. QED BY <4>1, <4>2
      <3>2. QED BY <2>1, <2>2, <3>1 DEF HandledAt, Touched
    <2>4. SentTo(d)'
      <3>1. \A k \in Loops, o \in AllOps :
               Functor(o, d) \in OnWay(k)' => o = "established" /\ k = NextLoop
        <4>1. Functor("established", d) \in Functors
          BY FunctorTypes, FunctorOps
        <4>2. CASE UNCHANGED queue
          BY <2>1, <4>2 DEF OnWay, Touched
        <4>3. CASE QueueInLoop(NextLoop, Functor("established", d))
          <5>1. PICK m \in Loops : m = NextLoop
            BY NextLoopIsLoop
          <5>2. /\ OnWay(m)' \subseteq OnWay(m) \cup {Functor("established", d)}
                /\ \A k \in Loops \ {m} : OnWay(k)' \subseteq OnWay(k)
            BY <2>1, <4>1, <4>3, <5>1, WayGrows DEF Types
          <5>3. \A k \in Loops, o \in AllOps : Functor(o, d) \notin OnWay(k)
            BY <2>1 DEF Touched
          <5>4. QED BY <5>1, <5>2, <5>3 DEF Functor
        <4>4. QED BY <1>10, <4>2, <4>3 DEF NewConnection
      <3>2. LoopFor("established", d)' = NextLoop
        BY <2>2 DEF LoopFor
      <3>3. QED BY <3>1, <3>2 DEF SentTo
    <2>5. QED BY <1>1, <1>10, <2>3, <2>4, NewConnectionSame
  <1>11. ASSUME NEW l \in Loops, NEW d \in Conns, CloseTimer(l, d)
         PROVE  HomeInv'
    <2>1. HandleClose(d) /\ UNCHANGED <<loopOf, active, cur, batch>>
      BY <1>11 DEF CloseTimer, loopVars
    <2>2. HandledAt(d)' /\ SentTo(d)'
      BY <1>3, <1>4, <2>1, CloseHome
    <2>3. QED BY <1>1, <1>11, <2>2, CloseTimerSame
  <1>12. ASSUME UserStep
         PROVE  HomeInv'
    <2>1. UNCHANGED <<loopOf, active, cur, batch>>
      BY <1>12 DEF UserStep, UserSend, UserShutdown, UserClose, UserHold, UserDrop, WorkerCall,
                   WorkerMark, WorkerPost, serverVars, loopVars
    <2>2. \A c \in Conns : HandledAt(c)'
      BY <1>4, <2>1
    <2>3. CASE UNCHANGED queue
      BY <1>5, <2>1, <2>2, <2>3 DEF HomeInv
    <2>4. ASSUME NEW l \in Loops, NEW d \in Conns, UserSend(l, d)
          PROVE  HomeInv'
      <3>1. UNCHANGED queue \/ QueueInLoop(loopOf[d], Functor("writeComplete", d))
        BY <2>4 DEF UserSend, SendInLoop
      <3>2. SentTo(d)'
        BY <1>3, <2>1, <3>1, CompleteHome
      <3>3. \A c \in Conns \ {d} : Same(c)
        BY <2>4, UserOpSame
      <3>4. QED BY <1>1, <2>2, <3>2, <3>3
    <2>5. CASE WorkerPost /\ QueueInLoop(loopOf[worker.conn], worker)
      <3>1. PICK d \in Conns : d = worker.conn
        BY <2>5, FunctorOps DEF WorkerPost, Types, TypeOK, NoCall, Functor
      <3>2. /\ worker.op \in RawOps /\ worker = Functor(worker.op, d)
            /\ worker.op \in AllOps /\ worker.op # "remove"
        BY <2>5, <3>1, FunctorOps DEF WorkerPost, Types, TypeOK, NoCall, Functor, AllOps, RawOps
      <3>3. LoopFor(worker.op, d) = loopOf[d]
        BY <3>2 DEF LoopFor
      <3>4. SentTo(d)'
        <4>1. PICK p \in AllOps : p = worker.op
          BY <3>2
        <4>2. QueueInLoop(LoopFor(p, d), Functor(p, d)) /\ loopOf'[d] = loopOf[d]
          BY <2>1, <2>5, <3>1, <3>2, <3>3, <4>1
        <4>3. QED BY <1>3, <2>1, <4>2, SentMore
      <3>5. \A c \in Conns \ {d} : Same(c)
        BY <2>5, <3>1, WorkerSame
      <3>6. QED BY <1>1, <2>2, <3>4, <3>5
    <2>6. QED BY <1>12, <2>3, <2>4, <2>5 DEF UserStep, UserShutdown, UserClose, UserHold,
                                             UserDrop, WorkerCall, WorkerMark, WorkerPost
  <1>13. ASSUME EndStep
         PROVE  HomeInv'
    <2>1. CASE QuitBase \/ Destroy
      BY <1>2, <2>1, OutsideSame
    <2>2. ASSUME NEW d \in Conns, DropConnection(d)
          PROVE  HomeInv'
      <3>1. HandledAt(d)' /\ SentTo(d)'
        BY <1>4, <1>5, <2>2 DEF DropConnection, loopVars
      <3>2. QED BY <1>1, <2>2, <3>1, DropSame
    <2>3. ASSUME NEW l \in Loops, StopLoop(l)
          PROVE  HomeInv'
      <3>1. \A k \in Loops : OnWay(k)' \subseteq OnWay(k)
        <4>1. queue'[l] = <<>> /\ batch' = batch /\ \A k \in Loops \ {l} : queue'[k] = queue[k]
          BY <2>3 DEF StopLoop, Types, TypeOK
        <4>2. QED BY <4>1, EntriesOfEmpty DEF OnWay
      <3>2. UNCHANGED <<loopOf, active, cur>>
        BY <2>3 DEF StopLoop, serverVars
      <3>3. QED BY <1>3, <1>4, <3>1, <3>2, SentLess DEF HomeInv
    <2>4. QED BY <1>13, <2>1, <2>2, <2>3 DEF EndStep
  <1>14. ASSUME PeerStep \/ UNCHANGED vars
         PROVE  HomeInv'
    BY <1>2, <1>14, OutsideSame
  <1>15. QED
    BY <1>6, <1>7, <1>8, <1>9, <1>10, <1>11, <1>12, <1>13, <1>14 DEF Next, RunStep

LEMMA HomeInitially ==
    ASSUME Init
    PROVE  HomeInv
  <1>1. \A l \in Loops : OnWay(l) = {}
    BY EntriesOfEmpty DEF Init, OnWay
  <1>2. \A l \in Loops : active[l] = {} /\ cur[l] = None
    BY DEF Init
  <1>3. QED BY <1>1, <1>2, NoneAssumption DEF HomeInv, HandledAt, SentTo

\* AssertInLoopThread holds wherever it is called for a connection or for
\* connections_, whatever a program does and from whichever threads.
THEOREM LoopsKeepToTheirOwn == Spec => []InLoopThread
  <1>1. Init => HomeInv
    BY HomeInitially
  <1>2. AnyInv /\ HomeInv /\ [Next]_vars => HomeInv'
    BY HomeKept DEF AnyInv
  <1>3. Spec => []HomeInv
    BY <1>1, <1>2, AnyHolds, PTL DEF Spec
  <1>4. ASSUME AnyInv, HomeInv
        PROVE  InLoopThread
    <2>1. ASSUME NEW l \in Loops, NEW f \in OnWay(l)
          PROVE  IF f.op = "remove" THEN l = 0 ELSE loopOf[f.conn] = l
      <3>1. f \in Functors
        BY <1>4, <2>1, OnWayTypes DEF AnyInv, Types
      <3>2. f.op \in AllOps /\ f.conn \in Conns /\ f = Functor(f.op, f.conn)
        BY <3>1 DEF Functors, Functor, AllOps
      <3>3. l = LoopFor(f.op, f.conn)
        BY <1>4, <2>1, <3>2 DEF HomeInv, SentTo
      <3>4. QED BY <3>3 DEF LoopFor
    <2>2. ASSUME NEW l \in Loops, NEW c \in Conns, c \in active[l] \/ cur[l] = c
          PROVE  loopOf[c] = l
      BY <1>4, <2>2 DEF HomeInv, HandledAt
    <2>3. QED BY <2>1, <2>2 DEF InLoopThread, OnWay
  <1>5. QED BY <1>3, <1>4, AnyHolds, PTL

-----------------------------------------------------------------------------
(* What holds of the careful programs.                                     *)

Up == {"connected", "disconnecting"}

\* Functor o of connection c is on its way to loop l.
On(l, o, c) == Functor(o, c) \in OnWay(l)
GivenUp(c) == \E l \in Loops : On(l, "remove", c) \/ On(l, "destroyed", c)

\* What a careful program does not do.
Modest == /\ worker = NoCall
          /\ \A c \in Conns : timers[c] = 0
          /\ server # "running" => "quit" \in program.ops
          /\ server = "ending" => at[0] = "poll"
          /\ refs # {} => "hold" \in program.ops

\* Where a connection may be found.
Placed(c) ==
    /\ state[c] # "none" => c \in program.clients /\ (loopOf[c] = 0 <=> program.pool = 0)
    /\ \A l \in Loops : c \in active[l] \/ cur[l] = c => l = loopOf[c]
    /\ \A l \in Loops, o \in AllOps : On(l, o, c) =>
           /\ o \in OwningOps
           /\ l = IF o = "remove" THEN 0 ELSE loopOf[c]
           /\ o = "remove" => loopOf[c] # 0
    /\ \A l \in Loops : On(l, "writeComplete", c) => "writeComplete" \in program.ops
    /\ wc[c] => "writeComplete" \in program.ops

\* What is on the way says where a connection is in its life.
Living(c) ==
    /\ \A l \in Loops : On(l, "established", c) => state[c] = "connecting"
    /\ state[c] = "connecting" => index[c] = "new" /\ c \in connections /\ loopOf[c] # 0
    /\ \A l \in Loops : On(l, "remove", c) => state[c] \in Up /\ c \in connections
    /\ \A l \in Loops : On(l, "destroyed", c) => state[c] \in Up /\ c \notin connections
    /\ state[c] \in Up /\ server # "ending" /\ c \notin connections =>
           \E l \in Loops : On(l, "destroyed", c)
    /\ state[c] \in Up /\ ~GivenUp(c) => "read" \in events[c] /\ index[c] = "added"
    /\ state[c] = "disconnected" /\ index[c] # "new" =>
           \E l \in Loops : cur[l] = c /\ at[l] = "down"

\* What a loop does with a connection says so, too.
InHand(c) == \A l \in Loops :
    /\ c \in active[l] => state[c] \in Up /\ ~GivenUp(c)
    /\ cur[l] = c =>
          /\ at[l] \in {"channel", "message", "up"} => state[c] \in Up
          /\ at[l] = "channel" /\ GivenUp(c) => revents[c] \cap {"in", "hup"} = {}
          /\ at[l] \in {"channel", "message"} => c \notin active[l]
          /\ at[l] \in {"message", "up"} => ~GivenUp(c)
          /\ at[l] = "writeComplete" => "writeComplete" \in program.ops
          /\ at[l] = "down" => state[c] = "disconnected" /\ events[c] = {} /\ index[c] # "new"

\* A connection that is given up is quiet.
Quiet(c) == ~SendsLate /\ GivenUp(c) => events[c] = {} /\ index[c] = "deleted"

LifeAt(c) == Placed(c) /\ Living(c) /\ InHand(c) /\ Quiet(c)
LifeInv == \A c \in Conns : LifeAt(c)

\* The functors that run once for a connection are queued once.
OnceOps == {"established", "remove", "destroyed"}
Single(s, f) == \A i, j \in DOMAIN s : s[i] = f /\ s[j] = f => i = j
OnceAt(l, f) == /\ Single(queue[l], f) /\ Single(batch[l], f)
                /\ f \in Entries(queue[l]) => f \notin Entries(batch[l])
OnceInv == \A l \in Loops, o \in OnceOps, c \in Conns : OnceAt(l, Functor(o, c))

\* On the base loop, what a round gives up it destroys before it ends.
RoundInv == program.pool = 0 =>
    \A c \in Conns : /\ at[0] = "poll" => ~On(0, "destroyed", c)
                     /\ at[0] \in FunctorPhase(0) =>
                            Functor("destroyed", c) \notin Entries(queue[0])

CarefulInv == Modest /\ LifeInv /\ OnceInv /\ RoundInv
-----------------------------------------------------------------------------
LEMMA SingleAppend ==
    ASSUME NEW s \in Seq(Functors), NEW f \in Functors, NEW g \in Functors,
           Single(s, f), f \in Entries(s) => g # f
    PROVE  Single(Append(s, g), f)
  <1>1. /\ Len(Append(s, g)) = Len(s) + 1 /\ Len(s) \in Nat
        /\ \A i \in 1 .. Len(s) : Append(s, g)[i] = s[i]
        /\ Append(s, g)[Len(s) + 1] = g
        /\ DOMAIN s = 1 .. Len(s) /\ DOMAIN Append(s, g) = 1 .. Len(s) + 1
    BY AppendProperties
  <1>2. SUFFICES ASSUME NEW i \in 1 .. Len(s) + 1, NEW j \in 1 .. Len(s) + 1,
                        Append(s, g)[i] = f, Append(s, g)[j] = f
                 PROVE  i = j
    BY <1>1 DEF Single
  <1>3. CASE i \in 1 .. Len(s) /\ j \in 1 .. Len(s)
    BY <1>1, <1>2, <1>3 DEF Single
  <1>4. CASE i = Len(s) + 1 /\ j = Len(s) + 1
    BY <1>4
  <1>5. CASE g = f /\ \E k \in 1 .. Len(s) : s[k] = f
    BY <1>1, <1>5 DEF Entries
  <1>6. QED BY <1>1, <1>2, <1>3, <1>4, <1>5

LEMMA SingleTail ==
    ASSUME NEW s \in Seq(Functors), s # <<>>, NEW f, Single(s, f)
    PROVE  Single(Tail(s), f) /\ (Head(s) = f => f \notin Entries(Tail(s)))
  <1>1. /\ Head(s) = s[1] /\ Len(s) \in Nat \ {0} /\ DOMAIN s = 1 .. Len(s)
        /\ DOMAIN Tail(s) = 1 .. Len(s) - 1
        /\ \A i \in 1 .. Len(s) - 1 : Tail(s)[i] = s[i + 1]
    OBVIOUS
  <1>2. \A i \in 1 .. Len(s) - 1 : i + 1 \in 1 .. Len(s) /\ i + 1 # 1
    BY <1>1
  <1>3. Single(Tail(s), f)
    <2>1. SUFFICES ASSUME NEW i \in 1 .. Len(s) - 1, NEW j \in 1 .. Len(s) - 1,
                          s[i + 1] = f, s[j + 1] = f
                   PROVE  i = j
      BY <1>1 DEF Single
    <2>2. i + 1 = j + 1
      BY <1>1, <1>2, <2>1 DEF Single
    <2>3. QED BY <1>1, <2>2
  <1>4. ASSUME s[1] = f, f \in Entries(Tail(s))
        PROVE  FALSE
    <2>1. PICK i \in 1 .. Len(s) - 1 : s[i + 1] = f
      BY <1>1, <1>4 DEF Entries
    <2>2. 1 \in 1 .. Len(s)
      BY <1>1
    <2>3. QED BY <1>1, <1>2, <1>4, <2>1, <2>2 DEF Single
  <1>5. QED BY <1>1, <1>3, <1>4

LEMMA FunctorsDiffer ==
    ASSUME NEW o, NEW p, NEW c, NEW d
    PROVE  Functor(o, c) = Functor(p, d) <=> o = p /\ c = d
  BY DEF Functor

LEMMA OpSets ==
    /\ AllOps = {"established", "remove", "destroyed", "writeComplete", "send", "shutdown"}
    /\ OwningOps = {"established", "remove", "destroyed", "writeComplete"}
    /\ \A o \in AllOps, c \in Conns : Functor(o, c) \in Functors
  BY FunctorTypes DEF AllOps, OwningOps, RawOps

\* What queueing a functor, and running one, does to those of its connection.
LEMMA QueueOn ==
    ASSUME TypeOK, NEW m \in Loops, NEW d \in Conns, NEW p \in AllOps,
           QueueInLoop(m, Functor(p, d)), UNCHANGED batch
    PROVE  \A k \in Loops, o \in AllOps :
               On(k, o, d)' <=> On(k, o, d) \/ (k = m /\ o = p)
  <1>1. Functor(p, d) \in Functors
    BY OpSets
  <1>2. /\ Entries(queue'[m]) = Entries(queue[m]) \cup {Functor(p, d)}
        /\ \A k \in Loops \ {m} : queue'[k] = queue[k]
    BY <1>1, QueueOnWay
  <1>3. QED BY <1>2, FunctorsDiffer DEF On, OnWay

LEMMA RunOn ==
    ASSUME TypeOK, NEW l \in Loops, NEW d \in Conns, NEW p \in AllOps,
           Run(l, Functor(p, d)), UNCHANGED queue
    PROVE  /\ On(l, p, d)
           /\ \A k \in Loops, o \in AllOps : On(k, o, d)' => On(k, o, d)
           /\ \A k \in Loops, o \in AllOps :
                  ~(k = l /\ o = p) => (On(k, o, d)' <=> On(k, o, d))
  <1>1. /\ Entries(batch[l]) = Entries(batch'[l]) \cup {Functor(p, d)}
        /\ \A k \in Loops \ {l} : batch'[k] = batch[k]
    BY RunOnWay
  <1>2. QED BY <1>1, FunctorsDiffer DEF On, OnWay

LEMMA RunOnce ==
    ASSUME TypeOK, OnceInv, NEW l \in Loops, NEW d \in Conns, NEW p \in OnceOps,
           Run(l, Functor(p, d))
    PROVE  /\ Functor(p, d) \notin Entries(queue[l])
           /\ Functor(p, d) \notin Entries(batch'[l])
  <1>1. /\ batch[l] \in Seq(Functors) /\ batch[l] # <<>>
        /\ Head(batch[l]) = Functor(p, d) /\ batch'[l] = Tail(batch[l])
    BY DEF Run, TypeOK
  <1>2. OnceAt(l, Functor(p, d))
    BY DEF OnceInv
  <1>3. Functor(p, d) \notin Entries(batch'[l])
    BY <1>1, <1>2, SingleTail DEF OnceAt
  <1>4. Functor(p, d) \in Entries(batch[l])
    BY <1>1, EntriesOfTail
  <1>5. QED BY <1>2, <1>3, <1>4 DEF OnceAt

-----------------------------------------------------------------------------
(* What the handlers of a careful program may count on.                    *)

\* A connection is handled only while the server is there.
LEMMA BusyServer ==
    ASSUME AnyInv, Careful, Modest, NEW c \in Conns, Placed(c), NEW l \in Loops,
           c \in active[l] \/ cur[l] = c
    PROVE  server # "ending" /\ l = loopOf[c] /\ state[c] # "none"
  <1>1. l = loopOf[c] /\ state[c] # "none"
    BY DEF Placed, AnyInv, RosterInv, FreshAt, Touched
  <1>2. ASSUME server = "ending"
        PROVE  FALSE
    <2>1. program.pool = 0 /\ at[0] = "poll"
      BY <1>2 DEF Careful, Modest
    <2>2. l = 0
      BY <1>1, <2>1 DEF Placed
    <2>3. active[0] = {} /\ cur[0] \notin Conns
      BY <2>1, Kinds, ZeroIsLoop DEF AnyInv, PhaseInv, EventPhase, Types, CurInv
    <2>4. QED BY <2>2, <2>3
  <1>3. QED BY <1>1, <1>2

LEMMA UpIsAlive ==
    ASSUME NEW c \in Conns, Living(c), state[c] \in Up, server # "ending"
    PROVE  Alive(c)
  <1>1. CASE c \in connections
    BY <1>1 DEF Alive
  <1>2. CASE c \notin connections
    <2>1. PICK l \in Loops : Functor("destroyed", c) \in OnWay(l)
      BY <1>2 DEF Living, On
    <2>2. Functor("destroyed", c).op \in OwningOps /\ Functor("destroyed", c).conn = c
      BY FunctorTypes, FunctorOps
    <2>3. QED BY <2>1, <2>2 DEF Alive, Owns, OnWay
  <1>3. QED BY <1>1, <1>2

\* HandleClose is called on a connection that is up and was not given up before.
LEMMA CloseComesFirst ==
    ASSUME AnyInv, Careful, Modest, LifeInv, NEW l \in Loops, HupEvent(l) \/ ReadEof(l)
    PROVE  \E d \in Conns :
              /\ d = cur[l] /\ at[l] = "channel" /\ l = loopOf[d]
              /\ state[d] \in Up /\ ~GivenUp(d) /\ d \in connections /\ index[d] = "added"
              /\ UpdateChannel(d, {}) /\ RemoveConnection(d)
              /\ revents'[d] \cap {"in", "hup"} = {}
              /\ server # "ending"
  <1>1. PICK d \in Conns : d = cur[l]
    BY Kinds DEF AnyInv, Types, CurInv, HupEvent, ReadEof
  <1>2. at[l] = "channel" /\ revents[d] \cap {"in", "hup"} # {}
    BY <1>1 DEF HupEvent, ReadEof
  <1>3. /\ state[d] \in Up /\ ~GivenUp(d) /\ LifeAt(d)
    BY <1>1, <1>2 DEF LifeInv, LifeAt, InHand
  <1>4. server # "ending" /\ l = loopOf[d]
    BY <1>1, <1>3, BusyServer DEF LifeAt
  <1>5. Alive(d)
    BY <1>3, <1>4, UpIsAlive DEF LifeAt
  <1>6. UpdateChannel(d, {}) /\ RemoveConnection(d)
    BY <1>1, <1>3, <1>5 DEF HupEvent, ReadEof, HandleClose, Up
  <1>7. d \in connections /\ index[d] = "added"
    BY <1>3, <1>4 DEF LifeAt, Living, GivenUp
  <1>8. revents'[d] \cap {"in", "hup"} = {}
    <2>1. CASE HupEvent(l)
      BY <1>1, <2>1 DEF HupEvent, Handled, AnyInv, Types, TypeOK
    <2>2. CASE ReadEof(l)
      BY <1>1, <2>2 DEF ReadEof, Handled, AnyInv, Types, TypeOK
    <2>3. QED BY <2>1, <2>2
  <1>9. QED BY <1>1, <1>2, <1>3, <1>4, <1>6, <1>7, <1>8

\* RemoveConnectionInLoop runs on a connection that is listed, and after it is
\* removed there is no other to come.
LEMMA RemoveComesOnce ==
    ASSUME AnyInv, LifeInv, NEW l \in Loops, NEW d \in Conns, RunRemove(l, d)
    PROVE  /\ l = 0 /\ loopOf[d] # 0 /\ state[d] \in Up /\ d \in connections
           /\ \A k \in Loops : ~On(k, "destroyed", d)
  <1>1. On(l, "remove", d) /\ LifeAt(d) /\ "remove" \in AllOps
    BY RunOnWay, OpSets DEF RunRemove, On, OnWay, AnyInv, Types, LifeInv
  <1>2. l = 0 /\ loopOf[d] # 0
    BY <1>1 DEF LifeAt, Placed
  <1>3. QED BY <1>1, <1>2 DEF LifeAt, Living

\* No user's thread, no timer, and a server that ends has one loop.
LEMMA NotInCareful ==
    ASSUME AnyInv, Careful, Modest, LifeInv, NEW l \in Loops, NEW d \in Conns
    PROVE  /\ ~CloseTimer(l, d) /\ ~UserClose(l, d) /\ ~WorkerMark /\ ~WorkerPost
           /\ \A o \in {"send", "mark"} : ~WorkerCall(o, d)
           /\ ~StopLoop(l) /\ ~RunSend(l, d) /\ ~RunShutdown(l, d)
  <1>1. ~CloseTimer(l, d) /\ ~UserClose(l, d) /\ \A o \in {"send", "mark"} : ~WorkerCall(o, d)
    BY DEF CloseTimer, Modest, UserClose, WorkerCall, Careful
  <1>2. ~WorkerMark /\ ~WorkerPost
    BY DEF WorkerMark, WorkerPost, Modest, NoCall, Functor, RawOps
  <1>3. ~StopLoop(l)
    BY DEF StopLoop, Modest, Careful
  <1>4. ASSUME NEW o \in {"send", "shutdown"}
        PROVE  ~Run(l, Functor(o, d))
    <2>1. ~On(l, o, d)
      BY OpSets, FunctorOps DEF LifeInv, LifeAt, Placed
    <2>2. QED BY <2>1, RunOnWay DEF On, OnWay, AnyInv, Types
  <1>5. QED BY <1>1, <1>2, <1>3, <1>4 DEF RunSend, RunShutdown

-----------------------------------------------------------------------------
(* The functors that run once are queued once.                             *)

LEMMA OnceBatch ==
    ASSUME TypeOK, OnceInv, UNCHANGED batch \/ \E l \in Loops, f \in Functors : Run(l, f),
           NEW l \in Loops, NEW o \in OnceOps, NEW c \in Conns
    PROVE  /\ Single(batch'[l], Functor(o, c))
           /\ Entries(batch'[l]) \subseteq Entries(batch[l])
  <1>1. Single(batch[l], Functor(o, c))
    BY DEF OnceInv, OnceAt
  <1>2. CASE batch'[l] = batch[l]
    BY <1>1, <1>2
  <1>3. ASSUME NEW k \in Loops, NEW f \in Functors, Run(k, f), k = l
        PROVE  /\ Single(batch'[l], Functor(o, c))
               /\ Entries(batch'[l]) \subseteq Entries(batch[l])
    <2>1. batch'[l] = Tail(batch[l]) /\ batch[l] # <<>> /\ batch[l] \in Seq(Functors)
      BY <1>3 DEF Run, TypeOK
    <2>2. QED BY <1>1, <2>1, SingleTail, EntriesOfTail
  <1>4. ASSUME NEW k \in Loops, NEW f \in Functors, Run(k, f), k # l
        PROVE  batch'[l] = batch[l]
    BY <1>4 DEF Run, TypeOK
  <1>5. QED BY <1>2, <1>3, <1>4

LEMMA OnceLess ==
    ASSUME TypeOK, OnceInv, UNCHANGED queue,
           UNCHANGED batch \/ \E l \in Loops, f \in Functors : Run(l, f)
    PROVE  OnceInv'
  <1>1. ASSUME NEW l \in Loops, NEW o \in OnceOps, NEW c \in Conns
        PROVE  OnceAt(l, Functor(o, c))'
    <2>1. OnceAt(l, Functor(o, c))
      BY DEF OnceInv
    <2>2. Single(batch'[l], Functor(o, c)) /\ Entries(batch'[l]) \subseteq Entries(batch[l])
      BY OnceBatch
    <2>3. PICK f : f = Functor(o, c)
      OBVIOUS
    <2>4. OnceAt(l, f)'
      BY <2>1, <2>2, <2>3 DEF OnceAt
    <2>5. QED BY <2>3, <2>4 DEF Functor
  <1>2. QED BY <1>1 DEF OnceInv

LEMMA OnceMore ==
    ASSUME TypeOK, OnceInv, NEW m \in Loops, NEW d \in Conns, NEW p \in AllOps,
           QueueInLoop(m, Functor(p, d)), p \in OnceOps => ~On(m, p, d),
           UNCHANGED batch \/ \E l \in Loops, f \in Functors : Run(l, f)
    PROVE  OnceInv'
  <1>1. Functor(p, d) \in Functors
    BY OpSets
  <1>2. /\ Entries(queue'[m]) = Entries(queue[m]) \cup {Functor(p, d)}
        /\ queue'[m] = Append(queue[m], Functor(p, d))
        /\ \A k \in Loops \ {m} : queue'[k] = queue[k]
    BY <1>1, QueueOnWay
  <1>3. ASSUME NEW l \in Loops, NEW o \in OnceOps, NEW c \in Conns
        PROVE  OnceAt(l, Functor(o, c))'
    <2>1. OnceAt(l, Functor(o, c))
      BY DEF OnceInv
    <2>2. Single(batch'[l], Functor(o, c)) /\ Entries(batch'[l]) \subseteq Entries(batch[l])
      BY OnceBatch
    <2>3. PICK f \in Functors : f = Functor(o, c)
      BY OpSets DEF OnceOps
    <2>4. CASE l # m
      <3>1. OnceAt(l, f)'
        BY <1>2, <2>1, <2>2, <2>3, <2>4 DEF OnceAt
      <3>2. QED BY <2>3, <3>1 DEF Functor
    <2>5. CASE l = m
      <3>1. f = Functor(p, d) => f \notin Entries(queue[m]) \cup Entries(batch[m])
        <4>1. f = Functor(p, d) => p \in OnceOps
          BY <2>3 DEF Functor
        <4>2. p \in OnceOps => Functor(p, d) \notin Entries(queue[m]) \cup Entries(batch[m])
          BY DEF On, OnWay
        <4>3. QED BY <4>1, <4>2
      <3>2. Single(queue'[m], f)
        <4>1. Single(queue[m], f) /\ queue[m] \in Seq(Functors)
          BY <2>1, <2>3, <2>5 DEF OnceAt, TypeOK
        <4>2. QED BY <1>1, <1>2, <3>1, <4>1, SingleAppend
      <3>3. OnceAt(l, f)'
        BY <1>2, <2>1, <2>2, <2>3, <2>5, <3>1, <3>2 DEF OnceAt
      <3>4. QED BY <2>3, <3>3 DEF Functor
    <2>6. QED BY <2>4, <2>5
  <1>4. QED BY <1>3 DEF OnceInv

LEMMA OnceKept ==
    ASSUME AnyInv, Careful, Modest, LifeInv, OnceInv, Next
    PROVE  OnceInv'
  <1>1. ASSUME UNCHANGED <<queue, batch>>
        PROVE  OnceInv'
    BY <1>1, OnceLess DEF AnyInv, Types
  <1>2. ASSUME NEW d \in Conns, SendInLoop(d), UNCHANGED batch
        PROVE  OnceInv'
    <2>1. loopOf[d] \in Loops /\ "writeComplete" \in AllOps /\ "writeComplete" \notin OnceOps
      BY OpSets DEF AnyInv, Types, TypeOK, OnceOps
    <2>2. UNCHANGED queue \/ QueueInLoop(loopOf[d], Functor("writeComplete", d))
      BY <1>2 DEF SendInLoop
    <2>3. QED BY <1>1, <1>2, <2>1, <2>2, OnceMore DEF AnyInv, Types
  <1>3. ASSUME NEW l \in Loops, ChannelStep(l)
        PROVE  OnceInv'
    <2>1. CASE HupEvent(l) \/ ReadEof(l)
      <3>1. PICK d \in Conns : ~GivenUp(d) /\ RemoveConnection(d)
        BY <2>1, CloseComesFirst
      <3>2. /\ loopOf[d] \in Loops /\ "remove" \in AllOps /\ "destroyed" \in AllOps
            /\ UNCHANGED batch
        BY <2>1, OpSets DEF AnyInv, Types, TypeOK, HupEvent, ReadEof
      <3>3. /\ ~On(0, "remove", d) /\ ~On(loopOf[d], "destroyed", d)
            /\ \/ QueueInLoop(0, Functor("remove", d))
               \/ QueueInLoop(loopOf[d], Functor("destroyed", d))
        BY <3>1, <3>2, ZeroIsLoop DEF GivenUp, RemoveConnection, RemoveConnectionInLoop
      <3>4. QED BY <3>2, <3>3, OnceMore, ZeroIsLoop DEF AnyInv, Types
    <2>2. CASE WriteRest(l)
      <3>1. PICK d \in Conns : d = cur[l]
        BY <2>2, Kinds DEF AnyInv, Types, CurInv, WriteRest, Writable
      <3>2. "writeComplete" \in AllOps /\ "writeComplete" \notin OnceOps
        BY OpSets DEF OnceOps
      <3>3. UNCHANGED queue \/ QueueInLoop(l, Functor("writeComplete", d))
        BY <2>2, <3>1 DEF WriteRest
      <3>4. UNCHANGED batch
        BY <2>2 DEF WriteRest
      <3>5. QED BY <1>1, <3>2, <3>3, <3>4, OnceMore DEF AnyInv, Types
    <2>3. QED BY <1>1, <1>3, <2>1, <2>2 DEF ChannelStep, StartEvent, ReadMessage, ReadError,
                                            WriteSome, EndEvent
  <1>4. ASSUME NEW d \in Conns, NewConnection(d)
        PROVE  OnceInv'
    <2>1. "established" \in AllOps /\ NextLoop \in Loops
      BY OpSets, NextLoopIsLoop DEF AnyInv
    <2>2. ~On(NextLoop, "established", d)
      BY <1>4, <2>1 DEF NewConnection, AnyInv, RosterInv, FreshAt, Touched, On
    <2>3. UNCHANGED batch /\ (UNCHANGED queue \/ QueueInLoop(NextLoop, Functor("established", d)))
      BY <1>4 DEF NewConnection
    <2>4. QED BY <1>1, <2>1, <2>2, <2>3, OnceMore DEF AnyInv, Types
  <1>5. ASSUME NEW l \in Loops, FunctorStep(l)
        PROVE  OnceInv'
    <2>1. CASE TakeBatch(l)
      <3>1. batch[l] = <<>>
        BY <2>1 DEF TakeBatch, AnyInv, PhaseInv, FunctorPhase
      <3>2. /\ queue'[l] = <<>> /\ batch'[l] = queue[l]
            /\ \A k \in Loops \ {l} : queue'[k] = queue[k] /\ batch'[k] = batch[k]
        BY <2>1 DEF TakeBatch, AnyInv, Types, TypeOK
      <3>3. ASSUME NEW k \in Loops, NEW o \in OnceOps, NEW c \in Conns
            PROVE  OnceAt(k, Functor(o, c))'
        <4>1. PICK f : f = Functor(o, c)
          OBVIOUS
        <4>2. OnceAt(k, f)
          BY <4>1 DEF OnceInv
        <4>3. CASE k = l
          <5>1. Single(<<>>, f) /\ f \notin Entries(<<>>)
            BY EntriesOfEmpty DEF Single
          <5>2. OnceAt(k, f)'
            BY <3>2, <4>2, <4>3, <5>1 DEF OnceAt
          <5>3. QED BY <4>1, <5>2 DEF Functor
        <4>4. CASE k # l
          <5>1. OnceAt(k, f)'
            BY <3>2, <4>2, <4>4 DEF OnceAt
          <5>2. QED BY <4>1, <5>1 DEF Functor
        <4>5. QED BY <4>3, <4>4
      <3>4. QED BY <3>3 DEF OnceInv
    <2>2. CASE EndBatch(l)
      BY <1>1, <2>2 DEF EndBatch
    <2>3. ASSUME NEW d \in Conns,
                 RunEstablished(l, d) \/ RunDestroyed(l, d) \/ RunWriteComplete(l, d)
          PROVE  OnceInv'
      <3>1. FunctorRun(l, d)
        BY <2>3 DEF FunctorRun
      <3>2. PICK o \in AllOps : Run(l, Functor(o, d)) /\ Functor(o, d) \in Functors
        BY <3>1, FunctorIsRun DEF AnyInv
      <3>3. UNCHANGED queue
        BY <2>3 DEF RunEstablished, RunDestroyed, RunWriteComplete
      <3>4. QED BY <3>2, <3>3, OnceLess DEF AnyInv, Types
    <2>4. ASSUME NEW d \in Conns, RunRemove(l, d)
          PROVE  OnceInv'
      <3>1. /\ Run(l, Functor("remove", d)) /\ Functor("remove", d) \in Functors
            /\ QueueInLoop(loopOf[d], Functor("destroyed", d))
            /\ loopOf[d] \in Loops /\ "destroyed" \in AllOps
        BY <2>4, OpSets DEF RunRemove, RemoveConnectionInLoop, AnyInv, Types, TypeOK
      <3>2. ~On(loopOf[d], "destroyed", d)
        BY <2>4, <3>1, RemoveComesOnce
      <3>3. QED BY <3>1, <3>2, OnceMore DEF AnyInv, Types
    <2>5. QED BY <1>5, <2>1, <2>2, <2>3, <2>4, NotInCareful DEF FunctorStep
  <1>6. ASSUME UserStep
        PROVE  OnceInv'
    <2>1. ASSUME NEW l \in Loops, NEW d \in Conns, UserSend(l, d)
          PROVE  OnceInv'
      BY <1>2, <2>1 DEF UserSend, loopVars
    <2>2. ASSUME NEW d \in Conns
          PROVE  /\ ~WorkerMark /\ ~WorkerPost
                 /\ \A o \in {"send", "mark"} : ~WorkerCall(o, d)
      BY NotInCareful, ZeroIsLoop
    <2>3. QED BY <1>1, <1>6, <2>1, <2>2
              DEF UserStep, UserShutdown, UserClose, UserHold, UserDrop, WorkerMark,
                  WorkerPost, Modest, NoCall, Functor, RawOps, loopVars
  <1>7. ASSUME EndStep \/ PeerStep
        PROVE  OnceInv'
    <2>1. \A l \in Loops : StopLoop(l) => FALSE
      BY DEF StopLoop, Modest, Careful
    <2>2. QED BY <1>1, <1>7, <2>1 DEF EndStep, QuitBase, Destroy, DropConnection, PeerStep,
                                      PeerCloses, PeerResets, loopVars
  <1>8. ASSUME NEW l \in Loops, Poll(l) \/ UserReturn(l)
        PROVE  OnceInv'
    BY <1>1, <1>8 DEF Poll, UserReturn
  <1>9. QED BY <1>3, <1>4, <1>5, <1>6, <1>7, <1>8, NotInCareful DEF Next, RunStep

-----------------------------------------------------------------------------
(* The round of a server on one loop.                                      *)

LEMMA RoundKept ==
    ASSUME AnyInv, Careful, Modest, LifeInv, RoundInv, Next, program.pool = 0
    PROVE  RoundInv'
  <1> DEFINE f(c) == Functor("destroyed", c)
  <1>1. TypeOK /\ 0 \in Loops
    BY ZeroIsLoop DEF AnyInv, Types
  <1>2. \A c \in Conns : /\ at[0] = "poll" => f(c) \notin Entries(queue[0]) \cup Entries(batch[0])
                         /\ at[0] \in FunctorPhase(0) => f(c) \notin Entries(queue[0])
    BY DEF RoundInv, On, OnWay
  <1>3. ASSUME \A c \in Conns :
                   /\ at'[0] = "poll" => f(c) \notin Entries(queue'[0]) \cup Entries(batch'[0])
                   /\ at'[0] \in FunctorPhase(0) => f(c) \notin Entries(queue'[0])
        PROVE  RoundInv'
    BY <1>3 DEF RoundInv, On, OnWay, Functor, FunctorPhase
  <1>4. ASSUME at'[0] # "poll", at'[0] \notin FunctorPhase(0)
        PROVE  RoundInv'
    BY <1>3, <1>4
  <1>5. ASSUME at'[0] = at[0], queue'[0] = queue[0], batch'[0] = batch[0]
        PROVE  RoundInv'
    BY <1>2, <1>3, <1>5
  <1>6. FunctorPhase(0) = {"functors", "down", "writeComplete"}
    BY DEF FunctorPhase
  <1>7. \A l \in Loops, c \in Conns : c \in active[l] \/ cur[l] = c => l = 0
    BY BusyServer DEF LifeInv, LifeAt, Placed
  <1>8. ASSUME NEW l \in Loops, Poll(l)
        PROVE  RoundInv'
    <2>1. at' = [at EXCEPT ![l] = "events"] /\ UNCHANGED <<queue, batch>>
      BY <1>8 DEF Poll
    <2>2. CASE l = 0
      BY <1>1, <1>4, <1>6, <2>1, <2>2 DEF TypeOK
    <2>3. CASE l # 0
      BY <1>1, <1>5, <2>1, <2>3 DEF TypeOK
    <2>4. QED BY <2>2, <2>3
  <1>9. ASSUME NEW l \in Loops, ChannelStep(l)
        PROVE  RoundInv'
    <2>1. l = 0
      <3>1. CASE StartEvent(l)
        BY <1>1, <1>7, <3>1 DEF StartEvent, TypeOK
      <3>2. CASE at[l] = "channel"
        <4>1. cur[l] \in Conns
          BY <3>2, Kinds DEF AnyInv, Types, CurInv
        <4>2. QED BY <1>7, <4>1
      <3>3. QED BY <1>9, <3>1, <3>2 DEF ChannelStep, HupEvent, ReadMessage, ReadEof, ReadError,
                                        WriteRest, WriteSome, Writable, EndEvent
    <2>2. at'[0] \in {"events", "channel", "message"}
      BY <1>1, <1>9, <2>1 DEF ChannelStep, StartEvent, HupEvent, ReadMessage, ReadEof, ReadError,
                              WriteRest, WriteSome, Writable, EndEvent, TypeOK
    <2>3. QED BY <1>4, <1>6, <2>2
  <1>10. ASSUME NEW d \in Conns, NewConnection(d)
         PROVE  RoundInv'
    <2>1. at'[0] = "up"
      BY <1>1, <1>10 DEF NewConnection, NextLoop, ConnEstablished, TypeOK
    <2>2. QED BY <1>4, <1>6, <2>1
  <1>11. ASSUME NEW l \in Loops, FunctorStep(l)
         PROVE  RoundInv'
    <2>1. CASE TakeBatch(l)
      <3>1. /\ at'[l] = IF queue[l] = <<>> THEN "poll" ELSE "functors"
            /\ queue'[l] = <<>> /\ batch'[l] = queue[l]
            /\ \A k \in Loops \ {l} : /\ queue'[k] = queue[k] /\ batch'[k] = batch[k]
                                      /\ at'[k] = at[k]
        BY <1>1, <2>1 DEF TakeBatch, TypeOK
      <3>2. CASE l = 0
        BY <1>3, <3>1, <3>2, EntriesOfEmpty
      <3>3. CASE l # 0
        BY <1>1, <1>5, <3>1, <3>3
      <3>4. QED BY <3>2, <3>3
    <2>2. CASE EndBatch(l)
      <3>1. /\ at[l] = "functors" /\ at'[l] = "poll" /\ batch[l] = <<>>
            /\ UNCHANGED <<queue, batch>>
            /\ \A k \in Loops \ {l} : at'[k] = at[k]
        BY <1>1, <2>2 DEF EndBatch, TypeOK
      <3>2. CASE l = 0
        BY <1>2, <1>3, <1>6, <3>1, <3>2, EntriesOfEmpty
      <3>3. CASE l # 0
        BY <1>1, <1>5, <3>1, <3>3
      <3>4. QED BY <3>2, <3>3
    <2>3. ASSUME NEW d \in Conns, FunctorRun(l, d)
          PROVE  RoundInv'
      <3>1. PICK o \in AllOps : Run(l, Functor(o, d)) /\ On(l, o, d)
        BY <2>3, FunctorIsRun DEF On, AnyInv
      <3>2. state[d] # "none"
        BY <3>1 DEF On, AnyInv, RosterInv, FreshAt, Touched
      <3>3. loopOf[d] = 0 /\ l = 0 /\ o # "remove"
        BY <3>1, <3>2 DEF LifeInv, LifeAt, Placed
      <3>4. at[0] = "functors"
        BY <3>1, <3>3 DEF Run
      <3>5. CASE RunRemove(l, d)
        BY <3>3, <3>5, RemoveComesOnce
      <3>6. CASE RunEstablished(l, d) \/ RunDestroyed(l, d) \/ RunWriteComplete(l, d)
        <4>1. UNCHANGED queue /\ at'[0] # "poll"
          BY <1>1, <3>3, <3>6 DEF RunEstablished, RunDestroyed, RunWriteComplete,
                                  ConnEstablished, TypeOK
        <4>2. QED BY <1>2, <1>3, <1>6, <3>4, <4>1
      <3>7. QED BY <2>3, <3>5, <3>6, NotInCareful DEF FunctorRun
    <2>4. QED BY <1>11, <2>1, <2>2, <2>3 DEF FunctorStep, FunctorRun
  <1>12. ASSUME NEW l \in Loops, NEW d \in Conns, UserSend(l, d)
         PROVE  RoundInv'
    <2>1. UNCHANGED <<at, batch>> /\ SendInLoop(d)
      BY <1>12 DEF UserSend, loopVars
    <2>2. CASE UNCHANGED queue
      BY <1>5, <2>1, <2>2
    <2>3. CASE QueueInLoop(loopOf[d], Functor("writeComplete", d))
      <3>1. loopOf[d] \in Loops /\ Functor("writeComplete", d) \in Functors
            /\ \A c \in Conns : f(c) # Functor("writeComplete", d)
        BY <1>1, OpSets, FunctorsDiffer DEF TypeOK
      <3>2. Entries(queue'[0]) \subseteq Entries(queue[0]) \cup {Functor("writeComplete", d)}
        BY <1>1, <2>3, <3>1, QueueOnWay
      <3>3. QED BY <1>2, <1>3, <2>1, <3>1, <3>2
    <2>4. QED BY <2>1, <2>2, <2>3 DEF SendInLoop
  <1>13. ASSUME NEW l \in Loops, UserReturn(l)
         PROVE  RoundInv'
    <2>1. UNCHANGED <<queue, batch>> /\ at[l] \in UserCode
          /\ at'[l] = (IF at[l] = "message" THEN "channel"
                       ELSE IF at[l] = "up" /\ l = 0 THEN "events" ELSE "functors")
          /\ \A k \in Loops \ {l} : at'[k] = at[k]
      BY <1>1, <1>13 DEF UserReturn, TypeOK
    <2>2. CASE l = 0
      BY <1>2, <1>3, <1>6, <2>1, <2>2 DEF UserCode
    <2>3. CASE l # 0
      BY <1>1, <1>5, <2>1, <2>3
    <2>4. QED BY <2>2, <2>3
  <1>14. ASSUME UNCHANGED <<at, queue, batch>>
         PROVE  RoundInv'
    BY <1>5, <1>14
  <1>15. ASSUME UserStep
         PROVE  RoundInv'
    <2>1. ASSUME NEW d \in Conns
          PROVE  \A o \in {"send", "mark"} : ~WorkerCall(o, d)
      BY NotInCareful, ZeroIsLoop
    <2>2. QED BY <1>12, <1>14, <1>15, <2>1
              DEF UserStep, UserShutdown, UserClose, UserHold, UserDrop, WorkerMark,
                  WorkerPost, Modest, NoCall, Functor, RawOps, loopVars
  <1>16. ASSUME EndStep \/ PeerStep
         PROVE  RoundInv'
    <2>1. \A l \in Loops : StopLoop(l) => FALSE
      BY DEF StopLoop
    <2>2. QED BY <1>14, <1>16, <2>1 DEF EndStep, QuitBase, Destroy, DropConnection, PeerStep,
                                        PeerCloses, PeerResets, loopVars
  <1>17. QED BY <1>8, <1>9, <1>10, <1>11, <1>13, <1>15, <1>16, NotInCareful DEF Next, RunStep

-----------------------------------------------------------------------------
(* The life of a connection.                                               *)

Frame == UNCHANGED program /\ (server' # "ending" => server # "ending")

LEMMA NextFrame ==
    ASSUME Next
    PROVE  Frame
  BY DEF Next, EndStep, QuitBase, Destroy, DropConnection, StopLoop, Frame

LEMMA SendsLateSame ==
    ASSUME UNCHANGED program
    PROVE  SendsLate' = SendsLate /\ Careful' = Careful
  BY DEF SendsLate, Careful

\* What is on the way is the same.
LEMMA WayGivenUp ==
    ASSUME NEW c, \A l \in Loops, o \in AllOps : On(l, o, c)' <=> On(l, o, c)
    PROVE  GivenUp(c)' <=> GivenUp(c)
  <1>1. "remove" \in AllOps /\ "destroyed" \in AllOps
    BY OpSets
  <1>2. QED BY <1>1 DEF GivenUp

LEMMA LifeSame ==
    ASSUME NEW c \in Conns, Same(c), Frame, LifeAt(c)
    PROVE  LifeAt(c)'
  <1>1. \A l \in Loops, o \in AllOps : On(l, o, c)' <=> On(l, o, c)
    BY DEF Same, SameWay, On
  <1>2. GivenUp(c)' <=> GivenUp(c)
    BY <1>1, WayGivenUp
  <1>3. {"established", "remove", "destroyed", "writeComplete"} \subseteq AllOps
    BY OpSets
  <1>4. Placed(c)'
    BY <1>1, <1>3 DEF LifeAt, Placed, Same, SameData, SameLoops, Frame
  <1>5. Living(c)'
    <2>1. /\ \A l \in Loops : On(l, "established", c)' => state'[c] = "connecting"
          /\ state'[c] = "connecting" =>
                 index'[c] = "new" /\ c \in connections' /\ loopOf'[c] # 0
          /\ \A l \in Loops : On(l, "remove", c)' => state'[c] \in Up /\ c \in connections'
          /\ \A l \in Loops : On(l, "destroyed", c)' => state'[c] \in Up /\ c \notin connections'
          /\ state'[c] \in Up /\ server' # "ending" /\ c \notin connections' =>
                 \E l \in Loops : On(l, "destroyed", c)'
      BY <1>1, <1>3 DEF LifeAt, Living, Same, SameData, Frame
    <2>2. state'[c] \in Up /\ ~GivenUp(c)' => "read" \in events'[c] /\ index'[c] = "added"
      BY <1>2 DEF LifeAt, Living, Same, SameData
    <2>3. state'[c] = "disconnected" /\ index'[c] # "new" =>
              \E l \in Loops : cur'[l] = c /\ at'[l] = "down"
      BY DEF LifeAt, Living, Same, SameData, SameLoops
    <2>4. QED BY <2>1, <2>2, <2>3 DEF Living, Up
  <1>6. InHand(c)'
    BY <1>2 DEF LifeAt, InHand, Same, SameData, SameLoops, Frame, Up
  <1>7. Quiet(c)'
    BY <1>2, SendsLateSame DEF LifeAt, Quiet, Same, SameData, Frame
  <1>8. QED BY <1>4, <1>5, <1>6, <1>7 DEF LifeAt

LEMMA LifeStartEvent ==
    ASSUME AnyInv, NEW l \in Loops, StartEvent(l), Frame, NEW d \in Conns, d = cur'[l],
           LifeAt(d)
    PROVE  LifeAt(d)'
  <1>1. /\ d \in active[l] /\ cur[l] # d /\ at'[l] = "channel"
        /\ \A k \in Loops : active'[k] \subseteq active[k]
        /\ d \notin active'[l]
        /\ \A k \in Loops \ {l} : cur'[k] = cur[k] /\ at'[k] = at[k]
        /\ UNCHANGED <<serverVars, connVars, chanVars, revents, queue, batch>>
    BY NotWithConn, NoneAssumption DEF StartEvent, AnyInv, Types, TypeOK
  <1>2. l = loopOf[d] /\ state[d] \in Up /\ ~GivenUp(d)
    BY <1>1 DEF LifeAt, Placed, InHand
  <1>3. \A k \in Loops, o \in AllOps : On(k, o, d)' <=> On(k, o, d)
    BY <1>1 DEF On, OnWay
  <1>4. GivenUp(d)' <=> GivenUp(d)
    BY <1>3, WayGivenUp
  <1>5. {"established", "remove", "destroyed", "writeComplete"} \subseteq AllOps
    BY OpSets
  <1>6. Placed(d)'
    BY <1>1, <1>2, <1>3, <1>5, SMTT(30) DEF LifeAt, Placed, Frame, serverVars, connVars
  <1>7. Living(d)'
    BY <1>1, <1>2, <1>3, <1>4, <1>5, SMTT(30)
       DEF LifeAt, Living, Frame, serverVars, connVars, chanVars, Up
  <1>8. InHand(d)'
    BY <1>1, <1>2, <1>4 DEF LifeAt, InHand, Placed, Frame, serverVars, connVars, chanVars, Up
  <1>9. Quiet(d)'
    BY <1>1, <1>4, SendsLateSame DEF LifeAt, Quiet, Frame, chanVars
  <1>10. QED BY <1>6, <1>7, <1>8, <1>9 DEF LifeAt

\* A step that changes nothing of c but what a loop does with it.
LEMMA LifeByHand ==
    ASSUME NEW c \in Conns, LifeAt(c), Frame,
           UNCHANGED <<serverVars, connVars, chanVars>>,
           \A k \in Loops, o \in AllOps :
               /\ On(k, o, c)' => On(k, o, c)
               /\ o # "writeComplete" => (On(k, o, c)' <=> On(k, o, c)),
           \A k \in Loops : c \in active'[k] \/ cur'[k] = c => k = loopOf[c],
           state[c] = "disconnected" /\ index[c] # "new" =>
               \A k \in Loops : cur[k] = c /\ at[k] = "down" => cur'[k] = c /\ at'[k] = "down",
           InHand(c)'
    PROVE  LifeAt(c)'
  <1>1. GivenUp(c)' <=> GivenUp(c)
    BY OpSets DEF GivenUp
  <1>2. {"established", "remove", "destroyed", "writeComplete"} \subseteq AllOps
    BY OpSets
  <1>3. UNCHANGED <<state, wc, loopOf, connections, events, index>>
    BY DEF serverVars, connVars, chanVars
  <1>4. Placed(c)'
    BY <1>2, <1>3 DEF LifeAt, Placed, Frame
  <1>5. Living(c)'
    BY <1>1, <1>2, <1>3 DEF LifeAt, Living, Frame, Up
  <1>6. Quiet(c)'
    BY <1>1, <1>3, SendsLateSame DEF LifeAt, Quiet, Frame
  <1>7. QED BY <1>4, <1>5, <1>6 DEF LifeAt

LEMMA LifeReading ==
    ASSUME AnyInv, NEW l \in Loops, ReadMessage(l) \/ ReadError(l) \/ WriteSome(l), Frame,
           NEW d \in Conns, d = cur[l], LifeAt(d)
    PROVE  LifeAt(d)'
  <1>1. /\ at[l] = "channel" /\ revents'[d] \subseteq revents[d]
        /\ \/ at'[l] = "channel"
           \/ at'[l] = "message" /\ "in" \in revents[d]
        /\ \A k \in Loops \ {l} : at'[k] = at[k]
        /\ UNCHANGED <<serverVars, connVars, chanVars, queue, batch, active, cur>>
    BY DEF ReadMessage, ReadError, WriteSome, Writable, Handled, AnyInv, Types, TypeOK
  <1>2. \A k \in Loops, o \in AllOps : On(k, o, d)' <=> On(k, o, d)
    BY <1>1 DEF On, OnWay
  <1>3. GivenUp(d)' <=> GivenUp(d)
    BY <1>2, WayGivenUp
  <1>4. state[d] \in Up /\ (at'[l] = "message" => ~GivenUp(d))
    BY <1>1 DEF LifeAt, InHand
  <1>5. InHand(d)'
    BY <1>1, <1>3, <1>4 DEF LifeAt, InHand, Frame, serverVars, connVars, chanVars, Up
  <1>6. QED BY <1>1, <1>2, <1>4, <1>5, LifeByHand DEF Up, LifeAt, Placed

LEMMA LifeEndEvent ==
    ASSUME AnyInv, NEW l \in Loops, EndEvent(l), Frame, NEW d \in Conns, d = cur[l], LifeAt(d)
    PROVE  LifeAt(d)'
  <1>1. /\ at[l] = "channel" /\ cur'[l] # d
        /\ \A k \in Loops \ {l} : at'[k] = at[k] /\ cur'[k] = cur[k]
        /\ UNCHANGED <<serverVars, connVars, chanVars, queue, batch, active>>
    BY NoneAssumption DEF EndEvent, AnyInv, Types, TypeOK
  <1>2. \A k \in Loops, o \in AllOps : On(k, o, d)' <=> On(k, o, d)
    BY <1>1 DEF On, OnWay
  <1>3. GivenUp(d)' <=> GivenUp(d)
    BY <1>2, WayGivenUp
  <1>4. state[d] \in Up /\ \A k \in Loops : cur[k] = d => k = l
    BY <1>1 DEF LifeAt, InHand, Placed
  <1>5. InHand(d)'
    BY <1>1, <1>3, <1>4 DEF LifeAt, InHand, Frame, connVars, Up
  <1>6. QED BY <1>1, <1>2, <1>4, <1>5, LifeByHand DEF Up, LifeAt, Placed

LEMMA LifeWriteRest ==
    ASSUME AnyInv, NEW l \in Loops, WriteRest(l), Frame, NEW d \in Conns, d = cur[l], LifeAt(d)
    PROVE  LifeAt(d)'
  <1>1. /\ at[l] = "channel" /\ "write" \in events[d]
        /\ UNCHANGED <<serverVars, state, wc, at, active, cur, batch>>
        /\ revents'[d] \subseteq revents[d]
        /\ events'[d] = events[d] \ {"write"}
        /\ index'[d] = IF index[d] = "added" /\ events'[d] = {} THEN "deleted" ELSE "added"
        /\ UNCHANGED queue \/ (wc[d] /\ QueueInLoop(l, Functor("writeComplete", d)))
    BY DEF WriteRest, Writable, UpdateChannel, Handled, AnyInv, Types, TypeOK
  <1>2. state[d] \in Up /\ l = loopOf[d]
    BY <1>1 DEF LifeAt, InHand, Placed
  <1>3. \A k \in Loops, o \in AllOps :
            \/ On(k, o, d)' <=> On(k, o, d)
            \/ k = l /\ o = "writeComplete" /\ wc[d]
    <2>1. CASE UNCHANGED queue
      BY <1>1, <2>1 DEF On, OnWay
    <2>2. CASE wc[d] /\ QueueInLoop(l, Functor("writeComplete", d))
      BY <1>1, <2>2, OpSets, QueueOn DEF AnyInv, Types
    <2>3. QED BY <1>1, <2>1, <2>2
  <1>4. {"established", "remove", "destroyed", "writeComplete"} \subseteq AllOps
        /\ "writeComplete" \in OwningOps
    BY OpSets
  <1>5. \A k \in Loops : /\ On(k, "established", d)' <=> On(k, "established", d)
                         /\ On(k, "remove", d)' <=> On(k, "remove", d)
                         /\ On(k, "destroyed", d)' <=> On(k, "destroyed", d)
    BY <1>3, <1>4
  <1>6. GivenUp(d)' <=> GivenUp(d)
    BY <1>5, SMTT(30) DEF GivenUp
  <1>7. Placed(d)'
    BY <1>1, <1>2, <1>3, <1>4, SMTT(30) DEF LifeAt, Placed, Frame, serverVars
  <1>8. Living(d)'
    BY <1>1, <1>2, <1>5, <1>6, SMTT(30) DEF LifeAt, Living, Frame, serverVars, Up
  <1>9. InHand(d)'
    BY <1>1, <1>2, <1>6 DEF LifeAt, InHand, Frame, Placed, Up
  <1>10. Quiet(d)'
    BY <1>1, <1>6, SendsLateSame DEF LifeAt, Quiet, Frame
  <1>11. QED BY <1>7, <1>8, <1>9, <1>10 DEF LifeAt

LEMMA LifeClose ==
    ASSUME AnyInv, Careful, Modest, LifeInv, NEW l \in Loops, HupEvent(l) \/ ReadEof(l), Frame,
           NEW d \in Conns, d = cur[l]
    PROVE  LifeAt(d)'
  <1>1. /\ at[l] = "channel" /\ l = loopOf[d]
        /\ state[d] \in Up /\ ~GivenUp(d) /\ d \in connections /\ index[d] = "added"
        /\ UpdateChannel(d, {}) /\ RemoveConnection(d)
        /\ revents'[d] \cap {"in", "hup"} = {}
        /\ server # "ending"
    BY CloseComesFirst
  <1>2. /\ UNCHANGED <<state, wc, loopOf, at, active, cur, batch>>
        /\ events'[d] = {} /\ index'[d] = "deleted"
    BY <1>1 DEF HupEvent, ReadEof, connVars, UpdateChannel, AnyInv, Types, TypeOK
  <1>3. LifeAt(d) /\ loopOf[d] \in Loops
    BY DEF LifeInv, AnyInv, Types, TypeOK
  <1>4. {"established", "remove", "destroyed", "writeComplete"} \subseteq AllOps
        /\ "remove" \in OwningOps /\ "destroyed" \in OwningOps
    BY OpSets
  <1>5. \A k \in Loops : ~On(k, "remove", d) /\ ~On(k, "destroyed", d)
    BY <1>1 DEF GivenUp
  <1>6. CASE l = 0
    <2>1. d \notin connections' /\ QueueInLoop(l, Functor("destroyed", d))
      BY <1>1, <1>6 DEF RemoveConnection, RemoveConnectionInLoop
    <2>2. \A k \in Loops, o \in AllOps :
              On(k, o, d)' <=> On(k, o, d) \/ (k = l /\ o = "destroyed")
      BY <1>2, <1>4, <2>1, QueueOn DEF AnyInv, Types
    <2>3. Placed(d)'
      BY <1>1, <1>2, <1>3, <1>4, <2>2 DEF LifeAt, Placed, Frame
    <2>4. GivenUp(d)'
      BY <1>4, <2>2, SMTT(30) DEF GivenUp
    <2>5. Living(d)'
      BY <1>1, <1>2, <1>3, <1>4, <1>5, <2>1, <2>2, <2>4, SMTT(30) DEF LifeAt, Living, Up
    <2>6. InHand(d)'
      BY <1>1, <1>2, <1>3 DEF LifeAt, InHand, Placed, Up
    <2>7. Quiet(d)'
      BY <1>2 DEF Quiet
    <2>8. QED BY <2>3, <2>5, <2>6, <2>7 DEF LifeAt
  <1>7. CASE l # 0
    <2>1. connections' = connections /\ QueueInLoop(0, Functor("remove", d))
      BY <1>1, <1>7 DEF RemoveConnection
    <2>2. \A k \in Loops, o \in AllOps :
              On(k, o, d)' <=> On(k, o, d) \/ (k = 0 /\ o = "remove")
      BY <1>2, <1>4, <2>1, QueueOn, ZeroIsLoop DEF AnyInv, Types
    <2>3. Placed(d)'
      BY <1>1, <1>2, <1>3, <1>4, <1>7, <2>2 DEF LifeAt, Placed, Frame
    <2>4. GivenUp(d)'
      BY <1>4, <2>2, ZeroIsLoop, SMTT(30) DEF GivenUp
    <2>5. Living(d)'
      BY <1>1, <1>2, <1>3, <1>4, <1>5, <2>1, <2>2, <2>4 DEF LifeAt, Living, Up
    <2>6. InHand(d)'
      BY <1>1, <1>2, <1>3 DEF LifeAt, InHand, Placed, Up
    <2>7. Quiet(d)'
      BY <1>2 DEF Quiet
    <2>8. QED BY <2>3, <2>5, <2>6, <2>7 DEF LifeAt
  <1>8. QED BY <1>6, <1>7

LEMMA LifeNew ==
    ASSUME AnyInv, NEW d \in Conns, NewConnection(d), Frame
    PROVE  LifeAt(d)'
  <1>1. /\ \A k \in Loops, o \in AllOps : ~On(k, o, d)
        /\ \A k \in Loops : d \notin active[k] /\ cur[k] # d
        /\ index[d] = "new"
    BY DEF NewConnection, AnyInv, RosterInv, FreshAt, Touched, On
  <1>2. /\ d \in program.clients /\ loopOf'[d] = NextLoop /\ d \in connections'
        /\ wc'[d] => "writeComplete" \in program.ops
        /\ UNCHANGED <<active, batch>>
    BY DEF NewConnection, AnyInv, Types, TypeOK
  <1>3. {"established", "remove", "destroyed", "writeComplete"} \subseteq AllOps
        /\ "established" \in OwningOps
    BY OpSets
  <1>4. CASE ConnEstablished(0, d) /\ UNCHANGED queue /\ NextLoop = 0
    <2>1. /\ state'[d] = "connected" /\ events'[d] = {"read"} /\ index'[d] = "added"
          /\ cur'[0] = d /\ at'[0] = "up"
          /\ \A k \in Loops \ {0} : cur'[k] = cur[k]
      BY <1>1, <1>4, ZeroIsLoop DEF ConnEstablished, UpdateChannel, AnyInv, Types, TypeOK
    <2>2. \A k \in Loops, o \in AllOps : ~On(k, o, d)'
      BY <1>1, <1>2, <1>4 DEF On, OnWay
    <2>3. ~GivenUp(d)'
      BY <1>3, <2>2 DEF GivenUp
    <2>4. program.pool = 0
      BY <1>4, ProgramTypes DEF NextLoop, AnyInv, Types, NextInv
    <2>5. Placed(d)'
      BY <1>1, <1>2, <1>3, <1>4, <2>1, <2>2, <2>4 DEF Placed, Frame
    <2>6. Living(d)'
      BY <1>2, <1>3, <2>1, <2>2 DEF Living, Up
    <2>7. InHand(d)'
      BY <1>1, <1>2, <2>1, <2>3 DEF InHand, Up
    <2>8. Quiet(d)'
      BY <2>3 DEF Quiet
    <2>9. QED BY <2>5, <2>6, <2>7, <2>8 DEF LifeAt
  <1>5. CASE /\ state' = [state EXCEPT ![d] = "connecting"]
             /\ QueueInLoop(NextLoop, Functor("established", d))
             /\ UNCHANGED <<chanVars, cur, at>> /\ NextLoop # 0
    <2>1. state'[d] = "connecting" /\ UNCHANGED <<events, index, cur, at>>
      BY <1>5 DEF chanVars, AnyInv, Types, TypeOK
    <2>2. \A k \in Loops, o \in AllOps : On(k, o, d)' <=> k = NextLoop /\ o = "established"
      BY <1>1, <1>2, <1>3, <1>5, QueueOn, NextLoopIsLoop DEF AnyInv, Types
    <2>3. ~GivenUp(d)'
      BY <1>3, <2>2 DEF GivenUp
    <2>4. program.pool # 0
      BY <1>5 DEF NextLoop
    <2>5. Placed(d)'
      BY <1>1, <1>2, <1>3, <1>5, <2>1, <2>2, <2>4 DEF Placed, Frame
    <2>6. Living(d)'
      BY <1>1, <1>2, <1>3, <1>5, <2>1, <2>2 DEF Living, Up
    <2>7. InHand(d)'
      BY <1>1, <1>2, <2>1 DEF InHand
    <2>8. Quiet(d)'
      BY <2>3 DEF Quiet
    <2>9. QED BY <2>5, <2>6, <2>7, <2>8 DEF LifeAt
  <1>6. QED BY <1>4, <1>5 DEF NewConnection

LEMMA LifeEstablished ==
    ASSUME AnyInv, OnceInv, NEW l \in Loops, NEW d \in Conns, RunEstablished(l, d), Frame,
           LifeAt(d)
    PROVE  LifeAt(d)'
  <1>1. /\ Run(l, Functor("established", d)) /\ at[l] = "functors" /\ cur[l] = None
        /\ state'[d] = "connected" /\ events'[d] = {"read"} /\ index'[d] = "added"
        /\ cur'[l] = d /\ at'[l] = "up"
        /\ \A k \in Loops \ {l} : cur'[k] = cur[k]
        /\ UNCHANGED <<connections, loopOf, wc, active, queue>>
    BY NotWithConn DEF RunEstablished, ConnEstablished, UpdateChannel, Run, serverVars, AnyInv,
                       Types, TypeOK
  <1>2. {"established", "remove", "destroyed", "writeComplete"} \subseteq AllOps
        /\ "established" \in OnceOps
    BY OpSets DEF OnceOps
  <1>3. /\ On(l, "established", d)
        /\ \A k \in Loops, o \in AllOps : On(k, o, d)' => On(k, o, d)
    BY <1>1, <1>2, RunOn DEF AnyInv, Types
  <1>4. l = loopOf[d] /\ state[d] = "connecting" /\ d \in connections /\ loopOf[d] # 0
    BY <1>2, <1>3 DEF LifeAt, Placed, Living
  <1>5. \A k \in Loops : ~On(k, "established", d)'
    <2>1. ~On(l, "established", d)'
      BY <1>1, <1>2, RunOnce DEF On, OnWay, AnyInv, Types
    <2>2. QED BY <1>2, <1>3, <1>4, <2>1 DEF LifeAt, Placed
  <1>6. \A k \in Loops : ~On(k, "remove", d)' /\ ~On(k, "destroyed", d)'
    BY <1>2, <1>3, <1>4 DEF LifeAt, Living, Up
  <1>7. ~GivenUp(d)'
    BY <1>6 DEF GivenUp
  <1>8. active[l] = {} /\ \A k \in Loops \ {l} : cur[k] # d
    BY <1>1, <1>4 DEF AnyInv, PhaseInv, EventPhase, LifeAt, Placed
  <1>9. Placed(d)'
    BY <1>1, <1>2, <1>3, <1>4, <1>8 DEF LifeAt, Placed, Frame
  <1>10. Living(d)'
    BY <1>1, <1>4, <1>5, <1>6 DEF Living, Up
  <1>11. InHand(d)'
    BY <1>1, <1>4, <1>7, <1>8 DEF LifeAt, Placed, InHand, Up
  <1>12. Quiet(d)'
    BY <1>7 DEF Quiet
  <1>13. QED BY <1>9, <1>10, <1>11, <1>12 DEF LifeAt

LEMMA LifeRemove ==
    ASSUME AnyInv, OnceInv, LifeInv, NEW l \in Loops, NEW d \in Conns, RunRemove(l, d), Frame
    PROVE  LifeAt(d)'
  <1>1. /\ l = 0 /\ loopOf[d] # 0 /\ state[d] \in Up /\ d \in connections
        /\ \A k \in Loops : ~On(k, "destroyed", d)
        /\ LifeAt(d) /\ loopOf[d] \in Loops
    BY RemoveComesOnce DEF LifeInv, AnyInv, Types, TypeOK
  <1>2. /\ Run(l, Functor("remove", d)) /\ QueueInLoop(loopOf[d], Functor("destroyed", d))
        /\ d \notin connections'
        /\ UNCHANGED <<state, wc, loopOf, events, index, at, active, cur, revents>>
    BY DEF RunRemove, RemoveConnectionInLoop, connVars, chanVars
  <1>3. {"established", "remove", "destroyed", "writeComplete"} \subseteq AllOps
        /\ "remove" \in OnceOps /\ "destroyed" \in OwningOps
    BY OpSets DEF OnceOps
  <1>4. On(l, "remove", d)
    BY <1>2, RunOnWay DEF On, OnWay, AnyInv, Types
  <1>5. /\ Functor("destroyed", d) \in Functors /\ Functor("remove", d) \in Functors
    BY <1>3, OpSets
  <1>6. /\ Entries(queue'[loopOf[d]]) = Entries(queue[loopOf[d]]) \cup {Functor("destroyed", d)}
        /\ \A k \in Loops \ {loopOf[d]} : queue'[k] = queue[k]
        /\ Entries(batch[l]) = Entries(batch'[l]) \cup {Functor("remove", d)}
        /\ \A k \in Loops \ {l} : batch'[k] = batch[k]
        /\ Functor("remove", d) \notin Entries(queue[l])
        /\ Functor("remove", d) \notin Entries(batch'[l])
    BY <1>1, <1>2, <1>3, <1>5, QueueOnWay, RunOnWay, RunOnce DEF AnyInv, Types
  <1>7. \A k \in Loops, o \in AllOps :
            On(k, o, d)' <=> \/ On(k, o, d) /\ ~(k = l /\ o = "remove")
                             \/ k = loopOf[d] /\ o = "destroyed"
    BY <1>1, <1>6, FunctorsDiffer DEF On, OnWay
  <1>8. \A k \in Loops : ~On(k, "remove", d)'
    BY <1>1, <1>3, <1>7 DEF LifeAt, Placed
  <1>9. (\E k \in Loops : On(k, "destroyed", d)') /\ GivenUp(d)' /\ GivenUp(d)
    BY <1>1, <1>3, <1>4, <1>7 DEF GivenUp
  <1>10. Placed(d)'
    BY <1>1, <1>2, <1>3, <1>7 DEF LifeAt, Placed, Frame
  <1>11. Living(d)'
    BY <1>1, <1>2, <1>3, <1>7, <1>8, <1>9 DEF LifeAt, Living, Up
  <1>12. InHand(d)'
    BY <1>1, <1>2, <1>9 DEF LifeAt, InHand, Frame, Up
  <1>13. Quiet(d)'
    BY <1>1, <1>2, <1>9, SendsLateSame DEF LifeAt, Quiet, Frame
  <1>14. QED BY <1>10, <1>11, <1>12, <1>13 DEF LifeAt

LEMMA LifeDestroyed ==
    ASSUME AnyInv, OnceInv, NEW l \in Loops, NEW d \in Conns, RunDestroyed(l, d), Frame,
           LifeAt(d)
    PROVE  LifeAt(d)'
  <1>1. /\ Run(l, Functor("destroyed", d)) /\ at[l] = "functors" /\ cur[l] = None
        /\ state'[d] = "disconnected" /\ events'[d] = {} /\ index'[d] # "new"
        /\ cur'[l] = d /\ at'[l] = "down"
        /\ \A k \in Loops \ {l} : cur'[k] = cur[k]
        /\ UNCHANGED <<connections, loopOf, wc, active, queue>>
    BY NotWithConn DEF RunDestroyed, UpdateChannel, Run, serverVars, AnyInv, Types, TypeOK
  <1>2. {"established", "remove", "destroyed", "writeComplete"} \subseteq AllOps
        /\ "destroyed" \in OnceOps
    BY OpSets DEF OnceOps
  <1>3. /\ On(l, "destroyed", d)
        /\ \A k \in Loops, o \in AllOps : On(k, o, d)' => On(k, o, d)
    BY <1>1, <1>2, RunOn DEF AnyInv, Types
  <1>4. l = loopOf[d] /\ state[d] \in Up /\ d \notin connections
    BY <1>2, <1>3 DEF LifeAt, Placed, Living
  <1>5. \A k \in Loops : ~On(k, "destroyed", d)'
    <2>1. ~On(l, "destroyed", d)'
      BY <1>1, <1>2, RunOnce DEF On, OnWay, AnyInv, Types
    <2>2. QED BY <1>2, <1>3, <1>4, <2>1 DEF LifeAt, Placed
  <1>6. \A k \in Loops : ~On(k, "remove", d)' /\ ~On(k, "established", d)'
    BY <1>2, <1>3, <1>4 DEF LifeAt, Living, Up
  <1>7. ~GivenUp(d)'
    BY <1>5, <1>6 DEF GivenUp
  <1>8. active[l] = {} /\ \A k \in Loops \ {l} : cur[k] # d
    BY <1>1, <1>4 DEF AnyInv, PhaseInv, EventPhase, LifeAt, Placed
  <1>9. Placed(d)'
    BY <1>1, <1>2, <1>3, <1>4, <1>8 DEF LifeAt, Placed, Frame, Up
  <1>10. Living(d)'
    BY <1>1, <1>4, <1>5, <1>6 DEF Living, Up
  <1>11. InHand(d)'
    BY <1>1, <1>4, <1>7, <1>8 DEF LifeAt, Placed, InHand, Up
  <1>12. Quiet(d)'
    BY <1>7 DEF Quiet
  <1>13. QED BY <1>9, <1>10, <1>11, <1>12 DEF LifeAt

LEMMA LifeWriteComplete ==
    ASSUME AnyInv, NEW l \in Loops, NEW d \in Conns, RunWriteComplete(l, d), Frame, LifeAt(d)
    PROVE  LifeAt(d)'
  <1>1. /\ Run(l, Functor("writeComplete", d)) /\ at[l] = "functors" /\ cur[l] = None
        /\ cur'[l] = d /\ at'[l] = "writeComplete"
        /\ \A k \in Loops \ {l} : cur'[k] = cur[k]
        /\ UNCHANGED <<serverVars, connVars, chanVars, revents, active, queue>>
    BY NotWithConn DEF RunWriteComplete, Run, AnyInv, Types, TypeOK
  <1>2. "writeComplete" \in AllOps
    BY OpSets
  <1>3. /\ On(l, "writeComplete", d)
        /\ \A k \in Loops, o \in AllOps : On(k, o, d)' => On(k, o, d)
        /\ \A k \in Loops, o \in AllOps :
               ~(k = l /\ o = "writeComplete") => (On(k, o, d)' <=> On(k, o, d))
    BY <1>1, <1>2, RunOn DEF AnyInv, Types
  <1>4. l = loopOf[d] /\ "writeComplete" \in program.ops
        /\ \A k \in Loops : d \in active[k] \/ cur[k] = d => k = loopOf[d]
    BY <1>2, <1>3 DEF LifeAt, Placed
  <1>5. active[l] = {}
    BY <1>1 DEF AnyInv, PhaseInv, EventPhase
  <1>6. \A k \in Loops : cur[k] # d
    BY <1>1, <1>4, NoneAssumption
  <1>7. InHand(d)'
    BY <1>1, <1>4, <1>5, <1>6 DEF InHand, Frame
  <1>8. QED BY <1>1, <1>3, <1>4, <1>6, <1>7, LifeByHand

\* Nobody sends on a connection that was given up, unless the program sends late.
LEMMA SendIsInTime ==
    ASSUME AnyInv, Modest, LifeInv, NEW l \in Loops, NEW d \in Conns, UserSend(l, d),
           ~SendsLate
    PROVE  ~GivenUp(d)
  <1>1. /\ "send" \in program.ops /\ at[l] \in UserCode /\ state[d] = "connected"
        /\ d \in refs \cup {cur[l]} /\ LifeAt(d)
    BY DEF UserSend, Usable, LifeInv
  <1>2. CASE cur[l] = d
    <2>1. at[l] # "writeComplete"
      BY <1>1, <1>2 DEF LifeAt, InHand, SendsLate
    <2>2. at[l] # "down"
      BY <1>1, <1>2 DEF LifeAt, InHand
    <2>3. QED BY <1>1, <1>2, <2>1, <2>2 DEF LifeAt, InHand, UserCode
  <1>3. CASE cur[l] # d
    <2>1. PICK e \in Conns : e = cur[l]
      BY <1>1, Kinds DEF AnyInv, Types, CurInv, WithConn
    <2>2. d \in program.clients /\ e \in program.clients
      <3>1. state[e] # "none" /\ state[d] # "none"
        BY <1>1, <2>1 DEF AnyInv, RosterInv, FreshAt, Touched
      <3>2. QED BY <3>1 DEF LifeInv, LifeAt, Placed
    <2>3. "hold" \in program.ops
      BY <1>1, <1>3 DEF Modest
    <2>4. QED BY <1>1, <1>3, <2>1, <2>2, <2>3 DEF SendsLate
  <1>4. QED BY <1>2, <1>3

LEMMA LifeSend ==
    ASSUME AnyInv, Modest, LifeInv, NEW l \in Loops, NEW d \in Conns, UserSend(l, d), Frame
    PROVE  LifeAt(d)'
  <1>1. /\ state[d] = "connected" /\ l = loopOf[d] /\ LifeAt(d)
        /\ UNCHANGED <<connections, loopOf, state, at, active, cur, revents, batch>>
    BY DEF UserSend, Usable, LifeInv, serverVars, loopVars
  <1>2. {"established", "remove", "destroyed", "writeComplete"} \subseteq AllOps
        /\ "writeComplete" \in OwningOps
    BY OpSets
  <1>3. /\ wc'[d] => wc[d]
        /\ UNCHANGED queue \/ (wc[d] /\ QueueInLoop(l, Functor("writeComplete", d)))
        /\ \/ events'[d] = events[d] /\ index'[d] = index[d]
           \/ /\ "write" \notin events[d]
              /\ events'[d] = events[d] \cup {"write"} /\ index'[d] = "added"
    BY <1>1 DEF UserSend, SendInLoop, UpdateChannel, chanVars, AnyInv, Types, TypeOK
  <1>4. \A k \in Loops, o \in AllOps :
            \/ On(k, o, d)' <=> On(k, o, d)
            \/ k = l /\ o = "writeComplete" /\ wc[d]
    <2>1. CASE UNCHANGED queue
      BY <1>1, <2>1 DEF On, OnWay
    <2>2. CASE wc[d] /\ QueueInLoop(l, Functor("writeComplete", d))
      BY <1>1, <1>2, <2>2, QueueOn DEF AnyInv, Types
    <2>3. QED BY <1>3, <2>1, <2>2
  <1>5. \A k \in Loops : /\ On(k, "established", d)' <=> On(k, "established", d)
                         /\ On(k, "remove", d)' <=> On(k, "remove", d)
                         /\ On(k, "destroyed", d)' <=> On(k, "destroyed", d)
    BY <1>2, <1>4
  <1>6. GivenUp(d)' <=> GivenUp(d)
    BY <1>5 DEF GivenUp
  <1>7. Placed(d)'
    BY <1>1, <1>2, <1>3, <1>4 DEF LifeAt, Placed, Frame
  <1>8. Living(d)'
    BY <1>1, <1>3, <1>5, <1>6 DEF LifeAt, Living, Frame, Up
  <1>9. InHand(d)'
    BY <1>1, <1>6 DEF LifeAt, InHand, Frame, Up
  <1>10. Quiet(d)'
    <2>1. SendsLate \/ ~GivenUp(d)'
      BY <1>6, SendIsInTime
    <2>2. QED BY <2>1, SendsLateSame DEF Quiet, Frame
  <1>11. QED BY <1>7, <1>8, <1>9, <1>10 DEF LifeAt

LEMMA LifeShutdown ==
    ASSUME AnyInv, NEW l \in Loops, NEW d \in Conns, UserShutdown(l, d), Frame, LifeAt(d)
    PROVE  LifeAt(d)'
  <1>1. /\ state[d] = "connected" /\ state'[d] = "disconnecting"
        /\ UNCHANGED <<serverVars, chanVars, wc, at, active, cur, revents, queue, batch>>
    BY DEF UserShutdown, loopVars, AnyInv, Types, TypeOK
  <1>2. \A k \in Loops, o \in AllOps : On(k, o, d)' <=> On(k, o, d)
    BY <1>1 DEF On, OnWay
  <1>3. GivenUp(d)' <=> GivenUp(d)
    BY <1>2, WayGivenUp
  <1>4. {"established", "remove", "destroyed", "writeComplete"} \subseteq AllOps
    BY OpSets
  <1>5. Placed(d)'
    BY <1>1, <1>2, <1>4 DEF LifeAt, Placed, Frame, serverVars
  <1>6. Living(d)'
    BY <1>1, <1>2, <1>3, <1>4 DEF LifeAt, Living, Frame, serverVars, chanVars, Up
  <1>7. InHand(d)'
    BY <1>1, <1>3 DEF LifeAt, InHand, Frame, Up
  <1>8. Quiet(d)'
    BY <1>1, <1>3, SendsLateSame DEF LifeAt, Quiet, Frame, chanVars
  <1>9. QED BY <1>5, <1>6, <1>7, <1>8 DEF LifeAt

LEMMA LifeReturn ==
    ASSUME AnyInv, NEW l \in Loops, UserReturn(l), Frame, NEW d \in Conns, d = cur[l], LifeAt(d)
    PROVE  LifeAt(d)'
  <1>1. /\ at[l] \in UserCode
        /\ at[l] = "message" => at'[l] = "channel" /\ cur'[l] = d
        /\ at[l] # "message" => cur'[l] = None
        /\ \A k \in Loops \ {l} : at'[k] = at[k] /\ cur'[k] = cur[k]
        /\ UNCHANGED <<serverVars, connVars, events, revents, active, queue, batch>>
        /\ IF at[l] = "down" THEN index'[d] = "new" ELSE UNCHANGED index
    BY DEF UserReturn, AnyInv, Types, TypeOK
  <1>2. \A k \in Loops, o \in AllOps : On(k, o, d)' <=> On(k, o, d)
    BY <1>1 DEF On, OnWay
  <1>3. GivenUp(d)' <=> GivenUp(d)
    BY <1>2, WayGivenUp
  <1>4. {"established", "remove", "destroyed", "writeComplete"} \subseteq AllOps
    BY OpSets
  <1>5. \A k \in Loops : cur[k] = d => k = l
    BY DEF LifeAt, Placed
  <1>6. \A k \in Loops \ {l} : cur'[k] # d
    BY <1>1, <1>5
  <1>7. InHand(d)'
    BY <1>1, <1>3, <1>6, NoneAssumption DEF LifeAt, InHand, Frame, connVars, Up
  <1>8. \A k \in Loops : d \in active'[k] \/ cur'[k] = d => k = loopOf[d]
    BY <1>1, <1>5, <1>6 DEF LifeAt, Placed
  <1>9. CASE at[l] # "down"
    <2>1. UNCHANGED chanVars
      BY <1>1, <1>9 DEF chanVars
    <2>2. \A k \in Loops : ~(cur[k] = d /\ at[k] = "down")
      BY <1>5, <1>9
    <2>3. QED BY <1>1, <1>2, <1>7, <1>8, <2>1, <2>2, LifeByHand
  <1>10. CASE at[l] = "down"
    <2>1. state[d] = "disconnected" /\ state'[d] = "disconnected"
      BY <1>1, <1>10 DEF LifeAt, InHand, connVars
    <2>2. Placed(d)'
      BY <1>1, <1>2, <1>4, <1>8 DEF LifeAt, Placed, Frame, serverVars, connVars
    <2>3. Living(d)'
      BY <1>1, <1>2, <1>4, <1>10, <2>1 DEF LifeAt, Living, serverVars, Up
    <2>4. ~GivenUp(d)
      BY <2>1 DEF LifeAt, Living, GivenUp, Up
    <2>5. Quiet(d)'
      BY <1>3, <2>4 DEF Quiet
    <2>6. QED BY <1>7, <2>2, <2>3, <2>5 DEF LifeAt
  <1>11. QED BY <1>9, <1>10

LEMMA LifeDrop ==
    ASSUME AnyInv, Careful, Modest, NEW d \in Conns, DropConnection(d), Frame, LifeAt(d)
    PROVE  LifeAt(d)'
  <1>1. /\ server = "ending" /\ d \in connections /\ d \notin connections' /\ server' = server
        /\ UNCHANGED <<connVars, chanVars, loopVars, queue, loopOf>>
    BY DEF DropConnection
  <1>2. loopOf[d] = 0
    <2>1. program.pool = 0
      BY <1>1 DEF Careful, Modest
    <2>2. state[d] # "none"
      BY <1>1 DEF AnyInv, RosterInv, FreshAt, Touched
    <2>3. QED BY <2>1, <2>2 DEF LifeAt, Placed
  <1>3. \A k \in Loops, o \in AllOps : On(k, o, d)' <=> On(k, o, d)
    BY <1>1 DEF On, OnWay, loopVars
  <1>4. GivenUp(d)' <=> GivenUp(d)
    BY <1>3, WayGivenUp
  <1>5. {"established", "remove", "destroyed", "writeComplete"} \subseteq AllOps
    BY OpSets
  <1>6. state[d] # "connecting" /\ \A k \in Loops : ~On(k, "remove", d)
    BY <1>2, <1>5 DEF LifeAt, Living, Placed
  <1>7. Placed(d)'
    BY <1>1, <1>3, <1>5 DEF LifeAt, Placed, Frame, connVars, loopVars
  <1>8. Living(d)'
    BY <1>1, <1>3, <1>4, <1>5, <1>6 DEF LifeAt, Living, connVars, chanVars, loopVars, Up
  <1>9. InHand(d)'
    BY <1>1, <1>4 DEF LifeAt, InHand, Frame, connVars, chanVars, loopVars, Up
  <1>10. Quiet(d)'
    BY <1>1, <1>4, SendsLateSame DEF LifeAt, Quiet, Frame, chanVars
  <1>11. QED BY <1>7, <1>8, <1>9, <1>10 DEF LifeAt

\* epoll_wait tells only connections that are up and were not given up.
LEMMA PollTellsUp ==
    ASSUME AnyInv, Careful, Modest, RoundInv, NEW l \in Loops, at[l] = "poll",
           NEW c \in Registered(l), LifeAt(c)
    PROVE  state[c] \in Up /\ ~GivenUp(c)
  <1>1. c \in Conns /\ loopOf[c] = l /\ index[c] = "added" /\ cur[l] = None
    BY NotWithConn DEF Registered, AnyInv
  <1>2. state[c] \in Up
    <2>1. state[c] # "none"
      BY <1>1 DEF AnyInv, RosterInv, FreshAt, Touched
    <2>2. state[c] # "connecting"
      BY <1>1 DEF LifeAt, Living
    <2>3. state[c] # "disconnected"
      BY <1>1, NoneAssumption DEF LifeAt, Living, Placed
    <2>4. QED BY <1>1, <2>1, <2>2, <2>3 DEF AnyInv, Types, TypeOK, States, Up
  <1>3. CASE ~SendsLate
    BY <1>1, <1>2, <1>3 DEF LifeAt, Quiet
  <1>4. CASE SendsLate
    <2>1. program.pool = 0
      BY <1>4, ProgramTypes DEF Careful, AnyInv, Types
    <2>2. loopOf[c] = 0 /\ l = 0
      BY <1>1, <1>2, <2>1 DEF LifeAt, Placed, Up
    <2>3. {"remove", "destroyed"} \subseteq AllOps
      BY OpSets
    <2>4. \A k \in Loops : ~On(k, "remove", c) /\ (On(k, "destroyed", c) => k = 0)
      BY <2>2, <2>3 DEF LifeAt, Placed
    <2>5. ~On(0, "destroyed", c)
      BY <1>1, <2>1, <2>2 DEF RoundInv
    <2>6. QED BY <1>2, <2>4, <2>5 DEF GivenUp
  <1>5. QED BY <1>3, <1>4

LEMMA LifePoll ==
    ASSUME AnyInv, Careful, Modest, RoundInv, NEW l \in Loops, Poll(l), Frame,
           NEW c \in Conns, LifeAt(c)
    PROVE  LifeAt(c)'
  <1>1. /\ at[l] = "poll" /\ at'[l] = "events" /\ cur[l] = None
        /\ \A k \in Loops \ {l} : at'[k] = at[k] /\ active'[k] = active[k]
        /\ c \in active'[l] => c \in Registered(l)
        /\ c \notin Registered(l) => revents'[c] = revents[c]
        /\ UNCHANGED <<serverVars, connVars, chanVars, queue, batch, cur>>
    BY NotWithConn DEF Poll, AnyInv, Types, TypeOK
  <1>2. \A k \in Loops, o \in AllOps : On(k, o, c)' <=> On(k, o, c)
    BY <1>1 DEF On, OnWay
  <1>3. GivenUp(c)' <=> GivenUp(c)
    BY <1>2, WayGivenUp
  <1>4. c \in Registered(l) => state[c] \in Up /\ ~GivenUp(c) /\ loopOf[c] = l
    BY <1>1, PollTellsUp DEF Registered
  <1>5. \A k \in Loops : cur[k] = c => k # l /\ c \notin Registered(l)
    BY <1>1, <1>4, NoneAssumption DEF LifeAt, Placed
  <1>6. InHand(c)'
    BY <1>1, <1>3, <1>4, <1>5 DEF LifeAt, InHand, Frame, connVars, chanVars, Up
  <1>7. \A k \in Loops : c \in active'[k] \/ cur'[k] = c => k = loopOf[c]
    BY <1>1, <1>4 DEF LifeAt, Placed
  <1>8. QED BY <1>1, <1>2, <1>5, <1>6, <1>7, LifeByHand

LEMMA LifeKept ==
    ASSUME AnyInv, Careful, CarefulInv, Next
    PROVE  LifeInv'
  <1>1. Frame /\ Types /\ PhaseInv /\ Modest /\ LifeInv /\ OnceInv /\ RoundInv
        /\ \A c \in Conns : LifeAt(c)
    BY NextFrame DEF AnyInv, CarefulInv, LifeInv
  <1>2. ASSUME NEW d \in Conns, \A c \in Conns \ {d} : Same(c), LifeAt(d)'
        PROVE  LifeInv'
    BY <1>1, <1>2, LifeSame DEF LifeInv
  <1>3. ASSUME \A c \in Conns : Same(c)
        PROVE  LifeInv'
    BY <1>1, <1>3, LifeSame DEF LifeInv
  <1>4. ASSUME NEW l \in Loops, ChannelStep(l)
        PROVE  LifeInv'
    <2>1. PICK d \in Conns : (d = cur[l] \/ d = cur'[l]) /\ \A c \in Conns \ {d} : Same(c)
      BY <1>1, <1>4, ChannelSame
    <2>2. CASE StartEvent(l)
      <3>1. cur[l] = None
        BY <1>1, <2>2, NotWithConn DEF StartEvent
      <3>2. QED BY <1>1, <1>2, <2>1, <2>2, <3>1, NoneAssumption, LifeStartEvent
    <2>3. CASE EndEvent(l)
      <3>1. cur'[l] = None
        BY <1>1, <2>3 DEF EndEvent, Types, TypeOK
      <3>2. QED BY <1>1, <1>2, <2>1, <2>3, <3>1, NoneAssumption, LifeEndEvent
    <2>4. ASSUME ~StartEvent(l), ~EndEvent(l)
          PROVE  d = cur[l]
      BY <1>4, <2>1, <2>4 DEF ChannelStep, HupEvent, ReadMessage, ReadEof, ReadError, WriteRest,
                              WriteSome
    <2>5. QED BY <1>1, <1>2, <1>4, <2>1, <2>2, <2>3, <2>4, LifeClose, LifeReading, LifeWriteRest
              DEF ChannelStep
  <1>5. ASSUME NEW l \in Loops, FunctorStep(l)
        PROVE  LifeInv'
    <2>1. CASE TakeBatch(l) \/ EndBatch(l)
      BY <1>1, <1>3, <2>1, BatchSame
    <2>2. ASSUME NEW d \in Conns, FunctorRun(l, d)
          PROVE  LifeInv'
      <3>1. \A c \in Conns \ {d} : Same(c)
        BY <1>1, <2>2, FunctorSame DEF FunctorRun
      <3>2. LifeAt(d)'
        BY <1>1, <2>2, NotInCareful, LifeEstablished, LifeRemove, LifeDestroyed,
           LifeWriteComplete DEF FunctorRun
      <3>3. QED BY <1>2, <3>1, <3>2
    <2>3. QED BY <1>5, <2>1, <2>2 DEF FunctorStep, FunctorRun
  <1>6. ASSUME NEW l \in Loops, UserReturn(l)
        PROVE  LifeInv'
    <2>1. PICK d \in Conns : d = cur[l]
      BY <1>1, <1>6, Kinds DEF Types, CurInv, UserReturn, WithConn
    <2>2. \A c \in Conns \ {d} : Same(c)
      BY <1>1, <1>6, <2>1, UserReturnSame
    <2>3. LifeAt(d)'
      BY <1>1, <1>6, <2>1, LifeReturn
    <2>4. QED BY <1>2, <2>2, <2>3
  <1>7. ASSUME NEW d \in Conns, NewConnection(d)
        PROVE  LifeInv'
    BY <1>1, <1>2, <1>7, LifeNew, NewConnectionSame
  <1>8. ASSUME UserStep
        PROVE  LifeInv'
    <2>1. ASSUME NEW l \in Loops, NEW d \in Conns, UserSend(l, d) \/ UserShutdown(l, d)
          PROVE  LifeInv'
      <3>1. \A c \in Conns \ {d} : Same(c)
        BY <1>1, <2>1, UserOpSame
      <3>2. LifeAt(d)'
        BY <1>1, <2>1, LifeSend, LifeShutdown
      <3>3. QED BY <1>2, <3>1, <3>2
    <2>2. ASSUME NEW l \in Loops, NEW d \in Conns, UserDrop(d) \/ (UserHold(l) /\ d = cur[l])
          PROVE  LifeInv'
      <3>1. \A c \in Conns \ {d} : Same(c)
        BY <1>1, <2>2, UserOpSame
      <3>2. UNCHANGED <<serverVars, connVars, chanVars, loopVars, queue>>
        BY <2>2 DEF UserDrop, UserHold
      <3>3. \A k \in Loops, o \in AllOps : On(k, o, d)' <=> On(k, o, d)
        BY <3>2 DEF On, OnWay, loopVars
      <3>4. GivenUp(d)' <=> GivenUp(d)
        BY <3>3, WayGivenUp
      <3>5. InHand(d)' /\ \A k \in Loops : d \in active'[k] \/ cur'[k] = d => k = loopOf[d]
        BY <1>1, <3>2, <3>4 DEF LifeAt, InHand, Placed, Frame, connVars, chanVars, loopVars, Up
      <3>6. LifeAt(d)'
        BY <1>1, <3>2, <3>3, <3>5, LifeByHand DEF loopVars
      <3>7. QED BY <1>2, <3>1, <3>6
    <2>3. ASSUME NEW l \in Loops, UserHold(l)
          PROVE  LifeInv'
      <3>1. cur[l] \in Conns
        BY <1>1, <2>3, Kinds DEF Types, CurInv, UserHold, WithConn
      <3>2. QED BY <2>2, <2>3, <3>1
    <2>4. \A l \in Loops, d \in Conns :
              /\ ~UserClose(l, d) /\ ~WorkerMark /\ ~WorkerPost
              /\ \A o \in {"send", "mark"} : ~WorkerCall(o, d)
      BY <1>1, NotInCareful
    <2>5. ~WorkerMark /\ ~WorkerPost
      BY <1>1 DEF WorkerMark, WorkerPost, Modest, NoCall, Functor, RawOps
    <2>6. QED BY <1>8, <2>1, <2>2, <2>3, <2>4, <2>5, ZeroIsLoop DEF UserStep
  <1>9. ASSUME EndStep
        PROVE  LifeInv'
    <2>1. \A l \in Loops : ~StopLoop(l)
      BY <1>1 DEF StopLoop, Modest, Careful
    <2>2. CASE QuitBase \/ Destroy
      BY <1>1, <1>3, <2>2, OutsideSame
    <2>3. ASSUME NEW d \in Conns, DropConnection(d)
          PROVE  LifeInv'
      BY <1>1, <1>2, <2>3, DropSame, LifeDrop
    <2>4. QED BY <1>9, <2>1, <2>2, <2>3 DEF EndStep
  <1>10. ASSUME NEW l \in Loops, Poll(l)
         PROVE  LifeInv'
    BY <1>1, <1>10, LifePoll DEF LifeInv
  <1>11. ASSUME PeerStep
         PROVE  LifeInv'
    BY <1>1, <1>3, <1>11, OutsideSame
  <1>12. QED BY <1>1, <1>4, <1>5, <1>6, <1>7, <1>8, <1>9, <1>10, <1>11, NotInCareful
             DEF Next, RunStep

LEMMA ModestKept ==
    ASSUME AnyInv, Careful, Modest, LifeInv, Next
    PROVE  Modest'
  <1>1. UNCHANGED <<worker, timers>>
    <2>1. \A l \in Loops, d \in Conns :
              /\ ~CloseTimer(l, d) /\ ~UserClose(l, d) /\ ~RunSend(l, d) /\ ~RunShutdown(l, d)
              /\ ~StopLoop(l) /\ \A o \in {"send", "mark"} : ~WorkerCall(o, d)
      BY NotInCareful
    <2>2. ~WorkerMark /\ ~WorkerPost
      BY DEF WorkerMark, WorkerPost, Modest, NoCall, Functor, RawOps
    <2>3. ASSUME NEW l \in Loops, ChannelStep(l)
          PROVE  UNCHANGED <<worker, timers>>
      BY <2>3 DEF ChannelStep, StartEvent, HupEvent, ReadMessage, ReadEof, ReadError, WriteRest,
                  WriteSome, EndEvent, userVars
    <2>4. ASSUME NEW l \in Loops, FunctorStep(l)
          PROVE  UNCHANGED <<worker, timers>>
      BY <2>1, <2>4 DEF FunctorStep, TakeBatch, EndBatch, RunEstablished, RunRemove, RunDestroyed,
                        RunWriteComplete, userVars
    <2>5. ASSUME UserStep
          PROVE  UNCHANGED <<worker, timers>>
      BY <2>1, <2>2, <2>5, ZeroIsLoop DEF UserStep, UserSend, UserShutdown, UserHold, UserDrop,
                                          userVars
    <2>6. ASSUME EndStep \/ PeerStep
          PROVE  UNCHANGED <<worker, timers>>
      BY <2>6 DEF EndStep, QuitBase, Destroy, DropConnection, StopLoop, PeerStep, PeerCloses,
                  PeerResets, userVars
    <2>7. QED BY <2>1, <2>3, <2>4, <2>5, <2>6 DEF Next, RunStep, Poll, UserReturn, NewConnection,
                                                  userVars
  <1>2. server' # "running" => "quit" \in program.ops
    BY DEF Next, EndStep, QuitBase, Destroy, DropConnection, StopLoop, Modest
  <1>3. server' = "ending" => at'[0] = "poll"
    <2>1. CASE Destroy
      BY <2>1 DEF Destroy, loopVars
    <2>2. ASSUME server = "ending", ~Destroy
          PROVE  at'[0] = at[0]
      <3>1. at[0] = "poll"
        BY <2>2 DEF Modest
      <3>2. \A l \in Loops : ~StopLoop(l)
        BY DEF StopLoop, Modest, Careful
      <3>3. ASSUME NEW l \in Loops, at[l] \in UserCode \cup {"events", "channel", "functors"}
            PROVE  l # 0
        BY <3>1, <3>3 DEF UserCode
      <3>4. ASSUME NEW l \in Loops, ChannelStep(l)
            PROVE  at'[0] = at[0]
        <4>1. at[l] \in {"events", "channel"} /\ (UNCHANGED at \/ \E p : at' = [at EXCEPT ![l] = p])
          BY <3>4 DEF ChannelStep, StartEvent, HupEvent, ReadMessage, ReadEof, ReadError, WriteRest,
                      WriteSome, Writable, EndEvent
        <4>2. QED BY <3>3, <4>1, ZeroIsLoop DEF AnyInv, Types, TypeOK
      <3>5. ASSUME NEW l \in Loops, FunctorStep(l)
            PROVE  at'[0] = at[0]
        <4>1. at[l] \in {"events", "functors"}
              /\ (UNCHANGED at \/ \E p : at' = [at EXCEPT ![l] = p])
          <5>1. ASSUME NEW d \in Conns, FunctorRun(l, d)
                PROVE  at[l] = "functors" /\ (UNCHANGED at \/ \E p : at' = [at EXCEPT ![l] = p])
            BY <5>1 DEF FunctorRun, RunEstablished, RunRemove, RunDestroyed, RunWriteComplete,
                        RunSend, RunShutdown, ConnEstablished, Run
          <5>2. QED BY <3>5, <5>1 DEF FunctorStep, FunctorRun, TakeBatch, EndBatch
        <4>2. QED BY <3>3, <4>1, ZeroIsLoop DEF AnyInv, Types, TypeOK
      <3>6. ASSUME NEW l \in Loops, Poll(l) \/ UserReturn(l)
            PROVE  at'[0] = at[0]
        <4>1. l # 0
          BY <2>2, <3>3, <3>6 DEF Poll, UserReturn
        <4>2. \E p : at' = [at EXCEPT ![l] = p]
          BY <3>6 DEF Poll, UserReturn
        <4>3. QED BY <4>1, <4>2, ZeroIsLoop DEF AnyInv, Types, TypeOK
      <3>7. \A d \in Conns : ~NewConnection(d)
        BY <3>1 DEF NewConnection
      <3>8. ASSUME NEW l \in Loops, NEW d \in Conns, CloseTimer(l, d)
            PROVE  UNCHANGED at
        BY <3>8 DEF CloseTimer, loopVars
      <3>9. ASSUME UserStep \/ PeerStep
            PROVE  UNCHANGED at
        BY <3>9 DEF UserStep, UserSend, UserShutdown, UserClose, UserHold, UserDrop, WorkerCall,
                    WorkerMark, WorkerPost, PeerStep, PeerCloses, PeerResets, loopVars
      <3>10. ASSUME EndStep
             PROVE  UNCHANGED at
        BY <3>2, <3>10 DEF EndStep, QuitBase, Destroy, DropConnection, loopVars
      <3>11. QED BY <3>4, <3>5, <3>6, <3>7, <3>8, <3>9, <3>10 DEF Next, RunStep
    <2>3. server' = "ending" => server = "ending" \/ Destroy
      BY DEF Next, EndStep, QuitBase, DropConnection, StopLoop
    <2>4. QED BY <2>1, <2>2, <2>3 DEF Modest
  <1>4. refs' # {} => "hold" \in program.ops
    <2>1. refs' \subseteq refs \/ "hold" \in program.ops
      <3>1. ASSUME NEW l \in Loops, ChannelStep(l) \/ FunctorStep(l)
            PROVE  UNCHANGED refs
        BY <3>1 DEF ChannelStep, StartEvent, HupEvent, ReadMessage, ReadEof, ReadError, WriteRest,
                    WriteSome, EndEvent, FunctorStep, TakeBatch, EndBatch, RunEstablished,
                    RunRemove, RunDestroyed, RunWriteComplete, RunSend, RunShutdown, userVars
      <3>2. ASSUME UserStep
            PROVE  refs' \subseteq refs \/ "hold" \in program.ops
        BY <3>2 DEF UserStep, UserSend, UserShutdown, UserClose, UserHold, UserDrop, WorkerCall,
                    WorkerMark, WorkerPost, userVars
      <3>3. ASSUME EndStep \/ PeerStep
            PROVE  UNCHANGED refs
        BY <3>3 DEF EndStep, QuitBase, Destroy, DropConnection, StopLoop, PeerStep, PeerCloses,
                    PeerResets, userVars
      <3>4. QED BY <3>1, <3>2, <3>3 DEF Next, RunStep, Poll, UserReturn, NewConnection,
                                        CloseTimer, userVars
    <2>2. QED BY <2>1 DEF Modest
  <1>5. QED BY <1>1, <1>2, <1>3, <1>4, NextFrame DEF Modest, Frame

LEMMA CarefulInitially ==
    ASSUME Init
    PROVE  CarefulInv
  <1>1. \A l \in Loops : /\ queue[l] = <<>> /\ batch[l] = <<>> /\ active[l] = {} /\ cur[l] = None
                         /\ at[l] = "poll" /\ OnWay(l) = {}
    BY EntriesOfEmpty DEF Init, OnWay
  <1>2. Modest
    BY DEF Init, Modest
  <1>3. ASSUME NEW c \in Conns
        PROVE  LifeAt(c)
    <2>1. \A l \in Loops, o \in AllOps : ~On(l, o, c)
      BY <1>1 DEF On
    <2>2. ~GivenUp(c)
      BY <1>1 DEF GivenUp, On
    <2>3. state[c] = "none" /\ \A l \in Loops : cur[l] # c /\ c \notin active[l]
      BY <1>1, NoneAssumption DEF Init
    <2>4. Placed(c)
      BY <1>1, <2>1, <2>3 DEF Placed, On, Init
    <2>5. Living(c)
      BY <1>1, <2>3 DEF Living, On, Up
    <2>6. InHand(c) /\ Quiet(c)
      BY <2>2, <2>3 DEF InHand, Quiet
    <2>7. QED BY <2>4, <2>5, <2>6 DEF LifeAt
  <1>4. OnceInv
    BY <1>1, EntriesOfEmpty DEF OnceInv, OnceAt, Single
  <1>5. RoundInv
    BY <1>1, EntriesOfEmpty, ZeroIsLoop DEF RoundInv, On
  <1>6. QED BY <1>2, <1>3, <1>4, <1>5 DEF CarefulInv, LifeInv

LEMMA CarefulKept ==
    ASSUME AnyInv, Careful, CarefulInv, [Next]_vars
    PROVE  CarefulInv'
  <1>1. CASE Next
    <2>1. UNCHANGED program
      BY <1>1 DEF Next
    <2>2. RoundInv'
      BY <1>1, <2>1, RoundKept DEF CarefulInv, RoundInv
    <2>3. QED BY <1>1, <2>2, LifeKept, ModestKept, OnceKept DEF CarefulInv
  <1>2. CASE UNCHANGED vars
    <2>1. UNCHANGED <<worker, timers, server, program, at, refs, queue, batch>>
      BY <1>2 DEF vars, userVars, loopVars
    <2>2. Modest'
      BY <2>1 DEF CarefulInv, Modest
    <2>3. LifeInv'
      BY <1>2, <2>1, OutsideSame, LifeSame DEF AnyInv, CarefulInv, LifeInv, Frame
    <2>4. OnceInv' /\ RoundInv'
      BY <2>1 DEF CarefulInv, OnceInv, OnceAt, Single, RoundInv, On, OnWay, FunctorPhase
    <2>5. QED BY <2>2, <2>3, <2>4 DEF CarefulInv
  <1>3. QED BY <1>1, <1>2

-----------------------------------------------------------------------------
(* What the users of a careful program see.                                *)

LEMMA IdleHolds ==
    ASSUME AnyInv, Careful, CarefulInv, NEW c \in Conns, NEW l \in Loops,
           c \in active[l] \/ cur[l] = c
    PROVE  Alive(c)
  <1>1. LifeAt(c) /\ Modest
    BY DEF CarefulInv, LifeInv
  <1>2. server # "ending"
    BY <1>1, BusyServer DEF LifeAt
  <1>3. CASE state[c] \in Up
    BY <1>1, <1>2, <1>3, UpIsAlive DEF LifeAt
  <1>4. CASE state[c] \notin Up
    <2>1. cur[l] = c /\ at[l] # "channel"
      BY <1>1, <1>4 DEF LifeAt, InHand
    <2>2. at[l] \in UserCode
      BY <2>1 DEF AnyInv, Types, CurInv, WithConn
    <2>3. QED BY <2>1, <2>2 DEF Alive
  <1>5. QED BY <1>3, <1>4

NoneTorn == \A c \in Conns : ChannelIdle(c)

LEMMA AllIdle == AnyInv /\ Careful /\ CarefulInv => NoneTorn
  BY IdleHolds DEF NoneTorn, ChannelIdle

LEMMA IdleKept ==
    ASSUME AnyInv, Careful, CarefulInv, [Next]_vars, NEW c \in Conns
    PROVE  ChannelIdle(c)'
  <1>1. AnyInv' /\ CarefulInv'
    BY CarefulKept, TypesKept, PhaseKept, BaseKept, RosterKept DEF AnyInv
  <1>2. Careful'
    <2>1. UNCHANGED program
      BY DEF Next, vars
    <2>2. QED BY <2>1, SendsLateSame
  <1>3. (AnyInv /\ Careful /\ CarefulInv => NoneTorn)'
    BY AllIdle, PTL
  <1>4. QED BY <1>1, <1>2, <1>3 DEF NoneTorn

LEMMA FaultlessKept ==
    ASSUME AnyInv, Careful, CarefulInv, Next
    PROVE  fault' = "none"
  <1>1. /\ fault = "none" /\ LifeInv /\ Modest /\ (server # "ending" \/ at[0] = "poll")
        /\ \A c \in Conns : LifeAt(c)
    BY DEF Next, CarefulInv, LifeInv, Modest
  <1>2. ASSUME NEW l \in Loops, ChannelStep(l)
        PROVE  fault' = "none"
    <2>1. CASE StartEvent(l)
      <3>1. PICK c \in active[l] : fault' = IF Alive(c) THEN fault ELSE "freed"
        BY <2>1 DEF StartEvent
      <3>2. c \in Conns
        BY <3>1 DEF AnyInv, Types, TypeOK
      <3>3. QED BY <1>1, <3>1, <3>2, IdleHolds
    <2>2. CASE HupEvent(l) \/ ReadEof(l)
      <3>1. PICK d \in Conns : d \in connections /\ RemoveConnection(d)
        BY <1>1, <2>2, CloseComesFirst
      <3>2. QED BY <1>1, <3>1 DEF RemoveConnection, RemoveConnectionInLoop, Assert
    <2>3. QED BY <1>1, <1>2, <2>1, <2>2 DEF ChannelStep, ReadMessage, ReadError, WriteRest,
                                            WriteSome, EndEvent
  <1>3. ASSUME NEW l \in Loops, NEW d \in Conns, FunctorRun(l, d)
        PROVE  fault' = "none"
    <2>1. CASE RunEstablished(l, d)
      <3>1. On(l, "established", d)
        BY <2>1, RunOnWay, OpSets DEF RunEstablished, On, OnWay, AnyInv, Types
      <3>2. state[d] = "connecting"
        BY <1>1, <3>1 DEF LifeAt, Living
      <3>3. QED BY <1>1, <2>1, <3>2 DEF RunEstablished, Assert
    <2>2. CASE RunRemove(l, d)
      BY <1>1, <2>2, RemoveComesOnce DEF RunRemove, RemoveConnectionInLoop, Assert
    <2>3. CASE RunDestroyed(l, d)
      <3>1. On(l, "destroyed", d)
        BY <2>3, RunOnWay, OpSets DEF RunDestroyed, On, OnWay, AnyInv, Types
      <3>2. state[d] \in Up
        BY <1>1, <3>1 DEF LifeAt, Living
      <3>3. QED BY <1>1, <2>3, <3>2 DEF RunDestroyed, Assert, Up
    <2>4. QED BY <1>1, <1>3, <2>1, <2>2, <2>3, NotInCareful DEF FunctorRun, RunWriteComplete
  <1>4. ASSUME NEW l \in Loops, FunctorStep(l)
        PROVE  fault' = "none"
    BY <1>1, <1>3, <1>4 DEF FunctorStep, FunctorRun, TakeBatch, EndBatch
  <1>5. ASSUME NEW l \in Loops, UserReturn(l)
        PROVE  fault' = "none"
    <2>1. PICK c \in Conns : c = cur[l]
      BY <1>5, Kinds DEF AnyInv, Types, CurInv, UserReturn, WithConn
    <2>2. CASE at[l] = "down"
      <3>1. events[c] = {} /\ index[c] # "new"
        BY <1>1, <2>1, <2>2 DEF LifeAt, InHand
      <3>2. QED BY <1>1, <1>5, <2>1, <2>2, <3>1 DEF UserReturn, Assert
    <2>3. CASE at[l] # "down"
      <3>1. fault' = IF ChannelIdle(cur[l])' THEN fault ELSE "assert"
        BY <1>5, <2>3 DEF UserReturn, Assert
      <3>2. ChannelIdle(cur[l])'
        <4>1. CASE cur'[l] = c
          <5>1. ChannelIdle(c)'
            BY IdleKept
          <5>2. QED BY <4>1, <5>1 DEF ChannelIdle, Alive
        <4>2. CASE cur'[l] = None
          <5>1. Types'
            BY TypesKept DEF AnyInv
          <5>2. \A k \in Loops : at'[k] = "channel" => cur'[k] # cur'[l]
            BY <4>2, <5>1, NoneAssumption DEF Types, CurInv, WithConn
          <5>3. QED BY <5>2 DEF ChannelIdle
        <4>3. QED BY <1>5, <2>1, <4>1, <4>2 DEF UserReturn, AnyInv, Types, TypeOK
      <3>3. QED BY <1>1, <3>1, <3>2
    <2>4. QED BY <2>2, <2>3
  <1>6. ASSUME NEW c \in Conns, DropConnection(c)
        PROVE  fault' = "none"
    BY <1>1, <1>6, IdleKept DEF DropConnection, Assert
  <1>7. ASSUME UserStep
        PROVE  fault' = "none"
    <2>1. \A l \in Loops, d \in Conns : ~UserClose(l, d) /\ ~WorkerPost
      BY <1>1, NotInCareful
    <2>2. ~WorkerPost
      BY <1>1 DEF WorkerPost, Modest, NoCall, Functor, RawOps
    <2>3. QED BY <1>1, <1>7, <2>1, <2>2 DEF UserStep, UserSend, UserShutdown, UserHold, UserDrop,
                                            WorkerCall, WorkerMark
  <1>8. ASSUME EndStep
        PROVE  fault' = "none"
    BY <1>1, <1>6, <1>8 DEF EndStep, QuitBase, Destroy, StopLoop
  <1>9. ASSUME NEW c \in Conns, NewConnection(c)
        PROVE  fault' = "none"
    BY <1>1, <1>9 DEF NewConnection
  <1>10. QED BY <1>1, <1>2, <1>4, <1>5, <1>7, <1>8, <1>9, NotInCareful
             DEF Next, RunStep, Poll, PeerStep, PeerCloses, PeerResets

ServerInv == AnyInv /\ (Careful => CarefulInv /\ fault = "none")

LEMMA ServerInvHolds == Spec => []ServerInv
  <1>1. Init => ServerInv
    BY AnyInitially, CarefulInitially DEF ServerInv, Init
  <1>2. ServerInv /\ [Next]_vars => ServerInv'
    <2>1. SUFFICES ASSUME ServerInv, [Next]_vars
                   PROVE  ServerInv'
      OBVIOUS
    <2>2. AnyInv'
      BY <2>1, TypesKept, PhaseKept, BaseKept, RosterKept DEF ServerInv, AnyInv
    <2>3. Careful' <=> Careful
      <3>1. UNCHANGED program
        BY <2>1 DEF Next, vars
      <3>2. QED BY <3>1, SendsLateSame
    <2>4. Careful => CarefulInv'
      BY <2>1, CarefulKept DEF ServerInv
    <2>5. Careful => fault' = "none"
      <3>1. CASE Next
        BY <2>1, <3>1, FaultlessKept DEF ServerInv
      <3>2. CASE UNCHANGED vars
        BY <2>1, <3>2 DEF ServerInv, vars
      <3>3. QED BY <2>1, <3>1, <3>2
    <2>6. QED BY <2>2, <2>3, <2>4, <2>5 DEF ServerInv
  <1>3. QED BY <1>1, <1>2, PTL DEF Spec

\* In a careful program no assert of TcpConnection, TcpServer, Channel and Epoller
\* fails, and HandleClose, ConnEstablished and ConnDestroyed are never called on a
\* freed connection, nor HandleClose on one that is closed already.
THEOREM CarefulIsSafe == Spec => []NoFault
  <1>1. ServerInv => NoFault
    BY DEF ServerInv, NoFault
  <1>2. QED BY <1>1, ServerInvHolds, PTL

\* Whatever the handlers of a round do, EventLoop::Loop finds no freed Channel in
\* active_channels_, and none is freed inside its HandleEvent.
THEOREM HandlersStayAlive == Spec => []HandlersAlive
  <1>1. ServerInv => HandlersAlive
    BY IdleHolds DEF ServerInv, HandlersAlive
  <1>2. QED BY <1>1, ServerInvHolds, PTL

\* ConnDestroyed takes the Channel out of the Epoller before the connection can go.
THEOREM NoneLeftRegistered == Spec => []RegisteredAlive
  <1>1. ASSUME ServerInv
        PROVE  RegisteredAlive
    <2>1. SUFFICES ASSUME Serves, NEW c \in Conns, index[c] # "new"
                   PROVE  Alive(c)
      BY DEF RegisteredAlive
    <2>2. Modest /\ LifeAt(c) /\ server # "ending" /\ AnyInv
      BY <1>1, <2>1 DEF ServerInv, Serves, CarefulInv, LifeInv, Modest
    <2>3. state[c] \in Up \/ (state[c] = "disconnected" /\ state[c] \notin Up)
      BY <2>1, <2>2 DEF LifeAt, Living, RosterInv, FreshAt, Touched, AnyInv, Types, TypeOK,
                        States, Up
    <2>4. CASE state[c] \in Up
      BY <2>2, <2>4, UpIsAlive DEF LifeAt
    <2>5. CASE state[c] = "disconnected"
      BY <2>1, <2>2, <2>5 DEF LifeAt, Living, Alive, UserCode
    <2>6. QED BY <2>3, <2>4, <2>5
  <1>2. QED BY <1>1, ServerInvHolds, PTL

\* From HandleClose over RemoveConnectionInLoop to ConnDestroyed: what leaves
\* connections_ has exactly its ConnDestroyed before it.
THEOREM RemovalIsCarried == Spec => []RemovedOnce
  <1>1. ASSUME ServerInv
        PROVE  RemovedOnce
    <2>1. SUFFICES ASSUME Serves, NEW c \in Conns, state[c] \notin {"none", "disconnected"}
                   PROVE  c \notin connections <=> Functor("destroyed", c) \in Removing(c)
      BY DEF RemovedOnce
    <2>2. LifeAt(c) /\ server # "ending" /\ AnyInv
      BY <1>1, <2>1 DEF ServerInv, Serves, CarefulInv, LifeInv, Modest
    <2>3. state[c] \in Up \/ (state[c] = "connecting" /\ state[c] \notin Up)
      BY <2>1, <2>2 DEF AnyInv, Types, TypeOK, States, Up
    <2>4. c \notin connections <=> \E l \in Loops : On(l, "destroyed", c)
      BY <2>2, <2>3 DEF LifeAt, Living
    <2>5. Functor("destroyed", c) \in Removing(c) <=> \E l \in Loops : On(l, "destroyed", c)
      BY DEF Removing, On, OnWay, Functor
    <2>6. QED BY <2>4, <2>5
  <1>2. QED BY <1>1, ServerInvHolds, PTL

\* After HandleClose's DisableAll nothing enables the Channel again, although
\* state_ is still kConnected and Send and HandleWrite look at it.
THEOREM ClosedStaysQuiet == Spec => []QuietOnceClosed
  <1>1. ASSUME ServerInv
        PROVE  QuietOnceClosed
    <2>1. SUFFICES ASSUME Careful, ~SendsLate, NEW c \in Conns, NEW f \in Removing(c)
                   PROVE  events[c] = {} /\ index[c] = "deleted"
      BY DEF QuietOnceClosed
    <2>2. LifeAt(c)
      BY <1>1, <2>1 DEF ServerInv, CarefulInv, LifeInv
    <2>3. PICK l \in Loops : f \in OnWay(l)
      BY <2>1 DEF Removing, OnWay
    <2>4. f = Functor("remove", c) \/ f = Functor("destroyed", c)
      <3>1. f \in Functors
        BY <1>1, <2>3, OnWayTypes DEF ServerInv, AnyInv, Types
      <3>2. f.conn = c /\ f.op \in {"remove", "destroyed"}
        BY <2>1 DEF Removing
      <3>3. QED BY <3>1, <3>2 DEF Functors, Functor
    <2>5. GivenUp(c)
      BY <2>3, <2>4 DEF GivenUp, On
    <2>6. QED BY <2>1, <2>2, <2>5 DEF LifeAt, Quiet
  <1>2. QED BY <1>1, ServerInvHolds, PTL
-----------------------------------------------------------------------------
(* How far a connection has come, as module Lifecycle sees it.             *)

\* Alive, by what is on the way.
Kept(c) == \/ c \in connections \/ c \in refs \/ worker.conn = c
           \/ \E l \in Loops : \/ \E o \in OwningOps : On(l, o, c)
                               \/ c \in held[l]
                               \/ cur[l] = c /\ at[l] \in UserCode
KeptIsAlive == \A c \in Conns : Alive(c) <=> Kept(c)

LEMMA AliveIsKept == TypeOK => KeptIsAlive
  <1>1. SUFFICES ASSUME TypeOK, NEW c \in Conns
                 PROVE  Alive(c) <=> Kept(c)
    BY DEF KeptIsAlive
  <1>2. ASSUME NEW l \in Loops
        PROVE  Owns(Entries(queue[l]) \cup Entries(batch[l]), c)
                   <=> \E o \in OwningOps : On(l, o, c)
    <2>1. ASSUME NEW f \in OnWay(l), f.op \in OwningOps, f.conn = c
          PROVE  \E o \in OwningOps : On(l, o, c)
      <3>1. f \in Functors
        BY <1>1, OnWayTypes
      <3>2. f = Functor(f.op, c)
        BY <2>1, <3>1 DEF Functors, Functor
      <3>3. QED BY <2>1, <3>2 DEF On
    <2>2. ASSUME NEW o \in OwningOps, On(l, o, c)
          PROVE  Functor(o, c) \in OnWay(l) /\ Functor(o, c).op \in OwningOps
                 /\ Functor(o, c).conn = c
      BY <2>2 DEF On, Functor
    <2>3. QED BY <2>1, <2>2 DEF Owns, OnWay
  <1>3. QED BY <1>2 DEF Alive, Kept

\* Alive does not change, or only ends, where what it looks at does so.
LEMMA AliveSame ==
    ASSUME TypeOK, TypeOK', NEW c \in Conns,
           c \in connections' <=> c \in connections,
           c \in refs' => c \in refs,
           worker'.conn = c <=> worker.conn = c,
           SameWay(c),
           \A l \in Loops : /\ c \in held'[l] => c \in held[l]
                            /\ cur'[l] = c <=> cur[l] = c
                            /\ cur[l] = c => at'[l] = at[l]
    PROVE  /\ Alive(c)' => Alive(c)
           /\ (c \in refs => c \in refs') /\ (\A l \in Loops : c \in held[l] => c \in held'[l])
                  => (Alive(c)' <=> Alive(c))
  <1>1. Alive(c) <=> Kept(c)
    BY AliveIsKept DEF KeptIsAlive
  <1>2. Alive(c)' <=> Kept(c)'
    <2>1. (TypeOK => KeptIsAlive)'
      BY AliveIsKept, PTL
    <2>2. QED BY <2>1 DEF KeptIsAlive
  <1>3. \A l \in Loops, o \in OwningOps : On(l, o, c)' <=> On(l, o, c)
    BY DEF SameWay, On, AllOps
  <1>4. QED BY <1>1, <1>2, <1>3 DEF Kept

Stage(c) == IF state[c] = "none" THEN "new"
            ELSE IF state[c] = "connecting" THEN "accepted"
            ELSE IF state[c] \in Up THEN "up"
            ELSE IF Alive(c) THEN "down" ELSE "freed"
Stays(c) == Stage(c)' = Stage(c)
Fades(c) == Stays(c) \/ (Stage(c) = "down" /\ Stage(c)' = "freed")

\* None of the connections of a program that serves is lost.
Staged == Serves => \A c \in Conns : Phase(c) = Stage(c)

LEMMA PhaseIsStage == ServerInv => Staged
  <1>1. SUFFICES ASSUME ServerInv, Serves, NEW c \in Conns
                 PROVE  Phase(c) = Stage(c)
    BY DEF Staged
  <1>2. LifeAt(c) /\ server # "ending" /\ AnyInv
    BY <1>1 DEF ServerInv, Serves, CarefulInv, LifeInv, Modest
  <1>3. state[c] \in Up => Alive(c)
    BY <1>2, UpIsAlive DEF LifeAt
  <1>4. state[c] = "connecting" => Alive(c)
    BY <1>2 DEF LifeAt, Living, Alive
  <1>5. state[c] \in States
    BY <1>2 DEF AnyInv, Types, TypeOK
  <1>6. CASE state[c] \in Up
    BY <1>3, <1>6 DEF Phase, Stage, Up
  <1>7. CASE state[c] \in {"none", "connecting", "disconnected"}
    BY <1>4, <1>7 DEF Phase, Stage, Up
  <1>8. QED BY <1>5, <1>6, <1>7 DEF States, Up

LEMMA SameStays ==
    ASSUME TypeOK, TypeOK', NEW c \in Conns, Same(c),
           \A l \in Loops : c \in held'[l] => c \in held[l]
    PROVE  Fades(c) /\ ((\A l \in Loops : c \in held[l] => c \in held'[l]) => Stays(c))
  <1>1. /\ state'[c] = state[c]
        /\ c \in connections' <=> c \in connections
        /\ c \in refs' <=> c \in refs
        /\ worker'.conn = c <=> worker.conn = c
    BY DEF Same, SameData
  <1>2. /\ Alive(c)' => Alive(c)
        /\ (\A l \in Loops : c \in held[l] => c \in held'[l]) => (Alive(c)' <=> Alive(c))
    BY <1>1, AliveSame DEF Same, SameLoops
  <1>3. Alive(c) <=> Alive(c)'
        => Stays(c)
    BY <1>1 DEF Stays, Stage, Up
  <1>4. QED BY <1>1, <1>2, <1>3 DEF Fades, Stays, Stage, Up

LEMMA UpStays ==
    ASSUME NEW c, state[c] \in Up, state'[c] \in Up
    PROVE  Stays(c)
  BY DEF Stays, Stage, Up

\* The mapping to Lifecycle.
phaseMap == [c \in Conns |-> IF Serves THEN Phase(c) ELSE "new"]
messagesMap == {cur[l] : l \in {k \in Loops : Serves /\ at[k] = "message"}}

LEMMA MapOfServing ==
    ASSUME ServerInv, ServerInv', Serves, UNCHANGED program
    PROVE  /\ phaseMap = [c \in Conns |-> Stage(c)]
           /\ phaseMap' = [c \in Conns |-> Stage(c)']
           /\ Serves'
  <1>1. Serves'
    BY SendsLateSame DEF Serves
  <1>2. Staged /\ Staged'
    <2>1. (ServerInv => Staged)'
      BY PhaseIsStage, PTL
    <2>2. QED BY <2>1, PhaseIsStage
  <1>3. QED BY <1>1, <1>2 DEF phaseMap, Staged

\* Steps that end no callback and change the stage of one connection.
LEMMA StepMoves ==
    ASSUME ServerInv, ServerInv', Serves, UNCHANGED program,
           NEW d \in Conns, \A c \in Conns \ {d} : Stays(c), messagesMap' = messagesMap,
           \/ Stage(d) = "new" /\ Stage(d)' \in {"accepted", "up"}
           \/ Stage(d) = "accepted" /\ Stage(d)' = "up"
           \/ Stage(d) = "up" /\ Stage(d)' = "down" /\ d \notin messagesMap
    PROVE  L!Next
  <1>1. phaseMap' = [phaseMap EXCEPT ![d] = Stage(d)'] /\ phaseMap[d] = Stage(d)
    BY MapOfServing DEF Stays
  <1>2. L!Accepted(d) \/ L!Up(d) \/ L!Down(d)
    BY <1>1 DEF L!Accepted, L!Up, L!Down, L!Move, phaseMap, messagesMap
  <1>3. QED BY <1>2 DEF L!Next

\* Steps that at most free connections.
LEMMA StepFrees ==
    ASSUME ServerInv, ServerInv', Serves, UNCHANGED program,
           \A c \in Conns : Fades(c), messagesMap' = messagesMap
    PROVE  [L!Next]_(L!vars)
  <1> DEFINE D == {c \in Conns : Stage(c)' # Stage(c)}
  <1>1. \A c \in D : Stage(c) = "down" /\ Stage(c)' = "freed"
    BY DEF Fades, Stays
  <1>2. phaseMap' = [c \in Conns |-> IF c \in D THEN "freed" ELSE phaseMap[c]]
    BY <1>1, MapOfServing
  <1>3. D \in SUBSET {c \in Conns : phaseMap[c] = "down"}
    BY <1>1, MapOfServing
  <1>4. CASE D = {}
    <2>1. phaseMap' = phaseMap
      BY <1>4, MapOfServing
    <2>2. QED BY <2>1 DEF L!vars, phaseMap, messagesMap
  <1>5. CASE D # {}
    <2> HIDE DEF D
    <2>1. L!Free
      BY <1>2, <1>3, <1>5 DEF L!Free, phaseMap, messagesMap
    <2>2. QED BY <2>1 DEF L!Next
  <1>6. QED BY <1>4, <1>5

\* Steps that begin or end a message callback.
LEMMA StepTalks ==
    ASSUME ServerInv, ServerInv', Serves, UNCHANGED program,
           \A c \in Conns : Stays(c), NEW d \in Conns, Stage(d) = "up",
           \/ d \notin messagesMap /\ messagesMap' = messagesMap \cup {d}
           \/ d \in messagesMap /\ messagesMap' = messagesMap \ {d}
    PROVE  L!Next
  <1>1. phaseMap' = phaseMap /\ phaseMap[d] = "up"
    BY MapOfServing DEF Stays
  <1>2. L!Message(d) \/ L!MessageDone(d)
    BY <1>1 DEF L!Message, L!MessageDone, phaseMap, messagesMap
  <1>3. QED BY <1>2 DEF L!Next

\* A loop that is in no message callback, before and after.
LEMMA TalkSame ==
    ASSUME TypeOK, NEW l \in Loops, at[l] # "message", at'[l] # "message",
           UNCHANGED program,
           \A k \in Loops \ {l} : cur'[k] = cur[k] /\ at'[k] = at[k]
    PROVE  messagesMap' = messagesMap
  <1>1. Serves' <=> Serves
    BY SendsLateSame DEF Serves
  <1>2. QED BY <1>1 DEF messagesMap

LEMMA TalkStill ==
    ASSUME UNCHANGED <<program, cur, at>>
    PROVE  messagesMap' = messagesMap
  <1>1. Serves' <=> Serves
    BY SendsLateSame DEF Serves
  <1>2. QED BY <1>1 DEF messagesMap

LEMMA OthersStay ==
    ASSUME TypeOK, TypeOK', NEW d \in Conns, \A c \in Conns \ {d} : Same(c),
           UNCHANGED held \/ \E l \in Loops, o \in OwningOps : Run(l, Functor(o, d))
    PROVE  \A c \in Conns \ {d} : Stays(c)
  <1>1. SUFFICES ASSUME NEW c \in Conns \ {d}
                 PROVE  Stays(c)
    OBVIOUS
  <1>2. \A l \in Loops : c \in held'[l] <=> c \in held[l]
    <2>1. ASSUME NEW l \in Loops, NEW o \in OwningOps, Run(l, Functor(o, d))
          PROVE  \A k \in Loops : c \in held'[k] <=> c \in held[k]
      <3>1. held' = [held EXCEPT ![l] = @ \cup {d}]
        BY <2>1 DEF Run, Functor
      <3>2. held \in [Loops -> SUBSET Conns]
        BY DEF TypeOK
      <3>3. QED BY <3>1, <3>2
    <2>2. QED BY <2>1
  <1>3. QED BY <1>2, SameStays

LEMMA ChannelRefines ==
    ASSUME ServerInv, ServerInv', Serves, UNCHANGED program, NEW l \in Loops, ChannelStep(l)
    PROVE  [L!Next]_(L!vars)
  <1>1. TypeOK /\ TypeOK' /\ AnyInv /\ \A c \in Conns : LifeAt(c)
    BY DEF ServerInv, AnyInv, Types, Serves, CarefulInv, LifeInv
  <1>2. UNCHANGED <<held, state>>
    BY DEF ChannelStep, StartEvent, HupEvent, ReadMessage, ReadEof, ReadError, WriteRest,
           WriteSome, EndEvent, connVars
  <1>3. PICK d \in Conns : (d = cur[l] \/ d = cur'[l]) /\ \A c \in Conns \ {d} : Same(c)
    BY <1>1, ChannelSame DEF AnyInv
  <1>4. state[d] \in Up
    <2>1. CASE StartEvent(l)
      <3>1. cur[l] = None
        BY <1>1, <2>1, NotWithConn DEF StartEvent, AnyInv
      <3>2. d \in active[l]
        <4>1. cur \in [Loops -> Conns \cup {None}]
          BY <1>1 DEF TypeOK
        <4>2. \E c \in active[l] : cur' = [cur EXCEPT ![l] = c]
          BY <2>1 DEF StartEvent
        <4>3. QED BY <1>3, <3>1, <4>1, <4>2, NoneAssumption
      <3>3. QED BY <1>1, <3>2 DEF LifeAt, InHand
    <2>2. CASE ~StartEvent(l)
      <3>1. at[l] = "channel" /\ cur'[l] \in {cur[l], None}
        <4>1. cur \in [Loops -> Conns \cup {None}]
          BY <1>1 DEF TypeOK
        <4>2. CASE EndEvent(l)
          BY <4>1, <4>2 DEF EndEvent
        <4>3. CASE ~EndEvent(l)
          BY <2>2, <4>3 DEF ChannelStep, HupEvent, ReadMessage, ReadEof, ReadError, WriteRest,
                            WriteSome, Writable
        <4>4. QED BY <4>2, <4>3
      <3>2. cur[l] = d
        BY <1>3, <3>1, NoneAssumption
      <3>3. QED BY <1>1, <3>1, <3>2 DEF LifeAt, InHand
    <2>3. QED BY <2>1, <2>2
  <1>5. \A c \in Conns : Stays(c)
    BY <1>1, <1>2, <1>3, <1>4, OthersStay, UpStays
  <1>6. CASE ReadMessage(l)
    <2>1. /\ at[l] = "channel" /\ at' = [at EXCEPT ![l] = "message"] /\ cur' = cur
          /\ d = cur[l]
      BY <1>3, <1>6 DEF ReadMessage
    <2>2. \A k \in Loops : cur[k] = d => k = l
      BY <1>1, <2>1 DEF LifeAt, Placed
    <2>3. at'[l] = "message" /\ \A k \in Loops \ {l} : at'[k] = at[k]
      BY <1>1, <2>1 DEF TypeOK
    <2>4. Serves'
      BY MapOfServing
    <2>5. d \notin messagesMap /\ messagesMap' = messagesMap \cup {d}
      BY <2>1, <2>2, <2>3, <2>4 DEF messagesMap
    <2>6. Stage(d) = "up"
      BY <1>4 DEF Stage, Up
    <2>7. QED BY <1>5, <2>5, <2>6, StepTalks
  <1>7. CASE ~ReadMessage(l)
    <2>1. /\ at[l] \in {"events", "channel"} /\ at'[l] \in {"events", "channel"}
          /\ \A k \in Loops \ {l} : cur'[k] = cur[k] /\ at'[k] = at[k]
      <3>1. /\ cur \in [Loops -> Conns \cup {None}]
            /\ at \in [Loops -> UserCode \cup {"poll", "events", "channel", "functors", "stopped"}]
        BY <1>1 DEF TypeOK
      <3>2. /\ at[l] \in {"events", "channel"}
            /\ \/ UNCHANGED <<cur, at>>
               \/ /\ \E x : cur' = [cur EXCEPT ![l] = x]
                  /\ \E p \in {"events", "channel"} : at' = [at EXCEPT ![l] = p]
        BY <1>7 DEF ChannelStep, StartEvent, HupEvent, ReadEof, ReadError, WriteRest,
                    WriteSome, Writable, EndEvent
      <3>3. QED BY <3>1, <3>2
    <2>2. messagesMap' = messagesMap
      BY <1>1, <2>1, TalkSame
    <2>3. QED BY <1>5, <2>2, StepFrees DEF Fades
  <1>8. QED BY <1>6, <1>7

LEMMA AcceptRefines ==
    ASSUME ServerInv, ServerInv', Serves, UNCHANGED program, NEW d \in Conns, NewConnection(d)
    PROVE  [L!Next]_(L!vars)
  <1>1. TypeOK /\ TypeOK' /\ Types /\ 0 \in Loops
    BY ZeroIsLoop DEF ServerInv, AnyInv, Types
  <1>2. \A c \in Conns \ {d} : Stays(c)
    BY <1>1, NewConnectionSame, OthersStay DEF NewConnection
  <1>3. state[d] = "none" /\ state'[d] \in {"connecting", "connected"}
    BY <1>1 DEF NewConnection, ConnEstablished, TypeOK
  <1>4. messagesMap' = messagesMap
    <2>1. /\ at[0] = "events" /\ at'[0] \in {"events", "up"}
          /\ \A k \in Loops \ {0} : cur'[k] = cur[k] /\ at'[k] = at[k]
      BY <1>1 DEF NewConnection, ConnEstablished, TypeOK
    <2>2. QED BY <1>1, <2>1, TalkSame
  <1>5. QED BY <1>2, <1>3, <1>4, StepMoves DEF Stage, Up

LEMMA FunctorRefines ==
    ASSUME ServerInv, ServerInv', Serves, UNCHANGED program,
           NEW l \in Loops, NEW d \in Conns,
           RunEstablished(l, d) \/ RunRemove(l, d) \/ RunDestroyed(l, d) \/ RunWriteComplete(l, d)
    PROVE  [L!Next]_(L!vars)
  <1>1. /\ TypeOK /\ TypeOK' /\ Types /\ AnyInv /\ LifeInv /\ LifeAt(d)
        /\ {"established", "remove", "destroyed", "writeComplete"} \subseteq OwningOps
    BY OpSets DEF ServerInv, AnyInv, Types, Serves, CarefulInv, LifeInv
  <1>2. PICK o \in OwningOps : Run(l, Functor(o, d))
    BY <1>1 DEF RunEstablished, RunRemove, RunDestroyed, RunWriteComplete
  <1>3. \A c \in Conns \ {d} : Stays(c)
    BY <1>1, <1>2, FunctorSame, OthersStay
  <1>4. messagesMap' = messagesMap
    <2>1. /\ at[l] = "functors" /\ at'[l] \in {"functors", "up", "down", "writeComplete"}
          /\ \A k \in Loops \ {l} : cur'[k] = cur[k] /\ at'[k] = at[k]
      <3>1. at \in [Loops -> UserCode \cup {"poll", "events", "channel", "functors", "stopped"}]
            /\ cur \in [Loops -> Conns \cup {None}]
        BY <1>1 DEF TypeOK
      <3>2. at[l] = "functors"
        BY <1>2 DEF Run
      <3>3. \/ UNCHANGED <<cur, at>>
            \/ /\ cur' = [cur EXCEPT ![l] = d]
               /\ \E p \in {"up", "down", "writeComplete"} : at' = [at EXCEPT ![l] = p]
        BY DEF RunEstablished, RunRemove, RunDestroyed, RunWriteComplete, ConnEstablished
      <3>4. QED BY <3>1, <3>2, <3>3
    <2>2. QED BY <1>1, <2>1, TalkSame
  <1>5. On(l, "established", d) \/ ~RunEstablished(l, d)
    BY <1>1, RunOnWay, OpSets DEF RunEstablished, On, OnWay
  <1>6. CASE RunEstablished(l, d)
    <2>1. state[d] = "connecting" /\ state'[d] = "connected"
      BY <1>1, <1>5, <1>6 DEF LifeAt, Living, RunEstablished, ConnEstablished, TypeOK
    <2>2. QED BY <1>3, <1>4, <2>1, StepMoves DEF Stage, Up
  <1>7. CASE RunRemove(l, d)
    <2>1. state[d] \in Up /\ state'[d] \in Up
      BY <1>1, <1>7, RemoveComesOnce DEF RunRemove, connVars
    <2>2. QED BY <1>3, <1>4, <2>1, UpStays, StepFrees DEF Fades
  <1>8. CASE RunDestroyed(l, d)
    <2>1. On(l, "destroyed", d)
      BY <1>1, <1>8, RunOnWay, OpSets DEF RunDestroyed, On, OnWay
    <2>2. state[d] \in Up /\ l = loopOf[d]
      BY <1>1, <2>1, OpSets DEF LifeAt, Living, Placed
    <2>3. at[l] = "functors" /\ state'[d] = "disconnected" /\ cur'[l] = d /\ at'[l] = "down"
      BY <1>1, <1>8 DEF RunDestroyed, Run, TypeOK
    <2>4. Alive(d)'
      BY <2>3 DEF Alive, UserCode
    <2>5. d \notin messagesMap
      BY <1>1, <2>2, <2>3 DEF messagesMap, LifeAt, Placed
    <2>6. Stage(d) = "up" /\ Stage(d)' = "down"
      BY <2>2, <2>3, <2>4 DEF Stage, Up
    <2>7. QED BY <1>3, <1>4, <2>5, <2>6, StepMoves
  <1>9. CASE RunWriteComplete(l, d)
    <2>1. UNCHANGED state /\ cur'[l] = d /\ at'[l] = "writeComplete"
      BY <1>1, <1>9 DEF RunWriteComplete, Run, TypeOK, connVars
    <2>2. Alive(d)'
      BY <2>1 DEF Alive, UserCode
    <2>3. On(l, "writeComplete", d)
      BY <1>1, <1>9, RunOnWay, OpSets DEF RunWriteComplete, On, OnWay
    <2>4. Alive(d)
      BY <1>1, <2>3, AliveIsKept DEF KeptIsAlive, Kept
    <2>5. Stays(d)
      BY <2>1, <2>2, <2>4 DEF Stays, Stage, Up
    <2>6. QED BY <1>3, <1>4, <2>5, StepFrees DEF Fades
  <1>10. QED BY <1>6, <1>7, <1>8, <1>9

LEMMA BatchRefines ==
    ASSUME ServerInv, ServerInv', Serves, UNCHANGED program, NEW l \in Loops,
           TakeBatch(l) \/ EndBatch(l)
    PROVE  [L!Next]_(L!vars)
  <1>1. TypeOK /\ TypeOK' /\ Types /\ PhaseInv
    BY DEF ServerInv, AnyInv, Types
  <1>2. \A c \in Conns : \A k \in Loops : c \in held'[k] => c \in held[k]
    <2>1. UNCHANGED held \/ held' = [held EXCEPT ![l] = {}]
      BY DEF TakeBatch, EndBatch
    <2>2. held \in [Loops -> SUBSET Conns]
      BY <1>1 DEF TypeOK
    <2>3. QED BY <2>1, <2>2
  <1>3. \A c \in Conns : Fades(c)
    BY <1>1, <1>2, BatchSame, SameStays
  <1>4. messagesMap' = messagesMap
    <2>1. at \in [Loops -> UserCode \cup {"poll", "events", "channel", "functors", "stopped"}]
      BY <1>1 DEF TypeOK
    <2>2. /\ at[l] \in {"events", "functors"} /\ UNCHANGED cur
          /\ at'[l] \in {"poll", "functors"} /\ \A k \in Loops \ {l} : at'[k] = at[k]
      BY <2>1 DEF TakeBatch, EndBatch
    <2>3. QED BY <1>1, <2>2, TalkSame
  <1>5. QED BY <1>3, <1>4, StepFrees

LEMMA UserRefines ==
    ASSUME ServerInv, ServerInv', Serves, UNCHANGED program, NEW l \in Loops, NEW d \in Conns,
           UserSend(l, d) \/ UserShutdown(l, d) \/ UserDrop(d) \/ (UserHold(l) /\ d = cur[l])
    PROVE  [L!Next]_(L!vars)
  <1>1. TypeOK /\ TypeOK' /\ Types /\ UNCHANGED <<at, cur, held>>
    BY DEF ServerInv, AnyInv, Types, UserSend, UserShutdown, UserDrop, UserHold, loopVars
  <1>2. \A c \in Conns \ {d} : Stays(c)
    BY <1>1, UserOpSame, OthersStay
  <1>3. messagesMap' = messagesMap
    BY <1>1, TalkStill
  <1>4. CASE UserSend(l, d) \/ UserShutdown(l, d)
    <2>1. state[d] \in Up /\ state'[d] \in Up
      BY <1>1, <1>4 DEF UserSend, UserShutdown, TypeOK, Up
    <2>2. QED BY <1>2, <1>3, <2>1, UpStays, StepFrees DEF Fades
  <1>5. CASE UserDrop(d)
    <2>1. UNCHANGED state /\ Alive(d)
      BY <1>5 DEF UserDrop, Alive, connVars
    <2>2. QED BY <1>2, <1>3, <2>1, StepFrees DEF Fades, Stays, Stage, Up
  <1>6. CASE UserHold(l) /\ d = cur[l]
    <2>1. UNCHANGED state /\ Alive(d)
      BY <1>6 DEF UserHold, Alive, connVars
    <2>2. QED BY <1>2, <1>3, <2>1, StepFrees DEF Fades, Stays, Stage, Up
  <1>7. QED BY <1>4, <1>5, <1>6

LEMMA ReturnRefines ==
    ASSUME ServerInv, ServerInv', Serves, UNCHANGED program, NEW l \in Loops, UserReturn(l)
    PROVE  [L!Next]_(L!vars)
  <1>1. TypeOK /\ TypeOK' /\ Types /\ UNCHANGED <<state, held>> /\ \A c \in Conns : LifeAt(c)
    BY DEF ServerInv, AnyInv, Types, UserReturn, connVars, Serves, CarefulInv, LifeInv
  <1>2. PICK d \in Conns : d = cur[l]
    BY <1>1, Kinds DEF Types, CurInv, UserReturn, WithConn
  <1>3. \A c \in Conns \ {d} : Stays(c)
    BY <1>1, <1>2, UserReturnSame, OthersStay
  <1>4. at[l] \in UserCode /\ Alive(d)
    BY <1>2 DEF UserReturn, Alive
  <1>5. CASE at[l] = "message"
    <2>1. cur' = cur /\ at'[l] = "channel" /\ \A k \in Loops \ {l} : at'[k] = at[k]
      BY <1>1, <1>5 DEF UserReturn, TypeOK
    <2>2. \A k \in Loops : cur[k] = d => k = l
      BY <1>1, <1>2 DEF LifeAt, Placed
    <2>3. d \in messagesMap /\ messagesMap' = messagesMap \ {d}
      BY <1>2, <1>5, <2>1, <2>2, MapOfServing DEF messagesMap
    <2>4. state[d] \in Up
      BY <1>1, <1>2, <1>5 DEF LifeAt, InHand
    <2>5. Stays(d) /\ Stage(d) = "up"
      BY <1>1, <2>4, UpStays DEF Stage, Up
    <2>6. QED BY <1>3, <2>3, <2>5, StepTalks
  <1>6. CASE at[l] # "message"
    <2>1. at'[l] \in {"events", "functors"}
          /\ \A k \in Loops \ {l} : cur'[k] = cur[k] /\ at'[k] = at[k]
      BY <1>1, <1>6 DEF UserReturn, TypeOK
    <2>2. messagesMap' = messagesMap
      BY <1>1, <1>6, <2>1, TalkSame
    <2>3. QED BY <1>1, <1>3, <1>4, <2>2, StepFrees DEF Fades, Stays, Stage, Up
  <1>7. QED BY <1>5, <1>6

LEMMA PollRefines ==
    ASSUME ServerInv, ServerInv', Serves, UNCHANGED program, NEW l \in Loops, Poll(l)
    PROVE  [L!Next]_(L!vars)
  <1>1. /\ TypeOK /\ TypeOK' /\ Types /\ at[l] = "poll" /\ cur[l] = None
        /\ UNCHANGED <<state, connections, refs, worker, held, cur, queue, batch>>
    BY NotWithConn DEF ServerInv, AnyInv, Types, Poll, serverVars, connVars, userVars
  <1>2. at'[l] = "events" /\ \A k \in Loops \ {l} : at'[k] = at[k]
    BY <1>1 DEF Poll, TypeOK
  <1>3. ASSUME NEW c \in Conns
        PROVE  Stays(c)
    <2>1. \A k \in Loops : /\ cur'[k] = c <=> cur[k] = c
                           /\ cur[k] = c => at'[k] = at[k]
      BY <1>1, <1>2, NoneAssumption
    <2>2. Alive(c)' <=> Alive(c)
      BY <1>1, <2>1, NoneSameWay, AliveSame
    <2>3. QED BY <1>1, <2>2 DEF Stays, Stage, Up
  <1>4. messagesMap' = messagesMap
    BY <1>1, <1>2, TalkSame
  <1>5. QED BY <1>3, <1>4, StepFrees DEF Fades

LEMMA OutsideRefines ==
    ASSUME ServerInv, ServerInv', Serves, UNCHANGED program, PeerStep \/ UNCHANGED vars
    PROVE  [L!Next]_(L!vars)
  <1>1. TypeOK /\ TypeOK' /\ Types /\ UNCHANGED <<held, cur, at>>
    BY DEF ServerInv, AnyInv, Types, PeerStep, PeerCloses, PeerResets, vars, loopVars
  <1>2. \A c \in Conns : Fades(c)
    BY <1>1, OutsideSame, SameStays
  <1>3. QED BY <1>1, <1>2, TalkStill, StepFrees

LEMMA ServerRefines ==
    ASSUME ServerInv, ServerInv', [Next]_vars
    PROVE  [L!Next]_(L!vars)
  <1>1. UNCHANGED program
    BY DEF Next, vars
  <1>2. CASE ~Serves
    <2>1. ~Serves'
      BY <1>1, <1>2, SendsLateSame DEF Serves
    <2>2. phaseMap' = phaseMap /\ messagesMap' = messagesMap
      BY <1>2, <2>1 DEF phaseMap, messagesMap
    <2>3. QED BY <2>2 DEF L!vars, phaseMap, messagesMap
  <1>3. CASE Serves /\ Next
    <2>1. AnyInv /\ Careful /\ Modest /\ LifeInv /\ server = "running" /\ "quit" \notin program.ops
      BY <1>3 DEF ServerInv, Serves, CarefulInv, Modest
    <2>2. ~EndStep
      BY <2>1, NotInCareful DEF EndStep, QuitBase, Destroy, DropConnection, StopLoop
    <2>3. ASSUME NEW l \in Loops, FunctorStep(l)
          PROVE  [L!Next]_(L!vars)
      BY <1>1, <1>3, <2>1, <2>3, BatchRefines, FunctorRefines, NotInCareful DEF FunctorStep
    <2>4. ASSUME UserStep
          PROVE  [L!Next]_(L!vars)
      <3>1. ~WorkerMark /\ ~WorkerPost
        BY <2>1 DEF WorkerMark, WorkerPost, Modest, NoCall, Functor, RawOps
      <3>2. ASSUME NEW l \in Loops, UserHold(l)
            PROVE  [L!Next]_(L!vars)
        <4>1. cur[l] \in Conns
          BY <2>1, <3>2, Kinds DEF AnyInv, Types, CurInv, UserHold, WithConn
        <4>2. QED BY <1>1, <1>3, <3>2, <4>1, UserRefines
      <3>3. ASSUME NEW l \in Loops, NEW d \in Conns,
                   UserSend(l, d) \/ UserShutdown(l, d) \/ UserClose(l, d)
                       \/ \E o \in {"send", "mark"} : WorkerCall(o, d)
            PROVE  [L!Next]_(L!vars)
        BY <1>1, <1>3, <2>1, <3>3, NotInCareful, UserRefines
      <3>4. ASSUME NEW d \in Conns, UserDrop(d)
            PROVE  [L!Next]_(L!vars)
        BY <1>1, <1>3, <3>4, ZeroIsLoop, UserRefines
      <3>5. QED BY <2>4, <3>1, <3>2, <3>3, <3>4, ZeroIsLoop DEF UserStep
    <2>5. QED BY <1>1, <1>3, <2>1, <2>2, <2>3, <2>4, ChannelRefines, ReturnRefines, PollRefines,
                 AcceptRefines, OutsideRefines, NotInCareful DEF Next, RunStep
  <1>4. CASE Serves /\ UNCHANGED vars
    BY <1>1, <1>4, OutsideRefines
  <1>5. QED BY <1>2, <1>3, <1>4

\* TcpServer, TcpConnection and their loops keep the promise of module Lifecycle:
\* ConnEstablished, message callbacks, ConnDestroyed, and only then the destructor,
\* each once and in this order for every connection.
THEOREM ServerRefinesLifecycle == Spec => ImplementsLifecycle
  <1>1. Init => L!Init
    <2>1. SUFFICES ASSUME Init
                   PROVE  L!Init
      OBVIOUS
    <2>2. \A c \in Conns : Phase(c) = "new"
      BY <2>1 DEF Init, Phase
    <2>3. \A l \in Loops : at[l] # "message"
      BY <2>1 DEF Init
    <2>4. QED BY <2>2, <2>3 DEF L!Init
  <1>2. ServerInv /\ ServerInv' /\ [Next]_vars => [L!Next]_(L!vars)
    BY ServerRefines
  <1>3. QED BY <1>1, <1>2, ServerInvHolds, PTL DEF Spec, ImplementsLifecycle, L!Spec
==============================================================================
