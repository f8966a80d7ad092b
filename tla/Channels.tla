------------------------------ MODULE Channels ------------------------------
(***************************************************************************)
(* The Channels of one EventLoop and their descriptors: what they ask for, *)
(* what the demultiplexer (Epoller or Poller) told them, and what happens  *)
(* on the descriptors. Modules Epoller and Poller add the demultiplexer.   *)
(*                                                                         *)
(* All of it is on the loop's thread. A channel is enabled first, removed  *)
(* after a DisableAll when no channel waits for its handler, and destroyed *)
(* then; its descriptor is closed with it and may be given out again. That *)
(* is what TcpConnection does; the listening socket's channel, and those   *)
(* of the eventfd and the timerfd, are only enabled.                       *)
(***************************************************************************)
EXTENDS Integers, Sequences

CONSTANTS Chans,   \* Channel objects
          Fds,     \* descriptors
          Uses,    \* the programs: how many channels, what they ask for, what
                   \* happens
          None

ASSUME FdsAssumption == Fds \subseteq Nat
ASSUME UsesAssumption == Uses \subseteq [chans : SUBSET Chans,
                                         asks : SUBSET {"in", "out"},
                                         happens : SUBSET {"in", "out", "hup"}]
ASSUME NoneAssumption == None \notin Chans /\ None \notin Fds

VARIABLES fd,         \* fd_ of the channels that exist, None for the others
          events,     \* events_
          index,      \* index_
          revents,    \* revents_ of the channels in active_channels_, else {}
          channels,   \* channels_ of the Epoller or Poller: fd to channel
          ready,      \* what is the case on a descriptor
          silenced,   \* history: the channel has asked for nothing once
          use,        \* which of Uses this is
          fault       \* an assert has failed

chanVars == <<fd, events, index, revents, channels, ready, silenced, use, fault>>

k_new == -1

Exists(c) == fd[c] # None
Active == {c \in Chans : revents[c] # {}}

\* events_ after EnableReading, EnableWriting, DisableWriting or DisableAll.
Wanted(c) == {events[c] \cup {"in"}, events[c] \cup {"out"},
              events[c] \ {"out"}, {}} \cap SUBSET use.asks

\* What poll and epoll_wait report of a descriptor that is asked for ev:
\* POLLHUP and POLLERR (here "hup") come unasked.
Reported(f, ev) == ready[f] \cap (ev \cup {"hup"})

ChanInit == /\ fd = [c \in Chans |-> None]
            /\ events = [c \in Chans |-> {}]
            /\ index = [c \in Chans |-> k_new]
            /\ revents = [c \in Chans |-> {}]
            /\ channels = [f \in Fds |-> None]
            /\ ready = [f \in Fds |-> {}]
            /\ silenced = [c \in Chans |-> FALSE]
            /\ use \in Uses
            /\ fault = FALSE

Assert(holds) == fault' = (fault \/ ~holds)

Open(f) == \E c \in Chans : fd[c] = f

\* A Channel is made for a descriptor that was just opened: the lowest free one.
Create(c, f) == /\ c \in use.chans /\ ~Exists(c)
                /\ ~Open(f) /\ \A g \in Fds : g < f => Open(g)
                /\ fd' = [fd EXCEPT ![c] = f]
                /\ UNCHANGED <<events, index, revents, channels, ready, silenced,
                               use, fault>>

\* Channel::Update, up to the demultiplexer's UpdateChannel.
Update(c, ev) == /\ Exists(c)
                 /\ ev \in Wanted(c)
                 /\ index[c] = k_new => ev # {}
                 /\ events' = [events EXCEPT ![c] = ev]
                 /\ silenced' = [silenced EXCEPT ![c] = @ \/ ev = {}]
                 /\ UNCHANGED <<fd, revents, ready, use>>

\* A channel is given up: RemoveChannel, whose part this is not, the Channel's
\* destructor, and the close of its descriptor. (What is left of the object is
\* put as the next constructor will find it.)
GiveUp(c) == /\ Exists(c)
             /\ events[c] = {} /\ index[c] # k_new
             /\ Active = {}
             /\ fd' = [fd EXCEPT ![c] = None]
             /\ ready' = [ready EXCEPT ![fd[c]] = {}]
             /\ silenced' = [silenced EXCEPT ![c] = FALSE]
             /\ UNCHANGED <<events, revents, use>>

\* A channel's HandleEvent is done.
Handled(c) == /\ c \in Active
              /\ revents' = [revents EXCEPT ![c] = {}]
              /\ UNCHANGED <<fd, events, index, channels, ready, silenced, use,
                              fault>>

\* Data come or are read, the buffer of the socket fills or drains, the peer
\* hangs up.
Happens(f, es) == /\ Open(f)
                  /\ es # ready[f]
                  /\ "hup" \in ready[f] => "hup" \in es
                  /\ ready' = [ready EXCEPT ![f] = es]
                  /\ UNCHANGED <<fd, events, index, revents, channels, silenced,
                                 use, fault>>

ChanStep == \/ \E c \in Chans, f \in Fds : Create(c, f)
            \/ \E c \in Chans : Handled(c)
            \/ \E f \in Fds, es \in SUBSET use.happens : Happens(f, es)

ChanTypeOK == /\ fd \in [Chans -> Fds \cup {None}]
              /\ events \in [Chans -> SUBSET {"in", "out"}]
              /\ revents \in [Chans -> SUBSET {"in", "out", "hup"}]
              /\ channels \in [Fds -> Chans \cup {None}]
              /\ ready \in [Fds -> SUBSET {"in", "out", "hup"}]
              /\ silenced \in [Chans -> BOOLEAN]
              /\ use \in Uses
              /\ fault \in BOOLEAN
=============================================================================
