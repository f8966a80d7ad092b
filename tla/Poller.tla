------------------------------- MODULE Poller -------------------------------
(***************************************************************************)
(* Poller, the poll(2) alternative to Epoller: the table channels_ and the *)
(* array pollfds_, in which index_ is a channel's place.                   *)
(***************************************************************************)
EXTENDS Channels

VARIABLE pollfds   \* pollfds_ without revents; poll skips a negative fd

\* What UpdateChannel makes of a descriptor to have it skipped.
Negated(f) == -f - 1
Decoded(f) == IF f < 0 THEN Negated(f) ELSE f

PollInit == ChanInit /\ pollfds = <<>>

\* The entry of c; index_ counts from 0.
Place(c) == index[c] + 1
HasPlace(c) == channels[fd[c]] = c /\ Place(c) \in DOMAIN pollfds

\* UpdateChannel. The descriptor is negated when the channel asks for nothing,
\* and is not restored when it asks again.
PollUpdate(c, ev) ==
    /\ Update(c, ev)
    /\ IF index[c] < 0
       THEN /\ Assert(channels[fd[c]] = None)
            /\ pollfds' = Append(pollfds, [fd |-> fd[c], ev |-> ev])
            /\ index' = [index EXCEPT ![c] = Len(pollfds)]
            /\ channels' = [channels EXCEPT ![fd[c]] = c]
       ELSE /\ Assert(/\ HasPlace(c)
                      /\ Decoded(pollfds[Place(c)].fd) = fd[c])
            /\ pollfds' = [pollfds EXCEPT ![Place(c)] =
                  [fd |-> IF ev = {} THEN Negated(fd[c]) ELSE @.fd, ev |-> ev]]
            /\ UNCHANGED <<index, channels>>

\* The channel whose entry is the last one.
LastChannel == channels[Decoded(pollfds[Len(pollfds)].fd)]

\* Mutant: the channel whose entry is moved is not told.
MovedNot(c) == [index EXCEPT ![c] = k_new]

\* The indices when the last entry takes the place of c's.
Moved(c) == [index EXCEPT ![LastChannel] = index[c], ![c] = k_new]

\* RemoveChannel.
PollRemove(c) ==
    LET n == Len(pollfds) IN
    /\ GiveUp(c)
    /\ Assert(/\ HasPlace(c)
              /\ pollfds[Place(c)] = [fd |-> Negated(fd[c]), ev |-> {}])
    /\ channels' = [channels EXCEPT ![fd[c]] = None]
    /\ pollfds' = [i \in 1 .. n - 1 |-> pollfds[IF i = Place(c) THEN n ELSE i]]
    /\ index' = Moved(c)

\* The entries poll has something to say about.
PollReady ==
    {i \in DOMAIN pollfds :
        pollfds[i].fd >= 0 /\ Reported(pollfds[i].fd, pollfds[i].ev) # {}}

\* Poll and FillActiveChannels, which hands the channel pfd->events.
PollPoll ==
    /\ Active = {}
    /\ PollReady # {}
    /\ revents' = [c \in Chans |->
          UNION {pollfds[i].ev : i \in {j \in PollReady :
                                           channels[pollfds[j].fd] = c}}]
    /\ Assert(\A i \in PollReady : channels[pollfds[i].fd] # None)
    /\ UNCHANGED <<fd, events, index, channels, ready, silenced, use, pollfds>>

PollNext == \/ ChanStep /\ UNCHANGED pollfds
            \/ \E c \in Chans : \/ \E ev \in Wanted(c) : PollUpdate(c, ev)
                                \/ PollRemove(c)
            \/ PollPoll
-----------------------------------------------------------------------------
PollTypeOK == /\ index \in [Chans -> Nat \cup {k_new}]
              /\ pollfds \in Seq([fd : Int, ev : SUBSET {"in", "out"}])

\* The entry of a channel that is enabled.
EntryOf(c) == [fd |-> IF silenced[c] THEN Negated(fd[c]) ELSE fd[c],
               ev |-> events[c]]

\* What index_ and pollfds_ say of a channel is what it asks for, and an entry is
\* negated exactly when its channel has asked for nothing once.
Indexed(c) ==
    /\ ~Exists(c) => index[c] = k_new
    /\ index[c] # k_new => HasPlace(c) /\ pollfds[Place(c)] = EntryOf(c)
    /\ index[c] = k_new => events[c] = {} /\ ~silenced[c]
    /\ events[c] = {} /\ index[c] # k_new => silenced[c]

\* channels_ lists a channel that was enabled and not removed.
Listed(f) == fd[channels[f]] = f /\ index[channels[f]] # k_new

\* The entry is some channel's.
Owned(i) == \E c \in Chans : index[c] # k_new /\ Place(c) = i

\* The table, the indices and the array agree, whatever was removed and moved,
\* and have nothing else.
PollTables == /\ \A c \in Chans : Indexed(c)
              /\ \A f \in Fds : channels[f] # None => Listed(f)
              /\ \A i \in DOMAIN pollfds : Owned(i)
=============================================================================
