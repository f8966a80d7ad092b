------------------------------ MODULE Epoller ------------------------------
(***************************************************************************)
(* Epoller: the table channels_, the epoll set in the kernel, which keeps  *)
(* pointers to Channels, and the list of events that epoll_wait fills,     *)
(* which is doubled when it was full.                                      *)
(***************************************************************************)
EXTENDS Channels, FiniteSets

CONSTANTS InitEventListSize,  \* k_init_event_list_size
          MaxSize             \* bound on the size of the list

ASSUME SizeAssumption == InitEventListSize \in Nat \ {0} /\ MaxSize \in Nat

ASSUME EntryAssumption == None \notin [ev : SUBSET {"in", "out"}, ptr : Chans]

VARIABLES set,   \* per descriptor: what it is asked for and data.ptr, or None
          size   \* events_.size()

epollVars == <<set, size>>

k_added == 1
k_deleted == 2

EpollInit == /\ ChanInit
             /\ set = [f \in Fds |-> None]
             /\ size = InitEventListSize

Entry(c, ev) == [ev |-> ev, ptr |-> c]

\* Mutant: EPOLL_CTL_MOD is left out.
CtlAddOnly(c, ev) ==
    IF index[c] = k_added
    THEN IF ev = {} THEN /\ set' = [set EXCEPT ![fd[c]] = None]
                         /\ index' = [index EXCEPT ![c] = k_deleted]
                    ELSE UNCHANGED <<set, index>>
    ELSE /\ set' = [set EXCEPT ![fd[c]] = Entry(c, ev)]
         /\ index' = [index EXCEPT ![c] = k_added]

\* Mutant: the operation is kept for the index.
CtlOp(c, ev) ==
    /\ set' = [set EXCEPT ![fd[c]] = IF ev = {} THEN None ELSE Entry(c, ev)]
    /\ index' = [index EXCEPT ![c] = IF @ = k_added /\ ev # {} THEN 3 ELSE 1]

\* EPOLL_CTL_DEL for a channel of the set that asks for nothing any more, MOD or
\* ADD for the others: a deleted channel is added whatever it asks for.
Ctl(c, ev) ==
    IF index[c] = k_added /\ ev = {}
    THEN /\ set' = [set EXCEPT ![fd[c]] = None]
         /\ index' = [index EXCEPT ![c] = k_deleted]
    ELSE /\ set' = [set EXCEPT ![fd[c]] = Entry(c, ev)]
         /\ index' = [index EXCEPT ![c] = k_added]

\* UpdateChannel.
EpollUpdate(c, ev) ==
    /\ Update(c, ev)
    /\ IF index[c] = k_new
       THEN /\ Assert(channels[fd[c]] = None)
            /\ channels' = [channels EXCEPT ![fd[c]] = c]
       ELSE /\ Assert(channels[fd[c]] = c)
            /\ UNCHANGED channels
    /\ Ctl(c, ev)
    /\ UNCHANGED size

\* RemoveChannel, which deletes the channel from the set if it is there.
EpollRemove(c) ==
    /\ GiveUp(c)
    /\ Assert(channels[fd[c]] = c)
    /\ channels' = [channels EXCEPT ![fd[c]] = None]
    /\ set' = [set EXCEPT ![fd[c]] = None]
    /\ index' = [index EXCEPT ![c] = k_new]
    /\ UNCHANGED size

\* The descriptors epoll_wait has something to say about, and what.
EpollReady == {f \in Fds : set[f] # None /\ Reported(f, set[f].ev) # {}}
EpollEvents(fs, c) ==
    UNION {Reported(f, set[f].ev) : f \in {g \in fs : set[g].ptr = c}}

\* Mutant: the list keeps its size.
GrownNever(n) == size

Grown(n) == IF n = size /\ size < MaxSize THEN 2 * size ELSE size

\* Poll and FillActiveChannels. epoll_wait picks among the ready descriptors
\* when they do not fit into the list. (A wait that ends with nothing changes
\* nothing.)
EpollPoll ==
    /\ Active = {}
    /\ EpollReady # {}
    /\ \E fs \in SUBSET EpollReady :
          /\ Cardinality(fs) <= size
          /\ fs = EpollReady \/ Cardinality(fs) = size
          /\ revents' = [c \in Chans |-> EpollEvents(fs, c)]
          /\ Assert(\A f \in fs : channels[f] = set[f].ptr)
          /\ size' = Grown(Cardinality(fs))
    /\ UNCHANGED <<fd, events, index, channels, ready, silenced, use, set>>

EpollNext == \/ ChanStep /\ UNCHANGED epollVars
             \/ \E c \in Chans : \/ \E ev \in Wanted(c) : EpollUpdate(c, ev)
                                 \/ EpollRemove(c)
             \/ EpollPoll
-----------------------------------------------------------------------------
EpollTypeOK == /\ index \in [Chans -> {k_new, k_added, k_deleted}]
               /\ set \in [Fds -> [ev : SUBSET {"in", "out"}, ptr : Chans]
                                     \cup {None}]
               /\ size \in Nat \ {0}

\* The table, the indices of the channels and the epoll set agree: channels_
\* lists the channels that were enabled and not removed; those that are not
\* "deleted" are in the epoll set, under their own descriptor, with the events
\* they ask for now; and the set has nothing else, so that no event comes with a
\* pointer to a Channel that is gone, though its descriptor is in use again.
EpollTables ==
    /\ \A c \in Chans :
          /\ ~Exists(c) => index[c] = k_new
          /\ index[c] # k_new => channels[fd[c]] = c
          /\ index[c] = k_added => set[fd[c]] = Entry(c, events[c])
          /\ index[c] # k_added => events[c] = {}
    /\ \A f \in Fds :
          /\ channels[f] # None =>
                fd[channels[f]] = f /\ index[channels[f]] # k_new
          /\ set[f] # None => fd[set[f].ptr] = f /\ index[set[f].ptr] = k_added
=============================================================================
