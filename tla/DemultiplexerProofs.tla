------------------------- MODULE DemultiplexerProofs -------------------------
(***************************************************************************)
(* Proofs about module Demultiplexer, for any channels, descriptors and    *)
(* programs: the tables of both demultiplexers agree with what the         *)
(* channels ask for, no assert fails, and polls are truthful.              *)
(***************************************************************************)
EXTENDS Demultiplexer, SequenceTheorems, FiniteSetTheorems, TLAPS

\* No two channels have one descriptor. (Create takes one that is not open.)
Distinct == \A c, d \in Chans : Exists(c) /\ fd[c] = fd[d] => c = d

EpollInv == ChanTypeOK /\ EpollTypeOK /\ EpollTables /\ Distinct /\ ~fault
PollInv == ChanTypeOK /\ PollTypeOK /\ PollTables /\ Distinct /\ ~fault

Inv == /\ kind \in {"epoll", "poll"}
       /\ kind = "epoll" => EpollInv
       /\ kind = "poll" => PollInv

\* An assert that holds leaves fault alone.
LEMMA AssertHolds ==
    ASSUME NEW P \in BOOLEAN, P, Assert(P), ~fault
    PROVE  ~fault'
  BY DEF Assert

\* What is common to Update in both: the types, but for those of the
\* demultiplexer's own variables.
LEMMA UpdateTypes ==
    ASSUME ChanTypeOK, Distinct, NEW c \in Chans, NEW ev \in Wanted(c), Update(c, ev)
    PROVE  /\ fd[c] \in Fds
           /\ ev \in SUBSET {"in", "out"}
           /\ fd' \in [Chans -> Fds \cup {None}]
           /\ events' \in [Chans -> SUBSET {"in", "out"}]
           /\ revents' \in [Chans -> SUBSET {"in", "out", "hup"}]
           /\ ready' \in [Fds -> SUBSET {"in", "out", "hup"}]
           /\ silenced' \in [Chans -> BOOLEAN]
           /\ use' \in Uses
           /\ Distinct'
  <1>1. ev \in SUBSET {"in", "out"}
    BY DEF Wanted, ChanTypeOK
  <1>2. silenced' \in [Chans -> BOOLEAN]
    BY Zenon DEF Update, ChanTypeOK
  <1>3. QED BY <1>1, <1>2 DEF Update, ChanTypeOK, Distinct, Exists
-----------------------------------------------------------------------------
(* Steps of the channels, which are no business of the demultiplexer.      *)

LEMMA CreateKeeps ==
    ASSUME ChanTypeOK, Distinct, NEW c \in Chans, NEW f \in Fds, Create(c, f)
    PROVE  ChanTypeOK' /\ Distinct'
  <1>1. Distinct'
    BY NoneAssumption DEF Create, ChanTypeOK, Distinct, Exists, Open
  <1>2. ChanTypeOK'
    BY DEF Create, ChanTypeOK
  <1>3. QED BY <1>1, <1>2

LEMMA HandledKeeps ==
    ASSUME ChanTypeOK, Distinct, NEW c \in Chans, Handled(c)
    PROVE  ChanTypeOK' /\ Distinct'
  BY DEF Handled, ChanTypeOK, Distinct, Exists

LEMMA HappensKeeps ==
    ASSUME ChanTypeOK, Distinct, NEW f \in Fds, NEW es \in SUBSET use.happens,
           Happens(f, es)
    PROVE  ChanTypeOK' /\ Distinct'
  <1>1. es \in SUBSET {"in", "out", "hup"}
    BY UsesAssumption DEF ChanTypeOK
  <1>2. QED BY <1>1 DEF Happens, ChanTypeOK, Distinct, Exists

\* None of these steps disturbs the Epoller's invariant.
LEMMA ChanStepEpoll ==
    ASSUME EpollInv, ChanStep, UNCHANGED epollVars
    PROVE  EpollInv'
  <1>1. ASSUME NEW c \in Chans, NEW f \in Fds, Create(c, f)
        PROVE  EpollInv'
    <2>1. ChanTypeOK' /\ Distinct'
      BY <1>1, CreateKeeps DEF EpollInv
    <2>2. EpollTypeOK' /\ ~fault'
      BY <1>1 DEF EpollInv, EpollTypeOK, Create, epollVars
    <2>3. EpollTables'
      BY <1>1, NoneAssumption
      DEF EpollInv, EpollTables, EpollTypeOK, ChanTypeOK, Create, epollVars, Exists,
          Open, Entry, k_added, k_new
    <2>4. QED BY <2>1, <2>2, <2>3 DEF EpollInv
  <1>2. ASSUME NEW c \in Chans, Handled(c)
        PROVE  EpollInv'
    <2>1. ChanTypeOK' /\ Distinct'
      BY <1>2, HandledKeeps DEF EpollInv
    <2>2. EpollTypeOK' /\ ~fault' /\ EpollTables'
      BY <1>2 DEF EpollInv, EpollTypeOK, EpollTables, Handled, epollVars, Exists, Entry
    <2>3. QED BY <2>1, <2>2 DEF EpollInv
  <1>3. ASSUME NEW f \in Fds, NEW es \in SUBSET use.happens, Happens(f, es)
        PROVE  EpollInv'
    <2>1. ChanTypeOK' /\ Distinct'
      BY <1>3, HappensKeeps DEF EpollInv
    <2>2. EpollTypeOK' /\ ~fault' /\ EpollTables'
      BY <1>3 DEF EpollInv, EpollTypeOK, EpollTables, Happens, epollVars, Exists, Entry
    <2>3. QED BY <2>1, <2>2 DEF EpollInv
  <1>4. QED BY <1>1, <1>2, <1>3 DEF ChanStep
-----------------------------------------------------------------------------
(* The Epoller.                                                            *)

\* What UpdateChannel relies on: a new channel finds its descriptor free in the
\* table, any other finds itself there.
LEMMA EpollFound ==
    ASSUME EpollInv, NEW c \in Chans, Exists(c)
    PROVE  /\ index[c] = k_new => channels[fd[c]] = None
           /\ index[c] # k_new => channels[fd[c]] = c
  BY DEF EpollInv, EpollTables, EpollTypeOK, ChanTypeOK, Distinct, Exists

LEMMA EpollUpdateKeeps ==
    ASSUME EpollInv, NEW c \in Chans, NEW ev \in Wanted(c), EpollUpdate(c, ev)
    PROVE  EpollInv'
  <1>1. Update(c, ev) /\ Exists(c) /\ index[c] \in {k_new, k_added, k_deleted}
    BY DEF EpollUpdate, Update, EpollInv, EpollTypeOK
  <1>2. /\ fd[c] \in Fds
        /\ ev \in SUBSET {"in", "out"}
        /\ fd' \in [Chans -> Fds \cup {None}]
        /\ events' \in [Chans -> SUBSET {"in", "out"}]
        /\ revents' \in [Chans -> SUBSET {"in", "out", "hup"}]
        /\ ready' \in [Fds -> SUBSET {"in", "out", "hup"}]
        /\ silenced' \in [Chans -> BOOLEAN]
        /\ use' \in Uses
        /\ Distinct'
    BY <1>1, UpdateTypes DEF EpollInv
  <1>3. channels' = [channels EXCEPT ![fd[c]] = c]
    BY <1>1, <1>2, EpollFound DEF EpollUpdate, EpollInv, ChanTypeOK
  <1>4. ~fault'
    <2>1. CASE index[c] = k_new
      BY <2>1, <1>1, EpollFound DEF EpollUpdate, Assert, EpollInv
    <2>2. CASE index[c] # k_new
      BY <2>2, <1>1, EpollFound DEF EpollUpdate, Assert, EpollInv
    <2>3. QED BY <2>1, <2>2
  <1>5. ChanTypeOK'
    <2>1. fault' \in BOOLEAN
      BY <1>4, Zenon DEF EpollUpdate, Assert
    <2>2. channels' \in [Fds -> Chans \cup {None}]
      BY <1>2, <1>3 DEF EpollInv, ChanTypeOK
    <2>3. QED BY <1>2, <2>1, <2>2 DEF ChanTypeOK
  <1>6. EpollTypeOK'
    BY <1>1, <1>2 DEF EpollUpdate, Ctl, Entry, EpollInv, EpollTypeOK, k_new, k_added,
                      k_deleted
  <1>7. EpollTables'
    <2>1. CASE index[c] = k_added /\ ev = {}
      BY <2>1, <1>1, <1>2, <1>3, NoneAssumption
      DEF EpollUpdate, Update, Ctl, Entry, EpollInv, EpollTypeOK, ChanTypeOK,
          EpollTables, Distinct, Exists, k_new, k_added, k_deleted
    <2>2. CASE ~(index[c] = k_added /\ ev = {})
      BY <2>2, <1>1, <1>2, <1>3, NoneAssumption
      DEF EpollUpdate, Update, Ctl, Entry, EpollInv, EpollTypeOK, ChanTypeOK,
          EpollTables, Distinct, Exists, k_new, k_added, k_deleted
    <2>3. QED BY <2>1, <2>2
  <1>8. QED BY <1>2, <1>4, <1>5, <1>6, <1>7 DEF EpollInv

LEMMA EpollRemoveKeeps ==
    ASSUME EpollInv, NEW c \in Chans, EpollRemove(c)
    PROVE  EpollInv'
  <1>1. Exists(c) /\ fd[c] \in Fds /\ channels[fd[c]] = c /\ events[c] = {}
    BY EpollFound DEF EpollRemove, GiveUp, Exists, EpollInv, ChanTypeOK
  <1>2. ~fault'
    BY <1>1 DEF EpollRemove, Assert, EpollInv
  <1>3. ChanTypeOK'
    <2>1. fault' \in BOOLEAN
      BY <1>2, Zenon DEF EpollRemove, Assert
    <2>2. QED BY <1>1, <2>1 DEF EpollRemove, GiveUp, EpollInv, ChanTypeOK
  <1>4. EpollTypeOK'
    BY <1>1 DEF EpollRemove, EpollInv, EpollTypeOK, k_new
  <1>5. Distinct'
    BY <1>1, NoneAssumption DEF EpollRemove, GiveUp, EpollInv, ChanTypeOK, Distinct, Exists
  <1>6. EpollTables'
    BY <1>1, NoneAssumption
    DEF EpollRemove, GiveUp, Entry, EpollInv, EpollTypeOK, ChanTypeOK, EpollTables,
        Distinct, Exists, k_new, k_added
  <1>7. QED BY <1>2, <1>3, <1>4, <1>5, <1>6 DEF EpollInv

\* What epoll_wait says of a channel is what its own descriptor is ready for,
\* and the descriptor is in its entry of the set.
LEMMA EpollTellsTruth ==
    ASSUME EpollInv, NEW fs \in SUBSET EpollReady, NEW c \in Chans,
           EpollEvents(fs, c) # {}
    PROVE  /\ Exists(c) /\ fd[c] \in Fds
           /\ EpollEvents(fs, c) = Reported(fd[c], events[c])
  <1>1. PICK f \in fs : set[f].ptr = c
    BY DEF EpollEvents
  <1>2. f \in Fds /\ set[f] # None
    BY DEF EpollReady
  <1>3. fd[c] = f /\ index[c] = k_added
    BY <1>1, <1>2 DEF EpollInv, EpollTables
  <1>4. set[f] = [ev |-> events[c], ptr |-> c]
    BY <1>3 DEF EpollInv, EpollTables, Entry
  <1>5. {g \in fs : set[g].ptr = c} = {f}
    <2>1. ASSUME NEW g \in fs, set[g].ptr = c
          PROVE  g = f
      BY <2>1, <1>3 DEF EpollReady, EpollInv, EpollTables
    <2>2. QED BY <2>1, <1>1
  <1>6. EpollEvents(fs, c) = Reported(f, events[c])
    BY <1>4, <1>5 DEF EpollEvents
  <1>7. QED BY <1>2, <1>3, <1>6, NoneAssumption DEF Exists

LEMMA EpollPollKeeps ==
    ASSUME EpollInv, EpollPoll
    PROVE  EpollInv'
  <1>1. PICK fs \in SUBSET EpollReady :
            /\ revents' = [c \in Chans |-> EpollEvents(fs, c)]
            /\ Assert(\A f \in fs : channels[f] = set[f].ptr)
            /\ size' = Grown(Cardinality(fs))
    BY DEF EpollPoll
  <1>2. \A f \in fs : channels[f] = set[f].ptr
    BY DEF EpollReady, EpollInv, EpollTables, EpollTypeOK, k_added, k_new
  <1>3. ~fault'
    BY <1>1, <1>2, AssertHolds DEF EpollInv
  <1>4. revents' \in [Chans -> SUBSET {"in", "out", "hup"}]
    <2>1. ASSUME NEW c \in Chans
          PROVE  EpollEvents(fs, c) \in SUBSET {"in", "out", "hup"}
      <3>1. CASE EpollEvents(fs, c) = {}
        BY <3>1
      <3>2. CASE EpollEvents(fs, c) # {}
        BY <3>2, EpollTellsTruth DEF Reported, EpollInv, ChanTypeOK
      <3>3. QED BY <3>1, <3>2
    <2>2. QED BY <1>1, <2>1
  <1>5. fault' \in BOOLEAN
    BY <1>1, Zenon DEF Assert
  <1>6. size' \in Nat \ {0}
    BY <1>1 DEF Grown, EpollInv, EpollTypeOK
  <1>7. UNCHANGED <<fd, events, index, channels, ready, silenced, use, set>>
    BY DEF EpollPoll
  <1>8. ChanTypeOK' /\ EpollTypeOK'
    BY <1>4, <1>5, <1>6, <1>7 DEF EpollInv, ChanTypeOK, EpollTypeOK
  <1>9. EpollTables' /\ Distinct'
    BY <1>7 DEF EpollInv, EpollTables, Distinct, Exists, Entry
  <1>10. QED BY <1>3, <1>8, <1>9 DEF EpollInv

LEMMA EpollKeeps ==
    ASSUME EpollInv, EpollNext
    PROVE  EpollInv'
  BY ChanStepEpoll, EpollUpdateKeeps, EpollRemoveKeeps, EpollPollKeeps DEF EpollNext
-----------------------------------------------------------------------------
(* The Poller.                                                             *)

\* The entry of a channel that was enabled, and how it leads back to it.
LEMMA PollEntry ==
    ASSUME PollInv, NEW c \in Chans, index[c] # k_new
    PROVE  /\ fd[c] \in Fds /\ fd[c] \in Nat
           /\ channels[fd[c]] = c
           /\ index[c] \in Nat /\ Place(c) \in 1 .. Len(pollfds)
           /\ pollfds[Place(c)] = EntryOf(c)
           /\ pollfds[Place(c)].ev = events[c]
           /\ pollfds[Place(c)].fd = IF silenced[c] THEN Negated(fd[c]) ELSE fd[c]
           /\ Decoded(pollfds[Place(c)].fd) = fd[c]
  <1>1. Exists(c) /\ fd[c] \in Fds /\ fd[c] \in Nat
    <2>1. Exists(c)
      BY DEF PollInv, PollTables, Indexed
    <2>2. fd[c] \in Fds
      BY <2>1 DEF PollInv, ChanTypeOK, Exists
    <2>3. QED BY <2>1, <2>2, FdsAssumption
  <1>2. index[c] \in Nat /\ pollfds \in Seq([fd : Int, ev : SUBSET {"in", "out"}])
    BY DEF PollInv, PollTypeOK
  <1>3. HasPlace(c) /\ pollfds[Place(c)] = EntryOf(c)
    BY DEF PollInv, PollTables, Indexed
  <1>4. channels[fd[c]] = c /\ Place(c) \in 1 .. Len(pollfds)
    BY <1>2, <1>3 DEF HasPlace
  <1>5. /\ pollfds[Place(c)].ev = events[c]
        /\ pollfds[Place(c)].fd = IF silenced[c] THEN Negated(fd[c]) ELSE fd[c]
    BY <1>3 DEF EntryOf
  <1>6. Decoded(pollfds[Place(c)].fd) = fd[c]
    <2>1. CASE silenced[c]
      BY <2>1, <1>1, <1>5 DEF Decoded, Negated
    <2>2. CASE ~silenced[c]
      BY <2>2, <1>1, <1>5 DEF Decoded
    <2>3. QED BY <2>1, <2>2
  <1>7. QED BY <1>1, <1>2, <1>3, <1>4, <1>5, <1>6

\* No two channels have one place.
LEMMA PlacesDiffer ==
    ASSUME PollInv, NEW c \in Chans, NEW d \in Chans, index[c] # k_new,
           index[c] = index[d]
    PROVE  c = d
  <1>1. fd[c] = fd[d]
    BY PollEntry DEF Place
  <1>2. QED BY <1>1, PollEntry

LEMMA ChanStepPoll ==
    ASSUME PollInv, ChanStep, UNCHANGED pollfds
    PROVE  PollInv'
  <1>1. ASSUME NEW c \in Chans, NEW f \in Fds, Create(c, f)
        PROVE  PollInv'
    <2>1. ChanTypeOK' /\ Distinct'
      BY <1>1, CreateKeeps DEF PollInv
    <2>2. PollTypeOK' /\ ~fault'
      BY <1>1 DEF PollInv, PollTypeOK, Create
    <2>3. PollTables'
      <3>1. index[c] = k_new /\ channels[f] = None
        BY <1>1 DEF PollInv, PollTables, Indexed, Listed, ChanTypeOK, Create, Open
      <3>2. UNCHANGED <<events, index, channels, silenced, pollfds>>
        BY <1>1 DEF Create
      <3>3. \A d \in Chans : d # c => fd'[d] = fd[d]
        BY <1>1 DEF Create, PollInv, ChanTypeOK
      <3>4. ASSUME NEW d \in Chans
            PROVE  Indexed(d)'
        <4>1. CASE d = c
          BY <4>1, <3>1, <3>2 DEF Indexed, PollInv, PollTables
        <4>2. CASE d # c
          <5>1. fd'[d] = fd[d] /\ EntryOf(d)' = EntryOf(d) /\ Place(d)' = Place(d)
            BY <4>2, <3>2, <3>3 DEF EntryOf, Place
          <5>2. Indexed(d)
            BY DEF PollInv, PollTables
          <5>3. QED BY <5>1, <5>2, <3>2 DEF Indexed, Exists, HasPlace
        <4>3. QED BY <4>1, <4>2
      <3>5. ASSUME NEW g \in Fds, channels'[g] # None
            PROVE  Listed(g)'
        <4>1. Listed(g) /\ channels[g] # c /\ channels[g] \in Chans
          BY <3>1, <3>2, <3>5 DEF PollInv, PollTables, Listed, ChanTypeOK
        <4>2. QED BY <4>1, <3>2, <3>3 DEF Listed
      <3>6. ASSUME NEW i \in DOMAIN pollfds'
            PROVE  Owned(i)'
        BY <3>2 DEF PollInv, PollTables, Owned, Place
      <3>7. QED BY <3>4, <3>5, <3>6 DEF PollTables
    <2>4. QED BY <2>1, <2>2, <2>3 DEF PollInv
  <1>2. ASSUME NEW c \in Chans, Handled(c)
        PROVE  PollInv'
    <2>1. ChanTypeOK' /\ Distinct'
      BY <1>2, HandledKeeps DEF PollInv
    <2>2. PollTypeOK' /\ ~fault' /\ PollTables'
      BY <1>2 DEF PollInv, PollTypeOK, PollTables, Handled, Indexed, Listed,
               Owned, Exists, HasPlace, Place, EntryOf
    <2>3. QED BY <2>1, <2>2 DEF PollInv
  <1>3. ASSUME NEW f \in Fds, NEW es \in SUBSET use.happens, Happens(f, es)
        PROVE  PollInv'
    <2>1. ChanTypeOK' /\ Distinct'
      BY <1>3, HappensKeeps DEF PollInv
    <2>2. PollTypeOK' /\ ~fault' /\ PollTables'
      BY <1>3 DEF PollInv, PollTypeOK, PollTables, Happens, Indexed, Listed,
               Owned, Exists, HasPlace, Place, EntryOf
    <2>3. QED BY <2>1, <2>2 DEF PollInv
  <1>4. QED BY <1>1, <1>2, <1>3 DEF ChanStep

LEMMA PollUpdateKeeps ==
    ASSUME PollInv, NEW c \in Chans, NEW ev \in Wanted(c), PollUpdate(c, ev)
    PROVE  PollInv'
  <1>1. Update(c, ev) /\ Exists(c)
    BY DEF PollUpdate, Update
  <1>2. /\ fd[c] \in Fds
        /\ ev \in SUBSET {"in", "out"}
        /\ fd' \in [Chans -> Fds \cup {None}]
        /\ events' \in [Chans -> SUBSET {"in", "out"}]
        /\ revents' \in [Chans -> SUBSET {"in", "out", "hup"}]
        /\ ready' \in [Fds -> SUBSET {"in", "out", "hup"}]
        /\ silenced' \in [Chans -> BOOLEAN]
        /\ use' \in Uses
        /\ Distinct'
    BY <1>1, UpdateTypes DEF PollInv
  <1>3. /\ fd' = fd
        /\ events' = [events EXCEPT ![c] = ev]
        /\ silenced' = [silenced EXCEPT ![c] = @ \/ ev = {}]
        /\ index[c] = k_new => ev # {}
    BY <1>1 DEF Update
  <1>4. /\ fd[c] \in Int /\ Negated(fd[c]) \in Int
        /\ pollfds \in Seq([fd : Int, ev : SUBSET {"in", "out"}])
        /\ index \in [Chans -> Nat \cup {k_new}]
    <2>1. fd[c] \in Nat
      BY <1>2, FdsAssumption
    <2>2. fd[c] \in Int /\ Negated(fd[c]) \in Int
      BY <2>1 DEF Negated
    <2>3. QED BY <2>2 DEF PollInv, PollTypeOK
  <1>5. \A d \in Chans : d # c => /\ events'[d] = events[d]
                                  /\ EntryOf(d)' = EntryOf(d)
                                  /\ silenced'[d] <=> silenced[d]
    BY <1>3 DEF EntryOf, PollInv, ChanTypeOK
  <1>6. \A d \in Chans : Indexed(d) /\ (d # c /\ Exists(d) => fd[d] # fd[c])
    BY <1>1 DEF PollInv, PollTables, Distinct
  <1>7. events'[c] = ev
    BY <1>3 DEF PollInv, ChanTypeOK
  <1>8. CASE index[c] = k_new
    <2>1. channels[fd[c]] = None
      BY <1>2, <1>6, <1>8 DEF PollInv, PollTables, Listed, ChanTypeOK, Exists, Indexed
    <2>2. /\ pollfds' = Append(pollfds, [fd |-> fd[c], ev |-> ev])
          /\ index' = [index EXCEPT ![c] = Len(pollfds)]
          /\ channels' = [channels EXCEPT ![fd[c]] = c]
          /\ Assert(channels[fd[c]] = None)
      BY <1>8 DEF PollUpdate, k_new
    <2>3. ~fault'
      BY <2>1, <2>2, AssertHolds DEF PollInv
    <2>4. fault' \in BOOLEAN
      BY <2>2, Zenon DEF Assert
    <2>5. ChanTypeOK'
      <3>1. channels' \in [Fds -> Chans \cup {None}]
        BY <1>2, <2>2 DEF PollInv, ChanTypeOK
      <3>2. QED BY <1>2, <2>4, <3>1 DEF ChanTypeOK
    <2>6. /\ Len(pollfds) \in Nat
          /\ DOMAIN pollfds' = 1 .. Len(pollfds) + 1
          /\ \A i \in DOMAIN pollfds : pollfds'[i] = pollfds[i]
          /\ pollfds'[Len(pollfds) + 1] = [fd |-> fd[c], ev |-> ev]
          /\ DOMAIN pollfds = 1 .. Len(pollfds)
      BY <1>2, <1>4, <2>2
    <2>7. PollTypeOK'
      BY <1>2, <1>4, <2>2 DEF PollTypeOK
    <2>8. Indexed(c)'
      <3>1. index'[c] = Len(pollfds) /\ Place(c)' = Len(pollfds) + 1
        BY <1>4, <2>2 DEF Place
      <3>2. HasPlace(c)'
        BY <1>2, <1>3, <2>2, <2>6, <3>1 DEF HasPlace, PollInv, ChanTypeOK
      <3>3. ~silenced'[c]
        BY <1>3, <1>6, <1>8 DEF Indexed, PollInv, ChanTypeOK
      <3>4. EntryOf(c)' = [fd |-> fd[c], ev |-> ev]
        BY <1>3, <1>7, <3>3 DEF EntryOf
      <3>5. QED BY <1>1, <1>3, <1>7, <1>8, <2>6, <3>1, <3>2, <3>4 DEF Indexed, Exists, k_new
    <2>9. ASSUME NEW d \in Chans, d # c
          PROVE  Indexed(d)'
      <3>1. index'[d] = index[d] /\ Place(d)' = Place(d)
        BY <1>4, <2>2, <2>9 DEF Place
      <3>2. Exists(d)' <=> Exists(d)
        BY <1>3 DEF Exists
      <3>3. index[d] # k_new => HasPlace(d)' /\ pollfds'[Place(d)] = EntryOf(d)
        <4>1. HAVE index[d] # k_new
        <4>2. fd[d] \in Fds /\ fd[d] # fd[c] /\ HasPlace(d) /\ pollfds[Place(d)] = EntryOf(d)
          BY <1>6, <2>9, <4>1, PollEntry DEF Indexed
        <4>3. QED BY <1>2, <1>3, <2>2, <2>6, <3>1, <4>2
                  DEF HasPlace, PollInv, ChanTypeOK
      <3>4. QED BY <1>5, <1>6, <2>9, <3>1, <3>2, <3>3 DEF Indexed
    <2>10. ASSUME NEW f \in Fds, channels'[f] # None
           PROVE  Listed(f)'
      <3>1. CASE f = fd[c]
        BY <1>2, <1>3, <1>4, <2>2, <2>6, <3>1 DEF Listed, k_new, PollInv, ChanTypeOK
      <3>2. CASE f # fd[c]
        <4>1. channels'[f] = channels[f] /\ Listed(f) /\ channels[f] \in Chans
          BY <1>2, <2>2, <2>10, <3>2 DEF PollInv, PollTables, ChanTypeOK
        <4>2. QED BY <1>3, <1>4, <2>2, <3>2, <4>1 DEF Listed
      <3>3. QED BY <3>1, <3>2
    <2>11. ASSUME NEW i \in DOMAIN pollfds'
           PROVE  Owned(i)'
      <3>1. CASE i = Len(pollfds) + 1
        BY <1>4, <2>2, <2>6, <3>1 DEF Owned, Place, k_new
      <3>2. CASE i # Len(pollfds) + 1
        <4>1. Owned(i)
          BY <2>6, <2>11, <3>2 DEF PollInv, PollTables
        <4>2. PICK d \in Chans : index[d] # k_new /\ Place(d) = i
          BY <4>1 DEF Owned
        <4>3. index'[d] = index[d]
          BY <1>4, <1>8, <2>2, <4>2
        <4>4. QED BY <4>2, <4>3 DEF Owned, Place
      <3>3. QED BY <3>1, <3>2
    <2>12. PollTables'
      BY <2>8, <2>9, <2>10, <2>11 DEF PollTables
    <2>13. QED BY <1>2, <2>3, <2>5, <2>7, <2>12 DEF PollInv
  <1>9. CASE index[c] # k_new
    <2>1. /\ HasPlace(c) /\ Place(c) \in 1 .. Len(pollfds)
          /\ pollfds[Place(c)] = EntryOf(c)
          /\ Decoded(pollfds[Place(c)].fd) = fd[c]
      BY <1>6, <1>9, PollEntry DEF Indexed
    <2>2. /\ pollfds' = [pollfds EXCEPT ![Place(c)] =
                [fd |-> IF ev = {} THEN Negated(fd[c]) ELSE pollfds[Place(c)].fd,
                 ev |-> ev]]
          /\ UNCHANGED <<index, channels>>
          /\ Assert(HasPlace(c) /\ Decoded(pollfds[Place(c)].fd) = fd[c])
      <3>1. ~(index[c] < 0)
        BY <1>4, <1>9 DEF k_new
      <3>2. QED BY <3>1 DEF PollUpdate
    <2>3. ~fault'
      BY <2>1, <2>2 DEF PollInv, Assert
    <2>4. fault' \in BOOLEAN
      BY <2>2, Zenon DEF Assert
    <2>5. ChanTypeOK'
      BY <1>2, <2>2, <2>4 DEF PollInv, ChanTypeOK
    <2>6. EntryOf(c)' = [fd |-> IF ev = {} THEN Negated(fd[c]) ELSE pollfds[Place(c)].fd,
                         ev |-> ev]
      <3>1. silenced'[c] <=> silenced[c] \/ ev = {}
        BY <1>3 DEF PollInv, ChanTypeOK
      <3>2. QED BY <1>3, <1>7, <2>1, <3>1 DEF EntryOf
    <2>7. PollTypeOK'
      <3>1. pollfds[Place(c)] \in [fd : Int, ev : SUBSET {"in", "out"}]
        BY <1>4, <2>1, ElementOfSeq
      <3>2. QED BY <1>2, <1>4, <2>1, <2>2, <3>1 DEF PollTypeOK
    <2>8. \A d \in Chans : Place(d)' = Place(d) /\ (HasPlace(d) => HasPlace(d)')
      BY <1>3, <1>4, <2>2 DEF Place, HasPlace
    <2>9. ASSUME NEW d \in Chans
          PROVE  Indexed(d)'
      <3>1. CASE d = c
        <4>1. pollfds'[Place(c)] = EntryOf(c)'
          BY <1>4, <2>1, <2>2, <2>6
        <4>2. ev = {} => silenced'[c]
          BY <1>3 DEF PollInv, ChanTypeOK
        <4>3. QED BY <1>1, <1>3, <1>7, <1>9, <2>1, <2>2, <2>8, <3>1, <4>1, <4>2
                  DEF Indexed, Exists
      <3>2. CASE d # c
        <4>1. index[d] # k_new => pollfds'[Place(d)] = EntryOf(d)
          <5>1. HAVE index[d] # k_new
          <5>2. Place(d) \in 1 .. Len(pollfds) /\ pollfds[Place(d)] = EntryOf(d)
            BY <5>1, PollEntry
          <5>3. Place(d) # Place(c)
            BY <1>4, <1>9, <3>2, <5>1, PlacesDiffer DEF Place, k_new
          <5>4. QED BY <1>4, <2>2, <5>2, <5>3
        <4>2. QED BY <1>3, <1>5, <1>6, <2>2, <2>8, <3>2, <4>1 DEF Indexed, Exists
      <3>3. QED BY <3>1, <3>2
    <2>10. PollTables'
      BY <1>3, <1>4, <2>2, <2>8, <2>9 DEF PollInv, PollTables, Listed, Owned
    <2>11. QED BY <1>2, <2>3, <2>5, <2>7, <2>10 DEF PollInv
  <1>10. QED BY <1>8, <1>9

LEMMA PollRemoveKeeps ==
    ASSUME PollInv, NEW c \in Chans, PollRemove(c)
    PROVE  PollInv'
  <1> DEFINE n == Len(pollfds)
             p == Place(c)
             Ev == SUBSET {"in", "out"}
  <1>1. /\ Exists(c) /\ events[c] = {} /\ index[c] # k_new
        /\ fd' = [fd EXCEPT ![c] = None]
        /\ ready' = [ready EXCEPT ![fd[c]] = {}]
        /\ silenced' = [silenced EXCEPT ![c] = FALSE]
        /\ UNCHANGED <<events, revents, use>>
    BY DEF PollRemove, GiveUp
  <1>2. /\ channels' = [channels EXCEPT ![fd[c]] = None]
        /\ pollfds' = [i \in 1 .. n - 1 |-> pollfds[IF i = p THEN n ELSE i]]
        /\ index' = [index EXCEPT ![LastChannel] = index[c], ![c] = k_new]
        /\ Assert(/\ HasPlace(c)
                  /\ pollfds[p] = [fd |-> Negated(fd[c]), ev |-> {}])
    BY DEF PollRemove, Moved
  <1>3. /\ pollfds \in Seq([fd : Int, ev : Ev]) /\ n \in Nat
        /\ index \in [Chans -> Nat \cup {k_new}]
        /\ DOMAIN pollfds = 1 .. n
    BY DEF PollInv, PollTypeOK
  <1>4. \A e \in Chans : Indexed(e)
    BY DEF PollInv, PollTables
  <1>5. /\ fd[c] \in Fds /\ channels[fd[c]] = c
        /\ p \in 1 .. n /\ pollfds[p] = EntryOf(c) /\ HasPlace(c)
    BY <1>1, <1>4, PollEntry DEF Indexed
  <1>6. PICK d \in Chans : index[d] # k_new /\ Place(d) = n
    <2>1. Owned(n)
      BY <1>3, <1>5 DEF PollInv, PollTables
    <2>2. QED BY <2>1 DEF Owned
  <1>7. LastChannel = d
    BY <1>6, PollEntry DEF LastChannel
  <1>8. \A e \in Chans : index'[e] = IF e = c THEN k_new
                                     ELSE IF e = d THEN index[c] ELSE index[e]
    BY <1>2, <1>3, <1>7
  <1>9. d # c => p # n
    <2>1. ASSUME p = n
          PROVE  index[d] = index[c]
      BY <1>1, <1>3, <1>6, <2>1 DEF Place, k_new
    <2>2. QED BY <1>6, <2>1, PlacesDiffer
  <1>10. ~fault'
    <2>1. silenced[c]
      BY <1>1, <1>4 DEF Indexed
    <2>2. pollfds[p] = [fd |-> Negated(fd[c]), ev |-> {}]
      BY <1>1, <1>5, <2>1 DEF EntryOf
    <2>3. QED BY <1>2, <1>5, <2>2, Zenon DEF Assert, PollInv
  <1>11. ChanTypeOK'
    <2>1. fault' \in BOOLEAN
      BY <1>2, Zenon DEF Assert
    <2>2. channels' \in [Fds -> Chans \cup {None}]
      BY <1>2 DEF PollInv, ChanTypeOK
    <2>3. QED BY <1>1, <1>5, <2>1, <2>2 DEF PollInv, ChanTypeOK
  <1>12. Distinct'
    BY <1>1, NoneAssumption DEF PollInv, ChanTypeOK, Distinct, Exists
  <1>13. pollfds' \in Seq([fd : Int, ev : Ev]) /\ DOMAIN pollfds' = 1 .. n - 1
    <2>1. ASSUME NEW i \in 1 .. n - 1
          PROVE  pollfds'[i] \in [fd : Int, ev : Ev]
      <3>1. (IF i = p THEN n ELSE i) \in 1 .. n
        BY <1>3, <1>5
      <3>2. pollfds'[i] = pollfds[IF i = p THEN n ELSE i]
        BY <1>2
      <3>3. QED BY <1>3, <3>1, <3>2, ElementOfSeq
    <2>2. n - 1 \in Nat
      BY <1>3, <1>5
    <2>3. QED BY <1>2, <2>1, <2>2, IsASeq
  <1>14. PollTypeOK'
    <2>1. index' \in [Chans -> Nat \cup {k_new}]
      BY <1>2, <1>3, <1>6, <1>7
    <2>2. QED BY <1>13, <2>1 DEF PollTypeOK
  <1>15. ASSUME NEW e \in Chans, e # c
         PROVE  /\ fd'[e] = fd[e] /\ silenced'[e] = silenced[e]
                /\ EntryOf(e)' = EntryOf(e)
                /\ Exists(e) => fd[e] # fd[c]
    <2>1. fd'[e] = fd[e] /\ silenced'[e] = silenced[e]
      BY <1>1, <1>15 DEF PollInv, ChanTypeOK
    <2>2. EntryOf(e)' = EntryOf(e)
      <3>1. events'[e] = events[e]
        BY <1>1
      <3>2. QED BY <2>1, <3>1, Zenon DEF EntryOf
    <2>3. Exists(e) => fd[e] # fd[c]
      BY <1>15 DEF PollInv, Distinct
    <2>4. QED BY <2>1, <2>2, <2>3
  <1>16. ASSUME NEW e \in Chans
         PROVE  Indexed(e)'
    <2>1. CASE e = c
      <3>1. index'[c] = k_new /\ ~silenced'[c] /\ events'[c] = {}
        BY <1>1, <1>8 DEF PollInv, ChanTypeOK
      <3>2. QED BY <2>1, <3>1 DEF Indexed
    <2>2. CASE e # c
      <3>1. index'[e] # k_new =>
                HasPlace(e)' /\ pollfds'[Place(e)'] = EntryOf(e)'
        <4>1. SUFFICES ASSUME index'[e] # k_new
                       PROVE  HasPlace(e)' /\ pollfds'[Place(e)'] = EntryOf(e)'
          OBVIOUS
        <4>2. index[e] # k_new
          BY <1>1, <1>6, <1>8, <2>2, <4>1
        <4>3. /\ fd[e] \in Fds /\ fd[e] # fd[c] /\ channels[fd[e]] = e
              /\ Place(e) \in 1 .. n /\ pollfds[Place(e)] = EntryOf(e)
          BY <1>4, <1>15, <2>2, <4>2, PollEntry DEF Indexed
        <4>4. channels'[fd'[e]] = e
          BY <1>2, <1>15, <2>2, <4>3 DEF PollInv, ChanTypeOK
        <4>5. CASE e = d
          <5>1. Place(e)' = p
            BY <1>8, <2>2, <4>5 DEF Place
          <5>2. p \in 1 .. n - 1 /\ pollfds'[p] = pollfds[n]
            BY <1>2, <1>3, <1>5, <1>9, <2>2, <4>5
          <5>3. QED BY <1>6, <1>13, <1>15, <2>2, <4>3, <4>4, <4>5, <5>1, <5>2
                    DEF HasPlace
        <4>6. CASE e # d
          <5>1. Place(e)' = Place(e)
            BY <1>8, <2>2, <4>6 DEF Place
          <5>2. Place(e) # n /\ Place(e) # p
            <6>1. Place(e) = n => index[e] = index[d]
              BY <1>3, <1>6, <4>2 DEF Place, k_new
            <6>2. Place(e) = p => index[e] = index[c]
              BY <1>1, <1>3, <4>2 DEF Place, k_new
            <6>3. QED BY <2>2, <4>2, <4>6, <6>1, <6>2, PlacesDiffer
          <5>3. Place(e) \in 1 .. n - 1 /\ pollfds'[Place(e)] = pollfds[Place(e)]
            BY <1>2, <1>3, <4>3, <5>2
          <5>4. QED BY <1>13, <1>15, <2>2, <4>3, <4>4, <5>1, <5>3 DEF HasPlace
        <4>7. QED BY <4>5, <4>6
      <3>2. index'[e] = k_new => index[e] = k_new
        BY <1>1, <1>8, <2>2
      <3>3. index'[e] # k_new => index[e] # k_new
        BY <1>1, <1>6, <1>8, <2>2
      <3>4. QED BY <1>1, <1>4, <1>15, <2>2, <3>1, <3>2, <3>3, Zenon DEF Indexed, Exists
    <2>3. QED BY <2>1, <2>2
  <1>17. ASSUME NEW f \in Fds, channels'[f] # None
         PROVE  Listed(f)'
    <2>1. f # fd[c] /\ channels'[f] = channels[f]
      BY <1>2, <1>5, <1>17 DEF PollInv, ChanTypeOK
    <2>2. Listed(f) /\ channels[f] \in Chans
      BY <1>17, <2>1 DEF PollInv, PollTables, ChanTypeOK
    <2>3. channels[f] # c
      BY <2>1, <2>2 DEF Listed
    <2>4. index'[channels[f]] # k_new
      BY <1>1, <1>6, <1>8, <2>2, <2>3 DEF Listed
    <2>5. QED BY <1>15, <2>1, <2>2, <2>3, <2>4 DEF Listed
  <1>18. ASSUME NEW i \in DOMAIN pollfds'
         PROVE  Owned(i)'
    <2>1. i \in 1 .. n - 1
      BY <1>13, <1>18
    <2>2. PICK e \in Chans : index[e] # k_new /\ Place(e) = i
      <3>1. Owned(i)
        BY <1>3, <2>1 DEF PollInv, PollTables
      <3>2. QED BY <3>1 DEF Owned
    <2>3. e # d
      BY <1>3, <1>6, <2>1, <2>2
    <2>4. CASE e = c
      <3>1. index'[d] = index[c] /\ index'[d] # k_new
        BY <1>1, <1>8, <2>3, <2>4
      <3>2. QED BY <2>2, <2>4, <3>1 DEF Owned, Place
    <2>5. CASE e # c
      BY <1>8, <2>2, <2>3, <2>5 DEF Owned, Place
    <2>6. QED BY <2>4, <2>5
  <1>19. PollTables'
    BY <1>16, <1>17, <1>18 DEF PollTables
  <1>20. QED BY <1>10, <1>11, <1>12, <1>14, <1>19 DEF PollInv

\* Whom poll speaks of: the channels of the entries that have something.
LEMMA PollTellsTruth ==
    ASSUME PollInv, NEW i \in PollReady
    PROVE  LET c == channels[pollfds[i].fd] IN
           /\ c \in Chans /\ Exists(c) /\ fd[c] = pollfds[i].fd
           /\ index[c] # k_new /\ ~silenced[c]
           /\ pollfds[i].ev = events[c]
           /\ Reported(fd[c], events[c]) # {}
  <1>1. /\ i \in DOMAIN pollfds /\ pollfds[i].fd >= 0
        /\ Reported(pollfds[i].fd, pollfds[i].ev) # {}
    BY DEF PollReady
  <1>2. PICK c \in Chans : index[c] # k_new /\ Place(c) = i
    BY <1>1 DEF PollInv, PollTables, Owned
  <1>3. /\ fd[c] \in Nat /\ channels[fd[c]] = c /\ pollfds[i].ev = events[c]
        /\ pollfds[i].fd = IF silenced[c] THEN Negated(fd[c]) ELSE fd[c]
    BY <1>2, PollEntry
  <1>4. pollfds[i].fd = fd[c] /\ ~silenced[c]
    BY <1>1, <1>3 DEF Negated
  <1>5. Exists(c)
    BY <1>2 DEF PollInv, PollTables, Indexed
  <1>6. QED BY <1>1, <1>2, <1>3, <1>4, <1>5

LEMMA PollPollKeeps ==
    ASSUME PollInv, PollPoll
    PROVE  PollInv'
  <1>1. /\ revents' = [c \in Chans |->
               UNION {pollfds[i].ev : i \in {j \in PollReady :
                                                channels[pollfds[j].fd] = c}}]
        /\ Assert(\A i \in PollReady : channels[pollfds[i].fd] # None)
        /\ UNCHANGED <<fd, events, index, channels, ready, silenced, use, pollfds>>
    BY DEF PollPoll
  <1>2. \A i \in PollReady : channels[pollfds[i].fd] # None
    BY PollTellsTruth, NoneAssumption
  <1>3. ~fault'
    BY <1>1, <1>2, AssertHolds DEF PollInv
  <1>4. fault' \in BOOLEAN
    BY <1>1, Zenon DEF Assert
  <1>5. revents' \in [Chans -> SUBSET {"in", "out", "hup"}]
    <2>1. \A i \in PollReady : pollfds[i].ev \in SUBSET {"in", "out", "hup"}
      BY PollTellsTruth DEF PollInv, ChanTypeOK
    <2>2. QED BY <1>1, <2>1
  <1>6. ChanTypeOK' /\ PollTypeOK'
    BY <1>1, <1>4, <1>5 DEF PollInv, ChanTypeOK, PollTypeOK
  <1>7. PollTables' /\ Distinct'
    BY <1>1 DEF PollInv, PollTables, Indexed, Listed, Owned, EntryOf, HasPlace, Place,
                Distinct, Exists
  <1>8. QED BY <1>3, <1>6, <1>7 DEF PollInv

LEMMA PollKeeps ==
    ASSUME PollInv, PollNext
    PROVE  PollInv'
  BY ChanStepPoll, PollUpdateKeeps, PollRemoveKeeps, PollPollKeeps DEF PollNext
-----------------------------------------------------------------------------
(* Both.                                                                   *)

LEMMA InvInitially ==
    ASSUME Init
    PROVE  Inv
  <1>1. ChanTypeOK /\ Distinct /\ ~fault
    BY DEF Init, EpollInit, ChanInit, ChanTypeOK, Distinct, Exists
  <1>2. EpollTypeOK /\ EpollTables
    BY NoneAssumption, SizeAssumption
    DEF Init, EpollInit, ChanInit, EpollTypeOK, EpollTables, Exists, k_new, k_added
  <1>3. PollTypeOK
    BY DEF Init, EpollInit, ChanInit, PollInit, PollTypeOK
  <1>4. PollTables
    BY DEF Init, EpollInit, ChanInit, PollInit, PollTables, Indexed, Exists, k_new
  <1>5. QED BY <1>1, <1>2, <1>3, <1>4 DEF Init, Inv, EpollInv, PollInv

LEMMA InvKept ==
    ASSUME Inv, [Next]_vars
    PROVE  Inv'
  <1>1. CASE Epolls(EpollNext)
    BY <1>1, EpollKeeps DEF Epolls, Inv
  <1>2. CASE Polls(PollNext)
    BY <1>2, PollKeeps DEF Polls, Inv
  <1>3. CASE UNCHANGED vars
    BY <1>3
    DEF vars, chanVars, epollVars, Inv, EpollInv, PollInv, ChanTypeOK, EpollTypeOK,
        PollTypeOK, EpollTables, PollTables, Distinct, Exists, Entry, Indexed, Listed,
        Owned, EntryOf, HasPlace, Place
  <1>4. QED BY <1>1, <1>2, <1>3 DEF Next

LEMMA InvHolds == Spec => []Inv
  BY InvInitially, InvKept, PTL DEF Spec

\* Type correctness of both, for any channels, descriptors and programs.
THEOREM DemuxTypeCorrect == Spec => []TypeOK
  <1>1. Inv => TypeOK
    BY DEF Inv, EpollInv, PollInv, TypeOK
  <1>2. QED BY <1>1, InvHolds, PTL

\* The table, the indices and what the kernel is told agree with what the
\* channels ask for: UpdateChannel and RemoveChannel of Epoller and of Poller,
\* whatever channels come, change and go, on whichever descriptors.
THEOREM TablesStayInOrder == Spec => []TablesAgree
  <1>1. Inv => TablesAgree
    BY DEF Inv, EpollInv, PollInv, TablesAgree
  <1>2. QED BY <1>1, InvHolds, PTL

\* The asserts of Epoller.cpp and Poller.cpp hold.
THEOREM AssertsHold == Spec => []NoAssertFails
  <1>1. Inv => NoAssertFails
    BY DEF Inv, EpollInv, PollInv, NoAssertFails
  <1>2. QED BY <1>1, InvHolds, PTL

\* A poll tells channels that exist, and nothing that is not the case.
THEOREM PollsAreTruthful == Spec => Truthful
  <1> DEFINE Told(c) == revents'[c] # {} =>
                 /\ Exists(c)
                 /\ Reported(fd[c], events[c]) # {}
                 /\ kind = "epoll" => revents'[c] = Reported(fd[c], events[c])
  <1>1. ASSUME Inv, Poll, NEW c \in Chans
        PROVE  Told(c)
    <2>1. CASE Epolls(EpollPoll)
      <3>1. PICK fs \in SUBSET EpollReady :
                revents' = [d \in Chans |-> EpollEvents(fs, d)]
        BY <2>1 DEF Epolls, EpollPoll
      <3>2. EpollInv
        BY <1>1, <2>1 DEF Epolls, Inv
      <3>3. revents'[c] = EpollEvents(fs, c)
        BY <3>1
      <3>4. QED BY <3>2, <3>3, EpollTellsTruth
    <2>2. CASE Polls(PollPoll)
      <3>1. kind = "poll" /\ PollInv
        BY <1>1, <2>2 DEF Polls, Inv
      <3>2. revents'[c] = UNION {pollfds[i].ev : i \in {j \in PollReady :
                                                channels[pollfds[j].fd] = c}}
        BY <2>2 DEF Polls, PollPoll
      <3>3. SUFFICES ASSUME revents'[c] # {}
                     PROVE  Exists(c) /\ Reported(fd[c], events[c]) # {}
        BY <3>1
      <3>4. PICK i \in PollReady : channels[pollfds[i].fd] = c
        BY <3>2, <3>3
      <3>5. QED BY <3>1, <3>4, PollTellsTruth
    <2>3. QED BY <1>1, <2>1, <2>2 DEF Poll
  <1>2. Inv => [Poll => \A c \in Chans : Told(c)]_vars
    BY <1>1
  <1>3. QED BY <1>2, InvHolds, PTL DEF Truthful

-----------------------------------------------------------------------------
(* The demultiplexer implements Selector.                                  *)

\* Steps that leave alone how a channel is treated, and those that change it for
\* one.
LEMMA TreatedKept ==
    ASSUME NEW c \in Chans, kind' = kind, fd'[c] = fd[c],
           silenced'[c] <=> silenced[c],
           index'[c] = index[c] \/ (kind = "poll" /\ (index'[c] = k_new <=> index[c] = k_new))
    PROVE  Treated(c)' = Treated(c)
  BY DEF Treated, Exists

LEMMA AllTreatedKept ==
    ASSUME \A d \in Chans : Treated(d)' = Treated(d)
    PROVE  [d \in Chans |-> Treated(d)]' = [d \in Chans |-> Treated(d)]
  OBVIOUS

LEMMA OneTreated ==
    ASSUME NEW c \in Chans, \A d \in Chans : d # c => Treated(d)' = Treated(d)
    PROVE  [d \in Chans |-> Treated(d)]' =
               [[d \in Chans |-> Treated(d)] EXCEPT ![c] = Treated(c)']
  OBVIOUS

\* Create, Handled and Happens are the same for both.
LEMMA ChanStepSelects ==
    ASSUME Inv, ChanStep, UNCHANGED <<kind, size>>
    PROVE  S!Next
  <1>1. ChanTypeOK
    BY DEF Inv, EpollInv, PollInv
  <1>2. ASSUME NEW c \in Chans, NEW f \in Fds, Create(c, f)
        PROVE  S!Create(c, f)
    <2>1. /\ ~Exists(c) /\ ~Open(f)
          /\ fd' = [fd EXCEPT ![c] = f]
          /\ UNCHANGED <<events, index, revents, ready, silenced>>
      BY <1>2 DEF Create
    <2>2. index[c] = k_new
      BY <2>1 DEF Inv, EpollInv, EpollTables, PollInv, PollTables, Indexed
    <2>3. Treated(c) = "gone"
      BY <2>1 DEF Treated
    <2>4. Treated(c)' = "new"
      BY <1>1, <2>1, <2>2, NoneAssumption DEF Treated, Exists, ChanTypeOK
    <2>5. \A d \in Chans : d # c => Treated(d)' = Treated(d)
      BY <1>1, <2>1, TreatedKept DEF ChanTypeOK
    <2>6. QED BY <2>1, <2>3, <2>4, <2>5, OneTreated DEF S!Create, S!Open, Open
  <1>3. ASSUME NEW c \in Chans, Handled(c)
        PROVE  S!Handle(c)
    <2>1. \A d \in Chans : Treated(d)' = Treated(d)
      BY <1>3, TreatedKept DEF Handled
    <2>2. QED BY <1>3, <2>1, AllTreatedKept DEF Handled, Active, S!Handle
  <1>4. ASSUME NEW f \in Fds, NEW es \in SUBSET use.happens, Happens(f, es)
        PROVE  es \in SUBSET S!Events /\ S!Happens(f, es)
    <2>1. es \in SUBSET S!Events
      BY <1>1, UsesAssumption DEF ChanTypeOK, S!Events, S!Askable
    <2>2. \A d \in Chans : Treated(d)' = Treated(d)
      BY <1>4, TreatedKept DEF Happens
    <2>3. QED BY <1>4, <2>1, <2>2, AllTreatedKept DEF Happens, Open, S!Happens, S!Open
  <1>5. QED BY <1>2, <1>3, <1>4 DEF ChanStep, S!Next

\* UpdateChannel of either is an Ask.
LEMMA EpollUpdateAsks ==
    ASSUME EpollInv, kind = "epoll", UNCHANGED kind,
           NEW c \in Chans, NEW ev \in Wanted(c), EpollUpdate(c, ev)
    PROVE  ev \in SUBSET S!Askable /\ S!Ask(c, ev)
  <1>1. /\ Exists(c) /\ (index[c] = k_new => ev # {})
        /\ events' = [events EXCEPT ![c] = ev]
        /\ silenced' = [silenced EXCEPT ![c] = @ \/ ev = {}]
        /\ UNCHANGED <<fd, revents, ready, size>>
    BY DEF EpollUpdate, Update
  <1>2. ev \in SUBSET S!Askable
    BY DEF Wanted, EpollInv, ChanTypeOK, S!Askable
  <1>3. /\ index \in [Chans -> {k_new, k_added, k_deleted}]
        /\ silenced \in [Chans -> BOOLEAN]
    BY DEF EpollInv, EpollTypeOK, ChanTypeOK
  <1>4. index' = [index EXCEPT ![c] = IF index[c] = k_added /\ ev = {} THEN k_deleted
                                                                       ELSE k_added]
    BY DEF EpollUpdate, Ctl
  <1>5. \A d \in Chans : d # c => Treated(d)' = Treated(d)
    BY <1>1, <1>3, <1>4, TreatedKept
  <1>6. Treated(c)' = IF index[c] = k_added /\ ev = {} THEN "ignored" ELSE "heard"
    BY <1>1, <1>3, <1>4 DEF Treated, Exists, k_new, k_added, k_deleted
  <1>7. Treated(c) # "gone" /\ (Treated(c) = "new" => index[c] = k_new)
    BY <1>1 DEF Treated
  <1>8. QED BY <1>1, <1>2, <1>5, <1>6, <1>7, OneTreated DEF S!Ask

LEMMA PollUpdateAsks ==
    ASSUME PollInv, kind = "poll", UNCHANGED <<kind, size>>,
           NEW c \in Chans, NEW ev \in Wanted(c), PollUpdate(c, ev)
    PROVE  ev \in SUBSET S!Askable /\ S!Ask(c, ev)
  <1>1. /\ Exists(c) /\ (index[c] = k_new => ev # {})
        /\ events' = [events EXCEPT ![c] = ev]
        /\ silenced' = [silenced EXCEPT ![c] = @ \/ ev = {}]
        /\ UNCHANGED <<fd, revents, ready>>
    BY DEF PollUpdate, Update
  <1>2. ev \in SUBSET S!Askable
    BY DEF Wanted, PollInv, ChanTypeOK, S!Askable
  <1>3. /\ index \in [Chans -> Nat \cup {k_new}] /\ Len(pollfds) \in Nat
        /\ silenced \in [Chans -> BOOLEAN]
    BY DEF PollInv, PollTypeOK, ChanTypeOK
  <1>4. index' = IF index[c] = k_new THEN [index EXCEPT ![c] = Len(pollfds)] ELSE index
    <2>1. index[c] < 0 <=> index[c] = k_new
      BY <1>3 DEF k_new
    <2>2. QED BY <2>1 DEF PollUpdate
  <1>5. \A d \in Chans : d # c => Treated(d)' = Treated(d)
    BY <1>1, <1>3, <1>4, TreatedKept
  <1>6. index'[c] # k_new /\ (silenced'[c] <=> silenced[c] \/ ev = {})
    <2>1. silenced'[c] <=> silenced[c] \/ ev = {}
      BY <1>1, <1>3
    <2>2. Len(pollfds) # k_new
      BY <1>3 DEF k_new
    <2>3. QED BY <1>3, <1>4, <2>1, <2>2
  <1>7. Treated(c)' = IF silenced[c] \/ ev = {} THEN "ignored" ELSE "heard"
    BY <1>1, <1>6 DEF Treated, Exists
  <1>8. index[c] = k_new => ~silenced[c]
    BY DEF PollInv, PollTables, Indexed
  <1>9. /\ Treated(c) # "gone" /\ (Treated(c) = "new" => index[c] = k_new)
        /\ silenced[c] => Treated(c) = "ignored"
    BY <1>1, <1>8 DEF Treated
  <1>10. QED BY <1>1, <1>2, <1>5, <1>7, <1>9, OneTreated DEF S!Ask

\* RemoveChannel of either is a Close.
LEMMA EpollRemoveCloses ==
    ASSUME EpollInv, kind = "epoll", UNCHANGED kind, NEW c \in Chans, EpollRemove(c)
    PROVE  S!Close(c)
  <1>1. /\ Exists(c) /\ events[c] = {} /\ index[c] # k_new /\ Active = {}
        /\ fd' = [fd EXCEPT ![c] = None]
        /\ ready' = [ready EXCEPT ![fd[c]] = {}]
        /\ silenced' = [silenced EXCEPT ![c] = FALSE]
        /\ index' = [index EXCEPT ![c] = k_new]
        /\ UNCHANGED <<events, revents, size>>
    BY DEF EpollRemove, GiveUp
  <1>2. \A d \in Chans : d # c => Treated(d)' = Treated(d)
    BY <1>1, TreatedKept DEF EpollInv, EpollTypeOK, ChanTypeOK
  <1>3. Treated(c)' = "gone" /\ Treated(c) \in {"heard", "ignored"}
    BY <1>1 DEF Treated, Exists, EpollInv, ChanTypeOK
  <1>4. QED BY <1>1, <1>2, <1>3, OneTreated DEF S!Close, S!Quiet, Active

\* A channel that exists is in the Poller's table if and only if it has an index.
LEMMA ListedMeansIndexed ==
    ASSUME PollInv, NEW c \in Chans, Exists(c)
    PROVE  index[c] # k_new <=> channels[fd[c]] = c
  <1>1. fd[c] \in Fds /\ c # None
    BY NoneAssumption DEF PollInv, ChanTypeOK, Exists
  <1>2. QED BY <1>1 DEF PollInv, PollTables, Indexed, HasPlace, Listed

LEMMA PollRemoveCloses ==
    ASSUME PollInv, PollInv', kind = "poll", UNCHANGED <<kind, size>>,
           NEW c \in Chans, PollRemove(c)
    PROVE  S!Close(c)
  <1>1. /\ Exists(c) /\ events[c] = {} /\ index[c] # k_new /\ Active = {}
        /\ fd' = [fd EXCEPT ![c] = None]
        /\ ready' = [ready EXCEPT ![fd[c]] = {}]
        /\ silenced' = [silenced EXCEPT ![c] = FALSE]
        /\ channels' = [channels EXCEPT ![fd[c]] = None]
        /\ UNCHANGED <<events, revents>>
    BY DEF PollRemove, GiveUp
  <1>2. ASSUME NEW d \in Chans, d # c
        PROVE  Treated(d)' = Treated(d)
    <2>1. fd'[d] = fd[d] /\ (silenced'[d] <=> silenced[d])
      BY <1>1, <1>2 DEF PollInv, ChanTypeOK
    <2>2. CASE Exists(d)
      <3>1. fd[d] \in Fds /\ fd[d] # fd[c] /\ d # None
        BY <1>2, <2>2, NoneAssumption DEF PollInv, ChanTypeOK, Exists, Distinct
      <3>2. channels'[fd[d]] = channels[fd[d]]
        BY <1>1, <3>1 DEF PollInv, ChanTypeOK
      <3>3. index'[d] # k_new <=> channels'[fd'[d]] = d
        BY <2>1, <3>1, <2>2 DEF PollInv, PollTables, Indexed, HasPlace, Listed
      <3>4. index[d] # k_new <=> channels[fd[d]] = d
        BY <2>2, ListedMeansIndexed
      <3>5. QED BY <2>1, <3>2, <3>3, <3>4, TreatedKept
    <2>3. CASE ~Exists(d)
      BY <2>1, <2>3 DEF Treated, Exists
    <2>4. QED BY <2>2, <2>3
  <1>3. Treated(c)' = "gone" /\ Treated(c) \in {"heard", "ignored"}
    BY <1>1 DEF Treated, Exists, PollInv, ChanTypeOK
  <1>4. QED BY <1>1, <1>2, <1>3, OneTreated DEF S!Close, S!Quiet, Active

\* What epoll_wait may report, and whom Selector has due: the descriptors on the
\* one hand, their channels on the other.
LEMMA EpollDue ==
    ASSUME EpollInv, kind = "epoll", NEW c \in S!Due
    PROVE  fd[c] \in EpollReady /\ set[fd[c]].ptr = c
  <1>1. c \in Chans /\ Treated(c) = "heard" /\ S!News(c) # {}
    BY DEF S!Due
  <1>2. Exists(c) /\ index[c] = k_added /\ fd[c] \in Fds
    BY <1>1 DEF Treated, Exists, EpollInv, EpollTypeOK, ChanTypeOK
  <1>3. set[fd[c]] = Entry(c, events[c])
    BY <1>1, <1>2 DEF EpollInv, EpollTables
  <1>4. set[fd[c]] # None /\ set[fd[c]].ptr = c /\ set[fd[c]].ev = events[c]
    <2>1. set[fd[c]].ptr = c /\ set[fd[c]].ev = events[c]
      BY <1>3 DEF Entry
    <2>2. set[fd[c]] # None
      <3>1. set[fd[c]] \in [ev : SUBSET {"in", "out"}, ptr : Chans]
        BY <1>1, <1>3 DEF Entry, EpollInv, ChanTypeOK
      <3>2. QED BY <3>1, EntryAssumption
    <2>3. QED BY <2>1, <2>2
  <1>5. QED BY <1>1, <1>2, <1>4 DEF EpollReady, S!News, Reported

LEMMA EpollReadyIsDue ==
    ASSUME EpollInv, kind = "epoll", NEW f \in EpollReady
    PROVE  /\ set[f].ptr \in S!Due
           /\ Exists(set[f].ptr) /\ fd[set[f].ptr] = f
           /\ S!News(set[f].ptr) = Reported(f, set[f].ev)
  <1> DEFINE c == set[f].ptr
  <1>1. f \in Fds /\ set[f] # None /\ Reported(f, set[f].ev) # {}
    BY DEF EpollReady
  <1>2. c \in Chans /\ fd[c] = f /\ index[c] = k_added /\ f # None
    BY <1>1, NoneAssumption DEF EpollInv, EpollTables, EpollTypeOK
  <1>3. set[f].ev = events[c]
    <2>1. set[fd[c]] = Entry(c, events[c])
      BY <1>2 DEF EpollInv, EpollTables
    <2>2. Entry(c, events[c]).ev = events[c]
      BY DEF Entry
    <2>3. QED BY <1>2, <2>1, <2>2
  <1>4. Treated(c) = "heard"
    BY <1>2 DEF Treated, Exists, k_new, k_added, k_deleted
  <1>5. S!News(c) = Reported(f, set[f].ev)
    BY <1>2, <1>3 DEF S!News, Reported
  <1>6. QED BY <1>1, <1>2, <1>4, <1>5 DEF S!Due, Exists

\* Only finitely many channels exist at a time, so that those which are told are
\* as many as the descriptors epoll_wait reports.
Finite == IsFiniteSet({c \in Chans : Exists(c)})

LEMMA FiniteKept ==
    ASSUME Finite, [Next]_vars
    PROVE  Finite'
  <1> DEFINE E == {c \in Chans : Exists(c)}
  <1>1. ASSUME NEW c \in Chans, NEW f \in Fds, Create(c, f)
        PROVE  Finite'
    <2>1. E' \in SUBSET (E \cup {c})
      BY <1>1 DEF Create, Exists
    <2>2. QED BY <2>1, FS_AddElement, FS_Subset DEF Finite
  <1>2. ASSUME NEW c \in Chans, GiveUp(c)
        PROVE  Finite'
    <2>1. E' \in SUBSET E
      BY <1>2 DEF GiveUp, Exists
    <2>2. QED BY <2>1, FS_Subset DEF Finite
  <1>3. ASSUME fd' = fd
        PROVE  Finite'
    BY <1>3 DEF Finite, Exists
  <1>4. CASE Epolls(EpollNext)
    BY <1>1, <1>2, <1>3, <1>4
    DEF Epolls, EpollNext, ChanStep, Handled, Happens, EpollUpdate, Update,
        EpollRemove, EpollPoll
  <1>5. CASE Polls(PollNext)
    BY <1>1, <1>2, <1>3, <1>5
    DEF Polls, PollNext, ChanStep, Handled, Happens, PollUpdate, Update,
        PollRemove, PollPoll
  <1>6. QED BY <1>3, <1>4, <1>5 DEF Next, vars, chanVars

\* Selector's name for Cardinality.
LEMMA SameCardinality ==
    ASSUME NEW C
    PROVE  S!Cardinality(C) = Cardinality(C)
  BY DEF S!Cardinality, Cardinality, S!IsFiniteSet, IsFiniteSet

LEMMA EpollPollTells ==
    ASSUME EpollInv, Finite, kind = "epoll", UNCHANGED kind, EpollPoll
    PROVE  S!Poll
  <1>1. PICK fs \in SUBSET EpollReady :
            /\ fs = EpollReady \/ Cardinality(fs) = size
            /\ revents' = [c \in Chans |-> EpollEvents(fs, c)]
            /\ size' = Grown(Cardinality(fs))
    BY DEF EpollPoll
  <1>2. /\ Active = {} /\ EpollReady # {}
        /\ UNCHANGED <<fd, events, index, ready, silenced>>
    BY DEF EpollPoll
  <1> DEFINE C == {set[f].ptr : f \in fs}
  <1>3. C \in SUBSET S!Due /\ S!Due \in SUBSET Chans
    BY EpollReadyIsDue DEF S!Due
  <1>4. IsFiniteSet(fs) /\ Cardinality(C) = Cardinality(fs)
    <2> DEFINE p == [f \in fs |-> set[f].ptr]
    <2>1. p \in [fs -> {c \in Chans : Exists(c)}]
      BY <1>3, EpollReadyIsDue DEF S!Due
    <2>2. \A f, g \in fs : p[f] = p[g] => f = g
      BY EpollReadyIsDue
    <2>3. p \in Injection(fs, {c \in Chans : Exists(c)})
      BY <2>1, <2>2 DEF Injection, IsInjective
    <2>4. IsFiniteSet(fs)
      BY <2>3, FS_Injection DEF Finite
    <2>5. p \in Bijection(fs, C)
      BY <2>2 DEF Bijection, Injection, Surjection, IsInjective
    <2>6. QED BY <2>4, <2>5, FS_Bijection DEF ExistsBijection
  <1>5. ASSUME NEW c \in C
        PROVE  revents'[c] = S!News(c) /\ revents'[c] # {}
    <2>1. PICK f \in fs : c = set[f].ptr
      OBVIOUS
    <2>2. c \in Chans /\ S!News(c) # {}
      BY <1>3 DEF S!Due
    <2>3. Reported(f, set[f].ev) # {} /\ Reported(f, set[f].ev) \subseteq EpollEvents(fs, c)
      BY <2>1 DEF EpollReady, EpollEvents
    <2>4. EpollEvents(fs, c) = Reported(fd[c], events[c])
      BY <2>2, <2>3, EpollTellsTruth
    <2>5. QED BY <1>1, <2>2, <2>4 DEF S!News, Reported
  <1>6. ASSUME NEW c \in Chans \ C
        PROVE  revents'[c] = {}
    <2>1. {g \in fs : set[g].ptr = c} = {}
      BY <1>6
    <2>2. EpollEvents(fs, c) = {}
      BY <2>1 DEF EpollEvents
    <2>3. QED BY <1>1, <2>2
  <1>7. C = S!Due \/ Cardinality(C) = size
    <2>1. CASE fs = EpollReady
      BY <2>1, <1>3, EpollDue
    <2>2. CASE Cardinality(fs) = size
      BY <2>2, <1>4
    <2>3. QED BY <1>1, <2>1, <2>2
  <1>8. C # {}
    <2>1. fs # {}
      <3>1. CASE fs = EpollReady
        BY <3>1, <1>2
      <3>2. CASE Cardinality(fs) = size
        BY <3>2, FS_EmptySet DEF EpollInv, EpollTypeOK
      <3>3. QED BY <1>1, <3>1, <3>2
    <2>2. QED BY <2>1
  <1>9. size' \in {size, 2 * size}
    BY <1>1 DEF Grown
  <1>10. revents' \in [Chans -> SUBSET S!Events]
    <2>1. ChanTypeOK'
      BY EpollPollKeeps DEF EpollInv
    <2>2. QED BY <2>1 DEF ChanTypeOK, S!Events, S!Askable
  <1>11. [c \in Chans |-> Treated(c)]' = [c \in Chans |-> Treated(c)]
    BY <1>2, TreatedKept, AllTreatedKept
  <1>12. \A c \in C : revents'[c] \in {S!News(c), events[c]} \ {{}}
    BY <1>5
  <1>13. \E D \in SUBSET S!Due :
            /\ D = S!Due \/ Cardinality(D) = size
            /\ D # {}
            /\ revents' \in [Chans -> SUBSET S!Events]
            /\ \A c \in D : revents'[c] \in {S!News(c), events[c]} \ {{}}
            /\ \A c \in Chans \ D : revents'[c] = {}
    <2> HIDE DEF C
    <2>1. QED BY <1>3, <1>6, <1>7, <1>8, <1>10, <1>12
  <1>14. S!Quiet
    BY <1>2 DEF S!Quiet, Active
  <1>15. QED BY <1>2, <1>9, <1>11, <1>13, <1>14, SameCardinality DEF S!Poll

LEMMA PollPollTells ==
    ASSUME PollInv, kind = "poll", UNCHANGED <<kind, size>>, PollPoll
    PROVE  S!Poll
  <1>1. /\ revents' = [c \in Chans |->
               UNION {pollfds[i].ev : i \in {j \in PollReady :
                                                channels[pollfds[j].fd] = c}}]
        /\ Active = {} /\ PollReady # {}
        /\ UNCHANGED <<fd, events, index, ready, silenced>>
    BY DEF PollPoll
  <1>2. ASSUME NEW c \in S!Due
        PROVE  c \in Chans /\ revents'[c] = events[c] /\ events[c] # {}
    <2>1. c \in Chans /\ Treated(c) = "heard" /\ S!News(c) # {}
      BY DEF S!Due
    <2>2. index[c] # k_new /\ ~silenced[c]
      BY <2>1 DEF Treated
    <2>3. events[c] # {}
      BY <2>1, <2>2 DEF PollInv, PollTables, Indexed
    <2>4. /\ fd[c] \in Nat /\ channels[fd[c]] = c
          /\ Place(c) \in DOMAIN pollfds
          /\ pollfds[Place(c)].fd = fd[c] /\ pollfds[Place(c)].ev = events[c]
      BY <2>1, <2>2, PollEntry DEF PollInv, PollTypeOK
    <2>5. Place(c) \in {j \in PollReady : channels[pollfds[j].fd] = c}
      BY <2>1, <2>4 DEF PollReady, S!News, Reported
    <2>6. \A j \in PollReady : channels[pollfds[j].fd] = c => pollfds[j].ev = events[c]
      BY PollTellsTruth
    <2>7. QED BY <1>1, <2>1, <2>3, <2>5, <2>6
  <1>3. ASSUME NEW i \in PollReady
        PROVE  channels[pollfds[i].fd] \in S!Due
    <2> DEFINE c == channels[pollfds[i].fd]
    <2>1. /\ c \in Chans /\ Exists(c) /\ index[c] # k_new /\ ~silenced[c]
          /\ Reported(fd[c], events[c]) # {}
      BY PollTellsTruth
    <2>2. Treated(c) = "heard"
      BY <2>1 DEF Treated
    <2>3. QED BY <2>1, <2>2 DEF S!Due, S!News, Reported
  <1>4. ASSUME NEW c \in Chans \ S!Due
        PROVE  revents'[c] = {}
    <2>1. {j \in PollReady : channels[pollfds[j].fd] = c} = {}
      BY <1>3, <1>4
    <2>2. QED BY <1>1, <2>1
  <1>5. S!Due # {}
    BY <1>1, <1>3
  <1>6. revents' \in [Chans -> SUBSET S!Events]
    <2>1. ChanTypeOK'
      BY PollPollKeeps DEF PollInv
    <2>2. QED BY <2>1 DEF ChanTypeOK, S!Events, S!Askable
  <1>7. [c \in Chans |-> Treated(c)]' = [c \in Chans |-> Treated(c)]
    BY <1>1, TreatedKept, AllTreatedKept
  <1>8. \A c \in S!Due : revents'[c] \in {S!News(c), events[c]} \ {{}}
    BY <1>2
  <1>9. S!Quiet
    BY <1>1 DEF S!Quiet, Active
  <1>10. \E D \in SUBSET S!Due :
            /\ D = S!Due \/ S!Cardinality(D) = size
            /\ D # {}
            /\ revents' \in [Chans -> SUBSET S!Events]
            /\ \A c \in D : revents'[c] \in {S!News(c), events[c]} \ {{}}
            /\ \A c \in Chans \ D : revents'[c] = {}
    BY <1>4, <1>5, <1>6, <1>8, Zenon
  <1>11. size' \in {size, 2 * size} /\ UNCHANGED <<fd, events, ready>>
    BY <1>1
  <1>12. QED BY <1>7, <1>9, <1>10, <1>11, Zenon DEF S!Poll

LEMMA StepSelects ==
    ASSUME Inv, Inv', Finite, [Next]_vars
    PROVE  [S!Next]_S!vars
  <1>1. CASE Epolls(EpollNext)
    <2>1. kind = "epoll" /\ UNCHANGED kind /\ EpollInv /\ EpollNext
      BY <1>1 DEF Epolls, Inv
    <2>2. CASE ChanStep /\ UNCHANGED epollVars
      BY <2>1, <2>2, ChanStepSelects DEF epollVars
    <2>3. ASSUME NEW c \in Chans, NEW ev \in Wanted(c), EpollUpdate(c, ev)
          PROVE  S!Next
      BY <2>1, <2>3, EpollUpdateAsks DEF S!Next
    <2>4. ASSUME NEW c \in Chans, EpollRemove(c)
          PROVE  S!Next
      BY <2>1, <2>4, EpollRemoveCloses DEF S!Next
    <2>5. CASE EpollPoll
      BY <2>1, <2>5, EpollPollTells DEF S!Next
    <2>6. QED BY <2>1, <2>2, <2>3, <2>4, <2>5 DEF EpollNext
  <1>2. CASE Polls(PollNext)
    <2>1. kind = "poll" /\ UNCHANGED <<kind, size>> /\ PollInv /\ PollInv' /\ PollNext
      BY <1>2 DEF Polls, Inv, epollVars
    <2>2. CASE ChanStep /\ UNCHANGED pollfds
      BY <2>1, <2>2, ChanStepSelects
    <2>3. ASSUME NEW c \in Chans, NEW ev \in Wanted(c), PollUpdate(c, ev)
          PROVE  S!Next
      BY <2>1, <2>3, PollUpdateAsks DEF S!Next
    <2>4. ASSUME NEW c \in Chans, PollRemove(c)
          PROVE  S!Next
      BY <2>1, <2>4, PollRemoveCloses DEF S!Next
    <2>5. CASE PollPoll
      BY <2>1, <2>5, PollPollTells DEF S!Next
    <2>6. QED BY <2>1, <2>2, <2>3, <2>4, <2>5 DEF PollNext
  <1>3. CASE UNCHANGED vars
    <2>1. UNCHANGED <<kind, fd, events, index, revents, ready, silenced, size>>
      BY <1>3 DEF vars, chanVars, epollVars
    <2>2. [c \in Chans |-> Treated(c)]' = [c \in Chans |-> Treated(c)]
      BY <2>1, TreatedKept, AllTreatedKept
    <2>3. QED BY <2>1, <2>2 DEF S!vars
  <1>4. QED BY <1>1, <1>2, <1>3 DEF Next

LEMMA InitSelects ==
    ASSUME Init
    PROVE  S!Init /\ Finite
  <1>1. \A c \in Chans : ~Exists(c)
    BY DEF Init, EpollInit, ChanInit, Exists
  <1>2. Finite
    <2>1. {c \in Chans : Exists(c)} = {}
      BY <1>1
    <2>2. QED BY <2>1, FS_EmptySet DEF Finite
  <1>3. [c \in Chans |-> Treated(c)] = [c \in Chans |-> "gone"]
    BY <1>1 DEF Treated
  <1>4. QED BY <1>2, <1>3, SizeAssumption DEF Init, EpollInit, ChanInit, S!Init

\* Both demultiplexers implement Selector: whatever channels come, change and go
\* in whatever order, and whichever descriptors they are given, a poll tells
\* those channels that have something to be told, and none of them is left out
\* unless the list of events is full.
THEOREM DemuxRefinement == Spec => ImplementsSelector
  <1>1. Spec => []Finite
    BY InitSelects, FiniteKept, PTL DEF Spec
  <1>2. QED BY <1>1, InvHolds, InitSelects, StepSelects, PTL
            DEF Spec, ImplementsSelector, S!Spec
==============================================================================
