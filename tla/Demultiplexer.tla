--------------------------- MODULE Demultiplexer ---------------------------
(***************************************************************************)
(* The poller_ of an EventLoop: an Epoller, or the Poller that it can be   *)
(* exchanged for. They have the same interface and are used alike; kind    *)
(* tells which one a program was built with.                               *)
(***************************************************************************)
EXTENDS Epoller, Poller

VARIABLE kind   \* "epoll" or "poll"

vars == <<chanVars, kind, epollVars, pollfds>>

Init == /\ kind \in {"epoll", "poll"}
        /\ EpollInit
        /\ PollInit

\* A step of the demultiplexer the program has.
Epolls(A) == kind = "epoll" /\ A /\ UNCHANGED <<kind, pollfds>>
Polls(A) == kind = "poll" /\ A /\ UNCHANGED <<kind, epollVars>>

Next == Epolls(EpollNext) \/ Polls(PollNext)

\* EventLoop::Loop polls again and again, and handles what it was told.
Poll == Epolls(EpollPoll) \/ Polls(PollPoll)
Handle(c) == Handled(c) /\ UNCHANGED <<kind, epollVars, pollfds>>

Fairness == /\ WF_vars(Poll)
            /\ \A c \in Chans : WF_vars(Handle(c))

Spec == Init /\ [][Next]_vars /\ Fairness
-----------------------------------------------------------------------------
TypeOK == /\ ChanTypeOK
          /\ kind \in {"epoll", "poll"}
          /\ kind = "epoll" => EpollTypeOK
          /\ kind = "poll" => PollTypeOK

\* What channels_, index_ and the kernel's view (the epoll set, or pollfds_) say
\* of the channels is the same, and is what the channels ask for: see
\* EpollTables and PollTables.
TablesAgree == /\ kind = "epoll" => EpollTables
               /\ kind = "poll" => PollTables

\* The asserts of UpdateChannel, RemoveChannel and FillActiveChannels hold,
\* whatever order channels come, change and go in, and whichever descriptors
\* they get.
NoAssertFails == ~fault

\* What a poll reports, it reports to a channel that exists and for which
\* something is the case that it asked for, or that comes unasked; the Epoller
\* tells it exactly what.
Truthful ==
    [][Poll => \A c \in Chans :
          revents'[c] # {} =>
              /\ Exists(c)
              /\ Reported(fd[c], events[c]) # {}
              /\ kind = "epoll" => revents'[c] = Reported(fd[c], events[c])]_vars

\* Something a channel asks for is the case. (The Poller ignores a channel that
\* was silent once.)
Due(c) == /\ Exists(c)
          /\ events[c] \cap ready[fd[c]] # {}
          /\ ~(kind = "poll" /\ silenced[c])

\* It is reported, or it is over before, however many other channels are ready
\* all the time and however short the list of events was at first.
DueIsReported == \A c \in Chans : Due(c) ~> (c \in Active \/ ~Due(c))

\* How the demultiplexer treats a channel.
Treated(c) ==
    IF ~Exists(c) THEN "gone"
    ELSE IF index[c] = k_new THEN "new"
    ELSE IF \/ kind = "epoll" /\ index[c] = k_deleted
            \/ kind = "poll" /\ silenced[c]
         THEN "ignored"
    ELSE "heard"

S == INSTANCE Selector WITH state <- [c \in Chans |-> Treated(c)],
                            asked <- events,
                            told <- revents,
                            room <- size

\* Neither demultiplexer can be told from one that looks at the channels
\* themselves: nobody is told in another's place, for a descriptor that was
\* another's, or after it was removed, and nobody is left out as long as the
\* list has room.
ImplementsSelector == S!Spec
=============================================================================
