------------------------------ MODULE Selector ------------------------------
(***************************************************************************)
(* What a loop relies on in its demultiplexer: a poll tells the channels   *)
(* that exist and have something to be told, all of them or as many as the *)
(* list has room for, and no others, whatever channels came and went and   *)
(* got their descriptors before. How this is known (tables, indices, what  *)
(* the kernel was told) is left out.                                       *)
(***************************************************************************)
EXTENDS Naturals, FiniteSets

CONSTANTS Chans, Fds, None

VARIABLES state,   \* "gone", "new" until the channel asks for something, then
                   \* "heard" or "ignored"
          fd,      \* the descriptors of the channels that are not gone
          asked,   \* what a channel asks for
          ready,   \* what is the case on a descriptor
          told,    \* what the channels were told and have not handled yet
          room     \* how many channels a poll can tell at least

vars == <<state, fd, asked, ready, told, room>>

Askable == {"in", "out"}
Events == Askable \cup {"hup"}

Init == /\ state = [c \in Chans |-> "gone"]
        /\ fd = [c \in Chans |-> None]
        /\ asked = [c \in Chans |-> {}]
        /\ ready = [f \in Fds |-> {}]
        /\ told = [c \in Chans |-> {}]
        /\ room \in Nat \ {0}

Quiet == \A c \in Chans : told[c] = {}
Open(f) == \E c \in Chans : fd[c] = f

Create(c, f) == /\ state[c] = "gone"
                /\ ~Open(f)
                /\ state' = [state EXCEPT ![c] = "new"]
                /\ fd' = [fd EXCEPT ![c] = f]
                /\ UNCHANGED <<asked, ready, told, room>>

\* A channel that asks for nothing may be ignored from then on, also when it
\* asks for something again: that is as the Poller has it.
Ask(c, ev) ==
    /\ state[c] # "gone"
    /\ state[c] = "new" => ev # {}
    /\ asked' = [asked EXCEPT ![c] = ev]
    /\ \/ state' = [state EXCEPT ![c] = "heard"]
       \/ /\ ev = {} \/ state[c] = "ignored"
          /\ state' = [state EXCEPT ![c] = "ignored"]
    /\ UNCHANGED <<fd, ready, told, room>>

Close(c) == /\ state[c] \in {"heard", "ignored"}
            /\ asked[c] = {}
            /\ Quiet
            /\ state' = [state EXCEPT ![c] = "gone"]
            /\ fd' = [fd EXCEPT ![c] = None]
            /\ ready' = [ready EXCEPT ![fd[c]] = {}]
            /\ UNCHANGED <<asked, told, room>>

Happens(f, es) == /\ Open(f)
                  /\ ready' = [ready EXCEPT ![f] = es]
                  /\ UNCHANGED <<state, fd, asked, told, room>>

\* What there is to tell a channel: what it asks for, and hang-ups unasked.
News(c) == ready[fd[c]] \cap (asked[c] \cup {"hup"})

Due == {c \in Chans : state[c] = "heard" /\ News(c) # {}}

\* A channel is told the news, or, as the Poller has it, all it asks for.
Poll == /\ Quiet
        /\ \E C \in SUBSET Due :
              /\ C = Due \/ Cardinality(C) = room
              /\ C # {}
              /\ told' \in [Chans -> SUBSET Events]
              /\ \A c \in C : told'[c] \in {News(c), asked[c]} \ {{}}
              /\ \A c \in Chans \ C : told'[c] = {}
        /\ room' \in {room, 2 * room}
        /\ UNCHANGED <<state, fd, asked, ready>>

Handle(c) == /\ told[c] # {}
             /\ told' = [told EXCEPT ![c] = {}]
             /\ UNCHANGED <<state, fd, asked, ready, room>>

Next == \/ \E f \in Fds, es \in SUBSET Events : Happens(f, es)
        \/ Poll
        \/ \E c \in Chans : \/ Handle(c)
                            \/ \E f \in Fds : Create(c, f)
                            \/ \E ev \in SUBSET Askable : Ask(c, ev)
                            \/ Close(c)

Spec == Init /\ [][Next]_vars
=============================================================================
