----------------------------- MODULE TaskQueue -----------------------------
(***************************************************************************)
(* What EventLoop promises about the functors handed to it: each is run at *)
(* most once, those that are queued are run in the order they were queued, *)
(* and a functor passed to RunInLoop by the loop's own thread runs at once,*)
(* ahead of everything that is queued.                                     *)
(***************************************************************************)
EXTENDS Naturals, Sequences

CONSTANT Tasks      \* the functors that may be posted

VARIABLES q,        \* the functors queued and not yet started, oldest first
          ran       \* the functors started, in the order they were started

vars == <<q, ran>>

Entries(s) == {s[i] : i \in DOMAIN s}

New(x) == x \notin Entries(q) \cup Entries(ran)

Init == q = <<>> /\ ran = <<>>

\* QueueInLoop.
Enqueue(x) == New(x) /\ q' = Append(q, x) /\ ran' = ran

\* The loop takes up the oldest queued functor.
Serve == q # <<>> /\ q' = Tail(q) /\ ran' = Append(ran, Head(q))

\* RunInLoop on the loop's own thread.
Direct(x) == New(x) /\ ran' = Append(ran, x) /\ q' = q

Next == Serve \/ \E x \in Tasks : Enqueue(x) \/ Direct(x)

Spec == Init /\ [][Next]_vars
=============================================================================
