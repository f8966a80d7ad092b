----------------------------- MODULE EventLoop -----------------------------
(***************************************************************************)
(* One EventLoop: the thread inside Loop(), the eventfd that wakes it, the *)
(* mutex-protected list of functors, and the threads that call             *)
(* QueueInLoop, RunInLoop and Quit on it.                                  *)
(*                                                                         *)
(* The two critical sections on mutex_ (push_back and swap) are atomic     *)
(* steps; between the push and the write to the eventfd, and between       *)
(* quit_ = true and that write, every other thread may step. The eventfd's *)
(* counter is abstracted to "readable or not". quit_ is a plain bool, read *)
(* and written without the mutex: its accesses are taken to be sequentially*)
(* consistent.                                                             *)
(***************************************************************************)
EXTENDS Naturals, Sequences

CONSTANTS Threads,     \* the threads other than the loop's own
          Tasks,       \* the functors, each posted at most once
          EarlyTasks   \* those the loop's thread may queue outside Loop()

ASSUME EarlyAssumption == EarlyTasks \subseteq Tasks

VARIABLES pc,          \* where the loop's thread is
          quit,        \* quit_
          calling,     \* call_pending_functors_
          signalled,   \* the eventfd's counter is not 0
          active,      \* active_channels_ not yet handled
          pending,     \* pending_functors_
          functors,    \* DoPendingFunctors' local list, what is left of it
          ran,         \* history: the functors started, in order
          tpc          \* tpc[t]: "wake" when t still has to write the eventfd

vars == <<pc, quit, calling, signalled, active, pending, functors, ran, tpc>>

Channels == {"wakeup", "io"}  \* "io": any channel with user callbacks
Outside == {"created", "stopped"}
UserCode == {"handler", "functor"}
Looping == pc \notin Outside

Entries(s) == {s[i] : i \in DOMAIN s}
Queued(x) == x \in Entries(functors \o pending)
Posted(x) == Queued(x) \/ x \in Entries(ran)

Init == /\ pc = "created"
        /\ quit = FALSE
        /\ calling = FALSE
        /\ signalled = FALSE
        /\ active = {}
        /\ pending = <<>>
        /\ functors = <<>>
        /\ ran = <<>>
        /\ tpc = [t \in Threads |-> "idle"]
-----------------------------------------------------------------------------
(* The loop's thread, inside Loop(). *)

\* Loop() is entered; assert(!looping_) allows it again after it returned.
Loop == /\ pc \in Outside
        /\ pc' = "test"
        /\ quit' = FALSE
        /\ UNCHANGED <<calling, signalled, active, pending, functors, ran, tpc>>

TestQuit == /\ pc = "test"
            /\ pc' = IF quit THEN "stopped" ELSE "poll"
            /\ UNCHANGED <<quit, calling, signalled, active, pending,
                           functors, ran, tpc>>

\* epoll_wait returns: with ready channels, or none (time-out, signal). The
\* event list may be too short for all that is ready, so that a readable
\* eventfd may be left for the next round.
PollReturns(a) == /\ pc = "poll"
                  /\ "wakeup" \in a => signalled
                  /\ active' = a
                  /\ pc' = "events"
                  /\ UNCHANGED <<quit, calling, signalled, pending, functors,
                                 ran, tpc>>

Poll == \E a \in SUBSET Channels : PollReturns(a)

\* epoll_wait does not block while the eventfd is readable.
PollSignalled == signalled /\ Poll

\* The wakeup channel's callback.
HandleRead == /\ pc = "events"
              /\ "wakeup" \in active
              /\ active' = active \ {"wakeup"}
              /\ signalled' = FALSE
              /\ UNCHANGED <<pc, quit, calling, pending, functors, ran, tpc>>

BeginHandler == /\ pc = "events"
                /\ "io" \in active
                /\ active' = active \ {"io"}
                /\ pc' = "handler"
                /\ UNCHANGED <<quit, calling, signalled, pending, functors,
                               ran, tpc>>

EndHandler == /\ pc = "handler"
              /\ pc' = "events"
              /\ UNCHANGED <<quit, calling, signalled, active, pending,
                             functors, ran, tpc>>

\* DoPendingFunctors, up to the end of its critical section.
TakePending == /\ pc = "events"
               /\ active = {}
               /\ calling' = TRUE
               /\ functors' = pending
               /\ pending' = <<>>
               /\ pc' = "functors"
               /\ UNCHANGED <<quit, signalled, active, ran, tpc>>

BeginFunctor == /\ pc = "functors"
                /\ functors # <<>>
                /\ ran' = Append(ran, Head(functors))
                /\ functors' = Tail(functors)
                /\ pc' = "functor"
                /\ UNCHANGED <<quit, calling, signalled, active, pending, tpc>>

EndFunctor == /\ pc = "functor"
              /\ pc' = "functors"
              /\ UNCHANGED <<quit, calling, signalled, active, pending,
                             functors, ran, tpc>>

\* Mutant: the eventfd is drained after the functors, not before the swap.
FunctorsDoneDrains == /\ pc = "functors"
                      /\ functors = <<>>
                      /\ calling' = FALSE
                      /\ signalled' = FALSE
                      /\ pc' = "test"
                      /\ UNCHANGED <<quit, active, pending, functors, ran, tpc>>

FunctorsDone == /\ pc = "functors"
                /\ functors = <<>>
                /\ calling' = FALSE
                /\ pc' = "test"
                /\ UNCHANGED <<quit, signalled, active, pending, functors,
                               ran, tpc>>
-----------------------------------------------------------------------------
(* Calls made by the loop's own thread: from a channel's callback or a     *)
(* functor, or by the function that owns the loop outside Loop().          *)

\* Mutant: QueueInLoop does not look at call_pending_functors_.
QueueSelfSilent(x) == /\ \/ pc \in UserCode
                         \/ pc \in Outside /\ x \in EarlyTasks
                      /\ ~Posted(x)
                      /\ pending' = Append(pending, x)
                      /\ UNCHANGED <<pc, quit, calling, signalled, active,
                                     functors, ran, tpc>>

QueueSelf(x) == /\ \/ pc \in UserCode
                   \/ pc \in Outside /\ x \in EarlyTasks
                /\ ~Posted(x)
                /\ pending' = Append(pending, x)
                /\ signalled' = (signalled \/ calling)
                /\ UNCHANGED <<pc, quit, calling, active, functors, ran, tpc>>

RunSelf(x) == /\ pc \in UserCode \cup Outside
              /\ ~Posted(x)
              /\ ran' = Append(ran, x)
              /\ UNCHANGED <<pc, quit, calling, signalled, active, pending,
                             functors, tpc>>

QuitSelf == /\ pc \in UserCode \cup Outside
            /\ quit' = TRUE
            /\ UNCHANGED <<pc, calling, signalled, active, pending, functors,
                           ran, tpc>>
-----------------------------------------------------------------------------
(* Calls made by the other threads. *)

\* Mutant: the functor is pushed to the front.
QueueFront(t, x) == /\ tpc[t] = "idle"
                    /\ ~Posted(x)
                    /\ pending' = <<x>> \o pending
                    /\ tpc' = [tpc EXCEPT ![t] = "wake"]
                    /\ UNCHANGED <<pc, quit, calling, signalled, active,
                                   functors, ran>>

\* QueueInLoop, and RunInLoop which comes to the same, up to the unlock.
Queue(t, x) == /\ tpc[t] = "idle"
               /\ ~Posted(x)
               /\ pending' = Append(pending, x)
               /\ tpc' = [tpc EXCEPT ![t] = "wake"]
               /\ UNCHANGED <<pc, quit, calling, signalled, active, functors,
                              ran>>

\* Mutant: Quit sets the flag and leaves it at that.
QuitSilent(t) == /\ tpc[t] = "idle"
                 /\ quit' = TRUE
                 /\ UNCHANGED <<pc, calling, signalled, active, pending,
                                functors, ran, tpc>>

\* Quit, up to its call of Wakeup.
Quit(t) == /\ tpc[t] = "idle"
           /\ quit' = TRUE
           /\ tpc' = [tpc EXCEPT ![t] = "wake"]
           /\ UNCHANGED <<pc, calling, signalled, active, pending, functors,
                          ran>>

Wakeup(t) == /\ tpc[t] = "wake"
             /\ signalled' = TRUE
             /\ tpc' = [tpc EXCEPT ![t] = "idle"]
             /\ UNCHANGED <<pc, quit, calling, active, pending, functors, ran>>
-----------------------------------------------------------------------------
LoopStep == \/ TestQuit \/ HandleRead \/ BeginHandler \/ EndHandler
            \/ TakePending \/ BeginFunctor \/ EndFunctor \/ FunctorsDone

SelfCall == QuitSelf \/ \E x \in Tasks : QueueSelf(x) \/ RunSelf(x)

ThreadCall(t) == Quit(t) \/ \E x \in Tasks : Queue(t, x)

Next == \/ Loop
        \/ LoopStep
        \/ Poll
        \/ SelfCall
        \/ \E t \in Threads : ThreadCall(t) \/ Wakeup(t)

\* Callbacks return, a ready epoll_wait returns, and a thread that has entered
\* QueueInLoop or Quit leaves it. Nothing says that a socket ever becomes
\* ready, that anybody calls anything, or (Poll has no fairness of its own)
\* that the 10-second time-out of epoll_wait comes to the rescue.
Fairness == /\ WF_vars(LoopStep)
            /\ WF_vars(PollSignalled)
            /\ \A t \in Threads : WF_vars(Wakeup(t))

Spec == Init /\ [][Next]_vars /\ Fairness
-----------------------------------------------------------------------------
TypeOK == /\ pc \in Outside \cup UserCode
                      \cup {"test", "poll", "events", "functors"}
          /\ quit \in BOOLEAN
          /\ calling \in BOOLEAN
          /\ signalled \in BOOLEAN
          /\ active \in SUBSET Channels
          /\ pending \in Seq(Tasks)
          /\ functors \in Seq(Tasks)
          /\ ran \in Seq(Tasks)
          /\ tpc \in [Threads -> {"idle", "wake"}]

\* A wakeup is on its way: the eventfd is readable, or a thread inside
\* QueueInLoop or Quit is about to make it so.
Waking == signalled \/ \E t \in Threads : tpc[t] = "wake"

\* The thread never goes to sleep in epoll_wait on work it was given: when it
\* is there and a functor is pending or the loop was told to quit, a wakeup is
\* on its way. (QueueInLoop's test of call_pending_functors_, its order of push
\* and write, and the order of HandleRead and the swap are what makes it so;
\* functors the owner queued before Loop() are excepted, no wakeup is written
\* for them.)
NoLostWakeup ==
    pc = "poll" /\ (quit \/ Entries(pending) \ EarlyTasks # {}) => Waking

\* No functor is started twice, nor is one started while it is still queued.
AtMostOnce ==
    LET all == ran \o functors \o pending
    IN  \A i, j \in DOMAIN all : all[i] = all[j] => i = j

TQ == INSTANCE TaskQueue WITH q <- functors \o pending

\* The two lists behave as one first-in first-out queue: the swap of
\* DoPendingFunctors, whatever is pushed meanwhile, never reorders, loses or
\* repeats a functor.
ImplementsTaskQueue == TQ!Spec

\* A functor that is queued while the loop runs (the early ones excepted) is
\* run, or the loop is stopped; no time-out of epoll_wait is needed for it.
QueuedRuns == \A x \in Tasks \ EarlyTasks :
                 (Queued(x) /\ Looping) ~> (x \in Entries(ran) \/ ~Looping)

\* A loop told to quit while it is looping returns from Loop().
QuitStops == (quit /\ Looping) ~> ~Looping
=============================================================================
