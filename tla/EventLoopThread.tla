-------------------------- MODULE EventLoopThread --------------------------
(***************************************************************************)
(* An EventLoopThread: the owner constructs it, which starts a thread that *)
(* creates an EventLoop on its stack, publishes it in loop_ and runs it;   *)
(* StartLoop waits on mutex_ and cond_ for loop_; the destructor quits the *)
(* loop and joins the thread.                                              *)
(*                                                                         *)
(* The loop is that of module EventLoop, its calls and its threads         *)
(* included; here it is entered once and destroyed when Loop() returns. A  *)
(* program has loops of both kinds: thread = "none" is one that no         *)
(* EventLoopThread made, whose thread enters Loop() and queues functors    *)
(* outside it as it likes.                                                 *)
(* The owner always calls StartLoop before the destructor; users stop      *)
(* using a loop that has returned, the destructor cannot know. A call that *)
(* finds the loop destroyed, as the destructor's may, is let through.      *)
(***************************************************************************)
EXTENDS EventLoop

CONSTANT Owner

ASSUME OwnerAssumption == Owner \in Threads

VARIABLES thread,   \* where ThreadFunc is, or "none"
          owner,    \* where the owner is: before, in or after StartLoop, ...
          loopSet   \* loop_ is not null

threadVars == <<thread, owner, loopSet>>
allVars == <<vars, threadVars>>

ThreadInit == /\ Init
              /\ \/ thread = "starting" /\ owner = "constructed"
                 \/ thread = "none" /\ owner = "none"
              /\ loopSet = FALSE

\* A loop without an EventLoopThread.
Base(A) == /\ thread = "none"
           /\ A
           /\ UNCHANGED threadVars
-----------------------------------------------------------------------------
(* ThreadFunc. *)

\* Mutant: nobody is notified.
PublishSilent == /\ thread = "starting"
                 /\ thread' = "published"
                 /\ loopSet' = TRUE
                 /\ UNCHANGED <<vars, owner>>

\* The critical section: loop_ = &loop and notify_all.
Publish == /\ thread = "starting"
           /\ thread' = "published"
           /\ loopSet' = TRUE
           /\ owner' = IF owner = "waiting" THEN "woken" ELSE owner
           /\ UNCHANGED vars

EnterLoop == /\ thread = "published"
             /\ Loop
             /\ thread' = "looping"
             /\ UNCHANGED <<owner, loopSet>>

InLoop(A) == /\ thread = "looping"
             /\ Looping
             /\ A
             /\ UNCHANGED threadVars

\* Loop() has returned; the EventLoop dies with ThreadFunc's stack frame.
Return == /\ thread = "looping"
          /\ pc = "stopped"
          /\ thread' = "exited"
          /\ UNCHANGED <<vars, owner, loopSet>>
-----------------------------------------------------------------------------
(* The owner. *)

\* Mutant: the owner goes on with a null loop_.
StartLoopLeft == /\ owner \in {"constructed", "woken"}
                 /\ owner' = IF loopSet THEN "using" ELSE "null"
                 /\ UNCHANGED <<vars, thread, loopSet>>

\* Mutant: "if" for "while" around cond_.wait.
StartLoopOnce == /\ owner \in {"constructed", "woken"}
                 /\ owner' = IF loopSet \/ owner = "woken"
                             THEN "using" ELSE "waiting"
                 /\ UNCHANGED <<vars, thread, loopSet>>

\* One pass of StartLoop's while, entered holding the mutex.
StartLoop == /\ owner \in {"constructed", "woken"}
             /\ owner' = IF loopSet THEN "using" ELSE "waiting"
             /\ UNCHANGED <<vars, thread, loopSet>>

\* cond_.wait may return without a notification.
SpuriousWakeup == /\ owner = "waiting"
                  /\ owner' = "woken"
                  /\ UNCHANGED <<vars, thread, loopSet>>

\* Mutant: the destructor sets the flag itself and wakes nobody.
DtorQuitSilent == /\ owner = "using"
                  /\ tpc[Owner] = "idle"
                  /\ QuitSilent(Owner)
                  /\ owner' = "joining"
                  /\ UNCHANGED <<thread, loopSet>>

\* The destructor, up to Quit's call of Wakeup.
DtorQuit == /\ owner = "using"
            /\ Quit(Owner)
            /\ owner' = "joining"
            /\ UNCHANGED <<thread, loopSet>>

Join == /\ owner = "joining"
        /\ tpc[Owner] = "idle"
        /\ thread = "exited"
        /\ owner' = "joined"
        /\ UNCHANGED <<vars, thread, loopSet>>
-----------------------------------------------------------------------------
\* Calls of the owner and of other threads it gave the loop to.
Use(t) == /\ owner = "using"
          /\ thread # "exited"
          /\ ThreadCall(t)
          /\ UNCHANGED threadVars

FinishCall(t) == Wakeup(t) /\ UNCHANGED threadVars

ThreadNext == \/ Publish \/ EnterLoop \/ Return
              \/ InLoop(LoopStep) \/ InLoop(Poll) \/ InLoop(SelfCall)
              \/ StartLoop \/ SpuriousWakeup \/ DtorQuit \/ Join
              \/ \E t \in Threads : Use(t) \/ FinishCall(t)
              \/ Base(Loop) \/ Base(LoopStep) \/ Base(Poll) \/ Base(SelfCall)
              \/ \E t \in Threads : Base(ThreadCall(t))

\* As in EventLoop; and the new thread gets on, a notified owner gets the
\* mutex, and join returns when the thread is over. Nothing makes cond_.wait
\* return spuriously or the owner call StartLoop or the destructor.
ThreadFairness == /\ WF_allVars(Publish)
                  /\ WF_allVars(EnterLoop)
                  /\ WF_allVars(Return)
                  /\ WF_allVars(InLoop(LoopStep))
                  /\ WF_allVars(InLoop(PollSignalled))
                  /\ WF_allVars(Base(LoopStep))
                  /\ WF_allVars(Base(PollSignalled))
                  /\ \A t \in Threads : WF_allVars(FinishCall(t))
                  /\ WF_allVars(owner = "woken" /\ StartLoop)
                  /\ WF_allVars(Join)

ThreadSpec == ThreadInit /\ [][ThreadNext]_allVars /\ ThreadFairness
-----------------------------------------------------------------------------
ThreadTypeOK ==
    /\ TypeOK
    /\ thread \in {"none", "starting", "published", "looping", "exited"}
    /\ owner \in {"none", "constructed", "waiting", "woken", "using",
                  "joining", "joined"}
    /\ loopSet \in BOOLEAN

\* StartLoop returns a loop that was created and published, never null,
\* whichever thread is first and however often cond_.wait returns for nothing.
StartedLoopExists ==
    owner \in {"using", "joining", "joined"} =>
        loopSet /\ thread \in {"published", "looping", "exited"}

\* StartLoop never waits for a notification that was already given.
StartReturns == (owner = "waiting") ~> (owner = "using")

\* A destructor whose Quit reaches a loop that has been entered returns: the
\* loop sees quit_, Loop() returns, and the join with it.
JoinReturns == (owner = "joining" /\ quit /\ Looping) ~> (owner = "joined")

\* The destructor returns. (It does not: Loop() resets quit_.)
DtorReturns == (owner = "joining") ~> (owner = "joined")
=============================================================================
