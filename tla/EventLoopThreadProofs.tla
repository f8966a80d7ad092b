----------------------- MODULE EventLoopThreadProofs -----------------------
(***************************************************************************)
(* Theorems about EventLoopThread. Every step of it is a step of its loop  *)
(* or leaves the loop alone, so that what EventLoopProofs shows of a loop  *)
(* holds of one that lives in a thread.                                    *)
(***************************************************************************)
EXTENDS EventLoopThread, EventLoopProofs

LEMMA LoopOrStutter == [ThreadNext]_allVars => [Next]_vars
  <1> SUFFICES ASSUME [ThreadNext]_allVars PROVE [Next]_vars
    OBVIOUS
  <1>1. CASE Publish \/ Return \/ StartLoop \/ SpuriousWakeup \/ Join
    BY <1>1 DEF Publish, Return, StartLoop, SpuriousWakeup, Join
  <1>2. CASE EnterLoop
    BY <1>2 DEF EnterLoop, Next
  <1>3. CASE InLoop(LoopStep) \/ InLoop(Poll) \/ InLoop(SelfCall)
    BY <1>3 DEF InLoop, Next
  <1>4. CASE DtorQuit
    BY <1>4, OwnerAssumption DEF DtorQuit, Next, ThreadCall
  <1>5. ASSUME NEW t \in Threads, Use(t) \/ FinishCall(t) PROVE [Next]_vars
    BY <1>5 DEF Use, FinishCall, Next
  <1>6. CASE \/ Base(Loop) \/ Base(LoopStep) \/ Base(Poll) \/ Base(SelfCall)
             \/ \E t \in Threads : Base(ThreadCall(t))
    BY <1>6 DEF Base, Next
  <1>7. CASE UNCHANGED allVars
    BY <1>7 DEF allVars
  <1> QED
    BY <1>1, <1>2, <1>3, <1>4, <1>5, <1>6, <1>7 DEF ThreadNext
-----------------------------------------------------------------------------
(***************************************************************************)
(* loop_ and the progress of ThreadFunc say the same thing, and the owner  *)
(* gets past StartLoop only when it has seen loop_ under the mutex.        *)
(***************************************************************************)
StartInv ==
    /\ thread \in {"none", "starting", "published", "looping", "exited"}
    /\ owner \in {"none", "constructed", "waiting", "woken", "using",
                  "joining", "joined"}
    /\ loopSet \in BOOLEAN
    /\ loopSet <=> thread \notin {"none", "starting"}
    /\ owner = "none" <=> thread = "none"
    /\ owner \in {"using", "joining", "joined"} => loopSet

LEMMA StartInit == ThreadInit => StartInv
  BY DEF ThreadInit, StartInv

LEMMA StartStep == StartInv /\ [ThreadNext]_allVars => StartInv'
  <1> SUFFICES ASSUME StartInv, [ThreadNext]_allVars PROVE StartInv'
    OBVIOUS
  <1> USE DEF StartInv
  <1>1. CASE Publish
    BY <1>1 DEF Publish
  <1>2. CASE EnterLoop
    BY <1>2 DEF EnterLoop
  <1>3. CASE Return
    BY <1>3 DEF Return
  <1>4. CASE InLoop(LoopStep) \/ InLoop(Poll) \/ InLoop(SelfCall)
    BY <1>4 DEF InLoop, threadVars
  <1>5. CASE StartLoop
    BY <1>5 DEF StartLoop
  <1>6. CASE SpuriousWakeup
    BY <1>6 DEF SpuriousWakeup
  <1>7. CASE DtorQuit
    BY <1>7 DEF DtorQuit
  <1>8. CASE Join
    BY <1>8 DEF Join
  <1>9. ASSUME NEW t \in Threads, Use(t) \/ FinishCall(t) PROVE StartInv'
    BY <1>9 DEF Use, FinishCall, threadVars
  <1>10. CASE \/ Base(Loop) \/ Base(LoopStep) \/ Base(Poll) \/ Base(SelfCall)
              \/ \E t \in Threads : Base(ThreadCall(t))
    BY <1>10 DEF Base, threadVars
  <1>11. CASE UNCHANGED allVars
    BY <1>11 DEF allVars, threadVars
  <1> QED
    BY <1>1, <1>2, <1>3, <1>4, <1>5, <1>6, <1>7, <1>8, <1>9, <1>10, <1>11
       DEF ThreadNext

THEOREM ThreadInductive == ThreadSpec => [](IInv /\ StartInv)
  <1>1. ThreadInit => IInv
    BY TypeInit, WakeupInit DEF ThreadInit, IInv
  <1>2. IInv /\ [ThreadNext]_allVars => IInv'
    BY LoopOrStutter, TypeStep, WakeupStep DEF IInv
  <1> QED
    BY <1>1, <1>2, StartInit, StartStep, PTL DEF ThreadSpec

\* The state of the thread, its owner and its loop keeps its type.
THEOREM ThreadTypeCorrect == ThreadSpec => []ThreadTypeOK
  <1>1. IInv /\ StartInv => ThreadTypeOK
    BY DEF IInv, StartInv, ThreadTypeOK
  <1> QED
    BY <1>1, ThreadInductive, PTL

\* EventLoopThread::StartLoop returns a loop that was created and published,
\* however many spurious wakeups cond_.wait has.
THEOREM StartedExists == ThreadSpec => []StartedLoopExists
  <1>1. StartInv => StartedLoopExists
    BY DEF StartInv, StartedLoopExists
  <1> QED
    BY <1>1, ThreadInductive, PTL

\* A loop in a thread of its own, the destructor's Quit included, never sleeps
\* on what it was given.
THEOREM ThreadWakeupsReach == ThreadSpec => []NoLostWakeup
  <1>1. IInv => NoLostWakeup
    BY DEF IInv, WakeupInv, NoLostWakeup, Unannounced
  <1> QED
    BY <1>1, ThreadInductive, PTL

\* Each functor is run at most once, on a loop of the program's own or on one
\* that lives in an EventLoopThread.
THEOREM ThreadRunsAtMostOnce == ThreadSpec => []AtMostOnce
  <1>1. ThreadInit => OnceInv
    BY OnceInit DEF ThreadInit
  <1>2. IInv /\ OnceInv /\ [ThreadNext]_allVars => OnceInv'
    BY LoopOrStutter, OnceStep
  <1> QED
    BY <1>1, <1>2, OnceMeans, ThreadInductive, PTL DEF ThreadSpec

\* And in the order they were queued in.
THEOREM ThreadRefinement == ThreadSpec => ImplementsTaskQueue
  <1>1. ThreadInit => TQ!Init
    BY ConcatEmptySeq, EmptySeq DEF ThreadInit, Init, TQ!Init
  <1>2. IInv /\ [ThreadNext]_allVars => [TQ!Next]_(TQ!vars)
    BY LoopOrStutter, StepRefines
  <1> QED
    BY <1>1, <1>2, ThreadInductive, PTL
       DEF ThreadSpec, ImplementsTaskQueue, TQ!Spec
=============================================================================
