-------------------------- MODULE EventLoopProofs --------------------------
(***************************************************************************)
(* Theorems about EventLoop, for any set of threads and of functors.       *)
(***************************************************************************)
EXTENDS EventLoop, SequenceTheorems, TLAPS

\* The state of the loop keeps its type.
LEMMA TypeInit == Init => TypeOK
  <1> SUFFICES ASSUME Init PROVE TypeOK
    OBVIOUS
  <1>1. /\ <<>> \in Seq(Tasks)
        /\ [t \in Threads |-> "idle"] \in [Threads -> {"idle", "wake"}]
    OBVIOUS
  <1> QED
    BY <1>1 DEF Init, TypeOK, Outside, UserCode

LEMMA TypeStep == TypeOK /\ [Next]_vars => TypeOK'
  <1> SUFFICES ASSUME TypeOK, [Next]_vars PROVE TypeOK'
    OBVIOUS
  <1> USE DEF TypeOK, Outside, UserCode
  <1>1. CASE Loop
    BY <1>1 DEF Loop
  <1>2. CASE LoopStep
    <2>1. CASE TestQuit
      BY <2>1 DEF TestQuit
    <2>2. CASE HandleRead
      BY <2>2 DEF HandleRead
    <2>3. CASE BeginHandler
      BY <2>3 DEF BeginHandler
    <2>4. CASE EndHandler
      BY <2>4 DEF EndHandler
    <2>5. CASE TakePending
      BY <2>5 DEF TakePending
    <2>6. CASE BeginFunctor
      BY <2>6 DEF BeginFunctor
    <2>7. CASE EndFunctor
      BY <2>7 DEF EndFunctor
    <2>8. CASE FunctorsDone
      BY <2>8 DEF FunctorsDone
    <2> QED
      BY <1>2, <2>1, <2>2, <2>3, <2>4, <2>5, <2>6, <2>7, <2>8 DEF LoopStep
  <1>3. CASE Poll
    BY <1>3 DEF Poll, PollReturns
  <1>4. CASE SelfCall
    <2>1. CASE QuitSelf
      BY <2>1 DEF QuitSelf
    <2>2. ASSUME NEW x \in Tasks, QueueSelf(x) PROVE TypeOK'
      BY <2>2 DEF QueueSelf
    <2>3. ASSUME NEW x \in Tasks, RunSelf(x) PROVE TypeOK'
      BY <2>3 DEF RunSelf
    <2> QED
      BY <1>4, <2>1, <2>2, <2>3 DEF SelfCall
  <1>5. ASSUME NEW t \in Threads, ThreadCall(t) \/ Wakeup(t) PROVE TypeOK'
    <2>1. CASE Quit(t)
      BY <2>1 DEF Quit
    <2>2. ASSUME NEW x \in Tasks, Queue(t, x) PROVE TypeOK'
      BY <2>2 DEF Queue
    <2>3. CASE Wakeup(t)
      BY <2>3 DEF Wakeup
    <2> QED
      BY <1>5, <2>1, <2>2, <2>3 DEF ThreadCall
  <1>6. CASE UNCHANGED vars
    BY <1>6 DEF vars
  <1> QED
    BY <1>1, <1>2, <1>3, <1>4, <1>5, <1>6 DEF Next

THEOREM TypeCorrect == Spec => []TypeOK
  BY TypeInit, TypeStep, PTL DEF Spec
-----------------------------------------------------------------------------
(***************************************************************************)
(* NoLostWakeup is not inductive: it speaks of the one moment at which     *)
(* the thread is in epoll_wait. Between two polls the eventfd may be       *)
(* drained while functors are pending, as long as the swap is still to     *)
(* come; from the swap on, whatever is pending was announced.              *)
(***************************************************************************)
Unannounced == Entries(pending) \ EarlyTasks # {}

WakeupInv ==
    /\ functors # <<>> => pc \in {"functors", "functor"}
    /\ calling <=> pc \in {"functors", "functor"}
    /\ Unannounced => Waking \/ pc \in {"events", "handler"}
    /\ quit /\ pc = "poll" => Waking

IInv == TypeOK /\ WakeupInv

LEMMA WakeupInit == Init => WakeupInv
  BY DEF Init, WakeupInv, Unannounced, Entries

\* A pushed functor is the only one added to the pending ones.
LEMMA EntriesAppend ==
    ASSUME NEW s \in Seq(Tasks), NEW x \in Tasks
    PROVE  Entries(Append(s, x)) = Entries(s) \cup {x}
  <1>1. ASSUME NEW y PROVE y \in Entries(Append(s, x))
                              <=> y \in Entries(s) \cup {x}
    <2>1. ASSUME NEW i \in DOMAIN Append(s, x)
          PROVE  Append(s, x)[i] \in Entries(s) \cup {x}
      BY DEF Entries
    <2>2. ASSUME NEW i \in DOMAIN s PROVE s[i] \in Entries(Append(s, x))
      <3>1. i \in DOMAIN Append(s, x) /\ Append(s, x)[i] = s[i]
        OBVIOUS
      <3> QED
        BY <3>1 DEF Entries
    <2>3. x \in Entries(Append(s, x))
      <3>1. /\ Len(s) + 1 \in DOMAIN Append(s, x)
            /\ Append(s, x)[Len(s) + 1] = x
        OBVIOUS
      <3> QED
        BY <3>1 DEF Entries
    <2> QED
      BY <2>1, <2>2, <2>3 DEF Entries
  <1> QED
    BY <1>1

LEMMA WakeupStep == IInv /\ [Next]_vars => WakeupInv'
  <1> SUFFICES ASSUME IInv, [Next]_vars PROVE WakeupInv'
    OBVIOUS
  <1> USE DEF IInv, WakeupInv, Unannounced, Waking
  <1>1. CASE Loop
    BY <1>1 DEF Loop, Outside
  <1>2. CASE LoopStep
    <2>1. CASE TestQuit
      BY <2>1 DEF TestQuit
    <2>2. CASE HandleRead
      BY <2>2 DEF HandleRead
    <2>3. CASE BeginHandler
      BY <2>3 DEF BeginHandler
    <2>4. CASE EndHandler
      BY <2>4 DEF EndHandler
    <2>5. CASE TakePending
      BY <2>5 DEF TakePending, Entries
    <2>6. CASE BeginFunctor
      BY <2>6 DEF BeginFunctor
    <2>7. CASE EndFunctor
      BY <2>7 DEF EndFunctor
    <2>8. CASE FunctorsDone
      BY <2>8 DEF FunctorsDone
    <2> QED
      BY <1>2, <2>1, <2>2, <2>3, <2>4, <2>5, <2>6, <2>7, <2>8 DEF LoopStep
  <1>3. CASE Poll
    BY <1>3 DEF Poll, PollReturns
  <1>4. CASE SelfCall
    <2>1. CASE QuitSelf
      BY <2>1 DEF QuitSelf, UserCode, Outside
    <2>2. ASSUME NEW x \in Tasks, QueueSelf(x) PROVE WakeupInv'
      <3>1. Entries(pending') = Entries(pending) \cup {x}
        BY <2>2, EntriesAppend DEF QueueSelf, TypeOK
      <3>2. (pc \in Outside /\ x \in EarlyTasks) \/ pc \in UserCode
        BY <2>2 DEF QueueSelf
      <3> QED
        BY <2>2, <3>1, <3>2 DEF QueueSelf, UserCode, Outside, TypeOK
    <2>3. ASSUME NEW x \in Tasks, RunSelf(x) PROVE WakeupInv'
      BY <2>3 DEF RunSelf
    <2> QED
      BY <1>4, <2>1, <2>2, <2>3 DEF SelfCall
  <1>5. ASSUME NEW t \in Threads, ThreadCall(t) \/ Wakeup(t) PROVE WakeupInv'
    <2>1. CASE Quit(t)
      BY <2>1 DEF Quit, TypeOK
    <2>2. ASSUME NEW x \in Tasks, Queue(t, x) PROVE WakeupInv'
      BY <2>2 DEF Queue, TypeOK
    <2>3. CASE Wakeup(t)
      BY <2>3 DEF Wakeup
    <2> QED
      BY <1>5, <2>1, <2>2, <2>3 DEF ThreadCall
  <1>6. CASE UNCHANGED vars
    BY <1>6 DEF vars
  <1> QED
    BY <1>1, <1>2, <1>3, <1>4, <1>5, <1>6 DEF Next

THEOREM Inductive == Spec => []IInv
  <1>1. Init => IInv
    BY TypeInit, WakeupInit DEF IInv
  <1>2. IInv /\ [Next]_vars => IInv'
    BY TypeStep, WakeupStep DEF IInv
  <1> QED
    BY <1>1, <1>2, PTL DEF Spec

\* EventLoop::QueueInLoop and Quit never leave the loop asleep on their work,
\* however many threads call them.
THEOREM WakeupsReach == Spec => []NoLostWakeup
  <1>1. IInv => NoLostWakeup
    BY DEF IInv, WakeupInv, NoLostWakeup, Unannounced
  <1> QED
    BY <1>1, Inductive, PTL
-----------------------------------------------------------------------------
(***************************************************************************)
(* The two lists seen as one queue. The swap is a stuttering step because  *)
(* the local list is empty whenever it happens (WakeupInv); a push goes to *)
(* the end of the whole queue, and the functor started is its head.        *)
(***************************************************************************)
LEMMA PushAtEnd ==
    ASSUME NEW f \in Seq(Tasks), NEW p \in Seq(Tasks), NEW x \in Tasks
    PROVE  f \o Append(p, x) = Append(f \o p, x)
  <1>1. /\ <<x>> \in Seq(Tasks)
        /\ f \o p \in Seq(Tasks)
    OBVIOUS
  <1>2. /\ Append(p, x) = p \o <<x>>
        /\ Append(f \o p, x) = (f \o p) \o <<x>>
    BY <1>1, AppendIsConcat
  <1>3. (f \o p) \o <<x>> = f \o (p \o <<x>>)
    BY <1>1, ConcatAssociative
  <1> QED
    BY <1>2, <1>3

LEMMA PopAtHead ==
    ASSUME NEW f \in Seq(Tasks), NEW p \in Seq(Tasks), f # <<>>
    PROVE  /\ f \o p # <<>>
           /\ Head(f \o p) = Head(f)
           /\ Tail(f \o p) = Tail(f) \o p
  <1>1. Len(f) \in Nat \ {0} /\ Len(p) \in Nat
    BY EmptySeq, LenProperties
  <1>2. /\ f \o p \in Seq(Tasks)
        /\ Len(f \o p) = Len(f) + Len(p)
    BY ConcatProperties
  <1>3. /\ Tail(f) \in Seq(Tasks)
        /\ Len(Tail(f)) = Len(f) - 1
        /\ \A i \in 1 .. Len(f) - 1 : Tail(f)[i] = f[i + 1]
    BY <1>1
  <1>4. /\ Tail(f \o p) \in Seq(Tasks)
        /\ Len(Tail(f \o p)) = Len(f) + Len(p) - 1
        /\ \A i \in 1 .. Len(f) + Len(p) - 1 :
              Tail(f \o p)[i] = (f \o p)[i + 1]
    BY <1>1, <1>2
  <1>5. /\ Tail(f) \o p \in Seq(Tasks)
        /\ Len(Tail(f) \o p) = Len(f) - 1 + Len(p)
        /\ \A i \in 1 .. Len(f) - 1 + Len(p) :
              (Tail(f) \o p)[i] = IF i <= Len(f) - 1
                                    THEN Tail(f)[i] ELSE p[i - (Len(f) - 1)]
    BY <1>1, <1>3, ConcatProperties
  <1>6. ASSUME NEW i \in 1 .. Len(f) + Len(p) - 1
        PROVE  Tail(f \o p)[i] = (Tail(f) \o p)[i]
    <2>1. (f \o p)[i + 1] = IF i + 1 <= Len(f)
                               THEN f[i + 1] ELSE p[i + 1 - Len(f)]
      BY <1>1, ConcatProperties
    <2>2. i - (Len(f) - 1) = i + 1 - Len(f)
      BY <1>1
    <2> QED
      BY <2>1, <2>2, <1>1, <1>3, <1>4, <1>5
  <1>7. Tail(f \o p) = Tail(f) \o p
    BY <1>1, <1>4, <1>5, <1>6, SeqEqual
  <1> QED
    BY <1>1, <1>2, <1>7

LEMMA PushRefines ==
    ASSUME TypeOK, NEW x \in Tasks, ~Posted(x),
           pending' = Append(pending, x), UNCHANGED <<functors, ran>>
    PROVE  [TQ!Next]_(TQ!vars)
  <1>1. (functors \o pending)' = Append(functors \o pending, x)
    BY PushAtEnd DEF TypeOK
  <1>2. TQ!Enqueue(x)
    BY <1>1 DEF TQ!Enqueue, TQ!New, TQ!Entries, Posted, Queued, Entries
  <1> QED
    BY <1>2 DEF TQ!Next

LEMMA StepRefines == IInv /\ [Next]_vars => [TQ!Next]_(TQ!vars)
  <1> SUFFICES ASSUME IInv, [Next]_vars PROVE [TQ!Next]_(TQ!vars)
    OBVIOUS
  <1>1. CASE UNCHANGED <<pending, functors, ran>>
    BY <1>1 DEF TQ!vars
  <1>2. CASE TakePending
    <2>1. functors = <<>>
      BY <1>2 DEF TakePending, IInv, WakeupInv
    <2>2. (functors \o pending)' = functors \o pending
      BY <1>2, <2>1 DEF TakePending, IInv, TypeOK
    <2> QED
      BY <1>2, <2>2 DEF TakePending, TQ!vars
  <1>3. CASE BeginFunctor
    <2>1. TQ!Serve
      BY <1>3, PopAtHead DEF BeginFunctor, TQ!Serve, IInv, TypeOK
    <2> QED
      BY <2>1 DEF TQ!Next
  <1>4. ASSUME NEW x \in Tasks, QueueSelf(x) PROVE [TQ!Next]_(TQ!vars)
    BY <1>4, PushRefines DEF QueueSelf, IInv
  <1>5. ASSUME NEW x \in Tasks, RunSelf(x) PROVE [TQ!Next]_(TQ!vars)
    <2>1. TQ!Direct(x)
      BY <1>5 DEF RunSelf, TQ!Direct, TQ!New, TQ!Entries, Posted, Queued,
                  Entries
    <2> QED
      BY <2>1 DEF TQ!Next
  <1>6. ASSUME NEW t \in Threads, NEW x \in Tasks, Queue(t, x)
        PROVE  [TQ!Next]_(TQ!vars)
    BY <1>6, PushRefines DEF Queue, IInv
  <1>7. CASE Loop
    BY <1>1, <1>7 DEF Loop
  <1>8. CASE LoopStep
    BY <1>1, <1>2, <1>3, <1>8 DEF LoopStep, TestQuit, HandleRead,
       BeginHandler, EndHandler, EndFunctor, FunctorsDone
  <1>9. CASE Poll
    BY <1>1, <1>9 DEF Poll, PollReturns
  <1>10. CASE SelfCall
    BY <1>1, <1>4, <1>5, <1>10 DEF SelfCall, QuitSelf
  <1>11. ASSUME NEW t \in Threads, ThreadCall(t) \/ Wakeup(t)
         PROVE  [TQ!Next]_(TQ!vars)
    BY <1>1, <1>6, <1>11 DEF ThreadCall, Quit, Wakeup
  <1>12. CASE UNCHANGED vars
    BY <1>1, <1>12 DEF vars
  <1> QED
    BY <1>7, <1>8, <1>9, <1>10, <1>11, <1>12 DEF Next

\* EventLoop implements TaskQueue: what QueueInLoop is given is run first in,
\* first out, and only RunInLoop on the loop's own thread overtakes it.
THEOREM Refinement == Spec => ImplementsTaskQueue
  <1>1. Init => TQ!Init
    BY ConcatEmptySeq, EmptySeq DEF Init, TQ!Init
  <1> QED
    BY <1>1, StepRefines, Inductive, PTL DEF Spec, ImplementsTaskQueue, TQ!Spec
-----------------------------------------------------------------------------
(***************************************************************************)
(* AtMostOnce. The queue of TaskQueue and what it ran have no functor      *)
(* twice and none in common: every step of TaskQueue keeps that, so that   *)
(* every step of EventLoop does.                                           *)
(***************************************************************************)
Distinct(s) == \A i, j \in DOMAIN s : s[i] = s[j] => i = j
Apart(s, u) == \A i \in DOMAIN s, j \in DOMAIN u : s[i] # u[j]
OnceInv == /\ Distinct(ran)
           /\ Distinct(functors \o pending)
           /\ Apart(ran, functors \o pending)

LEMMA AppendDistinct ==
    ASSUME NEW s \in Seq(Tasks), NEW x \in Tasks, x \notin Entries(s),
           Distinct(s)
    PROVE  Distinct(Append(s, x))
  BY DEF Distinct, Entries

LEMMA AppendApart ==
    ASSUME NEW s \in Seq(Tasks), NEW u \in Seq(Tasks), NEW x \in Tasks,
           x \notin Entries(u), Apart(s, u)
    PROVE  Apart(Append(s, x), u) /\ Apart(u, Append(s, x))
  BY DEF Apart, Entries

LEMMA PopDistinct ==
    ASSUME NEW s \in Seq(Tasks), NEW u \in Seq(Tasks), u # <<>>,
           Distinct(s), Distinct(u), Apart(s, u)
    PROVE  /\ Distinct(Append(s, Head(u)))
           /\ Distinct(Tail(u))
           /\ Apart(Append(s, Head(u)), Tail(u))
  <1>1. /\ Head(u) \in Tasks
        /\ Head(u) = u[1]
        /\ 1 \in DOMAIN u
        /\ Tail(u) \in Seq(Tasks)
        /\ \A i \in DOMAIN Tail(u) :
              i + 1 \in DOMAIN u /\ i + 1 # 1 /\ Tail(u)[i] = u[i + 1]
    OBVIOUS
  <1>2. Head(u) \notin Entries(s) /\ Head(u) \notin Entries(Tail(u))
    BY <1>1 DEF Entries, Apart, Distinct
  <1>3. \A i, j \in DOMAIN Tail(u) : i + 1 = j + 1 => i = j
    BY <1>1
  <1>4. Distinct(Tail(u)) /\ Apart(s, Tail(u))
    BY <1>1, <1>3 DEF Distinct, Apart
  <1> QED
    BY <1>1, <1>2, <1>4, AppendDistinct, AppendApart

LEMMA OnceStep == IInv /\ OnceInv /\ [Next]_vars => OnceInv'
  <1> SUFFICES ASSUME IInv, OnceInv, [Next]_vars PROVE OnceInv'
    OBVIOUS
  <1> DEFINE q == functors \o pending
  <1>1. ran \in Seq(Tasks) /\ q \in Seq(Tasks)
    BY ConcatProperties DEF IInv, TypeOK
  <1>2. [TQ!Next]_(TQ!vars)
    BY StepRefines
  <1>3. Distinct(ran) /\ Distinct(q) /\ Apart(ran, q)
    BY DEF OnceInv
  <1>4. CASE TQ!Serve
    BY <1>1, <1>3, <1>4, PopDistinct DEF TQ!Serve, OnceInv
  <1>5. ASSUME NEW x \in Tasks, TQ!Enqueue(x) PROVE OnceInv'
    <2>1. x \notin Entries(q) /\ x \notin Entries(ran)
      BY <1>5 DEF TQ!Enqueue, TQ!New, TQ!Entries, Entries
    <2>2. Distinct(Append(q, x)) /\ Apart(ran, Append(q, x))
      <3>1. Apart(q, ran)
        BY <1>3 DEF Apart
      <3> QED
        BY <1>1, <1>3, <2>1, <3>1, AppendDistinct, AppendApart
    <2> QED
      BY <1>3, <1>5, <2>2 DEF TQ!Enqueue, OnceInv
  <1>6. ASSUME NEW x \in Tasks, TQ!Direct(x) PROVE OnceInv'
    <2>1. x \notin Entries(q) /\ x \notin Entries(ran)
      BY <1>6 DEF TQ!Direct, TQ!New, TQ!Entries, Entries
    <2>2. Distinct(Append(ran, x)) /\ Apart(Append(ran, x), q)
      BY <1>1, <1>3, <2>1, AppendDistinct, AppendApart
    <2> QED
      BY <1>3, <1>6, <2>2 DEF TQ!Direct, OnceInv
  <1>7. CASE UNCHANGED TQ!vars
    BY <1>3, <1>7 DEF TQ!vars, OnceInv
  <1> QED
    BY <1>2, <1>4, <1>5, <1>6, <1>7 DEF TQ!Next

LEMMA OnceInit == Init => OnceInv
  <1>1. Init => ran = <<>> /\ functors \o pending = <<>>
    BY ConcatEmptySeq, EmptySeq DEF Init
  <1> QED
    BY <1>1 DEF OnceInv, Distinct, Apart

LEMMA OnceMeans == IInv /\ OnceInv => AtMostOnce
  <1> SUFFICES ASSUME IInv, OnceInv PROVE AtMostOnce
    OBVIOUS
  <1> DEFINE q == functors \o pending
             all == ran \o functors \o pending
  <1>1. /\ ran \in Seq(Tasks) /\ functors \in Seq(Tasks)
        /\ pending \in Seq(Tasks) /\ q \in Seq(Tasks)
    BY ConcatProperties DEF IInv, TypeOK
  <1>2. all = ran \o q
    BY <1>1, ConcatAssociative
  <1>3. /\ Len(ran) \in Nat /\ DOMAIN ran = 1 .. Len(ran)
        /\ Len(q) \in Nat /\ DOMAIN q = 1 .. Len(q)
    BY <1>1, LenProperties
  <1>4. /\ DOMAIN all = 1 .. Len(ran) + Len(q)
        /\ \A i \in DOMAIN all :
              all[i] = IF i <= Len(ran) THEN ran[i] ELSE q[i - Len(ran)]
    BY <1>1, <1>2, <1>3, ConcatProperties, LenProperties
  <1>5. ASSUME NEW i \in DOMAIN all, NEW j \in DOMAIN all, all[i] = all[j]
        PROVE  i = j
    <2>1. Distinct(ran) /\ Distinct(q) /\ Apart(ran, q)
      BY DEF OnceInv
    <2> HIDE DEF q, all
    <2>2. CASE i <= Len(ran) /\ j <= Len(ran)
      BY <2>1, <2>2, <1>3, <1>4, <1>5 DEF Distinct
    <2>3. CASE ~(i <= Len(ran)) /\ ~(j <= Len(ran))
      <3>1. i - Len(ran) = j - Len(ran)
        BY <2>1, <2>3, <1>3, <1>4, <1>5 DEF Distinct
      <3> QED
        BY <3>1, <1>3, <1>4
    <2>4. CASE ~(i <= Len(ran) <=> j <= Len(ran))
      BY <2>1, <2>4, <1>3, <1>4, <1>5 DEF Apart
    <2> QED
      BY <2>2, <2>3, <2>4
  <1> QED
    BY <1>5 DEF AtMostOnce

\* No functor is started twice or started while it is still queued, for any
\* number of functors and of threads that queue them.
THEOREM RunsAtMostOnce == Spec => []AtMostOnce
  <1>1. Init => OnceInv
    BY OnceInit
  <1> QED
    BY <1>1, OnceStep, OnceMeans, Inductive, PTL DEF Spec
=============================================================================
