--------------------------- MODULE AcceptorProofs ---------------------------
(***************************************************************************)
(* Proofs about module Acceptor, for any clients, any number of threads    *)
(* and of descriptors.                                                     *)
(***************************************************************************)
EXTENDS Acceptor, SequenceTheorems, TLAPS

\* The loops before next_ were given one connection more than the others.
Turns == \E k \in Nat : \A l \in 1 .. loops :
                            given[l] = IF l <= next THEN k + 1 ELSE k

BaseSpared == loops > 0 => given[0] = 0

\* Nothing comes before Start.
Quiet == /\ listening = started
         /\ ~started => /\ loops = 0 /\ next = 0 /\ backlog = <<>>
                        /\ given = [l \in 0 .. MaxThreads |-> 0]

TurnsInv == Quiet /\ Turns /\ BaseSpared

Inv == TypeOK /\ TurnsInv /\ NobodyLost

\* What is left of a sequence that loses its i-th element.
LEMMA RemovedAt ==
    ASSUME NEW S, NEW s \in Seq(S), NEW i \in 1 .. Len(s)
    PROVE  /\ RemoveAt(s, i) \in Seq(S)
           /\ Len(RemoveAt(s, i)) = Len(s) - 1
           /\ \A j \in 1 .. Len(s) - 1 :
                 RemoveAt(s, i)[j] = IF j < i THEN s[j] ELSE s[j + 1]
  <1> DEFINE a == SubSeq(s, 1, i - 1)
             b == SubSeq(s, i + 1, Len(s))
  <1>1. /\ a \in Seq(S) /\ Len(a) = i - 1
        /\ \A j \in 1 .. i - 1 : a[j] = s[j]
    BY SubSeqProperties
  <1>2. /\ b \in Seq(S) /\ Len(b) = Len(s) - i
        /\ \A j \in 1 .. Len(s) - i : b[j] = s[i + j]
    BY SubSeqProperties
  <1>3. RemoveAt(s, i) = a \o b
    BY DEF RemoveAt
  <1> HIDE DEF a, b
  <1>4. /\ a \o b \in Seq(S)
        /\ Len(a \o b) = Len(a) + Len(b)
        /\ \A j \in 1 .. Len(a) + Len(b) :
              (a \o b)[j] = IF j <= Len(a) THEN a[j] ELSE b[j - Len(a)]
    BY <1>1, <1>2, ConcatProperties
  <1>5. Len(a \o b) = Len(s) - 1
    BY <1>1, <1>2, <1>4
  <1>6. ASSUME NEW j \in 1 .. Len(s) - 1
        PROVE  (a \o b)[j] = IF j < i THEN s[j] ELSE s[j + 1]
    <2>1. CASE j < i
      BY <1>1, <1>2, <1>4, <2>1
    <2>2. CASE ~(j < i)
      <3>1. j - (i - 1) \in 1 .. Len(b) /\ i + (j - (i - 1)) = j + 1
        BY <1>2, <2>2
      <3>2. (a \o b)[j] = b[j - (i - 1)]
        BY <1>1, <1>2, <1>4, <2>2
      <3>3. QED BY <1>2, <2>2, <3>1, <3>2
    <2>3. QED BY <2>1, <2>2
  <1>7. QED BY <1>3, <1>4, <1>5, <1>6
-----------------------------------------------------------------------------
LEMMA TypeInitially ==
    ASSUME Init
    PROVE  TypeOK
  BY MaxThreadsAssumption, SMTT(30) DEF Init, TypeOK

LEMMA HandleReadTypes ==
    ASSUME TypeOK, HandleRead
    PROVE  TypeOK'
  <1>1. backlog' \in Seq(Clients) /\ Head(backlog) \in Clients
    BY DEF TypeOK, HandleRead
  <1>2. client' \in [Clients -> {"away", "waiting", "served", "gone"}]
    BY <1>1 DEF TypeOK, HandleRead
  <1>3. given' \in [0 .. MaxThreads -> Nat] /\ next' \in Nat /\ (loops > 0 => next' < loops)
    <2>1. CASE UNCHANGED <<given, next>>
      BY <2>1 DEF TypeOK
    <2>2. CASE GetNextLoop
      BY <2>2, MaxThreadsAssumption DEF GetNextLoop, After, TypeOK
    <2>3. QED BY <2>1, <2>2 DEF HandleRead
  <1>4. QED BY <1>1, <1>2, <1>3 DEF TypeOK, HandleRead

LEMMA TypeKept ==
    ASSUME TypeOK, Quiet, [Next]_vars
    PROVE  TypeOK'
  <1>1. ASSUME NEW n \in 0 .. MaxThreads, SetThreadNum(n)
        PROVE  TypeOK'
    BY <1>1 DEF TypeOK, SetThreadNum
  <1>2. CASE Start
    BY <1>2 DEF TypeOK, Quiet, Start
  <1>3. CASE EnterLoop
    BY <1>3 DEF TypeOK, EnterLoop, serverVars
  <1>4. CASE Poll
    BY <1>4 DEF TypeOK, Poll, serverVars
  <1>5. CASE HandleRead
    BY <1>5, HandleReadTypes
  <1>6. CASE HandleReadFails
    BY <1>6 DEF TypeOK, HandleReadFails, serverVars
  <1>7. CASE EndRound
    BY <1>7 DEF TypeOK, EndRound, serverVars
  <1>8. ASSUME NEW c \in Clients, Connect(c)
        PROVE  TypeOK'
    BY <1>8 DEF TypeOK, Connect, serverVars
  <1>9. ASSUME NEW c \in Clients, Leave(c)
        PROVE  TypeOK'
    <2>1. backlog' \in Seq(Clients)
      BY <1>9, RemovedAt DEF TypeOK, Leave
    <2>2. QED BY <1>9, <2>1 DEF TypeOK, Leave, serverVars
  <1>10. ASSUME NEW c \in Clients, CloseSocket(c)
         PROVE  TypeOK'
    BY <1>10 DEF TypeOK, CloseSocket, serverVars
  <1>11. CASE UNCHANGED vars
    BY <1>11 DEF TypeOK, vars, serverVars
  <1>12. QED BY <1>1, <1>2, <1>3, <1>4, <1>5, <1>6, <1>7, <1>8, <1>9, <1>10, <1>11
             DEF Next, LoopStep
-----------------------------------------------------------------------------
(* The turns of the pool.                                                  *)

LEMMA TurnsInitially ==
    ASSUME Init
    PROVE  TurnsInv
  <1>1. Turns
    <2>1. \A l \in 1 .. loops : given[l] = IF l <= next THEN 0 + 1 ELSE 0
      BY DEF Init
    <2>2. QED BY <2>1 DEF Turns
  <1>2. Quiet
    BY Zenon DEF Init, Quiet
  <1>3. BaseSpared
    BY DEF Init, BaseSpared
  <1>4. QED BY <1>1, <1>2, <1>3 DEF TurnsInv

LEMMA StartKeepsTurns ==
    ASSUME TypeOK, TurnsInv, Start
    PROVE  TurnsInv'
  <1>1. CASE started
    BY <1>1 DEF TurnsInv, Quiet, Turns, BaseSpared, Start
  <1>2. CASE ~started
    <2>1. given' = [l \in 0 .. MaxThreads |-> 0] /\ next' = 0 /\ loops' = threads
      BY <1>2 DEF TurnsInv, Quiet, Start
    <2>2. Turns'
      <3>1. \A l \in 1 .. loops' : given'[l] = IF l <= next' THEN 0 + 1 ELSE 0
        BY <2>1, MaxThreadsAssumption DEF TypeOK
      <3>2. QED BY <3>1 DEF Turns
    <2>3. BaseSpared'
      BY <2>1, MaxThreadsAssumption DEF BaseSpared
    <2>4. QED BY <2>2, <2>3 DEF TurnsInv, Quiet, Start
  <1>3. QED BY <1>1, <1>2

\* GetNextLoop gives to the loop at next_, which makes one more of those that are
\* ahead, or starts the next round.
LEMMA GetNextLoopKeepsTurns ==
    ASSUME TypeOK, Turns, BaseSpared, GetNextLoop, UNCHANGED loops
    PROVE  Turns' /\ BaseSpared'
  <1>1. CASE loops = 0
    <2>1. \A l \in 1 .. loops' : given'[l] = IF l <= next' THEN 0 + 1 ELSE 0
      BY <1>1
    <2>2. QED BY <1>1, <2>1 DEF Turns, BaseSpared
  <1>2. CASE loops > 0
    <2>1. /\ given' = [given EXCEPT ![next + 1] = @ + 1] /\ next' = After
          /\ next + 1 \in 1 .. loops
      BY <1>2 DEF GetNextLoop, TypeOK
    <2>2. BaseSpared'
      BY <2>1, MaxThreadsAssumption DEF BaseSpared, TypeOK
    <2>3. PICK k \in Nat : \A l \in 1 .. loops :
                               given[l] = IF l <= next THEN k + 1 ELSE k
      BY DEF Turns
    <2>4. \A l \in 1 .. loops : given'[l] = IF l <= next + 1 THEN k + 1 ELSE k
      BY <2>1, <2>3, MaxThreadsAssumption DEF TypeOK
    <2>5. CASE next + 1 >= loops
      <3>1. next' = 0 /\ \A l \in 1 .. loops : given'[l] = k + 1
        BY <2>1, <2>4, <2>5 DEF After, TypeOK
      <3>2. \A l \in 1 .. loops' : given'[l] = IF l <= next' THEN (k + 1) + 1 ELSE k + 1
        BY <3>1 DEF TypeOK
      <3>3. QED BY <2>2, <2>3, <3>2 DEF Turns
    <2>6. CASE ~(next + 1 >= loops)
      <3>1. \A l \in 1 .. loops' : given'[l] = IF l <= next' THEN k + 1 ELSE k
        BY <2>1, <2>4, <2>6 DEF After
      <3>2. QED BY <2>2, <2>3, <3>1 DEF Turns
    <2>7. QED BY <2>5, <2>6
  <1>3. QED BY <1>1, <1>2 DEF TypeOK

LEMMA TurnsKept ==
    ASSUME TypeOK, TurnsInv, [Next]_vars
    PROVE  TurnsInv'
  <1>1. CASE Start
    BY <1>1, StartKeepsTurns
  <1>2. CASE HandleRead
    <2>1. UNCHANGED <<started, loops, listening>> /\ started
      BY <1>2 DEF TurnsInv, Quiet, HandleRead
    <2>2. Turns' /\ BaseSpared'
      <3>1. CASE UNCHANGED <<given, next>>
        BY <2>1, <3>1 DEF TurnsInv, Turns, BaseSpared
      <3>2. CASE GetNextLoop
        BY <2>1, <3>2, GetNextLoopKeepsTurns DEF TurnsInv
      <3>3. QED BY <1>2, <3>1, <3>2 DEF HandleRead
    <2>3. QED BY <2>1, <2>2 DEF TurnsInv, Quiet
  <1>3. ASSUME NEW c \in Clients, Connect(c) \/ Leave(c)
        PROVE  TurnsInv'
    <2>1. UNCHANGED serverVars /\ started
      BY <1>3 DEF Connect, Leave, TurnsInv, Quiet
    <2>2. QED BY <2>1 DEF TurnsInv, Quiet, Turns, BaseSpared, serverVars
  <1>4. ASSUME UNCHANGED <<started, loops, next, given, listening, backlog>>
        PROVE  TurnsInv'
    BY <1>4 DEF TurnsInv, Quiet, Turns, BaseSpared
  <1>5. QED BY <1>1, <1>2, <1>3, <1>4
            DEF Next, LoopStep, SetThreadNum, EnterLoop, Poll, HandleReadFails,
                EndRound, CloseSocket, vars, serverVars
-----------------------------------------------------------------------------
(* The backlog.                                                            *)

LEMMA NobodyLostKept ==
    ASSUME TypeOK, TypeOK', NobodyLost, [Next]_vars
    PROVE  NobodyLost'
  <1>1. CASE HandleRead
    <2>1. /\ backlog' = Tail(backlog) /\ backlog # <<>>
          /\ \E x \in {"served", "gone"} :
                client' = [client EXCEPT ![Head(backlog)] = x]
      BY <1>1 DEF HandleRead
    <2>2. /\ Len(backlog) \in Nat \ {0} /\ DOMAIN backlog = 1 .. Len(backlog)
          /\ DOMAIN backlog' = 1 .. Len(backlog) - 1
          /\ \A i \in 1 .. Len(backlog) - 1 : backlog'[i] = backlog[i + 1]
          /\ Head(backlog) = backlog[1]
      BY <2>1 DEF TypeOK
    <2>3. \A i, j \in DOMAIN backlog' : backlog'[i] = backlog'[j] => i = j
      BY <2>2 DEF NobodyLost
    <2>4. ASSUME NEW c \in Clients
          PROVE  client'[c] = "waiting" <=> \E i \in DOMAIN backlog' : backlog'[i] = c
      <3>1. CASE c = backlog[1]
        <4>1. client'[c] # "waiting"
          BY <2>1, <2>2, <3>1 DEF TypeOK
        <4>2. \A i \in DOMAIN backlog' : backlog'[i] # c
          BY <2>2, <3>1 DEF NobodyLost
        <4>3. QED BY <4>1, <4>2
      <3>2. CASE c # backlog[1]
        <4>1. client'[c] = client[c]
          BY <2>1, <2>2, <3>2 DEF TypeOK
        <4>2. ASSUME NEW i \in DOMAIN backlog, backlog[i] = c
              PROVE  i - 1 \in DOMAIN backlog' /\ backlog'[i - 1] = c
          BY <2>2, <3>2, <4>2
        <4>3. ASSUME NEW i \in DOMAIN backlog', backlog'[i] = c
              PROVE  i + 1 \in DOMAIN backlog /\ backlog[i + 1] = c
          BY <2>2, <4>3
        <4>4. client[c] = "waiting" <=> \E i \in DOMAIN backlog : backlog[i] = c
          BY DEF NobodyLost
        <4>5. QED BY <4>1, <4>2, <4>3, <4>4
      <3>3. QED BY <3>1, <3>2
    <2>5. QED BY <2>3, <2>4 DEF NobodyLost
  <1>2. ASSUME NEW c \in Clients, Connect(c)
        PROVE  NobodyLost'
    <2>1. /\ client[c] = "away" /\ client' = [client EXCEPT ![c] = "waiting"]
          /\ backlog' = Append(backlog, c)
      BY <1>2 DEF Connect
    <2>2. /\ Len(backlog) \in Nat /\ DOMAIN backlog = 1 .. Len(backlog)
          /\ DOMAIN backlog' = 1 .. Len(backlog) + 1
          /\ \A i \in 1 .. Len(backlog) : backlog'[i] = backlog[i]
          /\ backlog'[Len(backlog) + 1] = c
      BY <2>1 DEF TypeOK
    <2>3. \A i \in DOMAIN backlog : backlog[i] # c
      BY <2>1 DEF NobodyLost
    <2>4. \A i, j \in DOMAIN backlog' : backlog'[i] = backlog'[j] => i = j
      BY <2>2, <2>3 DEF NobodyLost
    <2>5. ASSUME NEW d \in Clients
          PROVE  client'[d] = "waiting" <=> \E i \in DOMAIN backlog' : backlog'[i] = d
      <3>1. CASE d = c
        <4>1. client'[d] = "waiting"
          BY <2>1, <3>1 DEF TypeOK
        <4>2. Len(backlog) + 1 \in DOMAIN backlog' /\ backlog'[Len(backlog) + 1] = d
          BY <2>2, <3>1
        <4>3. QED BY <4>1, <4>2
      <3>2. CASE d # c
        BY <2>1, <2>2, <3>2 DEF TypeOK, NobodyLost
      <3>3. QED BY <3>1, <3>2
    <2>6. QED BY <2>4, <2>5 DEF NobodyLost
  <1>3. ASSUME NEW c \in Clients, Leave(c)
        PROVE  NobodyLost'
    <2>1. client' = [client EXCEPT ![c] = "gone"]
      BY <1>3 DEF Leave
    <2>2. PICK p \in DOMAIN backlog : backlog[p] = c /\ backlog' = RemoveAt(backlog, p)
      BY <1>3 DEF Leave
    <2> DEFINE Before(i) == IF i < p THEN i ELSE i + 1
    <2>3. /\ Len(backlog) \in Nat /\ DOMAIN backlog = 1 .. Len(backlog)
          /\ DOMAIN backlog' = 1 .. Len(backlog) - 1
          /\ \A i \in 1 .. Len(backlog) - 1 :
                backlog'[i] = IF i < p THEN backlog[i] ELSE backlog[i + 1]
      <3>1. backlog \in Seq(Clients) /\ backlog' \in Seq(Clients) /\ p \in 1 .. Len(backlog)
        BY DEF TypeOK
      <3>2. Len(backlog') = Len(backlog) - 1
        BY <2>2, <3>1, RemovedAt
      <3>3. \A i \in 1 .. Len(backlog) - 1 :
                backlog'[i] = IF i < p THEN backlog[i] ELSE backlog[i + 1]
        BY <2>2, <3>1, RemovedAt
      <3>4. QED BY <3>1, <3>2, <3>3
    <2>4. ASSUME NEW i \in DOMAIN backlog'
          PROVE  Before(i) \in DOMAIN backlog /\ backlog'[i] = backlog[Before(i)]
                 /\ Before(i) # p
      BY <2>3
    <2>5. \A i, j \in DOMAIN backlog' : backlog'[i] = backlog'[j] => i = j
      <3>1. \A i, j \in DOMAIN backlog' : Before(i) = Before(j) => i = j
        BY <2>3
      <3>2. \A i, j \in DOMAIN backlog : backlog[i] = backlog[j] => i = j
        BY DEF NobodyLost
      <3>3. QED BY <2>4, <3>1, <3>2
    <2>6. ASSUME NEW d \in Clients
          PROVE  client'[d] = "waiting" <=> \E i \in DOMAIN backlog' : backlog'[i] = d
      <3>1. CASE d = c
        <4>1. \A i \in DOMAIN backlog' : backlog'[i] # c
          BY <2>2, <2>4 DEF NobodyLost
        <4>2. QED BY <2>1, <3>1, <4>1 DEF TypeOK
      <3>2. CASE d # c
        <4>1. client'[d] = client[d]
          BY <2>1, <3>2 DEF TypeOK
        <4>2. ASSUME NEW i \in DOMAIN backlog, backlog[i] = d
              PROVE  \E j \in DOMAIN backlog' : backlog'[j] = d
          <5>1. CASE i < p
            BY <2>2, <2>3, <4>2, <5>1
          <5>2. CASE i > p
            <6>1. i - 1 \in DOMAIN backlog' /\ backlog'[i - 1] = d
              BY <2>2, <2>3, <4>2, <5>2
            <6>2. QED BY <6>1
          <5>3. QED BY <2>2, <2>3, <3>2, <4>2, <5>1, <5>2
        <4>3. client[d] = "waiting" <=> \E i \in DOMAIN backlog : backlog[i] = d
          BY DEF NobodyLost
        <4>4. QED BY <2>4, <4>1, <4>2, <4>3
      <3>3. QED BY <3>1, <3>2
    <2>7. QED BY <2>5, <2>6 DEF NobodyLost
  <1>4. ASSUME NEW c \in Clients, CloseSocket(c)
        PROVE  NobodyLost'
    BY <1>4 DEF CloseSocket, NobodyLost, TypeOK
  <1>5. ASSUME UNCHANGED <<backlog, client>>
        PROVE  NobodyLost'
    BY <1>5 DEF NobodyLost
  <1>6. QED BY <1>1, <1>2, <1>3, <1>4, <1>5
            DEF Next, LoopStep, SetThreadNum, Start, EnterLoop, Poll,
                HandleReadFails, EndRound, vars, serverVars
-----------------------------------------------------------------------------
LEMMA InvHolds == Spec => []Inv
  <1>1. Init => Inv
    <2>1. Init => NobodyLost
      BY DEF Init, NobodyLost
    <2>2. QED BY <2>1, TypeInitially, TurnsInitially DEF Inv
  <1>2. Inv /\ [Next]_vars => Inv'
    BY TypeKept, TurnsKept, NobodyLostKept DEF Inv, TurnsInv
  <1>3. QED BY <1>1, <1>2, PTL DEF Spec

\* Type correctness of Acceptor; next_ stays inside the pool.
THEOREM AcceptorTypeCorrect == Spec => []TypeOK
  <1>1. Inv => TypeOK
    BY DEF Inv
  <1>2. QED BY <1>1, InvHolds, PTL

\* EventLoopThreadPool::GetNextLoop shares the connections out evenly, however
\* many loops there are and whenever Start and SetThreadNum are called.
THEOREM LoopsTakeTurns == Spec => []Balanced
  <1>1. Inv => Balanced
    BY DEF Inv, TurnsInv, TypeOK, Turns, BaseSpared, Balanced
  <1>2. QED BY <1>1, InvHolds, PTL

\* No client disappears from the backlog but by Acceptor::HandleRead or by itself.
THEOREM BacklogKeepsAll == Spec => []NobodyLost
  <1>1. Inv => NobodyLost
    BY DEF Inv
  <1>2. QED BY <1>1, InvHolds, PTL
=============================================================================
