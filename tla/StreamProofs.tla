---------------------------- MODULE StreamProofs ----------------------------
(***************************************************************************)
(* Theorems about Stream, for any threads, messages, buffer sizes and      *)
(* sizes of extrabuf. What the buffers do comes from BufferProofs.         *)
(***************************************************************************)
EXTENDS Stream, BufferProofs

(* Bytes cut in two.                                                       *)

LEMMA CutBytes ==
    ASSUME NEW s \in Bytes, NEW n \in 0 .. Len(s)
    PROVE  /\ Taking(s, n) \in Bytes /\ Len(Taking(s, n)) = n
           /\ Dropping(s, n) \in Bytes /\ Len(Dropping(s, n)) = Len(s) - n
           /\ Taking(s, n) \o Dropping(s, n) = s
  <1>1. /\ s \in Seq(Byte) /\ Len(s) \in Nat /\ n \in Nat /\ n <= Len(s)
        /\ \A i \in 1 .. Len(s) : s[i] \in Byte
    BY LenProperties DEF Bytes
  <1>2. SubSeq(s, 1, n) \in Seq(Byte) /\ Len(SubSeq(s, 1, n)) = n
    <2>1. \A i \in 1 .. n : s[i] \in Byte
      BY <1>1
    <2> QED
      BY <1>1, <2>1, SubSeqProperties
  <1>3. /\ SubSeq(s, n + 1, Len(s)) \in Seq(Byte)
        /\ Len(SubSeq(s, n + 1, Len(s))) = Len(s) - n
    <2>1. /\ \A i \in n + 1 .. Len(s) : s[i] \in Byte
          /\ n + 1 \in Int /\ Len(s) \in Int
      BY <1>1
    <2>2. /\ SubSeq(s, n + 1, Len(s)) \in Seq(Byte)
          /\ Len(SubSeq(s, n + 1, Len(s)))
               = IF n + 1 <= Len(s) THEN Len(s) - (n + 1) + 1 ELSE 0
      BY <2>1, SubSeqProperties
    <2> QED
      BY <1>1, <2>2
  <1>4. SubSeq(s, 1, n) \o SubSeq(s, n + 1, Len(s)) = s
    <2>1. 1 \in 1 .. Len(s) + 1 /\ n \in 1 - 1 .. Len(s) /\ Len(s) \in n .. Len(s)
      BY <1>1
    <2>2. SubSeq(s, 1, n) \o SubSeq(s, n + 1, Len(s)) = SubSeq(s, 1, Len(s))
      BY <1>1, <2>1, ConcatAdjacentSubSeq
    <2> QED
      BY <1>1, <2>2, SubSeqFull
  <1> QED
    BY <1>2, <1>3, <1>4 DEF Taking, Dropping, Bytes

LEMMA EmptyBytes ==
    ASSUME NEW s \in Bytes
    PROVE  /\ Len(s) \in Nat
           /\ s = <<>> <=> Len(s) = 0
           /\ s \o <<>> = s /\ <<>> \o s = s
           /\ <<>> \in Bytes
  <1>1. s \in Seq(Byte) /\ <<>> \in Seq(Byte)
    BY EmptySeq DEF Bytes
  <1>2. Len(s) \in Nat /\ (s # <<>> => Len(s) \in Nat \ {0}) /\ Len(<<>>) = 0
    BY <1>1, EmptySeq, LenProperties
  <1> QED
    BY <1>1, <1>2, ConcatEmptySeq DEF Bytes

LEMMA JoinBytes ==
    ASSUME NEW s \in Bytes, NEW t \in Bytes
    PROVE  /\ s \o t \in Bytes
           /\ Len(s \o t) = Len(s) + Len(t)
           /\ SubSeq(s \o t, 1, Len(s)) = s
  <1>1. s \in Seq(Byte) /\ t \in Seq(Byte) /\ Len(s) \in Nat /\ Len(t) \in Nat
    BY EmptyBytes DEF Bytes
  <1>2. /\ s \o t \in Seq(Byte) /\ Len(s \o t) = Len(s) + Len(t)
        /\ \A i \in 1 .. Len(s) + Len(t) :
              (s \o t)[i] = IF i <= Len(s) THEN s[i] ELSE t[i - Len(s)]
    BY <1>1, ConcatProperties
  <1>3. \A i \in 1 .. Len(s) : (s \o t)[i] = s[i] /\ s[i] \in Byte
    BY <1>1, <1>2, LenProperties
  <1> DEFINE p == SubSeq(s \o t, 1, Len(s))
  <1>4. /\ p \in Seq(Byte) /\ Len(p) = Len(s)
        /\ \A i \in 1 .. Len(s) : p[i] = s[i]
    <2>1. \A i \in 1 .. Len(s) : (s \o t)[i] \in Byte
      BY <1>3
    <2>2. /\ p \in Seq(Byte)
          /\ Len(p) = IF 1 <= Len(s) THEN Len(s) - 1 + 1 ELSE 0
          /\ \A i \in 1 .. Len(s) - 1 + 1 : p[i] = (s \o t)[1 + i - 1]
      BY <1>1, <2>1, SubSeqProperties
    <2>3. \A i \in 1 .. Len(s) : i \in 1 .. Len(s) - 1 + 1 /\ 1 + i - 1 = i
      BY <1>1
    <2> QED
      BY <1>1, <1>3, <2>2, <2>3
  <1>5. p = s
    <2> HIDE DEF p
    <2> QED
      BY <1>1, <1>4, SeqEqual
  <1> QED
    BY <1>2, <1>5 DEF Bytes

\* Concatenation is associative. The equations have names, as provers would apply
\* them without end.
Regroups(r, s, t) == (r \o s) \o t = r \o (s \o t)

LEMMA RegroupBytes ==
    ASSUME NEW r \in Bytes, NEW s \in Bytes, NEW t \in Bytes
    PROVE  Regroups(r, s, t)
  <1>1. r \in Seq(Byte) /\ s \in Seq(Byte) /\ t \in Seq(Byte)
    BY DEF Bytes
  <1> QED
    BY <1>1, ConcatAssociative DEF Regroups

RegroupsFour(r, s, t, u) == ((r \o s) \o t) \o u = (r \o s) \o (t \o u)

LEMMA RegroupFour ==
    ASSUME NEW r \in Bytes, NEW s \in Bytes, NEW t \in Bytes, NEW u \in Bytes
    PROVE  RegroupsFour(r, s, t, u)
  <1>1. r \o s \in Bytes
    BY JoinBytes
  <1>2. Regroups(r \o s, t, u)
    BY <1>1, RegroupBytes
  <1> QED
    BY <1>2 DEF Regroups, RegroupsFour
-----------------------------------------------------------------------------
(* What the handlers do to the bytes.                                      *)

\* SendInLoop: n bytes of m go out behind w at once, the rest into b.
SentRight(b, w, m, n) ==
    /\ w \o Taking(m, n) \in Bytes
    /\ n = 0 => w \o Taking(m, n) = w
    /\ n = Len(m) => (w \o Content(b)) \o m = (w \o Taking(m, n)) \o Content(b)
    /\ n < Len(m) => /\ IsBuffer(Appended(b, Dropping(m, n)))
                     /\ Content(Appended(b, Dropping(m, n))) # <<>>
                     /\ (w \o Content(b)) \o m
                          = (w \o Taking(m, n))
                              \o Content(Appended(b, Dropping(m, n)))

\* That is right when nothing waits, or when all of m does.
LEMMA SentBytes ==
    ASSUME NEW b, IsBuffer(b), NEW w \in Bytes, NEW m \in Bytes,
           NEW n \in 0 .. Len(m), n = 0 \/ Content(b) = <<>>
    PROVE  SentRight(b, w, m, n)
  <1> DEFINE C == Content(b)
             T == Taking(m, n)
             D == Dropping(m, n)
  <1> C \in Bytes /\ T \in Bytes /\ D \in Bytes
    BY ContentBytes, CutBytes
  <1>1. T \o D = m /\ Len(T) = n /\ Len(D) = Len(m) - n
    BY CutBytes
  <1>2. w \o T \in Bytes /\ w \o C \in Bytes /\ C \o D \in Bytes
    BY JoinBytes
  <1>3. n = 0 => T = <<>>
    BY <1>1, EmptyBytes
  <1>4. n = 0 => w \o T = w
    BY <1>3, EmptyBytes
  <1>5. (w \o C) \o m = ((w \o C) \o T) \o D
    <2> HIDE DEF C, T, D
    <2>1. RegroupsFour(w, C, T, D)
      BY RegroupFour
    <2> QED
      BY <1>1, <2>1 DEF RegroupsFour
  <1>6. (w \o C) \o T = (w \o T) \o C
    <2>1. CASE n = 0
      <3> HIDE DEF C, T, D
      <3> QED
        BY <1>2, <1>3, <1>4, <2>1, EmptyBytes
    <2>2. CASE C = <<>>
      <3> HIDE DEF C, T, D
      <3> QED
        BY <1>2, <2>2, EmptyBytes
    <2> QED
      BY <2>1, <2>2
  <1>7. ((w \o T) \o C) \o D = (w \o T) \o (C \o D)
    <2> HIDE DEF C, T, D
    <2>1. RegroupsFour(w, T, C, D)
      BY RegroupFour
    <2> QED
      BY <2>1 DEF RegroupsFour
  <1>8. n < Len(m) => /\ IsBuffer(Appended(b, D))
                      /\ Content(Appended(b, D)) = C \o D
                      /\ C \o D # <<>>
    <2>1. IsBuffer(Appended(b, D)) /\ Content(Appended(b, D)) = C \o D
      BY <1>1, AppendAppends
    <2>2. /\ Len(C \o D) = Len(C) + Len(D)
          /\ Len(C) \in Nat /\ Len(D) \in Nat /\ Len(m) \in Nat
          /\ (C \o D = <<>> <=> Len(C \o D) = 0)
      BY <1>1, <1>2, JoinBytes, EmptyBytes
    <2>3. n < Len(m) => Len(C \o D) # 0
      BY <1>1, <2>2
    <2> QED
      BY <2>1, <2>2, <2>3
  <1>9. n = Len(m) => D = <<>>
    <2>1. Len(m) \in Nat /\ (D = <<>> <=> Len(D) = 0)
      BY <1>1, EmptyBytes
    <2> QED
      BY <1>1, <2>1
  <1>10. n = Len(m) => (w \o C) \o m = (w \o T) \o C
    <2>1. C \o <<>> = C
      BY <1>1, EmptyBytes
    <2> HIDE DEF C, T, D
    <2> QED
      BY <1>5, <1>6, <1>7, <1>9, <2>1
  <1>11. (w \o C) \o m = (w \o T) \o (C \o D)
    <2> HIDE DEF C, T, D
    <2> QED
      BY <1>5, <1>6, <1>7
  <1> QED
    BY <1>2, <1>4, <1>8, <1>10, <1>11 DEF SentRight

\* HandleWrite: n bytes of the output go out.
LEMMA DrainedBytes ==
    ASSUME NEW b, IsBuffer(b), NEW w \in Bytes, NEW n \in 1 .. ReadableBytes(b)
    PROVE  LET T == Taking(Content(b), n)
               b2 == Retrieve(b, n)
           IN  /\ w \o T \in Bytes
               /\ IsBuffer(b2)
               /\ Content(b2) # <<>> <=> n < ReadableBytes(b)
               /\ w \o Content(b) = (w \o T) \o Content(b2)
  <1> DEFINE C == Content(b)
             T == Taking(C, n)
             D == Dropping(C, n)
             b2 == Retrieve(b, n)
  <1>1. /\ C \in Bytes /\ Len(C) = ReadableBytes(b) /\ ReadableBytes(b) \in Nat
        /\ n \in 0 .. Len(C) /\ n \in 0 .. ReadableBytes(b)
    BY ContentBytes
  <1>2. IsBuffer(b2) /\ Content(b2) = D
    BY <1>1, RetrieveDrops DEF Dropping
  <1>3. /\ T \in Bytes /\ D \in Bytes /\ T \o D = C
        /\ Len(D) = ReadableBytes(b) - n
    BY <1>1, CutBytes
  <1>4. w \o C = (w \o T) \o D
    <2> HIDE DEF C, T, D
    <2>1. Regroups(w, T, D)
      BY <1>3, RegroupBytes
    <2> QED
      BY <1>3, <2>1 DEF Regroups
  <1>5. D # <<>> <=> n < ReadableBytes(b)
    <2>1. D = <<>> <=> Len(D) = 0
      BY <1>3, EmptyBytes
    <2> QED
      BY <1>1, <1>3, <2>1
  <1> QED
    BY <1>2, <1>3, <1>4, <1>5, JoinBytes

\* HandleRead: n bytes of a go into the buffer, and behind c the callback gets the
\* first part x of what is then in it, of which y is left.
ReceivedRight(b, c, a, n, x, y) ==
    ((c \o x) \o y) \o Dropping(a, n) = (c \o Content(b)) \o a

LEMMA ReceivedBytes ==
    ASSUME NEW b, IsBuffer(b), NEW c \in Bytes, NEW a \in Bytes,
           NEW n \in 0 .. Len(a), NEW x \in Bytes, NEW y \in Bytes,
           x \o y = Content(ReadFd(b, Taking(a, n)))
    PROVE  ReceivedRight(b, c, a, n, x, y)
  <1> DEFINE C == Content(b)
             T == Taking(a, n)
             D == Dropping(a, n)
  <1>1. C \in Bytes /\ T \in Bytes /\ D \in Bytes
    BY ContentBytes, CutBytes
  <1>2. T \o D = a
    BY CutBytes
  <1>3. x \o y = C \o T
    BY <1>1, ReadFdAppends
  <1> HIDE DEF C, T, D
  <1>4. Regroups(c, x, y) /\ Regroups(c, C, T) /\ RegroupsFour(c, C, T, D)
    BY <1>1, RegroupBytes, RegroupFour
  <1>5. (c \o x) \o y = (c \o C) \o T
    BY <1>3, <1>4 DEF Regroups
  <1>6. ((c \o C) \o T) \o D = (c \o C) \o a
    BY <1>2, <1>4 DEF RegroupsFour
  <1>7. ((c \o x) \o y) \o D = (c \o C) \o a
    BY <1>5, <1>6
  <1> QED
    BY <1>7 DEF C, D, ReceivedRight
-----------------------------------------------------------------------------
(* The invariant, by the parts of the state it speaks of.                  *)

ControlInv ==
    /\ state \in {"connected", "disconnecting"}
    /\ closer \in Callers \cup {None}
    /\ shut \in BOOLEAN
    /\ accepted \in SUBSET Messages
    /\ at \in {"poll", "events", "functors"}
    /\ revents \in SUBSET {"in", "out"}
    /\ queue \in Seq(Functors)
    /\ batch \in Seq(Functors)
    /\ call \in [Threads -> Functors \cup {NoCall, Functor("mark", <<>>)}]

OutputInv == /\ IsBuffer(out)
             /\ wire \in Bytes
             /\ taken \in Bytes
             /\ writing \in BOOLEAN
             /\ WritingWhileWaiting
             /\ taken = wire \o Content(out)

InputInv == /\ IsBuffer(in)
            /\ arrived \in Bytes
            /\ consumed \in Bytes
            /\ offered \in 0 .. Len(Incoming)
            /\ InputInOrder

StreamInv == ControlInv /\ OutputInv /\ InputInv

LEMMA StreamInvImplies ==
    StreamInv => TypeOK /\ BuffersOK /\ WritingWhileWaiting /\ InputInOrder
  BY DEF StreamInv, ControlInv, OutputInv, InputInv, TypeOK, BuffersOK, Bytes

LEMMA StreamInvInit == Init => StreamInv
  <1> SUFFICES ASSUME Init PROVE StreamInv
    OBVIOUS
  <1>1. /\ IsBuffer(NewBuffer) /\ Content(NewBuffer) = <<>>
        /\ <<>> \in Bytes /\ <<>> \o <<>> = <<>>
    <2>1. <<>> \in Bytes
      BY EmptySeq DEF Bytes
    <2> QED
      BY <2>1, NewBufferEmpty, EmptyBytes
  <1>2. ControlInv
    <2>1. <<>> \in Seq(Functors)
      BY EmptySeq
    <2> QED
      BY <2>1 DEF Init, ControlInv
  <1>3. OutputInv
    BY <1>1 DEF Init, OutputInv, WritingWhileWaiting
  <1>4. InputInv
    <2>1. Len(Incoming) \in Nat /\ Taking(Incoming, 0) = <<>>
      BY IncomingAssumption, LenProperties, SubSeqEmpty DEF Taking
    <2> QED
      BY <1>1, <2>1 DEF Init, InputInv, InputInOrder
  <1> QED
    BY <1>2, <1>3, <1>4 DEF StreamInv

LEMMA ControlStep == ControlInv /\ [Next]_vars => ControlInv'
  <1> SUFFICES ASSUME ControlInv, [Next]_vars PROVE ControlInv'
    OBVIOUS
  <1> USE DEF ControlInv, outVars, inVars, closeVars, loopVars
  <1>1. CASE Poll
    BY <1>1 DEF Poll
  <1>2. CASE HandleRead
    BY <1>2 DEF HandleRead
  <1>3. CASE HandleWrite
    BY <1>3 DEF HandleWrite
  <1>4. CASE WriteRefused
    BY <1>4 DEF WriteRefused
  <1>5. CASE TakeBatch
    BY <1>5, EmptySeq DEF TakeBatch
  <1>6. CASE RunSend
    BY <1>6, HeadTailProperties DEF RunSend, Run
  <1>7. CASE RunShutdown
    BY <1>7, HeadTailProperties DEF RunShutdown, Run, ShutdownInLoop
  <1>8. CASE EndBatch
    BY <1>8 DEF EndBatch
  <1>9. CASE UserShutdown
    BY <1>9 DEF UserShutdown, ShutdownInLoop, Callers
  <1>10. ASSUME NEW m \in Messages, UserSend(m) PROVE ControlInv'
    BY <1>10 DEF UserSend
  <1>11. ASSUME NEW t \in Threads, NEW m \in Messages, CallSend(t, m)
         PROVE  ControlInv'
    BY <1>11 DEF CallSend, Functor, Functors
  <1>12. ASSUME NEW t \in Threads, CallShutdown(t) PROVE ControlInv'
    BY <1>12 DEF CallShutdown
  <1>13. ASSUME NEW t \in Threads, Mark(t) PROVE ControlInv'
    BY <1>13 DEF Mark, Callers, Functors
  <1>14. ASSUME NEW t \in Threads, Post(t) PROVE ControlInv'
    <2>1. call[t] \in Functors
      BY <1>14 DEF Post, NoCall, Functor
    <2> QED
      BY <1>14, <2>1, AppendProperties DEF Post
  <1>15. CASE PeerSends
    BY <1>15 DEF PeerSends
  <1>16. CASE UNCHANGED vars
    BY <1>16 DEF vars
  <1> QED
    BY <1>1, <1>2, <1>3, <1>4, <1>5, <1>6, <1>7, <1>8, <1>9, <1>10, <1>11,
       <1>12, <1>13, <1>14, <1>15, <1>16 DEF Next, LoopStep, UserStep
-----------------------------------------------------------------------------
(* Output.                                                                 *)

\* The kinds of step, as far as output is concerned.
Sends == UNCHANGED shut /\ \E m \in Messages : SendInLoop(m)
Shuts == UNCHANGED outVars /\ ShutdownInLoop

LEMMA OutputSteps ==
    ASSUME ControlInv, [Next]_vars
    PROVE  Sends \/ Shuts \/ HandleWrite \/ UNCHANGED <<outVars, shut>>
  <1> USE DEF outVars, closeVars
  <1>1. CASE RunSend
    <2>1. Head(batch) \in Functors /\ Head(batch).op = "send"
      BY <1>1, HeadTailProperties DEF RunSend, Run, ControlInv
    <2>2. Head(batch).msg \in Messages
      BY <2>1 DEF Functors, Functor
    <2> QED
      BY <1>1, <2>2 DEF RunSend, Sends
  <1>2. CASE RunShutdown
    BY <1>2 DEF RunShutdown, Shuts
  <1>3. CASE UserShutdown
    BY <1>3 DEF UserShutdown, Shuts
  <1>4. ASSUME NEW m \in Messages, UserSend(m) PROVE Sends
    BY <1>4 DEF UserSend, Sends
  <1>5. CASE Poll \/ HandleRead \/ WriteRefused \/ TakeBatch \/ EndBatch
             \/ PeerSends \/ UNCHANGED vars
    BY <1>5 DEF Poll, HandleRead, WriteRefused, TakeBatch, EndBatch, PeerSends,
       vars
  <1>6. ASSUME NEW t \in Threads,
               \/ CallShutdown(t) \/ Mark(t) \/ Post(t)
               \/ \E m \in Messages : CallSend(t, m)
        PROVE  UNCHANGED <<outVars, shut>>
    BY <1>6 DEF CallShutdown, CallSend, Mark, Post
  <1> QED
    BY <1>1, <1>2, <1>3, <1>4, <1>5, <1>6 DEF Next, LoopStep, UserStep

\* What SendInLoop does with a message, in either of its cases.
LEMMA SendStep ==
    ASSUME OutputInv, shut \in BOOLEAN, NEW m \in Messages, SendInLoop(m)
    PROVE  /\ OutputInv'
           /\ taken' = taken \o m
           /\ \E x \in Bytes : wire' = wire \o x
           /\ shut => wire' = wire
  <1>1. m \in Bytes /\ Len(m) \in Nat
    BY MessagesAssumption, EmptyBytes DEF Bytes
  <1>2. PICK n \in 0 .. Len(m) : /\ SendPart(m, n)
                                 /\ shut => n = 0
                                 /\ n = 0 \/ Content(out) = <<>>
    <2>1. CASE ~writing /\ ReadableBytes(out) = 0
      <3>1. Content(out) = <<>>
        BY <2>1, ContentBytes, EmptyBytes DEF OutputInv
      <3> QED
        BY <2>1, <3>1 DEF SendInLoop
    <2>2. CASE ~(~writing /\ ReadableBytes(out) = 0)
      BY <1>1, <2>2 DEF SendInLoop
    <2> QED
      BY <2>1, <2>2
  <1>3. IsBuffer(out) /\ wire \in Bytes /\ taken \in Bytes
    BY DEF OutputInv
  <1>4. SentRight(out, wire, m, n)
    BY <1>1, <1>2, <1>3, SentBytes
  <1>5. wire' = wire \o Taking(m, n) /\ taken' = taken \o m
    BY <1>2 DEF SendPart
  <1>6. wire' \in Bytes /\ taken' \in Bytes
    BY <1>1, <1>3, <1>4, <1>5, JoinBytes DEF SentRight
  <1>7. taken' = (wire \o Content(out)) \o m
    BY <1>5 DEF OutputInv
  <1>8. ASSUME n < Len(m) PROVE OutputInv'
    <2>1. out' = Appended(out, Dropping(m, n)) /\ writing' = TRUE
      BY <1>2, <1>8 DEF SendPart
    <2>2. /\ IsBuffer(out')
          /\ Content(out') # <<>>
          /\ taken' = wire' \o Content(out')
      BY <1>4, <1>5, <1>7, <1>8, <2>1 DEF SentRight
    <2> QED
      BY <1>6, <2>1, <2>2 DEF OutputInv, WritingWhileWaiting
  <1>9. ASSUME n = Len(m) PROVE OutputInv'
    <2>1. out' = out /\ writing' = writing
      BY <1>1, <1>2, <1>9 DEF SendPart
    <2>2. taken' = wire' \o Content(out')
      BY <1>4, <1>5, <1>7, <1>9, <2>1 DEF SentRight
    <2> QED
      BY <1>6, <2>1, <2>2 DEF OutputInv, WritingWhileWaiting
  <1>10. OutputInv'
    BY <1>1, <1>8, <1>9
  <1>11. Taking(m, n) \in Bytes
    BY <1>1, CutBytes
  <1> QED
    BY <1>2, <1>4, <1>5, <1>10, <1>11 DEF SentRight

\* What HandleWrite does, and what it leaves when it shuts the socket down.
LEMMA WriteStep ==
    ASSUME OutputInv, ControlInv, HandleWrite
    PROVE  /\ OutputInv'
           /\ taken' = taken
           /\ \E x \in Bytes : wire' = wire \o x
           /\ ~shut
           /\ shut' => Content(out') = <<>>
  <1>1. PICK n \in 1 .. ReadableBytes(out) :
           /\ ~shut
           /\ wire' = wire \o Taking(Content(out), n)
           /\ out' = Retrieve(out, n)
           /\ writing' = (n < ReadableBytes(out))
           /\ shut' = (n = ReadableBytes(out) /\ state = "disconnecting")
    BY DEF HandleWrite
  <1>2. taken' = taken
    BY DEF HandleWrite
  <1>3. IsBuffer(out) /\ wire \in Bytes /\ taken \in Bytes
        /\ taken = wire \o Content(out)
    BY DEF OutputInv
  <1>4. /\ Content(out) \in Bytes
        /\ Len(Content(out)) = ReadableBytes(out)
        /\ ReadableBytes(out) \in Nat
    BY <1>3, ContentBytes
  <1>5. /\ wire \o Taking(Content(out), n) \in Bytes
        /\ IsBuffer(Retrieve(out, n))
        /\ Content(Retrieve(out, n)) # <<>> <=> n < ReadableBytes(out)
        /\ wire \o Content(out)
             = (wire \o Taking(Content(out), n)) \o Content(Retrieve(out, n))
    BY <1>3, DrainedBytes
  <1>6. /\ wire' \in Bytes /\ taken' \in Bytes /\ IsBuffer(out')
        /\ taken' = wire' \o Content(out')
    BY <1>1, <1>2, <1>3, <1>5
  <1>10. writing' \in BOOLEAN /\ (writing' <=> Content(out') # <<>>)
    <2>1. writing' = (n < ReadableBytes(out)) /\ out' = Retrieve(out, n)
      BY <1>1
    <2>2. Content(out') # <<>> <=> n < ReadableBytes(out)
      BY <1>5, <2>1
    <2>3. writing' \in BOOLEAN
      BY <2>1
    <2>4. writing' <=> n < ReadableBytes(out)
      BY <2>1
    <2> QED
      BY <2>2, <2>3, <2>4
  <1>7. OutputInv'
    BY <1>6, <1>10 DEF OutputInv, WritingWhileWaiting
  <1>8. Taking(Content(out), n) \in Bytes
    <2>1. n \in 0 .. Len(Content(out))
      BY <1>4
    <2> QED
      BY <1>4, <2>1, CutBytes
  <1>9. shut' => Content(out') = <<>>
    <2>1. shut' => n = ReadableBytes(out)
      BY <1>1
    <2>2. n = ReadableBytes(out) => ~(n < ReadableBytes(out))
      BY <1>4
    <2> QED
      BY <1>1, <1>5, <2>1, <2>2
  <1> QED
    BY <1>1, <1>2, <1>7, <1>8, <1>9

LEMMA OutputStep == ControlInv /\ OutputInv /\ [Next]_vars => OutputInv'
  <1> SUFFICES ASSUME ControlInv, OutputInv, [Next]_vars PROVE OutputInv'
    OBVIOUS
  <1>1. CASE Sends
    BY <1>1, SendStep DEF Sends, ControlInv
  <1>2. CASE HandleWrite
    BY <1>2, WriteStep
  <1>3. CASE Shuts \/ UNCHANGED <<outVars, shut>>
    <2>1. UNCHANGED outVars
      BY <1>3 DEF Shuts
    <2>2. out' = out /\ writing' = writing /\ wire' = wire /\ taken' = taken
      BY <2>1 DEF outVars
    <2> QED
      BY <2>2 DEF OutputInv, WritingWhileWaiting
  <1> QED
    BY <1>1, <1>2, <1>3, OutputSteps
-----------------------------------------------------------------------------
(* Input.                                                                  *)

LEMMA InputSteps == [Next]_vars => PeerSends \/ HandleRead \/ UNCHANGED inVars
  <1> USE DEF inVars
  <1>1. LoopStep => HandleRead \/ UNCHANGED inVars
    BY DEF LoopStep, HandleWrite, WriteRefused, TakeBatch, RunSend,
       RunShutdown, EndBatch
  <1>2. UserStep => UNCHANGED inVars
    BY DEF UserStep, UserShutdown, UserSend, CallShutdown, CallSend
  <1> QED
    BY <1>1, <1>2 DEF Next, Poll, Mark, Post, vars

LEMMA PeerStep == InputInv /\ PeerSends => InputInv'
  <1> SUFFICES ASSUME InputInv, PeerSends PROVE InputInv'
    OBVIOUS
  <1>1. /\ IsBuffer(in) /\ Content(in) \in Bytes
        /\ arrived \in Bytes /\ consumed \in Bytes
        /\ Incoming \in Bytes /\ Len(Incoming) \in Nat
        /\ offered \in Nat /\ offered <= Len(Incoming)
    BY IncomingAssumption, LenProperties, ContentBytes DEF InputInv, Bytes
  <1>2. PICK n \in 1 .. Len(Incoming) - offered :
           /\ arrived' = arrived \o SubSeq(Incoming, offered + 1, offered + n)
           /\ offered' = offered + n
    BY DEF PeerSends
  <1> DEFINE d == SubSeq(Incoming, offered + 1, offered + n)
             I == Taking(Incoming, offered)
  <1>3. n \in Nat /\ offered + n \in 0 .. Len(Incoming)
    BY <1>1, <1>2
  <1>4. d \in Bytes
    <2>1. \A i \in offered + 1 .. offered + n : Incoming[i] \in Byte
      BY <1>1, <1>3, LenProperties DEF Bytes
    <2>2. offered + 1 \in Int /\ offered + n \in Int
      BY <1>1, <1>3
    <2> QED
      BY <2>1, <2>2, SubSeqProperties DEF Bytes
  <1>5. I \o d = Taking(Incoming, offered + n)
    <2>1. /\ Incoming \in Seq(Byte)
          /\ 1 \in 1 .. Len(Incoming) + 1
          /\ offered \in 1 - 1 .. Len(Incoming)
          /\ offered + n \in offered .. Len(Incoming)
      BY <1>1, <1>3 DEF Bytes
    <2> QED
      BY <2>1, ConcatAdjacentSubSeq DEF Taking
  <1>6. arrived \o d \in Bytes
    BY <1>1, <1>4, JoinBytes
  <1> HIDE DEF d, I
  <1>7. (consumed \o Content(in)) \o (arrived \o d) = I \o d
    <2> DEFINE X == consumed \o Content(in)
    <2>1. X \in Bytes /\ X \o arrived = I
      BY <1>1, JoinBytes DEF InputInv, InputInOrder, I
    <2> HIDE DEF X
    <2>2. (X \o arrived) \o d = X \o (arrived \o d)
      <3>1. X \in Bytes /\ arrived \in Bytes /\ d \in Bytes
        BY <1>1, <1>4, <2>1
      <3>2. Regroups(X, arrived, d)
        BY <3>1, RegroupBytes
      <3> QED
        BY <3>2 DEF Regroups
    <2>3. X \o (arrived \o d) = I \o d
      BY <2>1, <2>2
    <2> QED
      BY <2>3 DEF X
  <1>8. /\ in' = in /\ consumed' = consumed
        /\ arrived' = arrived \o d /\ offered' = offered + n
    BY <1>2 DEF PeerSends, d
  <1>9. InputInOrder'
    BY <1>5, <1>7, <1>8 DEF InputInOrder
  <1> QED
    BY <1>1, <1>3, <1>6, <1>8, <1>9 DEF InputInv

LEMMA ReadStep == InputInv /\ HandleRead => InputInv'
  <1> SUFFICES ASSUME InputInv, HandleRead PROVE InputInv'
    OBVIOUS
  <1> DEFINE n == Lesser(Len(arrived), WritableBytes(in) + ExtraSize)
             b == ReadFd(in, Taking(arrived, n))
  <1>1. /\ IsBuffer(in) /\ Content(in) \in Bytes
        /\ arrived \in Bytes /\ consumed \in Bytes /\ Len(arrived) \in Nat
    BY ContentBytes, EmptyBytes DEF InputInv
  <1>2. n \in 0 .. Len(arrived)
    <2>1. WritableBytes(in) + ExtraSize \in Nat
      BY <1>1, BufferFields, IncomingAssumption DEF WritableBytes, IsBuffer
    <2> QED
      BY <1>1, <2>1 DEF Lesser
  <1>3. /\ arrived' = Dropping(arrived, n)
        /\ offered' = offered
        /\ \/ in' = RetrieveAll(b) /\ consumed' = consumed \o Content(b)
           \/ \E k \in 0 .. ReadableBytes(b) :
                 /\ in' = Retrieve(b, k)
                 /\ consumed' = consumed \o Taking(Content(b), k)
    BY DEF HandleRead
  <1> HIDE DEF n
  <1>4. IsBuffer(b)
    BY <1>1, <1>2, CutBytes, ReadFdAppends
  <1>5. \E x \in Bytes : /\ IsBuffer(in')
                         /\ Content(in') \in Bytes
                         /\ x \o Content(in') = Content(b)
                         /\ consumed' = consumed \o x
    <2> HIDE DEF b
    <2>1. /\ Content(b) \in Bytes /\ Len(Content(b)) = ReadableBytes(b)
      BY <1>4, ContentBytes
    <2>2. CASE in' = RetrieveAll(b) /\ consumed' = consumed \o Content(b)
      <3>1. IsBuffer(in') /\ Content(in') = <<>>
        BY <1>4, <2>2, RetrieveAllEmpties
      <3>2. Content(b) \o <<>> = Content(b) /\ <<>> \in Bytes
        BY <2>1, EmptyBytes
      <3> QED
        BY <2>1, <2>2, <3>1, <3>2
    <2>3. ASSUME NEW k \in 0 .. ReadableBytes(b),
                 in' = Retrieve(b, k),
                 consumed' = consumed \o Taking(Content(b), k)
          PROVE  \E x \in Bytes : /\ IsBuffer(in')
                                  /\ Content(in') \in Bytes
                                  /\ x \o Content(in') = Content(b)
                                  /\ consumed' = consumed \o x
      <3>1. IsBuffer(in') /\ Content(in') = Dropping(Content(b), k)
        BY <1>4, <2>3, RetrieveDrops DEF Dropping
      <3>2. /\ Taking(Content(b), k) \in Bytes
            /\ Dropping(Content(b), k) \in Bytes
            /\ Taking(Content(b), k) \o Dropping(Content(b), k) = Content(b)
        BY <2>1, CutBytes
      <3> QED
        BY <2>3, <3>1, <3>2
    <2> QED
      BY <1>3, <2>2, <2>3
  <1>6. PICK x \in Bytes : /\ IsBuffer(in')
                           /\ Content(in') \in Bytes
                           /\ x \o Content(in') = Content(b)
                           /\ consumed' = consumed \o x
    BY <1>5
  <1>7. ((consumed \o x) \o Content(in')) \o Dropping(arrived, n)
           = (consumed \o Content(in)) \o arrived
    <2>1. x \o Content(in') = Content(ReadFd(in, Taking(arrived, n)))
      BY <1>6
    <2>2. ReceivedRight(in, consumed, arrived, n, x, Content(in'))
      BY <1>1, <1>2, <1>6, <2>1, ReceivedBytes
    <2> QED
      BY <2>2 DEF ReceivedRight
  <1>8. arrived' \in Bytes /\ consumed' \in Bytes
    BY <1>1, <1>2, <1>3, <1>6, CutBytes, JoinBytes
  <1>9. InputInOrder'
    <2>1. (consumed \o Content(in)) \o arrived = Taking(Incoming, offered)
      BY DEF InputInv, InputInOrder
    <2> QED
      BY <1>3, <1>6, <1>7, <2>1 DEF InputInOrder
  <1> QED
    BY <1>3, <1>6, <1>8, <1>9 DEF InputInv

LEMMA InputStep == InputInv /\ [Next]_vars => InputInv'
  <1>1. InputInv /\ UNCHANGED inVars => InputInv'
    BY DEF inVars, InputInv, InputInOrder
  <1> QED
    BY <1>1, InputSteps, PeerStep, ReadStep
-----------------------------------------------------------------------------
LEMMA StreamInductive == Spec => []StreamInv
  <1>1. StreamInv /\ [Next]_vars => StreamInv'
    BY ControlStep, OutputStep, InputStep DEF StreamInv
  <1> QED
    BY <1>1, StreamInvInit, PTL DEF Spec

\* The state of the connection keeps its type.
THEOREM StreamTypeCorrect == Spec => []TypeOK
  BY StreamInductive, StreamInvImplies, PTL

\* The indices of both buffers stay in order, whatever sizes the pieces have that
\* are appended, read and retrieved.
THEOREM BuffersStayOK == Spec => []BuffersOK
  BY StreamInductive, StreamInvImplies, PTL

\* POLLOUT is asked for exactly while output waits.
THEOREM WaitingIsWatched == Spec => []WritingWhileWaiting
  BY StreamInductive, StreamInvImplies, PTL

\* The message callback gets what the client sent, once and in order.
THEOREM InputStaysInOrder == Spec => []InputInOrder
  BY StreamInductive, StreamInvImplies, PTL

\* A longer wire is one step of the pipe.
LEMMA TransferStep ==
    ASSUME OutputInv, OutputInv', NEW d \in Messages \cup {<<>>},
           taken' = taken \o d,
           \E x \in Bytes : wire' = wire \o x,
           shut => wire' = wire, shut' = shut
    PROVE  Output!Transfer(d)
  <1>1. PICK x \in Bytes : wire' = wire \o x
    OBVIOUS
  <1>2. /\ wire \in Bytes /\ wire' \in Bytes
        /\ taken' = wire' \o Content(out') /\ IsBuffer(out')
    BY DEF OutputInv
  <1>3. Content(out') \in Bytes
    BY <1>2, ContentBytes
  <1>4. /\ Len(wire') = Len(wire) + Len(x)
        /\ Len(taken') = Len(wire') + Len(Content(out'))
        /\ SubSeq(taken', 1, Len(wire')) = wire'
    BY <1>1, <1>2, <1>3, JoinBytes
  <1>5. Len(wire') \in Len(wire) .. Len(taken')
    <2>1. /\ Len(wire) \in Nat /\ Len(x) \in Nat
          /\ Len(Content(out')) \in Nat /\ Len(wire') \in Nat
      BY <1>2, <1>3, EmptyBytes
    <2> QED
      BY <1>4, <2>1
  <1> QED
    BY <1>4, <1>5 DEF Output!Transfer

\* The FIN is sent when all output is out.
LEMMA FinishStep ==
    ASSUME OutputInv', taken' = taken, ~shut, shut' = TRUE,
           Content(out') = <<>>
    PROVE  Output!Finish
  <1>1. taken' = wire' \o <<>> /\ wire' \in Bytes
    BY DEF OutputInv
  <1>2. wire' \o <<>> = wire'
    BY <1>1, EmptyBytes
  <1> QED
    BY <1>1, <1>2 DEF Output!Finish

LEMMA PipeStep ==
    StreamInv /\ StreamInv' /\ [Next]_vars => [Output!Next]_(Output!vars)
  <1> SUFFICES ASSUME StreamInv, StreamInv', [Next]_vars
               PROVE  [Output!Next]_(Output!vars)
    OBVIOUS
  <1>1. /\ ControlInv /\ OutputInv /\ OutputInv'
        /\ shut \in BOOLEAN /\ shut' \in BOOLEAN
    BY DEF StreamInv, ControlInv
  <1>2. CASE Sends
    <2>1. PICK m \in Messages : SendInLoop(m)
      BY <1>2 DEF Sends
    <2>2. Output!Transfer(m)
      BY <1>1, <1>2, <2>1, SendStep, TransferStep DEF Sends
    <2> QED
      BY <2>2 DEF Output!Next
  <1>3. CASE HandleWrite
    <2>1. /\ taken' = taken
          /\ \E x \in Bytes : wire' = wire \o x
          /\ ~shut
          /\ shut' => Content(out') = <<>>
      BY <1>1, <1>3, WriteStep
    <2>2. CASE shut'
      BY <1>1, <2>1, <2>2, FinishStep DEF Output!Next
    <2>3. CASE ~shut'
      <3>1. shut' = shut
        BY <1>1, <2>1, <2>3
      <3>2. taken' = taken \o <<>>
        BY <1>1, <2>1, EmptyBytes DEF OutputInv
      <3>3. Output!Transfer(<<>>)
        BY <1>1, <2>1, <3>1, <3>2, TransferStep
      <3> QED
        BY <3>3 DEF Output!Next
    <2> QED
      BY <2>2, <2>3
  <1>4. CASE Shuts
    <2>1. /\ out' = out /\ writing' = writing /\ wire' = wire /\ taken' = taken
          /\ shut' = (shut \/ ~writing)
      BY <1>4 DEF Shuts, outVars, ShutdownInLoop
    <2>2. CASE shut \/ writing
      <3>1. shut' = shut
        BY <1>1, <2>1, <2>2
      <3> QED
        BY <2>1, <3>1 DEF Output!vars
    <2>3. CASE ~shut /\ ~writing
      <3>1. shut' = TRUE
        BY <2>1, <2>3
      <3>2. Content(out') = <<>>
        BY <1>1, <2>1, <2>3 DEF OutputInv, WritingWhileWaiting
      <3> QED
        BY <1>1, <2>1, <2>3, <3>1, <3>2, FinishStep DEF Output!Next
    <2> QED
      BY <2>2, <2>3
  <1>5. CASE UNCHANGED <<outVars, shut>>
    BY <1>5 DEF outVars, Output!vars
  <1> QED
    BY <1>1, <1>2, <1>3, <1>4, <1>5, OutputSteps

\* The output side implements Pipe: what SendInLoop is given goes out in order,
\* each byte once, and the FIN after all of it.
THEOREM OutputRefinement == Spec => ImplementsOutput
  <1>1. Init => Output!Init
    BY DEF Init, Output!Init
  <1> QED
    BY <1>1, StreamInductive, PipeStep, PTL
       DEF Spec, ImplementsOutput, Output!Spec

-----------------------------------------------------------------------------
(* What the loop's own thread sends.                                       *)

\* Nobody has got as far as to shut the socket down.
NoShutdown == /\ ~shut
              /\ \A i \in DOMAIN queue : queue[i].op # "shutdown"
              /\ \A i \in DOMAIN batch : batch[i].op # "shutdown"
              /\ \A t \in Threads : call[t].op # "shutdown"

LoopSendsTaken == \A m \in accepted :
    Sender[m] = LoopThread => Elements(m) \subseteq Elements(taken)

GraceInv == /\ state = "connected" => NoShutdown
            /\ LoopSendsTaken
            /\ LoopSendsArrive

LEMMA ElementsJoined ==
    ASSUME NEW s \in Bytes, NEW t \in Bytes
    PROVE  /\ Elements(s) \subseteq Elements(s \o t)
           /\ Elements(t) \subseteq Elements(s \o t)
  <1>1. s \in Seq(Byte) /\ t \in Seq(Byte) /\ Len(s) \in Nat /\ Len(t) \in Nat
    BY EmptyBytes DEF Bytes
  <1>2. /\ s \o t \in Seq(Byte) /\ Len(s \o t) = Len(s) + Len(t)
        /\ \A i \in 1 .. Len(s) + Len(t) :
              (s \o t)[i] = IF i <= Len(s) THEN s[i] ELSE t[i - Len(s)]
    BY <1>1, ConcatProperties
  <1>3. /\ DOMAIN s = 1 .. Len(s) /\ DOMAIN t = 1 .. Len(t)
        /\ DOMAIN (s \o t) = 1 .. Len(s) + Len(t)
    BY <1>1, <1>2, LenProperties
  <1>4. ASSUME NEW i \in 1 .. Len(s) PROVE s[i] \in Elements(s \o t)
    <2>1. i \in 1 .. Len(s) + Len(t) /\ (s \o t)[i] = s[i]
      BY <1>1, <1>2
    <2> QED
      BY <1>3, <2>1 DEF Elements
  <1>5. ASSUME NEW i \in 1 .. Len(t) PROVE t[i] \in Elements(s \o t)
    <2>1. Len(s) + i \in 1 .. Len(s) + Len(t) /\ (s \o t)[Len(s) + i] = t[i]
      BY <1>1, <1>2
    <2> QED
      BY <1>3, <2>1 DEF Elements
  <1> QED
    BY <1>3, <1>4, <1>5 DEF Elements

\* Only a call of Shutdown leads to a FIN, and it ends the state "connected".
LEMMA NoShutdownStep ==
    ASSUME ControlInv, state = "connected" => NoShutdown, [Next]_vars
    PROVE  state' = "connected" => NoShutdown'
  <1> SUFFICES ASSUME state' = "connected" PROVE NoShutdown'
    OBVIOUS
  <1> USE DEF outVars, inVars, closeVars, loopVars
  <1>1. state = "connected" /\ ~UserShutdown /\ \A t \in Threads : ~Mark(t)
    <2>1. ~UserShutdown /\ \A t \in Threads : ~Mark(t)
      BY DEF UserShutdown, Mark
    <2>2. state' = state
      BY <2>1 DEF Next, LoopStep, UserStep, Poll, HandleRead, HandleWrite,
                  WriteRefused, TakeBatch, RunSend, RunShutdown, EndBatch,
                  UserSend, CallSend, CallShutdown, Post, PeerSends, vars
    <2> QED
      BY <2>1, <2>2
  <1>2. NoShutdown
    BY <1>1
  <1>3. /\ queue \in Seq(Functors) /\ batch \in Seq(Functors)
        /\ call \in [Threads -> Functors \cup {NoCall, Functor("mark", <<>>)}]
    BY DEF ControlInv
  <1>4. CASE UNCHANGED <<shut, queue, batch, call>>
    BY <1>2, <1>4 DEF NoShutdown
  <1>5. CASE HandleWrite
    BY <1>1, <1>2, <1>5 DEF HandleWrite, NoShutdown
  <1>6. CASE TakeBatch
    BY <1>2, <1>6 DEF TakeBatch, NoShutdown
  <1>7. ASSUME NEW o, Run(o), UNCHANGED <<queue, call>>, UNCHANGED shut
        PROVE  NoShutdown'
    <2>1. batch # <<>> /\ batch' = Tail(batch)
      BY <1>7 DEF Run
    <2>2. /\ Len(batch) \in Nat /\ DOMAIN batch = 1 .. Len(batch)
          /\ Tail(batch) \in Seq(Functors) /\ Len(Tail(batch)) = Len(batch) - 1
          /\ \A i \in 1 .. Len(batch) - 1 : Tail(batch)[i] = batch[i + 1]
      BY <1>3, <2>1, HeadTailProperties, LenProperties
    <2>3. DOMAIN Tail(batch) = 1 .. Len(batch) - 1
      BY <2>2, LenProperties
    <2>4. \A i \in 1 .. Len(batch) - 1 : i + 1 \in 1 .. Len(batch)
      BY <2>2
    <2> QED
      BY <1>2, <1>7, <2>1, <2>2, <2>3, <2>4 DEF NoShutdown
  <1>8. CASE RunSend
    BY <1>7, <1>8 DEF RunSend
  <1>9. CASE RunShutdown
    <2>1. batch # <<>> /\ Head(batch).op = "shutdown"
      BY <1>9 DEF RunShutdown, Run
    <2>2. Head(batch) = batch[1] /\ 1 \in DOMAIN batch
      BY <1>3, <2>1, HeadTailProperties, LenProperties
    <2> QED
      BY <1>2, <2>1, <2>2 DEF NoShutdown
  <1>10. ASSUME NEW t \in Threads, NEW m \in Messages, CallSend(t, m)
         PROVE  NoShutdown'
    BY <1>2, <1>3, <1>10 DEF CallSend, NoShutdown, Functor
  <1>11. ASSUME NEW t \in Threads, CallShutdown(t) PROVE NoShutdown'
    BY <1>2, <1>3, <1>11 DEF CallShutdown, NoShutdown, Functor
  <1>12. ASSUME NEW t \in Threads, Post(t) PROVE NoShutdown'
    <2>1. /\ queue' = Append(queue, call[t])
          /\ call' = [call EXCEPT ![t] = NoCall]
          /\ UNCHANGED <<shut, batch>>
      BY <1>12 DEF Post
    <2>2. call[t] \in Functors /\ call[t].op # "shutdown"
      BY <1>2, <1>3, <1>12 DEF Post, NoCall, Functor, NoShutdown
    <2>3. \A i \in DOMAIN queue' : queue'[i].op # "shutdown"
      <3>1. /\ Len(queue) \in Nat /\ DOMAIN queue = 1 .. Len(queue)
            /\ queue' \in Seq(Functors) /\ Len(queue') = Len(queue) + 1
            /\ \A i \in 1 .. Len(queue) : queue'[i] = queue[i]
            /\ queue'[Len(queue) + 1] = call[t]
        BY <1>3, <2>1, <2>2, AppendProperties, LenProperties
      <3>2. DOMAIN queue' = 1 .. Len(queue) + 1
        BY <3>1, LenProperties
      <3>3. \A i \in 1 .. Len(queue) + 1 : i \in 1 .. Len(queue) \/ i = Len(queue) + 1
        BY <3>1
      <3> QED
        BY <1>2, <2>2, <3>1, <3>2, <3>3 DEF NoShutdown
    <2>4. \A u \in Threads : call'[u].op # "shutdown"
      BY <1>2, <1>3, <2>1 DEF NoShutdown, NoCall, Functor
    <2> QED
      BY <1>2, <2>1, <2>3, <2>4 DEF NoShutdown
  <1>13. ASSUME NEW m \in Messages, UserSend(m)
         PROVE  UNCHANGED <<shut, queue, batch, call>>
    BY <1>13 DEF UserSend
  <1>14. ASSUME \/ Poll \/ HandleRead \/ WriteRefused \/ EndBatch \/ PeerSends
                \/ UNCHANGED vars
         PROVE  UNCHANGED <<shut, queue, batch, call>>
    BY <1>14 DEF Poll, HandleRead, WriteRefused, EndBatch, PeerSends, vars
  <1> QED
    BY <1>1, <1>4, <1>5, <1>6, <1>8, <1>9, <1>10, <1>11, <1>12, <1>13, <1>14
       DEF Next, LoopStep, UserStep

\* What a step adds to the messages of the loop's own thread.
LEMMA LoopAccepts ==
    ASSUME ControlInv, [Next]_vars
    PROVE  \/ \A m \in accepted' : Sender[m] = LoopThread => m \in accepted
           \/ \E m \in Messages : /\ state = "connected"
                                  /\ accepted' = accepted \cup {m}
                                  /\ SendInLoop(m)
                                  /\ UNCHANGED shut
  <1> USE DEF outVars, inVars, closeVars, loopVars
  <1>1. ASSUME NEW m \in Messages, UserSend(m)
        PROVE  /\ state = "connected"
               /\ accepted' = accepted \cup {m}
               /\ SendInLoop(m)
               /\ UNCHANGED shut
    BY <1>1 DEF UserSend
  <1>2. ASSUME NEW t \in Threads, NEW m \in Messages, CallSend(t, m)
        PROVE  \A k \in accepted' : Sender[k] = LoopThread => k \in accepted
    BY <1>2, ThreadsAssumption DEF CallSend
  <1>3. ASSUME \/ Poll \/ LoopStep \/ UserShutdown \/ PeerSends \/ UNCHANGED vars
               \/ \E t \in Threads : CallShutdown(t) \/ Mark(t) \/ Post(t)
        PROVE  accepted' = accepted
    BY <1>3 DEF Poll, LoopStep, HandleRead, HandleWrite, WriteRefused, TakeBatch,
                RunSend, RunShutdown, EndBatch, UserShutdown, PeerSends,
                CallShutdown, Mark, Post, vars
  <1> QED
    BY <1>1, <1>2, <1>3 DEF Next, UserStep

\* What a step does to the bytes, and what a FIN finds.
LEMMA BytesStep ==
    ASSUME ControlInv, ControlInv', OutputInv, OutputInv', [Next]_vars
    PROVE  /\ Elements(taken) \subseteq Elements(taken')
           /\ Elements(wire) \subseteq Elements(wire')
           /\ shut' /\ ~shut => wire' = taken'
  <1>1. /\ wire \in Bytes /\ taken \in Bytes /\ IsBuffer(out')
        /\ wire' \in Bytes /\ taken' = wire' \o Content(out')
        /\ shut \in BOOLEAN
    BY DEF OutputInv, ControlInv
  <1>2. CASE Sends
    <2>1. PICK m \in Messages : SendInLoop(m)
      BY <1>2 DEF Sends
    <2>2. taken' = taken \o m /\ \E x \in Bytes : wire' = wire \o x
      BY <1>1, <2>1, SendStep
    <2>3. m \in Bytes
      BY MessagesAssumption DEF Bytes
    <2> QED
      BY <1>1, <1>2, <2>2, <2>3, ElementsJoined DEF Sends
  <1>3. CASE HandleWrite
    <2>1. /\ taken' = taken
          /\ \E x \in Bytes : wire' = wire \o x
          /\ shut' => Content(out') = <<>>
      BY <1>3, WriteStep
    <2>2. wire' \o <<>> = wire'
      BY <1>1, EmptyBytes
    <2> QED
      BY <1>1, <2>1, <2>2, ElementsJoined
  <1>4. CASE Shuts \/ UNCHANGED <<outVars, shut>>
    <2>1. taken' = taken /\ wire' = wire /\ writing' = writing /\ out' = out
      BY <1>4 DEF Shuts, outVars
    <2>2. shut' /\ ~shut => ~writing
      BY <1>1, <1>4 DEF Shuts, ShutdownInLoop
    <2>3. ~writing => Content(out') = <<>>
      BY <2>1 DEF OutputInv, WritingWhileWaiting
    <2>4. wire' \o <<>> = wire'
      BY <1>1, EmptyBytes
    <2> QED
      BY <1>1, <2>1, <2>2, <2>3, <2>4
  <1> QED
    BY <1>2, <1>3, <1>4, OutputSteps

LEMMA GraceStep ==
    ASSUME StreamInv, StreamInv', GraceInv, [Next]_vars
    PROVE  GraceInv'
  <1>1. /\ ControlInv /\ ControlInv' /\ OutputInv /\ OutputInv'
        /\ shut \in BOOLEAN /\ shut' \in BOOLEAN
    BY DEF StreamInv, ControlInv
  <1>2. state' = "connected" => NoShutdown'
    BY <1>1, NoShutdownStep DEF GraceInv
  <1>3. /\ Elements(taken) \subseteq Elements(taken')
        /\ Elements(wire) \subseteq Elements(wire')
        /\ shut' /\ ~shut => wire' = taken'
    BY <1>1, BytesStep
  <1>4. LoopSendsTaken /\ LoopSendsArrive
    BY DEF GraceInv
  <1>5. CASE \A m \in accepted' : Sender[m] = LoopThread => m \in accepted
    <2>1. LoopSendsTaken'
      BY <1>3, <1>4, <1>5 DEF LoopSendsTaken
    <2>2. ASSUME shut', NEW m \in accepted', Sender[m] = LoopThread
          PROVE  Elements(m) \subseteq Elements(wire')
      <3>1. CASE shut
        BY <1>3, <1>4, <1>5, <2>2, <3>1 DEF LoopSendsArrive
      <3>2. CASE ~shut
        <4>1. Elements(m) \subseteq Elements(taken')
          BY <2>1, <2>2 DEF LoopSendsTaken
        <4> QED
          BY <1>3, <2>2, <3>2, <4>1
      <3> QED
        BY <3>1, <3>2
    <2>3. LoopSendsArrive'
      BY <2>2 DEF LoopSendsArrive
    <2> QED
      BY <1>2, <2>1, <2>3 DEF GraceInv
  <1>6. ASSUME NEW m \in Messages,
               /\ state = "connected"
               /\ accepted' = accepted \cup {m}
               /\ SendInLoop(m)
               /\ UNCHANGED shut
        PROVE  GraceInv'
    <2>1. ~shut'
      BY <1>6 DEF GraceInv, NoShutdown
    <2>2. taken' = taken \o m /\ taken \in Bytes /\ m \in Bytes
      <3>1. taken' = taken \o m
        BY <1>1, <1>6, SendStep
      <3> QED
        BY <1>1, <3>1, MessagesAssumption DEF OutputInv, Bytes
    <2>3. Elements(m) \subseteq Elements(taken')
      BY <2>2, ElementsJoined
    <2>4. LoopSendsTaken'
      BY <1>3, <1>4, <1>6, <2>3 DEF LoopSendsTaken
    <2> QED
      BY <1>2, <2>1, <2>4 DEF GraceInv, LoopSendsArrive
  <1> QED
    BY <1>1, <1>5, <1>6, LoopAccepts

\* What was sent on the loop's own thread is out before the FIN, whoever calls
\* Shutdown: the premature FIN loses only what other threads send.
THEOREM LoopSendsAreGraceful == Spec => []LoopSendsArrive
  <1>1. Init => GraceInv
    BY DEF Init, GraceInv, NoShutdown, LoopSendsTaken, LoopSendsArrive, NoCall,
           Functor
  <1>2. StreamInv /\ StreamInv' /\ GraceInv /\ [Next]_vars => GraceInv'
    BY GraceStep
  <1>3. GraceInv => LoopSendsArrive
    BY DEF GraceInv
  <1> QED
    BY <1>1, <1>2, <1>3, StreamInductive, PTL DEF Spec
==============================================================================
