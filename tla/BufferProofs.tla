---------------------------- MODULE BufferProofs ----------------------------
(***************************************************************************)
(* Every operation of Buffer keeps the indices in order and does to the    *)
(* content what its name says, for buffers of any size and any data.       *)
(***************************************************************************)
EXTENDS Buffer, Integers, SequenceTheorems, TLAPS

Bytes == Seq(Byte)

LEMMA FunctionIsSeq ==
    ASSUME NEW n \in Nat, NEW f \in [1 .. n -> Byte]
    PROVE  f \in Bytes /\ Len(f) = n
  <1>1. f \in Seq(Byte)
    BY SeqDef
  <1>2. Len(f) \in Nat /\ DOMAIN f = 1 .. Len(f) /\ DOMAIN f = 1 .. n
    BY <1>1, LenProperties
  <1> QED
    BY <1>1, <1>2 DEF Bytes

LEMMA BufferFields ==
    ASSUME NEW b, IsBuffer(b)
    PROVE  /\ b.bytes \in Bytes /\ b.reader \in Nat /\ b.writer \in Nat
           /\ Len(b.bytes) \in Nat
           /\ DOMAIN b.bytes = 1 .. Len(b.bytes)
           /\ b.bytes \in [1 .. Len(b.bytes) -> Byte]
           /\ b = [bytes |-> b.bytes, reader |-> b.reader, writer |-> b.writer]
  BY LenProperties DEF IsBuffer, Bytes

LEMMA ContentBytes ==
    ASSUME NEW b, IsBuffer(b)
    PROVE  /\ Content(b) \in Bytes
           /\ Len(Content(b)) = ReadableBytes(b)
           /\ ReadableBytes(b) \in Nat
           /\ \A i \in 1 .. ReadableBytes(b) :
                 Content(b)[i] = b.bytes[b.reader + i]
  <1>1. \A i \in b.reader + 1 .. b.writer : b.bytes[i] \in Byte
    BY BufferFields DEF IsBuffer
  <1>2. /\ b.reader \in Nat /\ b.writer \in Nat /\ b.reader <= b.writer
        /\ b.reader + 1 \in Int /\ b.writer \in Int
    BY BufferFields DEF IsBuffer
  <1>3. /\ Content(b) \in Seq(Byte)
        /\ Len(Content(b)) = IF b.reader + 1 <= b.writer
                             THEN b.writer - (b.reader + 1) + 1 ELSE 0
        /\ \A i \in 1 .. b.writer - (b.reader + 1) + 1 :
              Content(b)[i] = b.bytes[b.reader + 1 + i - 1]
    BY <1>1, <1>2, SubSeqProperties DEF Content
  <1>4. \A i \in Int : b.reader + 1 + i - 1 = b.reader + i
    BY <1>2
  <1>5. b.writer - (b.reader + 1) + 1 = b.writer - b.reader
    BY <1>2
  <1>6. \A i \in 1 .. b.writer - b.reader : Content(b)[i] = b.bytes[b.reader + i]
    <2> TAKE i \in 1 .. b.writer - b.reader
    <2>1. i \in 1 .. b.writer - (b.reader + 1) + 1 /\ i \in Int
      BY <1>2, <1>5
    <2> QED
      BY <1>3, <1>4, <2>1
  <1> QED
    BY <1>2, <1>3, <1>5, <1>6 DEF ReadableBytes, Bytes

\* What a buffer holds is told by its length and its bytes.
LEMMA ContentEqual ==
    ASSUME NEW b, IsBuffer(b), NEW s \in Bytes, Len(s) = ReadableBytes(b),
           \A i \in 1 .. ReadableBytes(b) : b.bytes[b.reader + i] = s[i]
    PROVE  Content(b) = s
  BY ContentBytes, SeqEqual DEF Bytes

LEMMA CopiedBytes ==
    ASSUME NEW v \in Bytes, NEW at \in Nat, NEW d \in Bytes
    PROVE  /\ CopiedTo(v, at, d) \in Bytes
           /\ Len(CopiedTo(v, at, d)) = Len(v)
           /\ \A i \in 1 .. Len(v) :
                 CopiedTo(v, at, d)[i] = IF i \in at + 1 .. at + Len(d)
                                         THEN d[i - at] ELSE v[i]
  <1>1. /\ Len(v) \in Nat /\ DOMAIN v = 1 .. Len(v)
        /\ Len(d) \in Nat /\ DOMAIN d = 1 .. Len(d)
        /\ \A i \in 1 .. Len(v) : v[i] \in Byte
        /\ \A i \in 1 .. Len(d) : d[i] \in Byte
    BY LenProperties DEF Bytes
  <1>2. \A i \in 1 .. Len(v) : i \in at + 1 .. at + Len(d) => i - at \in 1 .. Len(d)
    BY <1>1
  <1>3. CopiedTo(v, at, d) \in [1 .. Len(v) -> Byte]
    BY <1>1, <1>2 DEF CopiedTo
  <1> QED
    BY <1>1, <1>3, FunctionIsSeq DEF CopiedTo

LEMMA ResizedBytes ==
    ASSUME NEW v \in Bytes, NEW n \in Nat
    PROVE  /\ Resized(v, n) \in Bytes
           /\ Len(Resized(v, n)) = n
           /\ \A i \in 1 .. n : i <= Len(v) => Resized(v, n)[i] = v[i]
  <1>1. /\ Len(v) \in Nat /\ DOMAIN v = 1 .. Len(v)
        /\ \A i \in 1 .. Len(v) : v[i] \in Byte
    BY LenProperties DEF Bytes
  <1>2. Resized(v, n) \in [1 .. n -> Byte]
    BY <1>1, ByteAssumption DEF Resized
  <1> QED
    BY <1>1, <1>2, FunctionIsSeq DEF Resized
-----------------------------------------------------------------------------
\* The constructor, and its asserts.
THEOREM NewBufferEmpty ==
    /\ IsBuffer(NewBuffer)
    /\ Content(NewBuffer) = <<>>
    /\ ReadableBytes(NewBuffer) = 0
    /\ WritableBytes(NewBuffer) = InitialSize
    /\ PrependableBytes(NewBuffer) = CheapPrepend
  <1> DEFINE v == [i \in 1 .. CheapPrepend + InitialSize |-> Zero]
  <1>1. /\ v \in Bytes /\ Len(v) = CheapPrepend + InitialSize
        /\ CheapPrepend \in Nat /\ InitialSize \in Nat
    BY FunctionIsSeq, ByteAssumption, SizeAssumption
  <1>2. NewBuffer = [bytes |-> v, reader |-> CheapPrepend,
                     writer |-> CheapPrepend]
    BY DEF NewBuffer
  <1> HIDE DEF v
  <1>3. IsBuffer(NewBuffer)
    BY <1>1, <1>2 DEF IsBuffer, Bytes
  <1>4. Content(NewBuffer) = <<>>
    BY <1>1, <1>2, SubSeqEmpty DEF Content
  <1> QED
    BY <1>1, <1>2, <1>3, <1>4
       DEF ReadableBytes, WritableBytes, PrependableBytes

\* Retrieve drops the oldest n bytes.
THEOREM RetrieveDrops ==
    ASSUME NEW b, IsBuffer(b), NEW n \in 0 .. ReadableBytes(b)
    PROVE  /\ IsBuffer(Retrieve(b, n))
           /\ Content(Retrieve(b, n))
                = SubSeq(Content(b), n + 1, Len(Content(b)))
  <1>1. /\ b.reader \in Nat /\ b.writer \in Nat /\ b.reader <= b.writer
        /\ n \in Nat /\ n <= b.writer - b.reader
    BY BufferFields, ContentBytes DEF IsBuffer, ReadableBytes
  <1>2. Retrieve(b, n) = [bytes |-> b.bytes, reader |-> b.reader + n,
                          writer |-> b.writer]
    BY BufferFields DEF Retrieve
  <1>3. IsBuffer(Retrieve(b, n))
    BY <1>1, <1>2, BufferFields DEF IsBuffer, Bytes
  <1>4. ReadableBytes(Retrieve(b, n)) = ReadableBytes(b) - n
    BY <1>1, <1>2 DEF ReadableBytes
  <1> DEFINE s == SubSeq(Content(b), n + 1, Len(Content(b)))
  <1>5. /\ s \in Bytes
        /\ Len(s) = ReadableBytes(b) - n
        /\ \A i \in 1 .. ReadableBytes(b) - n : s[i] = Content(b)[n + i]
    <2>1. \A i \in n + 1 .. Len(Content(b)) : Content(b)[i] \in Byte
      BY <1>1, ContentBytes, LenProperties DEF Bytes
    <2>2. n + 1 \in Int /\ Len(Content(b)) \in Int
      BY <1>1, ContentBytes
    <2>3. /\ s \in Seq(Byte)
          /\ Len(s) = IF n + 1 <= Len(Content(b))
                      THEN Len(Content(b)) - (n + 1) + 1 ELSE 0
          /\ \A i \in 1 .. Len(Content(b)) - (n + 1) + 1 :
                s[i] = Content(b)[n + 1 + i - 1]
      BY <2>1, <2>2, SubSeqProperties
    <2> QED
      BY <1>1, <2>3, ContentBytes DEF Bytes
  <1> HIDE DEF s
  <1>6. \A i \in 1 .. ReadableBytes(b) - n :
           Retrieve(b, n).bytes[Retrieve(b, n).reader + i] = s[i]
    <2>1. /\ Retrieve(b, n).bytes = b.bytes
          /\ Retrieve(b, n).reader = b.reader + n
      BY <1>2
    <2>2. \A i \in 1 .. ReadableBytes(b) - n :
             n + i \in 1 .. ReadableBytes(b) /\ b.reader + n + i = b.reader + (n + i)
      BY <1>1 DEF ReadableBytes
    <2> QED
      BY <1>5, <2>1, <2>2, ContentBytes
  <1>7. Content(Retrieve(b, n)) = s
    BY <1>3, <1>4, <1>5, <1>6, ContentEqual
  <1> QED
    BY <1>3, <1>7 DEF s

\* RetrieveAll drops everything.
THEOREM RetrieveAllEmpties ==
    ASSUME NEW b, IsBuffer(b)
    PROVE  IsBuffer(RetrieveAll(b)) /\ Content(RetrieveAll(b)) = <<>>
  <1>1. RetrieveAll(b) = [bytes |-> b.bytes, reader |-> CheapPrepend,
                          writer |-> CheapPrepend]
    BY DEF RetrieveAll, IsBuffer
  <1>2. IsBuffer(RetrieveAll(b))
    BY <1>1, BufferFields, SizeAssumption DEF IsBuffer, Bytes
  <1>3. Content(RetrieveAll(b)) = <<>>
    BY <1>1, SizeAssumption, SubSeqEmpty DEF Content
  <1> QED
    BY <1>2, <1>3

\* The two ways of MakeSpace, which is called when there is too little room.
LEMMA GrownKeeps ==
    ASSUME NEW b, IsBuffer(b), NEW n \in Nat, WritableBytes(b) < n,
           NEW g, g = [bytes |-> Resized(b.bytes, b.writer + n),
                       reader |-> b.reader, writer |-> b.writer]
    PROVE  IsBuffer(g) /\ Content(g) = Content(b) /\ WritableBytes(g) = n
  <1>1. /\ b.reader \in Nat /\ b.writer \in Nat /\ b.bytes \in Bytes
        /\ Len(b.bytes) \in Nat
        /\ b.reader <= b.writer /\ b.writer <= Len(b.bytes)
        /\ CheapPrepend <= Len(b.bytes) /\ Len(b.bytes) < b.writer + n
    BY BufferFields DEF IsBuffer, WritableBytes
  <1>2. /\ g.bytes \in Bytes
        /\ Len(g.bytes) = b.writer + n
        /\ \A i \in 1 .. b.writer + n :
              i <= Len(b.bytes) => g.bytes[i] = b.bytes[i]
    <2>1. b.writer + n \in Nat /\ g.bytes = Resized(b.bytes, b.writer + n)
      BY <1>1
    <2> QED
      BY <1>1, <2>1, ResizedBytes
  <1>3. IsBuffer(g)
    BY <1>1, <1>2, SizeAssumption DEF IsBuffer, Bytes
  <1>4. ReadableBytes(g) = ReadableBytes(b)
    BY DEF ReadableBytes
  <1>5. ASSUME NEW i \in 1 .. ReadableBytes(g)
        PROVE  g.bytes[g.reader + i] = Content(b)[i]
    <2>1. b.reader + i \in 1 .. b.writer + n /\ b.reader + i <= Len(b.bytes)
      BY <1>1, <1>4 DEF ReadableBytes
    <2> QED
      BY <1>2, <1>4, <2>1, ContentBytes
  <1>6. Content(g) = Content(b)
    BY <1>3, <1>4, <1>5, ContentBytes, ContentEqual
  <1>7. WritableBytes(g) = n
    BY <1>1, <1>2 DEF WritableBytes
  <1> QED
    BY <1>3, <1>6, <1>7

LEMMA MovedKeeps ==
    ASSUME NEW b, IsBuffer(b), NEW n \in Nat,
           n + CheapPrepend <= WritableBytes(b) + PrependableBytes(b),
           NEW g, g = [bytes |-> CopiedTo(b.bytes, CheapPrepend, Content(b)),
                       reader |-> CheapPrepend,
                       writer |-> CheapPrepend + ReadableBytes(b)]
    PROVE  IsBuffer(g) /\ Content(g) = Content(b) /\ n <= WritableBytes(g)
  <1>1. /\ b.reader \in Nat /\ b.writer \in Nat /\ b.bytes \in Bytes
        /\ Len(b.bytes) \in Nat /\ CheapPrepend \in Nat
        /\ CheapPrepend <= Len(b.bytes)
        /\ b.reader <= b.writer /\ b.writer <= Len(b.bytes)
        /\ n + CheapPrepend <= (Len(b.bytes) - b.writer) + b.reader
    BY BufferFields, SizeAssumption
       DEF IsBuffer, WritableBytes, PrependableBytes
  <1>2. /\ Content(b) \in Bytes
        /\ Len(Content(b)) = b.writer - b.reader
        /\ ReadableBytes(b) = b.writer - b.reader
    BY ContentBytes DEF ReadableBytes
  <1>3. /\ g.bytes \in Bytes
        /\ Len(g.bytes) = Len(b.bytes)
        /\ \A i \in 1 .. Len(b.bytes) :
              i \in CheapPrepend + 1 .. CheapPrepend + Len(Content(b))
                 => g.bytes[i] = Content(b)[i - CheapPrepend]
    <2> DEFINE v == CopiedTo(b.bytes, CheapPrepend, Content(b))
    <2>1. /\ v \in Bytes
          /\ Len(v) = Len(b.bytes)
          /\ \A i \in 1 .. Len(b.bytes) :
                v[i] = IF i \in CheapPrepend + 1 .. CheapPrepend + Len(Content(b))
                       THEN Content(b)[i - CheapPrepend] ELSE b.bytes[i]
      <3>1. /\ b.bytes \in Bytes /\ CheapPrepend \in Nat
            /\ Content(b) \in Bytes
        BY <1>1, <1>2
      <3> QED
        BY <3>1, CopiedBytes
    <2>2. g.bytes = v
      OBVIOUS
    <2> HIDE DEF v
    <2> QED
      BY <2>1, <2>2
  <1>4. /\ g.reader = CheapPrepend
        /\ g.writer = CheapPrepend + (b.writer - b.reader)
        /\ g \in [bytes : Bytes, reader : Nat, writer : Nat]
    BY <1>1, <1>2, <1>3
  <1>5. IsBuffer(g)
    BY <1>1, <1>3, <1>4 DEF IsBuffer, Bytes
  <1>6. ReadableBytes(g) = ReadableBytes(b)
    BY <1>1, <1>2, <1>4 DEF ReadableBytes
  <1>7. ASSUME NEW i \in 1 .. ReadableBytes(g)
        PROVE  g.bytes[g.reader + i] = Content(b)[i]
    <2>1. /\ CheapPrepend + i \in 1 .. Len(b.bytes)
          /\ CheapPrepend + i \in CheapPrepend + 1
                                    .. CheapPrepend + Len(Content(b))
          /\ (CheapPrepend + i) - CheapPrepend = i
      BY <1>1, <1>2, <1>6
    <2> QED
      BY <1>3, <1>4, <2>1
  <1>8. Content(g) = Content(b)
    BY <1>2, <1>5, <1>6, <1>7, ContentBytes, ContentEqual
  <1>9. n <= WritableBytes(g)
    BY <1>1, <1>3, <1>4, SMTT(30) DEF WritableBytes
  <1> QED
    BY <1>5, <1>8, <1>9

\* EnsureWritableBytes makes room for n bytes and keeps the content: the
\* assert at its end holds.
THEOREM SpaceEnsured ==
    ASSUME NEW b, IsBuffer(b), NEW n \in Nat
    PROVE  /\ IsBuffer(EnsureWritableBytes(b, n))
           /\ Content(EnsureWritableBytes(b, n)) = Content(b)
           /\ n <= WritableBytes(EnsureWritableBytes(b, n))
  <1>1. /\ WritableBytes(b) \in Nat /\ PrependableBytes(b) \in Nat
        /\ CheapPrepend \in Nat
    BY BufferFields, SizeAssumption
       DEF IsBuffer, WritableBytes, PrependableBytes
  <1>2. CASE n <= WritableBytes(b)
    BY <1>1, <1>2 DEF EnsureWritableBytes
  <1>3. CASE /\ WritableBytes(b) < n
             /\ WritableBytes(b) + PrependableBytes(b) < n + CheapPrepend
    <2> DEFINE g == [bytes |-> Resized(b.bytes, b.writer + n),
                     reader |-> b.reader, writer |-> b.writer]
    <2>1. [b EXCEPT !.bytes = Resized(@, b.writer + n)] = g
      BY DEF IsBuffer
    <2>2. EnsureWritableBytes(b, n) = g
      BY <1>1, <1>3, <2>1 DEF EnsureWritableBytes, MakeSpace
    <2> HIDE DEF g
    <2>3. IsBuffer(g) /\ Content(g) = Content(b) /\ WritableBytes(g) = n
      BY <1>3, GrownKeeps DEF g
    <2> QED
      BY <2>2, <2>3
  <1>4. CASE /\ WritableBytes(b) < n
             /\ n + CheapPrepend <= WritableBytes(b) + PrependableBytes(b)
    <2> DEFINE g == [bytes |-> CopiedTo(b.bytes, CheapPrepend, Content(b)),
                     reader |-> CheapPrepend,
                     writer |-> CheapPrepend + ReadableBytes(b)]
    <2>1. EnsureWritableBytes(b, n) = g
      BY <1>1, <1>4 DEF EnsureWritableBytes, MakeSpace
    <2> HIDE DEF g
    <2>2. IsBuffer(g) /\ Content(g) = Content(b) /\ n <= WritableBytes(g)
      BY <1>4, MovedKeeps DEF g
    <2> QED
      BY <2>1, <2>2
  <1> QED
    BY <1>1, <1>2, <1>3, <1>4

\* assert(k_cheap_prepend < reader_index_) in MakeSpace: when it moves the
\* content, it moves it to the left, as std::copy on one vector needs.
THEOREM MoveIsToTheLeft ==
    ASSUME NEW b, IsBuffer(b), NEW n \in Nat, WritableBytes(b) < n,
           ~(WritableBytes(b) + PrependableBytes(b) < n + CheapPrepend)
    PROVE  CheapPrepend < b.reader
  BY BufferFields, SizeAssumption DEF IsBuffer, WritableBytes, PrependableBytes

\* The copy behind the content, into bytes that EnsureWritableBytes provided
\* or readv filled.
LEMMA WrittenBehind ==
    ASSUME NEW b, IsBuffer(b), NEW d \in Bytes, Len(d) <= WritableBytes(b)
    PROVE  /\ IsBuffer(Written(b, d))
           /\ Content(Written(b, d)) = Content(b) \o d
           /\ WritableBytes(Written(b, d)) = WritableBytes(b) - Len(d)
  <1> DEFINE g == Written(b, d)
  <1>1. /\ b.reader \in Nat /\ b.writer \in Nat /\ b.bytes \in Bytes
        /\ Len(b.bytes) \in Nat /\ Len(d) \in Nat
        /\ CheapPrepend <= Len(b.bytes)
        /\ b.reader <= b.writer /\ b.writer <= Len(b.bytes)
        /\ b.writer + Len(d) <= Len(b.bytes)
    BY BufferFields, LenProperties DEF IsBuffer, WritableBytes, Bytes
  <1>2. /\ g.bytes = CopiedTo(b.bytes, b.writer, d)
        /\ g.reader = b.reader
        /\ g.writer = b.writer + Len(d)
        /\ g = [bytes |-> g.bytes, reader |-> g.reader, writer |-> g.writer]
    BY DEF Written
  <1> HIDE DEF g
  <1>3. /\ g.bytes \in Bytes
        /\ Len(g.bytes) = Len(b.bytes)
        /\ \A i \in 1 .. Len(b.bytes) :
              g.bytes[i] = IF i \in b.writer + 1 .. b.writer + Len(d)
                           THEN d[i - b.writer] ELSE b.bytes[i]
    <2> DEFINE v == CopiedTo(b.bytes, b.writer, d)
    <2>1. /\ v \in Bytes
          /\ Len(v) = Len(b.bytes)
          /\ \A i \in 1 .. Len(b.bytes) :
                v[i] = IF i \in b.writer + 1 .. b.writer + Len(d)
                       THEN d[i - b.writer] ELSE b.bytes[i]
      BY <1>1, CopiedBytes
    <2>2. g.bytes = v
      BY <1>2
    <2> HIDE DEF v
    <2> QED
      BY <2>1, <2>2
  <1>4. IsBuffer(g)
    BY <1>1, <1>2, <1>3 DEF IsBuffer, Bytes
  <1>5. /\ ReadableBytes(g) = ReadableBytes(b) + Len(d)
        /\ ReadableBytes(b) = b.writer - b.reader
    BY <1>1, <1>2 DEF ReadableBytes
  <1>6. /\ Content(b) \o d \in Bytes
        /\ Len(Content(b) \o d) = ReadableBytes(g)
        /\ \A i \in 1 .. ReadableBytes(g) :
              (Content(b) \o d)[i] = IF i <= ReadableBytes(b)
                                     THEN b.bytes[b.reader + i]
                                     ELSE d[i - ReadableBytes(b)]
    <2>1. /\ Content(b) \in Seq(Byte) /\ d \in Seq(Byte)
          /\ Len(Content(b)) = ReadableBytes(b)
          /\ ReadableBytes(b) \in Nat
          /\ \A i \in 1 .. ReadableBytes(b) :
                Content(b)[i] = b.bytes[b.reader + i]
      BY ContentBytes DEF Bytes
    <2>2. /\ Content(b) \o d \in Seq(Byte)
          /\ Len(Content(b) \o d) = ReadableBytes(g)
          /\ \A i \in 1 .. ReadableBytes(g) :
                (Content(b) \o d)[i] = IF i <= ReadableBytes(b)
                                       THEN Content(b)[i]
                                       ELSE d[i - ReadableBytes(b)]
      <3>1. /\ Content(b) \o d \in Seq(Byte)
            /\ Len(Content(b) \o d) = Len(Content(b)) + Len(d)
            /\ \A i \in 1 .. Len(Content(b)) + Len(d) :
                  (Content(b) \o d)[i] = IF i <= Len(Content(b))
                                         THEN Content(b)[i]
                                         ELSE d[i - Len(Content(b))]
        BY <2>1, ConcatProperties
      <3>2. Len(Content(b)) + Len(d) = ReadableBytes(g)
        BY <1>5, <2>1
      <3> QED
        BY <2>1, <3>1, <3>2
    <2>3. \A i \in 1 .. ReadableBytes(g) :
             i <= ReadableBytes(b) => i \in 1 .. ReadableBytes(b)
      BY <1>1, <1>5, <2>1
    <2> QED
      BY <2>1, <2>2, <2>3 DEF Bytes
  <1>7. ASSUME NEW i \in 1 .. ReadableBytes(g)
        PROVE  g.bytes[g.reader + i] = (Content(b) \o d)[i]
    <2>1. /\ i \in Int
          /\ b.reader + i \in 1 .. Len(b.bytes)
          /\ (b.reader + i) - b.writer = i - ReadableBytes(b)
          /\ b.reader + i \in b.writer + 1 .. b.writer + Len(d)
                <=> ~(i <= ReadableBytes(b))
      BY <1>1, <1>5, SMTT(30)
    <2>2. g.bytes[b.reader + i] = IF i <= ReadableBytes(b)
                                  THEN b.bytes[b.reader + i]
                                  ELSE d[(b.reader + i) - b.writer]
      BY <1>3, <2>1
    <2> QED
      BY <1>2, <1>6, <2>1, <2>2
  <1>8. Content(g) = Content(b) \o d
    BY <1>4, <1>6, <1>7, ContentEqual
  <1>9. WritableBytes(g) = WritableBytes(b) - Len(d)
    BY <1>1, <1>2, <1>3 DEF WritableBytes
  <1> QED
    BY <1>4, <1>8, <1>9 DEF g

\* Append puts the data behind the content, whether the vector has room, grows
\* or is moved up.
THEOREM AppendAppends ==
    ASSUME NEW b, IsBuffer(b), NEW d \in Bytes
    PROVE  IsBuffer(Appended(b, d)) /\ Content(Appended(b, d)) = Content(b) \o d
  <1>1. Len(d) \in Nat
    BY LenProperties DEF Bytes
  <1> QED
    BY <1>1, SpaceEnsured, WrittenBehind DEF Appended

\* ReadFd puts what was read behind the content, in order, also when it did not
\* fit and the rest went through extrabuf.
THEOREM ReadFdAppends ==
    ASSUME NEW b, IsBuffer(b), NEW d \in Bytes
    PROVE  IsBuffer(ReadFd(b, d)) /\ Content(ReadFd(b, d)) = Content(b) \o d
  <1>1. Len(d) \in Nat /\ WritableBytes(b) \in Nat
    BY LenProperties, BufferFields DEF Bytes, IsBuffer, WritableBytes
  <1>2. CASE Len(d) <= WritableBytes(b)
    BY <1>2, WrittenBehind DEF ReadFd
  <1>3. CASE ~(Len(d) <= WritableBytes(b))
    <2> DEFINE w == WritableBytes(b)
               d1 == SubSeq(d, 1, w)
               d2 == SubSeq(d, w + 1, Len(d))
    <2>1. \A i \in 1 .. Len(d) : d[i] \in Byte
      BY LenProperties DEF Bytes
    <2>2. d1 \in Bytes /\ Len(d1) = w
      <3>1. \A i \in 1 .. w : d[i] \in Byte
        BY <1>1, <1>3, <2>1
      <3> QED
        BY <1>1, <3>1, SubSeqProperties DEF Bytes
    <2>3. d2 \in Bytes
      <3>1. \A i \in w + 1 .. Len(d) : d[i] \in Byte
        BY <1>1, <2>1
      <3>2. w + 1 \in Int /\ Len(d) \in Int
        BY <1>1
      <3> QED
        BY <3>1, <3>2, SubSeqProperties DEF Bytes
    <2>4. d1 \o d2 = d
      <3>1. /\ 1 \in 1 .. Len(d) + 1
            /\ w \in 1 - 1 .. Len(d)
            /\ Len(d) \in w .. Len(d)
        BY <1>1, <1>3
      <3>2. d \in Seq(Byte)
        BY DEF Bytes
      <3>3. d1 \o d2 = SubSeq(d, 1, Len(d))
        BY <3>1, <3>2, ConcatAdjacentSubSeq
      <3> QED
        BY <3>2, <3>3, SubSeqFull
    <2>5. ReadFd(b, d) = Appended(Written(b, d1), d2)
      BY <1>3 DEF ReadFd
    <2> HIDE DEF w, d1, d2
    <2>6. /\ IsBuffer(Written(b, d1))
          /\ Content(Written(b, d1)) = Content(b) \o d1
      BY <1>1, <2>2, WrittenBehind DEF w
    <2>7. /\ IsBuffer(ReadFd(b, d))
          /\ Content(ReadFd(b, d)) = (Content(b) \o d1) \o d2
      BY <2>3, <2>5, <2>6, AppendAppends
    <2>8. (Content(b) \o d1) \o d2 = Content(b) \o (d1 \o d2)
      <3>1. Content(b) \in Seq(Byte) /\ d1 \in Seq(Byte) /\ d2 \in Seq(Byte)
        BY <2>2, <2>3, ContentBytes DEF Bytes
      <3> QED
        BY <3>1, ConcatAssociative
    <2> QED
      BY <2>4, <2>7, <2>8
  <1> QED
    BY <1>1, <1>2, <1>3

\* Prepend puts the data before the content, into the bytes in front of it.
THEOREM PrependPrepends ==
    ASSUME NEW b, IsBuffer(b), NEW d \in Bytes, Len(d) <= PrependableBytes(b)
    PROVE  /\ IsBuffer(Prepended(b, d))
           /\ Content(Prepended(b, d)) = d \o Content(b)
  <1> DEFINE g == Prepended(b, d)
             v == CopiedTo(b.bytes, b.reader - Len(d), d)
  <1>1. /\ b.reader \in Nat /\ b.writer \in Nat /\ b.bytes \in Bytes
        /\ Len(b.bytes) \in Nat /\ Len(d) \in Nat
        /\ CheapPrepend <= Len(b.bytes)
        /\ b.reader <= b.writer /\ b.writer <= Len(b.bytes)
        /\ Len(d) <= b.reader /\ b.reader - Len(d) \in Nat
    BY BufferFields, LenProperties DEF IsBuffer, PrependableBytes, Bytes
  <1>2. /\ v \in Bytes
        /\ Len(v) = Len(b.bytes)
        /\ \A i \in 1 .. Len(b.bytes) :
              v[i] = IF i \in (b.reader - Len(d)) + 1
                                .. (b.reader - Len(d)) + Len(d)
                     THEN d[i - (b.reader - Len(d))] ELSE b.bytes[i]
    <2>1. b.bytes \in Bytes /\ b.reader - Len(d) \in Nat
      BY <1>1
    <2> QED
      BY <2>1, CopiedBytes
  <1>3. g = [bytes |-> v, reader |-> b.reader - Len(d), writer |-> b.writer]
    BY DEF Prepended
  <1> HIDE DEF g, v
  <1>4. IsBuffer(g)
    BY <1>1, <1>2, <1>3 DEF IsBuffer, Bytes
  <1>5. /\ ReadableBytes(g) = Len(d) + ReadableBytes(b)
        /\ ReadableBytes(b) = b.writer - b.reader
    BY <1>1, <1>3 DEF ReadableBytes
  <1>6. /\ d \o Content(b) \in Bytes
        /\ Len(d \o Content(b)) = ReadableBytes(g)
        /\ \A i \in 1 .. ReadableBytes(g) :
              (d \o Content(b))[i] = IF i <= Len(d) THEN d[i]
                                     ELSE b.bytes[b.reader + (i - Len(d))]
    <2>1. /\ Content(b) \in Seq(Byte) /\ d \in Seq(Byte)
          /\ Len(Content(b)) = ReadableBytes(b)
          /\ \A i \in 1 .. ReadableBytes(b) :
                Content(b)[i] = b.bytes[b.reader + i]
      BY ContentBytes DEF Bytes
    <2>2. /\ d \o Content(b) \in Seq(Byte)
          /\ Len(d \o Content(b)) = Len(d) + Len(Content(b))
          /\ \A i \in 1 .. Len(d) + Len(Content(b)) :
                (d \o Content(b))[i] = IF i <= Len(d) THEN d[i]
                                       ELSE Content(b)[i - Len(d)]
      BY <2>1, ConcatProperties
    <2>3. Len(d) + Len(Content(b)) = ReadableBytes(g)
      BY <1>5, <2>1
    <2>4. \A i \in 1 .. ReadableBytes(g) :
             ~(i <= Len(d)) => i - Len(d) \in 1 .. ReadableBytes(b)
      BY <1>1, <1>5
    <2> QED
      BY <2>1, <2>2, <2>3, <2>4 DEF Bytes
  <1>7. ASSUME NEW i \in 1 .. ReadableBytes(g)
        PROVE  g.bytes[g.reader + i] = (d \o Content(b))[i]
    <2> DEFINE j == b.reader - Len(d) + i
    <2>1. /\ i \in Int /\ j \in 1 .. Len(b.bytes)
          /\ j - (b.reader - Len(d)) = i
          /\ j = b.reader + (i - Len(d))
          /\ j \in (b.reader - Len(d)) + 1 .. (b.reader - Len(d)) + Len(d)
                <=> i <= Len(d)
      <3>1. i \in Int /\ 1 <= i /\ i <= Len(d) + (b.writer - b.reader)
        BY <1>1, <1>5
      <3>2. j \in Int /\ j = b.reader + (i - Len(d))
        BY <1>1, <3>1
      <3>3. 1 <= j /\ j <= Len(b.bytes)
        BY <1>1, <3>1, <3>2, SMTT(30)
      <3>4. j - (b.reader - Len(d)) = i
        BY <1>1, <3>1, <3>2
      <3>5. j \in (b.reader - Len(d)) + 1 .. (b.reader - Len(d)) + Len(d)
               <=> i <= Len(d)
        BY <1>1, <3>1, <3>2
      <3> QED
        BY <1>1, <3>1, <3>2, <3>3, <3>4, <3>5
    <2>2. g.bytes[g.reader + i] = v[j]
      BY <1>3
    <2> HIDE DEF j
    <2>3. v[j] = IF i <= Len(d) THEN d[i] ELSE b.bytes[b.reader + (i - Len(d))]
      BY <1>2, <2>1
    <2> QED
      BY <1>6, <2>2, <2>3
  <1>8. Content(g) = d \o Content(b)
    BY <1>4, <1>6, <1>7, ContentEqual
  <1> QED
    BY <1>4, <1>8 DEF g

-----------------------------------------------------------------------------
\* The vector that Shrink swaps in, whose indices are those of the old one.
LEMMA ShrunkBytes ==
    ASSUME NEW b, IsBuffer(b), NEW reserve \in Nat
    PROVE  /\ Shrunk(b, reserve).bytes \in Bytes
           /\ Len(Shrunk(b, reserve).bytes)
                = CheapPrepend + ReadableBytes(b) + reserve
           /\ Shrunk(b, reserve).reader = b.reader
           /\ Shrunk(b, reserve).writer = b.writer
           /\ Shrunk(b, reserve) \in [bytes : Bytes, reader : Nat, writer : Nat]
           /\ \A i \in 1 .. CheapPrepend + ReadableBytes(b) + reserve :
                 Shrunk(b, reserve).bytes[i]
                   = IF i - CheapPrepend \in 1 .. ReadableBytes(b)
                     THEN Content(b)[i - CheapPrepend] ELSE Zero
  <1> DEFINE n == CheapPrepend + ReadableBytes(b) + reserve
             fresh == Resized(<<>>, n)
             v == CopiedTo(fresh, CheapPrepend, Content(b))
  <1>1. /\ n \in Nat /\ CheapPrepend \in Nat /\ ReadableBytes(b) \in Nat
        /\ Content(b) \in Bytes /\ Len(Content(b)) = ReadableBytes(b)
    BY ContentBytes, SizeAssumption
  <1>2. <<>> \in Bytes /\ Len(<<>>) = 0 /\ DOMAIN <<>> = {}
    BY DEF Bytes
  <1>3. fresh \in Bytes /\ Len(fresh) = n
    <2> HIDE DEF n
    <2> QED
      BY <1>1, <1>2, ResizedBytes
  <1>4. \A i \in 1 .. n : fresh[i] = Zero
    <2> HIDE DEF n
    <2> QED
      BY <1>2 DEF Resized
  <1> HIDE DEF fresh
  <1>5. /\ v \in Bytes
        /\ Len(v) = n
        /\ \A i \in 1 .. n :
              v[i] = IF i \in CheapPrepend + 1 .. CheapPrepend + ReadableBytes(b)
                     THEN Content(b)[i - CheapPrepend] ELSE Zero
    <2> HIDE DEF n
    <2> QED
      BY <1>1, <1>3, <1>4, CopiedBytes
  <1>6. Shrunk(b, reserve) = [bytes |-> v, reader |-> b.reader,
                              writer |-> b.writer]
    BY BufferFields DEF Shrunk, fresh
  <1> HIDE DEF v
  <1>7. \A i \in 1 .. n :
           v[i] = IF i - CheapPrepend \in 1 .. ReadableBytes(b)
                  THEN Content(b)[i - CheapPrepend] ELSE Zero
    BY <1>1, <1>5
  <1> QED
    BY <1>5, <1>6, <1>7, BufferFields

\* Shrink leaves the indices in order only when the reader is not further to the
\* right than the reserve has room for: otherwise writer_index_ is outside the
\* vector.
THEOREM ShrinkMayLeaveTheVector ==
    ASSUME NEW b, IsBuffer(b), NEW reserve \in Nat
    PROVE  IsBuffer(Shrunk(b, reserve)) <=> b.reader <= CheapPrepend + reserve
  <1>1. /\ b.reader \in Nat /\ b.writer \in Nat /\ b.reader <= b.writer
        /\ ReadableBytes(b) = b.writer - b.reader
        /\ CheapPrepend \in Nat
    BY BufferFields, SizeAssumption DEF IsBuffer, ReadableBytes
  <1> DEFINE g == Shrunk(b, reserve)
  <1>2. /\ g \in [bytes : Bytes, reader : Nat, writer : Nat]
        /\ g.reader = b.reader /\ g.writer = b.writer
        /\ Len(g.bytes) = CheapPrepend + ReadableBytes(b) + reserve
    BY ShrunkBytes
  <1> HIDE DEF g
  <1>3. IsBuffer(g) <=> b.writer <= CheapPrepend + (b.writer - b.reader) + reserve
    BY <1>1, <1>2 DEF IsBuffer, Bytes
  <1> QED
    BY <1>1, <1>3 DEF g

\* When it does, the content has moved under the indices: by as many bytes as
\* the reader is away from k_cheap_prepend, with zeros in their place.
THEOREM ShrinkShifts ==
    ASSUME NEW b, IsBuffer(b), NEW reserve \in Nat,
           b.reader <= CheapPrepend + reserve,
           NEW i \in 1 .. ReadableBytes(b)
    PROVE  LET j == i + b.reader - CheapPrepend
           IN  Content(Shrunk(b, reserve))[i]
                 = IF j \in 1 .. ReadableBytes(b) THEN Content(b)[j] ELSE Zero
  <1>1. /\ b.reader \in Nat /\ b.writer \in Nat /\ b.reader <= b.writer
        /\ ReadableBytes(b) = b.writer - b.reader
        /\ CheapPrepend \in Nat
    BY BufferFields, SizeAssumption DEF IsBuffer, ReadableBytes
  <1> DEFINE g == Shrunk(b, reserve)
  <1>2. IsBuffer(g)
    BY ShrinkMayLeaveTheVector
  <1>3. ReadableBytes(g) = ReadableBytes(b)
    BY ShrunkBytes DEF ReadableBytes
  <1>4. Content(g)[i] = g.bytes[b.reader + i]
    BY <1>2, <1>3, ContentBytes, ShrunkBytes
  <1>5. b.reader + i \in 1 .. CheapPrepend + ReadableBytes(b) + reserve
    BY <1>1
  <1>6. g.bytes[b.reader + i]
          = IF (b.reader + i) - CheapPrepend \in 1 .. ReadableBytes(b)
            THEN Content(b)[(b.reader + i) - CheapPrepend] ELSE Zero
    BY <1>5, ShrunkBytes
  <1>7. (b.reader + i) - CheapPrepend = i + b.reader - CheapPrepend
    BY <1>1
  <1> HIDE DEF g
  <1> QED
    BY <1>4, <1>6, <1>7 DEF g

\* Where the reader is at k_cheap_prepend, Shrink does what it is for: the
\* content stays, with the reserve behind it and nothing more.
THEOREM ShrinkKeepsAtTheFront ==
    ASSUME NEW b, IsBuffer(b), NEW reserve \in Nat, b.reader = CheapPrepend
    PROVE  /\ IsBuffer(Shrunk(b, reserve))
           /\ Content(Shrunk(b, reserve)) = Content(b)
           /\ WritableBytes(Shrunk(b, reserve)) = reserve
  <1>1. /\ b.reader \in Nat /\ b.writer \in Nat /\ b.reader <= b.writer
        /\ ReadableBytes(b) = b.writer - b.reader
        /\ CheapPrepend \in Nat /\ b.reader <= CheapPrepend + reserve
    BY BufferFields, SizeAssumption DEF IsBuffer, ReadableBytes
  <1> DEFINE g == Shrunk(b, reserve)
  <1>2. IsBuffer(g)
    BY <1>1, ShrinkMayLeaveTheVector
  <1>3. /\ ReadableBytes(g) = ReadableBytes(b)
        /\ g.reader = b.reader /\ g.writer = b.writer
        /\ Len(g.bytes) = CheapPrepend + ReadableBytes(b) + reserve
    BY ShrunkBytes DEF ReadableBytes
  <1>4. ASSUME NEW i \in 1 .. ReadableBytes(g)
        PROVE  g.bytes[g.reader + i] = Content(b)[i]
    <2>1. /\ g.reader + i \in 1 .. CheapPrepend + ReadableBytes(b) + reserve
          /\ (g.reader + i) - CheapPrepend = i
          /\ i \in 1 .. ReadableBytes(b)
      BY <1>1, <1>3
    <2>2. \A k \in 1 .. CheapPrepend + ReadableBytes(b) + reserve :
             g.bytes[k] = IF k - CheapPrepend \in 1 .. ReadableBytes(b)
                          THEN Content(b)[k - CheapPrepend] ELSE Zero
      BY ShrunkBytes
    <2> HIDE DEF g
    <2> QED
      BY <2>1, <2>2
  <1>5. Content(g) = Content(b)
    <2> HIDE DEF g
    <2> QED
      BY <1>2, <1>3, <1>4, ContentBytes, ContentEqual
  <1>6. WritableBytes(g) = reserve
    <2> HIDE DEF g
    <2> QED
      BY <1>1, <1>3 DEF WritableBytes
  <1> QED
    BY <1>2, <1>5, <1>6
==============================================================================
