------------------------------- MODULE Buffer -------------------------------
(***************************************************************************)
(* net/Buffer: a vector of bytes with a reader and a writer index,         *)
(*                                                                         *)
(*      | prependable | readable (the content) | writable |                *)
(*      0    <=    reader        <=         writer   <=   size             *)
(*                                                                         *)
(* A buffer is a record; an operation maps buffers to buffers. Bytes at    *)
(* index i of the vector are at index i + 1 of the sequence. What the      *)
(* operations assert of their arguments is left to the callers.            *)
(***************************************************************************)
EXTENDS Naturals, Sequences

CONSTANTS Byte,
          Zero,          \* what vector<char> fills new places with
          CheapPrepend,  \* k_cheap_prepend
          InitialSize    \* k_initial_size

ASSUME ByteAssumption == Zero \in Byte
ASSUME SizeAssumption == CheapPrepend \in Nat /\ InitialSize \in Nat

\* The picture at the head of Buffer.h; and RetrieveAll can set the indices back.
IsBuffer(b) == /\ b \in [bytes : Seq(Byte), reader : Nat, writer : Nat]
               /\ b.reader <= b.writer
               /\ b.writer <= Len(b.bytes)
               /\ CheapPrepend <= Len(b.bytes)

NewBuffer == [bytes |-> [i \in 1 .. CheapPrepend + InitialSize |-> Zero],
              reader |-> CheapPrepend,
              writer |-> CheapPrepend]

ReadableBytes(b) == b.writer - b.reader
WritableBytes(b) == Len(b.bytes) - b.writer
PrependableBytes(b) == b.reader

\* Peek() up to BeginWrite().
Content(b) == SubSeq(b.bytes, b.reader + 1, b.writer)

\* std::copy of d to the place at; resize of the vector to n.
CopiedTo(bytes, at, d) ==
    [i \in DOMAIN bytes |-> IF i \in at + 1 .. at + Len(d) THEN d[i - at]
                                                           ELSE bytes[i]]
Resized(bytes, n) ==
    [i \in 1 .. n |-> IF i \in DOMAIN bytes THEN bytes[i] ELSE Zero]

\* assert(len <= ReadableBytes())
Retrieve(b, n) == [b EXCEPT !.reader = @ + n]

\* Mutant: reader_index_ is not set back.
RetrieveAllLeft(b) == [b EXCEPT !.writer = CheapPrepend]

RetrieveAll(b) == [bytes |-> b.bytes, reader |-> CheapPrepend,
                   writer |-> CheapPrepend]

\* The vector grows, or the content is moved to the front.
MakeSpace(b, n) ==
    IF WritableBytes(b) + PrependableBytes(b) < n + CheapPrepend
    THEN [b EXCEPT !.bytes = Resized(@, b.writer + n)]
    ELSE [bytes |-> CopiedTo(b.bytes, CheapPrepend, Content(b)),
          reader |-> CheapPrepend,
          writer |-> CheapPrepend + ReadableBytes(b)]

EnsureWritableBytes(b, n) == IF WritableBytes(b) < n THEN MakeSpace(b, n) ELSE b

\* The copy and HasWritten.
Written(b, d) == [bytes |-> CopiedTo(b.bytes, b.writer, d),
                  reader |-> b.reader,
                  writer |-> b.writer + Len(d)]

Appended(b, d) == Written(EnsureWritableBytes(b, Len(d)), d)

\* assert(len <= PrependableBytes())
Prepended(b, d) == [bytes |-> CopiedTo(b.bytes, b.reader - Len(d), d),
                    reader |-> b.reader - Len(d),
                    writer |-> b.writer]

\* The content is copied to its place in a new vector, which is swapped in; the
\* indices are left as they are. (Nothing calls Shrink.)
Shrunk(b, reserve) ==
    LET fresh == Resized(<<>>, CheapPrepend + ReadableBytes(b) + reserve)
    IN  [b EXCEPT !.bytes = CopiedTo(fresh, CheapPrepend, Content(b))]

\* Mutant: writer_index_ is not set before the rest is appended.
ReadFdOver(b, d) ==
    IF Len(d) <= WritableBytes(b)
    THEN Written(b, d)
    ELSE Appended(b, SubSeq(d, WritableBytes(b) + 1, Len(d)))

\* ReadFd: readv fills the writable bytes first and then extrabuf, whose part
\* is appended.
ReadFd(b, d) ==
    IF Len(d) <= WritableBytes(b)
    THEN Written(b, d)
    ELSE Appended(Written(b, SubSeq(d, 1, WritableBytes(b))),
                  SubSeq(d, WritableBytes(b) + 1, Len(d)))
=============================================================================
