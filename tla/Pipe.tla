-------------------------------- MODULE Pipe --------------------------------
(***************************************************************************)
(* What one direction of a TCP connection promises: the bytes that are     *)
(* received are those that were sent, in the order they were sent, and the *)
(* direction is closed only when all of them are received. What is sent    *)
(* later than that is lost.                                                *)
(***************************************************************************)
EXTENDS Naturals, Sequences

CONSTANT Data       \* what may be sent at a time

VARIABLES sent,     \* all bytes sent so far
          received, \* all bytes received so far
          closed    \* the end of the stream was sent

vars == <<sent, received, closed>>

Init == sent = <<>> /\ received = <<>> /\ closed = FALSE

\* Data are sent, or none, and some of the bytes not yet received are received.
Transfer(d) ==
    /\ sent' = sent \o d
    /\ \E n \in Len(received) .. Len(sent') : received' = SubSeq(sent', 1, n)
    /\ closed => received' = received
    /\ closed' = closed

\* The rest is received and the direction closed.
Finish == /\ ~closed
          /\ sent' = sent
          /\ received' = sent
          /\ closed' = TRUE

Next == Finish \/ \E d \in Data \cup {<<>>} : Transfer(d)

Spec == Init /\ [][Next]_vars
=============================================================================
