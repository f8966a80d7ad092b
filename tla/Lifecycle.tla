----------------------------- MODULE Lifecycle -----------------------------
(***************************************************************************)
(* What the users of TcpServer are promised about one connection after     *)
(* another: the callback for its being up comes first, then messages, then *)
(* the callback for its being down, and only after that is the object      *)
(* freed. Each of these happens once, and nothing happens in between to a  *)
(* connection that is down.                                                *)
(***************************************************************************)
CONSTANT Conns

VARIABLES phase,      \* phase[c]: how far c has come
          messages    \* the connections whose message callback is running

vars == <<phase, messages>>

Init == /\ phase = [c \in Conns |-> "new"]
        /\ messages = {}

Move(c, from, to) == /\ phase[c] = from
                     /\ phase' = [phase EXCEPT ![c] = to]

Accepted(c) == Move(c, "new", "accepted") /\ UNCHANGED messages

\* With a single loop a connection is accepted and comes up in one go.
Up(c) == /\ Move(c, "new", "up") \/ Move(c, "accepted", "up")
         /\ UNCHANGED messages

Down(c) == /\ c \notin messages
           /\ Move(c, "up", "down")
           /\ UNCHANGED messages

Message(c) == /\ phase[c] = "up"
              /\ c \notin messages
              /\ messages' = messages \cup {c}
              /\ UNCHANGED phase

MessageDone(c) == /\ c \in messages
                  /\ messages' = messages \ {c}
                  /\ UNCHANGED phase

\* The last references to connections that are down go together when a loop
\* drops the functors it has run.
Free == \E D \in SUBSET {c \in Conns : phase[c] = "down"} :
           /\ D # {}
           /\ phase' = [c \in Conns |-> IF c \in D THEN "freed" ELSE phase[c]]
           /\ UNCHANGED messages

Next == \/ Free
        \/ \E c \in Conns : \/ Accepted(c) \/ Up(c) \/ Down(c)
                            \/ Message(c) \/ MessageDone(c)

Spec == Init /\ [][Next]_vars
=============================================================================
