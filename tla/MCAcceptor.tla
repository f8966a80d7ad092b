----------------------------- MODULE MCAcceptor -----------------------------
(* Four clients, a pool of up to three loops, descriptors for two          *)
(* connections.                                                            *)
EXTENDS Acceptor

CONSTANTS c1, c2, c3, c4

MCClients == {c1, c2, c3, c4}
=============================================================================
