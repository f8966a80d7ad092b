--------------------------- MODULE MCDemultiplexer ---------------------------
(* The demultiplexers with three channels that read, and with two that     *)
(* read and write and whose peers hang up.                                 *)
EXTENDS Demultiplexer

CONSTANTS c1, c2, c3

MCChans == {c1, c2, c3}
Use(cs, as, hs) == [chans |-> cs, asks |-> as, happens |-> hs]
MCUses == {Use({c1, c2, c3}, {"in"}, {"in"}),
           Use({c1, c2}, {"in", "out"}, {"in", "hup"}),
           Use({c1, c2}, {"in", "out"}, {"in", "out"})}
=============================================================================
