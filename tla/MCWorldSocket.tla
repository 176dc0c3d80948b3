--------------------------- MODULE MCWorldSocket ---------------------------
(* One connection, two map threads that send.  Packets are numbered in the *)
(* order in which they are created.                                        *)
EXTENDS WorldSocket

CONSTANTS Net, Map1, Map2

MCProducers == {Net, Map1, Map2}
MCElements == 1..3
=============================================================================
