------------------------- MODULE MCProcessingElement -------------------------
(* A mesh of 4 x 2 tiles: its size is a power of two, which the bit        *)
(* distributions need, and it is not square, which makes the transposes    *)
(* use fixRanges.  Two hubs of four tiles.                                 *)
EXTENDS ProcessingElement

MCHubs == [t \in 0 .. 7 |-> IF t % 4 < 2 THEN 0 ELSE 1]
MCTable ==
  {[src |-> 0, dst |-> 5, t_on |-> 0, t_off |-> 3, t_period |-> 4],
   [src |-> 0, dst |-> 2, t_on |-> 1, t_off |-> 2, t_period |-> 2],
   [src |-> 3, dst |-> 3, t_on |-> 0, t_off |-> 4, t_period |-> 4]}
MCList == << <<<<0, 1>>, <<2, 5>>, <<0, 7>>>>, <<>>, <<<<0, 3>>>> >>
MCDistributions == Distributions
=============================================================================
