------------------------------- MODULE Flits -------------------------------
(***************************************************************************)
(* What routers, hubs and radio channels need to know of flits: the head   *)
(* is number 0, the tail the last one of its packet, and the flits of a    *)
(* packet keep together.  The flits themselves, records with these two     *)
(* fields and others, are those of the modules that extend this one.       *)
(***************************************************************************)
EXTENDS Naturals, Sequences

NoFlit == [sequence_no |-> 0, sequence_length |-> 0]

IsHead(f) == f.sequence_no = 0
IsTail(f) == f.sequence_no = f.sequence_length - 1

(* A channel that carried f last: the packet in progress is f's, or none.  *)
InProgress(f) == IF IsTail(f) THEN NoFlit ELSE f

(* f may come behind g on a channel: a head when no packet is in progress, *)
(* and otherwise the next flit of that packet.                             *)
Follows(g, f) ==
  IF g = NoFlit THEN IsHead(f) ELSE f = [g EXCEPT !.sequence_no = @ + 1]
=============================================================================
