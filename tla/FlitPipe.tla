------------------------------ MODULE FlitPipe ------------------------------
(***************************************************************************)
(* What a link and the input buffers behind it promise to the two routers  *)
(* they connect: a first-in first-out queue of bounded length per virtual  *)
(* channel.  The flits of a channel carry the numbers 0, 1, 2, ... in the  *)
(* order they are sent, so a queue whose contents are consecutive numbers  *)
(* has lost, duplicated and reordered nothing.                             *)
(***************************************************************************)
EXTENDS Naturals, Sequences

CONSTANTS
  VCs,       (* virtual channels                                         *)
  Capacity   (* flits a channel holds, the one on the wires included     *)

VARIABLES
  sent,      (* sent[v]: number of flits sent so far on channel v        *)
  queue      (* queue[v]: the flits sent and not yet taken out           *)

vars == <<sent, queue>>

Init ==
  /\ sent  = [v \in VCs |-> 0]
  /\ queue = [v \in VCs |-> <<>>]

(* One clock edge: the receiver takes out the front flit of the channels   *)
(* in get (one at most), the sender puts one on the channels in put (one   *)
(* at most, for it is one set of wires).                                   *)
Edge(put, get) ==
  /\ \A v \in get : queue[v] # <<>>
  /\ sent'  = [v \in VCs |-> IF v \in put THEN sent[v] + 1 ELSE sent[v]]
  /\ queue' = [v \in VCs |->
                 LET left == IF v \in get THEN Tail(queue[v]) ELSE queue[v]
                 IN  IF v \in put THEN Append(left, sent[v]) ELSE left]
  /\ \A v \in VCs : Len(queue'[v]) <= Capacity

AtMostOne == {{}} \cup {{v} : v \in VCs}

Next == \E put, get \in AtMostOne : Edge(put, get)

Spec == Init /\ [][Next]_vars
=============================================================================
