-------------------------------- MODULE Link --------------------------------
(***************************************************************************)
(* A link between two modules of the network: the alternating-bit          *)
(* handshake (req, ack and a level on either side) together with the       *)
(* per-channel "buffer full" mask (buffer_full_status) that the receiver   *)
(* reports.  The sender is the second phase of Router::txProcess, the      *)
(* receiver is Router::rxProcess and the input buffers it fills            *)
(* (src/src/Router.cpp).  A processing element that feeds its router       *)
(* (ProcessingElement::txProcess) uses the same handshake without the      *)
(* mask: uses_mask = FALSE.                                                *)
(*                                                                         *)
(* All modules run on the same clock edge and read the values the signals  *)
(* had before it, so an edge is one step of both sides.  The receiver's    *)
(* own txProcess, which takes flits out of the buffers, runs before its    *)
(* rxProcess (Router::process), and takes at most one per input port.      *)
(***************************************************************************)
EXTENDS Naturals, Sequences

CONSTANTS
  VCs,              (* virtual channels                                  *)
  max_buffer_size,  (* depth of the receiver's buffer of each channel    *)
  uses_mask,        (* FALSE on the link from a processing element       *)
  MaxFlits          (* bound: flits sent on each channel                 *)

ASSUME DepthAssumption == max_buffer_size \in Nat \ {0}
ASSUME MaskAssumption  == uses_mask \in BOOLEAN
ASSUME BoundAssumption == MaxFlits \in Nat

VARIABLES
  req, ack,           (* signals                                         *)
  flit,               (* signal: [vc, no], no being its number           *)
  mask,               (* signal: mask[v] says that buffer[v] is full     *)
  current_level_tx,   (* the sender's level                              *)
  current_level_rx,   (* the receiver's level                            *)
  buffer,             (* the receiver's buffers: numbers of the flits    *)
  sent                (* how many flits were sent on each channel        *)

vars == <<req, ack, flit, mask, current_level_tx, current_level_rx, buffer, sent>>
txVars == <<req, flit, current_level_tx, sent>>

Level == {0, 1}
Flit  == [vc : VCs, no : Nat]

IsFullTooLate(b) == Len(b) = max_buffer_size + 1   (* mutant *)
IsFull(b) == Len(b) = max_buffer_size

(* After reset: levels and signals are 0, nothing is masked.  The flit     *)
(* wires carry anything.                                                   *)
Init ==
  /\ req = 0 /\ ack = 0
  /\ flit \in [vc : VCs, no : {0}]
  /\ mask = [v \in VCs |-> FALSE]
  /\ current_level_tx = 0
  /\ current_level_rx = 0
  /\ buffer = [v \in VCs |-> <<>>]
  /\ sent = [v \in VCs |-> 0]

(***************************************************************************)
(* The sender.                                                             *)
(***************************************************************************)

(* Nothing to send, or no permission.                                      *)
Hold == UNCHANGED txVars

(* The next flit of channel v goes on the wires, the level becomes l.      *)
Send(v, l) ==
  /\ flit' = [vc |-> v, no |-> sent[v]]
  /\ current_level_tx' = l
  /\ req' = l
  /\ sent' = [sent EXCEPT ![v] = @ + 1]

(* The second phase of txProcess with a flit of channel v at hand.         *)
ForwardUnmasked(v) ==   (* mutant *)
  /\ current_level_tx = ack
  /\ sent[v] < MaxFlits
  /\ Send(v, 1 - current_level_tx)
ForwardNotAlternating(v) ==   (* mutant *)
  /\ uses_mask => ~mask[v]
  /\ Send(v, current_level_tx + 1)
Forward(v) ==
  /\ current_level_tx = ack
  /\ uses_mask => ~mask[v]
  /\ sent[v] < MaxFlits
  /\ Send(v, 1 - current_level_tx)

(***************************************************************************)
(* The receiver.                                                           *)
(***************************************************************************)

(* The buffers after the receiver's txProcess: one Pop at most.            *)
Drained ==
  {buffer} \cup {[buffer EXCEPT ![v] = Tail(@)] : v \in {w \in VCs : buffer[w] # <<>>}}

(* A new flit is on the wires and there is room for it.                    *)
AcceptsAnyLevel(b) == ~IsFull(b[flit.vc])         (* mutant *)
Accepts(b) == req = 1 - current_level_rx /\ ~IsFull(b[flit.vc])

(* rxProcess for one input port, the buffers being b.                      *)
ReceiveStaleAck(b) ==   (* mutant: acknowledges the level it had before *)
  LET accepts == Accepts(b)
  IN  /\ buffer' = IF accepts THEN [b EXCEPT ![flit.vc] = Append(@, flit.no)] ELSE b
      /\ current_level_rx' = IF accepts THEN 1 - current_level_rx ELSE current_level_rx
      /\ ack' = IF accepts THEN current_level_rx ELSE ack
      /\ mask' = [v \in VCs |-> IsFull(buffer'[v])]
Receive(b) ==
  LET accepts == Accepts(b)
  IN  /\ buffer' = IF accepts THEN [b EXCEPT ![flit.vc] = Append(@, flit.no)] ELSE b
      /\ current_level_rx' = IF accepts THEN 1 - current_level_rx ELSE current_level_rx
      /\ ack' = current_level_rx'
      /\ mask' = [v \in VCs |-> IsFull(buffer'[v])]

Edge == /\ Hold \/ \E v \in VCs : Forward(v)
        /\ \E b \in Drained : Receive(b)

Spec     == Init /\ [][Edge]_vars
FairSpec == Spec /\ WF_vars(Edge)

-----------------------------------------------------------------------------
(***************************************************************************)
(* Properties.                                                             *)
(***************************************************************************)

(* A flit is on the wires and the receiver has not taken it.               *)
InFlight == req = 1 - current_level_rx

TypeOK ==
  /\ req \in Level /\ ack \in Level
  /\ current_level_tx \in Level /\ current_level_rx \in Level
  /\ flit \in Flit
  /\ mask \in [VCs -> BOOLEAN]
  /\ buffer \in [VCs -> Seq(Nat)]
  /\ sent \in [VCs -> Nat]

(* A buffer never holds more than its depth: Buffer::Push on a full buffer *)
(* would run into the assertion of Buffer::Drop.                           *)
DepthRespected == \A v \in VCs : Len(buffer[v]) <= max_buffer_size

(* The assertion of Router.cpp:79: "should not happen with the new         *)
(* TBufferFullStatus control signals".  The mask a sender reads is one     *)
(* edge old, yet the buffer it sends to has a free slot on arrival.        *)
NoOverflow == uses_mask /\ InFlight => ~IsFull(buffer[flit.vc])

(* The flits of channel v the sender sent and the receiver's router has    *)
(* not taken out: those in the buffer and then the one on the wires.       *)
Pending(v) ==
  buffer[v] \o (IF InFlight /\ flit.vc = v THEN <<flit.no>> ELSE <<>>)

(* Nothing is lost, duplicated or reordered: what is pending on a channel  *)
(* is the last flits sent on it, in order.                                 *)
InOrder ==
  \A v \in VCs :
    /\ Len(Pending(v)) <= sent[v]
    /\ \A k \in 1 .. Len(Pending(v)) :
         Pending(v)[k] = sent[v] - Len(Pending(v)) + (k - 1)

(* The two sides of a link are a bounded queue per channel.  Without the   *)
(* mask the flit on the wires may wait in front of a full buffer.          *)
Pipe == INSTANCE FlitPipe WITH
          queue    <- [v \in VCs |-> Pending(v)],
          Capacity <- IF uses_mask THEN max_buffer_size ELSE max_buffer_size + 1

IsPipe == Pipe!Spec

(* A link that respects the mask never keeps a flit waiting on the wires:  *)
(* the edge after the one that sends it takes it.                          *)
TakenAtNextEdge ==
  [][uses_mask /\ InFlight => current_level_rx' # current_level_rx]_vars

(* With the clock running, the handshake always completes: a sender that   *)
(* respects the mask gets its permission back whatever happens to the      *)
(* buffers (another one must wait until a full buffer is emptied).         *)
HandshakeCompletes == InFlight ~> (ack = current_level_tx)

=============================================================================
