----------------------------- MODULE HubRouting -----------------------------
(***************************************************************************)
(* The wireless part of Router::routingFunction and the routing of the     *)
(* hubs (Hub::route, Hub::selectChannel).  A network with hubs is a record *)
(*   attachedNodes, txChannels, rxChannels : for each hub, a set           *)
(*   winoc_dst_hops : how far before the destination a relay may be.       *)
(* A node attached to a hub sends a packet through it if the destination   *)
(* is attached to a hub it can reach, or if a node of the last             *)
(* winoc_dst_hops on the way to the destination, a relay, is.              *)
(***************************************************************************)
EXTENDS Routing

NoHubs ==
  [attachedNodes |-> << >>, txChannels |-> << >>, rxChannels |-> << >>,
   winoc_dst_hops |-> 0]

HubIds(c) == DOMAIN c.attachedNodes

hasRadioHub(c, n) == \E h \in HubIds(c) : n \in c.attachedNodes[h]

tile2Hub(c, n) == CHOOSE h \in HubIds(c) : n \in c.attachedNodes[h]

sameRadioHub(c, n, m) == tile2Hub(c, n) = tile2Hub(c, m)

(* The channels src_hub sends on and dst_hub listens to, of which          *)
(* Hub::selectChannel takes one.                                           *)
ChannelsBetween(c, src_hub, dst_hub) ==
  c.txChannels[src_hub] \cap c.rxChannels[dst_hub]

connectedHubs(c, src_hub, dst_hub) == ChannelsBetween(c, src_hub, dst_hub) # {}

(* Nodes n and t are attached to different hubs.                           *)
AtOtherHubs(c, n, t) ==
  hasRadioHub(c, n) /\ hasRadioHub(c, t) /\ ~sameRadioHub(c, n, t)

(* Is a packet for t, at node n, to go to the hub of n, to be heard by the *)
(* hub of t?  The hubs are asked for in this order, destination first.     *)
Directly(c, n, t) ==
  AtOtherHubs(c, n, t) /\ connectedHubs(c, tile2Hub(c, t), tile2Hub(c, n))

(* The relay a packet from s to t is sent to from node n, if any: the last *)
(* of the candidates that is attached to another hub.                      *)
RelayWithinOwn(c, n, s, t) ==   (* mutant *)
  LET hop(i) == nextDeltaHops(s, t)[stg + 1 - i]
      good == {i \in 1 .. c.winoc_dst_hops : hasRadioHub(c, hop(i))}
  IN  IF hasRadioHub(c, n) /\ good # {} THEN hop(Min(good)) ELSE NOT_VALID
Relay(c, n, s, t) ==
  LET hop(i) == nextDeltaHops(s, t)[stg + 1 - i]
      good == {i \in 1 .. c.winoc_dst_hops :
                 hasRadioHub(c, hop(i)) /\ ~sameRadioHub(c, n, hop(i))}
  IN  IF hasRadioHub(c, n) /\ good # {} THEN hop(Min(good)) ELSE NOT_VALID

(* Hub::route answers DIRECTION_WIRELESS for a flit that is neither for a  *)
(* tile of the hub nor for a relay there.                                  *)
RoutedWireless(c, h, dst_id, hub_relay_node) ==
  c.attachedNodes[h] \cap {dst_id, hub_relay_node} = {}

=============================================================================
