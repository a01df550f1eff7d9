-------------------------------- MODULE Walk --------------------------------
(***************************************************************************)
(* A head flit on its way through a network: at every router Router::route *)
(* answers "here", the hub, the hub with a relay behind it, or one of the  *)
(* directions the routing algorithm allows, and the link in that direction *)
(* or the radio takes it to the next router.                               *)
(***************************************************************************)
EXTENDS ChannelWaits, HubRouting

CONSTANTS
  HubNetworks,   (* the networks with hubs to look at: records with        *)
                 (* topology, routing_algorithm and hubs                   *)
  MaxHops        (* hops are counted up to this bound                      *)

(* The record of the hubs of a network, as checkConfiguration and the      *)
(* readers of the configuration allow, and as the code takes for granted:  *)
(* - relays are for butterflies only (ConfigurationManager.cpp:344-350),   *)
(*   and no farther from the destination than the packet's first switch,   *)
(*   since routingFunction takes them from nextDeltaHops without a check;  *)
(* - a channel leads back where one leads, since routingFunction asks for  *)
(*   one with destination and source exchanged, and one to every hub with  *)
(*   relays, since nobody asks whether one leads to the relay's;           *)
(* otherwise Hub.cpp:516 fails.                                            *)
HubsConfigured(c) ==
  /\ c.winoc_dst_hops \in 0 .. stg
  /\ \A g, h \in HubIds(c) :
       /\ g # h => c.attachedNodes[g] \cap c.attachedNodes[h] = {}
       /\ connectedHubs(c, g, h) => connectedHubs(c, h, g)
       /\ c.winoc_dst_hops > 0 => connectedHubs(c, g, h)

ASSUME HubNetworksAssumption ==
  \A net \in HubNetworks :
    /\ HubsConfigured(net.hubs)
    /\ net.hubs.winoc_dst_hops > 0 => net.topology = "BUTTERFLY"
    /\ <<net.topology, net.routing_algorithm>> \in Combinations
    /\ net.routing_algorithm # "TABLE_BASED"
    /\ \A h \in HubIds(net.hubs) : net.hubs.attachedNodes[h] \subseteq Nodes(net.topology)

ASSUME MaxHopsAssumption == MaxHops \in Nat

VARIABLES
  topology, routing_algorithm, hubs,
  src_id, dst_id,
  current_id,       (* the router the head is in, or left for a hub        *)
  hub,              (* the hub it is in, NOT_VALID when in a router        *)
  hub_relay_node,   (* of the head                                         *)
  body_relay,       (* hub_relay_node of the flits behind it               *)
  dir_out,          (* how it left the last router, "LOCAL" before that    *)
  hops

network == <<topology, routing_algorithm, hubs, src_id, dst_id>>
vars == <<network, current_id, hub, hub_relay_node, body_relay, dir_out, hops>>

Init ==
  /\ \/ \E net \in Networks :
          topology = net[1] /\ routing_algorithm = net[2] /\ hubs = NoHubs
     \/ \E net \in HubNetworks :
          /\ topology = net.topology /\ routing_algorithm = net.routing_algorithm
          /\ hubs = net.hubs
  /\ src_id \in Tiles(topology) /\ dst_id \in Tiles(topology) /\ src_id # dst_id
  /\ current_id = src_id
  /\ hub = NOT_VALID
  /\ hub_relay_node = NOT_VALID /\ body_relay = NOT_VALID
  /\ dir_out = "LOCAL"
  /\ hops = 0

(* Router::route has to look for a way: the head is not where it wants to. *)
Underway == hub = NOT_VALID /\ current_id # dst_id

TakesHub   == Directly(hubs, current_id, dst_id)
RelayTaken == Relay(hubs, current_id, src_id, dst_id)
TakesWire  == ~TakesHub /\ RelayTaken = NOT_VALID

(* The port the head came in by: it is one of the wires' where TABLE_BASED *)
(* asks for it.                                                            *)
dir_in == IF dir_out \in Directions THEN reflexDirection(dir_out) ELSE "LOCAL"

Offered == Candidates(routing_algorithm, current_id, src_id, dst_id, dir_in)

OneMore == IF hops < MaxHops THEN hops + 1 ELSE hops

(* By wire to the next router.                                             *)
Hop(d) ==
  /\ Underway /\ TakesWire
  /\ d \in Offered
  /\ current_id' = Neighbor(topology, current_id, d)
  /\ dir_out' = d
  /\ hops' = OneMore
  /\ UNCHANGED <<network, hub, hub_relay_node, body_relay>>

(* To the hub (DIRECTION_HUB); what an earlier relay left in the flit      *)
(* stays there.                                                            *)
ToHub ==
  /\ Underway /\ TakesHub
  /\ hub' = tile2Hub(hubs, current_id)
  /\ dir_out' = "HUB"
  /\ UNCHANGED <<network, current_id, hub_relay_node, body_relay, hops>>

(* To the hub with a relay (DIRECTION_HUB_RELAY): txProcess marks the head.*)
ToRelay ==
  /\ Underway /\ ~TakesHub /\ ~TakesWire
  /\ hub' = tile2Hub(hubs, current_id)
  /\ hub_relay_node' = RelayTaken
  /\ dir_out' = "HUB"
  /\ UNCHANGED <<network, current_id, body_relay, hops>>

(* Where the hub sends the packet: to the relay of its head, if any.       *)
RadioTarget == IF hub_relay_node = NOT_VALID THEN dst_id ELSE hub_relay_node

(* The assertions of tileToAntennaProcess: every flit of the packet is     *)
(* routed to the antenna, and a channel leads to the hub it is for.        *)
HubCanSend ==
  /\ \A relay \in {hub_relay_node, body_relay} : RoutedWireless(hubs, hub, dst_id, relay)
  /\ connectedHubs(hubs, hub, tile2Hub(hubs, RadioTarget))

(* By radio: the initiator marks all flits with the relay of the head, and *)
(* the hub that hears them hands them to the router they are for.          *)
Radio ==
  /\ hub # NOT_VALID /\ HubCanSend
  /\ current_id' = RadioTarget
  /\ hub' = NOT_VALID
  /\ body_relay' = hub_relay_node
  /\ hops' = OneMore
  /\ UNCHANGED <<network, hub_relay_node, dir_out>>

Next == ToHub \/ ToRelay \/ Radio \/ \E d \in Directions : Hop(d)

(* The network is fair to the packet: its hop comes.                       *)
Spec == Init /\ [][Next]_vars /\ WF_vars(Next)

-----------------------------------------------------------------------------
(***************************************************************************)
(* Properties.                                                             *)
(***************************************************************************)

(* A packet on its way is offered one or two directions (the assertion of  *)
(* Routing_ODD_EVEN.cpp:61), and behind each there is a router: none leads *)
(* off the border of a mesh or to an unconnected port.                     *)
AlwaysAWay ==
  Underway /\ TakesWire =>
    /\ Offered # {}
    /\ \A d, e, f \in Offered : d = e \/ e = f \/ d = f
    /\ \A d \in Offered : Neighbor(topology, current_id, d) # NOT_VALID

(* Every hop brings the packet nearer: the way is a shortest one, on which *)
(* Stats.h:72 relies for the power of a path, and a hub is never a detour. *)
(* The octagon is the exception: its routing takes the chords to be 1-5    *)
(* and 2-6 (Routing_OCTAGON.cpp:44), its wires are 1-6 and 2-5.            *)
Shortest ==
  topology # "OCTAGON" /\ hub = NOT_VALID =>
    LET done == hops + Distance(topology, current_id, dst_id)
        all  == Distance(topology, src_id, dst_id)
    IN  IF hubs = NoHubs THEN done = all ELSE done <= all

(* NOP selection (Selection_NOP.cpp:21-42) asks, for each of several       *)
(* directions, what the router behind it would answer; routingFunction     *)
(* does so with the hub of the router that asks.  That neighbour is the    *)
(* one the wires lead to, a hub is no part of the answer and none is asked *)
(* for where there is none, and every channel whose status is added up     *)
(* has a router behind it.  Not so where two hubs share no channel, nor    *)
(* with TABLE_BASED, which looks the neighbour's port up in its own table. *)
AllConnected == \A g, h \in HubIds(hubs) : connectedHubs(hubs, g, h)

LooksAhead ==
  /\ Underway /\ TakesWire /\ Cardinality(Offered) > 1
  /\ AllConnected /\ routing_algorithm # "TABLE_BASED"
  =>
    \A d \in Offered :
      LET candidate_id == getNeighborId(topology, current_id, d)
      IN  /\ candidate_id = Neighbor(topology, current_id, d)
          /\ ~AtOtherHubs(hubs, current_id, dst_id)
          /\ \A e \in Candidates(routing_algorithm, candidate_id, src_id, dst_id, reflexDirection(d)) :
               Neighbor(topology, candidate_id, e) # NOT_VALID

(* The assertions of Hub::tileToAntennaProcess (Hub.cpp:506, 516, 567):    *)
(* what a router sends to its hub is, flit by flit, for another hub, to    *)
(* which a channel leads, whatever the packet's earlier way left in        *)
(* hub_relay_node.                                                         *)
HubsAgree == hub # NOT_VALID => HubCanSend

(* nextDeltaHops, from which the hub to relay a packet through is chosen,  *)
(* foretells the way that the wires and the routing of a butterfly give.   *)
AsForetold ==
  topology = "BUTTERFLY" /\ hubs = NoHubs /\ hops > 0 => current_id = nextDeltaHops(src_id, dst_id)[hops]

(* No packet of a mesh or of a delta network waits, through any chain of   *)
(* others, for a channel it holds itself: there is no deadlock as long as  *)
(* the processing elements take what arrives.  The rings of a torus and    *)
(* the octagon have such circles.                                          *)
NoCircle ==
  topology \in {"MESH"} \cup DeltaTopologies =>
    <<topology, routing_algorithm>> \notin CircularNetworks

(* Every packet arrives.                                                   *)
Arrives == <>(current_id = dst_id)

(* The turns that the name of each algorithm excludes: west first, north   *)
(* last, no positive direction before a negative one, x before y, and the  *)
(* odd-even rules (no turn from east in an even column, none to west in an *)
(* odd one).  They are what keeps packets from waiting in a circle.        *)
Turn == <<dir_out, dir_out'>>

Vertical == {"NORTH", "SOUTH"}

ExcludedTurns ==
  CASE routing_algorithm = "XY" -> Vertical \X {"EAST", "WEST"}
    [] routing_algorithm = "WEST_FIRST" -> {"NORTH", "SOUTH", "EAST"} \X {"WEST"}
    [] routing_algorithm = "NORTH_LAST" -> {"NORTH"} \X {"EAST", "WEST", "SOUTH"}
    [] routing_algorithm = "NEGATIVE_FIRST" -> {"EAST", "NORTH"} \X {"WEST", "SOUTH"}
    [] routing_algorithm \in {"ODD_EVEN", "DYAD"} ->
         IF X(current_id) % 2 = 0 THEN {"EAST"} \X Vertical ELSE Vertical \X {"WEST"}
    [] OTHER -> {}

TurnsRespected == [][Turn \notin ExcludedTurns]_vars

=============================================================================
