----------------------------- MODULE WalkProofs -----------------------------
(***************************************************************************)
(* Theorems about Walk, for networks of any size: the turns that the       *)
(* routing algorithms take, the ways they offer and their length, what NOP *)
(* and nextDeltaHops foretell of them, and why packets on meshes and delta *)
(* networks never wait for one another in a circle.                        *)
(***************************************************************************)
EXTENDS Walk, TLAPS, FiniteSetTheorems, WellFoundedInduction

-----------------------------------------------------------------------------
(***************************************************************************)
(* Coordinates.                                                            *)
(***************************************************************************)
GridTiles == 0 .. mesh_dim_x * mesh_dim_y - 1
Columns == 0 .. mesh_dim_x - 1
Rows == 0 .. mesh_dim_y - 1

LEMMA Dimensions ==
  /\ mesh_dim_x \in Nat \ {0, 1} /\ mesh_dim_y \in Nat \ {0, 1}
  /\ mesh_dim_x * mesh_dim_y \in Nat
BY DimAssumption

LEMMA Coordinates ==
  ASSUME NEW n \in GridTiles
  PROVE  X(n) \in Columns /\ Y(n) \in Rows /\ n = Y(n) * mesh_dim_x + X(n)
<1>1. /\ n \in Nat /\ n < mesh_dim_x * mesh_dim_y
      /\ mesh_dim_x \in Nat \ {0} /\ mesh_dim_y \in Nat \ {0}
  BY Dimensions DEF GridTiles
<1>2. /\ n % mesh_dim_x \in 0 .. mesh_dim_x - 1 /\ n \div mesh_dim_x \in Nat
      /\ n = mesh_dim_x * (n \div mesh_dim_x) + (n % mesh_dim_x)
  BY <1>1
<1>3. n \div mesh_dim_x < mesh_dim_y
  <2> SUFFICES ASSUME ~(n \div mesh_dim_x < mesh_dim_y) PROVE FALSE
    OBVIOUS
  <2> DEFINE e == n \div mesh_dim_x - mesh_dim_y
  <2>1. e \in Nat /\ n \div mesh_dim_x = mesh_dim_y + e
    BY <1>1, <1>2
  <2> HIDE DEF e
  <2>2. mesh_dim_x * (n \div mesh_dim_x) = mesh_dim_x * mesh_dim_y + mesh_dim_x * e
    BY <1>1, <2>1
  <2>3. mesh_dim_x * e \in Nat
    BY <1>1, <2>1
  <2> QED BY <1>1, <1>2, <2>2, <2>3
<1> QED BY <1>1, <1>2, <1>3 DEF X, Y, Columns, Rows

LEMMA SameTile ==
  ASSUME NEW n \in GridTiles, NEW m \in GridTiles, X(n) = X(m), Y(n) = Y(m)
  PROVE  n = m
BY Coordinates

LEMMA IdOf ==
  ASSUME NEW x \in Columns, NEW y \in Rows
  PROVE  Id(x, y) \in GridTiles /\ X(Id(x, y)) = x /\ Y(Id(x, y)) = y
<1>1. x \in Nat /\ y \in Nat /\ x < mesh_dim_x /\ mesh_dim_x \in Nat \ {0} /\ mesh_dim_y \in Nat
  BY Dimensions DEF Columns, Rows
<1>2. PICK d \in Nat : mesh_dim_y = y + 1 + d
  <2>1. mesh_dim_y - (y + 1) \in Nat
    BY <1>1 DEF Rows
  <2> QED BY <1>1, <2>1
<1>3. mesh_dim_x * mesh_dim_y = y * mesh_dim_x + mesh_dim_x + d * mesh_dim_x
  BY <1>1, <1>2
<1>4. d * mesh_dim_x \in Nat /\ y * mesh_dim_x \in Nat
  BY <1>1, <1>2
<1>5. Id(x, y) \in Nat /\ Id(x, y) <= mesh_dim_x * mesh_dim_y - 1 /\ Id(x, y) = y * mesh_dim_x + x
  BY <1>1, <1>3, <1>4 DEF Id
<1>6. (y * mesh_dim_x + x) \div mesh_dim_x = y /\ (y * mesh_dim_x + x) % mesh_dim_x = x
  <2> DEFINE z == y * mesh_dim_x + x
             q == z \div mesh_dim_x
  <2>1. z \in Nat /\ q \in Nat /\ z = mesh_dim_x * q + (z % mesh_dim_x) /\ z % mesh_dim_x \in 0 .. mesh_dim_x - 1
    BY <1>1, <1>4
  <2>2. z = y * mesh_dim_x + x
    OBVIOUS
  <2> HIDE DEF z, q
  <2>3. CASE q = y
    BY <1>1, <2>1, <2>2, <2>3 DEF z, q
  <2>4. CASE q < y
    <3>1. PICK e \in Nat : y = q + 1 + e
      <4>1. y - (q + 1) \in Nat
        BY <1>1, <2>1, <2>4
      <4> QED BY <1>1, <2>1, <4>1
    <3>2. y * mesh_dim_x = mesh_dim_x * q + mesh_dim_x + e * mesh_dim_x /\ e * mesh_dim_x \in Nat
      BY <1>1, <2>1, <3>1
    <3> QED BY <1>1, <2>1, <2>2, <3>2
  <2>5. CASE q > y
    <3>1. PICK e \in Nat : q = y + 1 + e
      <4>1. q - (y + 1) \in Nat
        BY <1>1, <2>1, <2>5
      <4> QED BY <1>1, <2>1, <4>1
    <3>2. mesh_dim_x * q = y * mesh_dim_x + mesh_dim_x + e * mesh_dim_x /\ e * mesh_dim_x \in Nat
      BY <1>1, <2>1, <3>1
    <3> QED BY <1>1, <2>1, <2>2, <3>2
  <2> QED BY <1>1, <2>1, <2>3, <2>4, <2>5
<1> QED BY <1>5, <1>6 DEF GridTiles, X, Y, Columns, Rows

(***************************************************************************)
(* Directions: a hop is a step of one in a coordinate.                     *)
(***************************************************************************)
StepX(d) == IF d = "EAST" THEN 1 ELSE IF d = "WEST" THEN -1 ELSE 0
StepY(d) == IF d = "SOUTH" THEN 1 ELSE IF d = "NORTH" THEN -1 ELSE 0

(* It brings a packet at n nearer to t, on a mesh.                         *)
Productive(n, t, d) ==
  /\ d \in Directions
  /\ d = "EAST"  => X(t) > X(n)
  /\ d = "WEST"  => X(t) < X(n)
  /\ d = "SOUTH" => Y(t) > Y(n)
  /\ d = "NORTH" => Y(t) < Y(n)

LEMMA MeshStep ==
  ASSUME NEW n \in GridTiles, NEW t \in GridTiles, NEW d \in Directions, Productive(n, t, d)
  PROVE  /\ MeshNeighbor(n, d) \in GridTiles /\ MeshNeighbor(n, d) # NOT_VALID
         /\ X(MeshNeighbor(n, d)) = X(n) + StepX(d)
         /\ Y(MeshNeighbor(n, d)) = Y(n) + StepY(d)
         /\ getNeighborId("MESH", n, d) = MeshNeighbor(n, d)
<1>1. X(n) \in Columns /\ Y(n) \in Rows /\ X(t) \in Columns /\ Y(t) \in Rows
  BY Coordinates
<1>2. X(n) + StepX(d) \in Columns /\ Y(n) + StepY(d) \in Rows
  BY <1>1, Dimensions DEF Columns, Rows, StepX, StepY, Productive, Directions
<1>3. MeshNeighbor(n, d) = Id(X(n) + StepX(d), Y(n) + StepY(d))
  BY <1>1, <1>2, Dimensions DEF MeshNeighbor, Directions, StepX, StepY, Columns, Rows, Productive
<1>4. NOT_VALID \notin GridTiles
  BY Dimensions DEF GridTiles, NOT_VALID
<1>5. getNeighborId("MESH", n, d) = Id((X(n) + StepX(d)) % mesh_dim_x, (Y(n) + StepY(d)) % mesh_dim_y)
  BY <1>2 DEF getNeighborId, StepX, StepY, Directions, Columns, Rows
<1>6. (X(n) + StepX(d)) % mesh_dim_x = X(n) + StepX(d) /\ (Y(n) + StepY(d)) % mesh_dim_y = Y(n) + StepY(d)
  BY <1>2, Dimensions DEF Columns, Rows
<1> QED BY <1>2, <1>3, <1>4, <1>5, <1>6, IdOf

(***************************************************************************)
(* What the algorithms of a mesh offer is productive, and never nothing.   *)
(***************************************************************************)
AllProductive(n, t, C) == C # {} /\ \A d \in C : Productive(n, t, d)

LEMMA MeshOffers ==
  ASSUME NEW n \in GridTiles, NEW s \in GridTiles, NEW t \in GridTiles, n # t,
         NEW a \in MeshAlgorithms, NEW port
  PROVE  AllProductive(n, t, Candidates(a, n, s, t, port))
<1>2. X(n) \in Nat /\ Y(n) \in Nat /\ X(t) \in Nat /\ Y(t) \in Nat /\ X(s) \in Nat
  BY Coordinates DEF Columns, Rows
<1>3. X(n) # X(t) \/ Y(n) # Y(t)
  BY SameTile
<1> USE DEF AllProductive, Productive, Directions
<1>4. AllProductive(n, t, XY(n, t))
  BY <1>2, <1>3 DEF XY
<1>5. AllProductive(n, t, WEST_FIRST(n, t))
  BY <1>2, <1>3, <1>4 DEF WEST_FIRST
<1>6. AllProductive(n, t, NORTH_LAST(n, t))
  BY <1>2, <1>3, <1>4 DEF NORTH_LAST
<1>7. AllProductive(n, t, NEGATIVE_FIRST(n, t))
  BY <1>2, <1>3 DEF NEGATIVE_FIRST
<1>8. AllProductive(n, t, ODD_EVEN(n, s, t))
  <2>2. CASE X(t) - X(n) = 0
    BY <1>2, <1>3, <2>2 DEF ODD_EVEN
  <2>3. CASE X(t) - X(n) > 0 /\ Y(n) - Y(t) = 0
    BY <1>2, <1>3, <2>3 DEF ODD_EVEN
  <2>4. CASE X(t) - X(n) > 0 /\ Y(n) - Y(t) # 0
    <3> DEFINE V == IF Y(n) - Y(t) > 0 THEN {"NORTH"} ELSE {"SOUTH"}
    <3>1. ODD_EVEN(n, s, t) = (IF X(n) % 2 = 1 \/ X(n) = X(s) THEN V ELSE {})
                              \cup (IF X(t) % 2 = 1 \/ X(t) - X(n) # 1 THEN {"EAST"} ELSE {})
      BY <1>2, <2>4 DEF ODD_EVEN
    <3>2. AllProductive(n, t, V) /\ AllProductive(n, t, {"EAST"})
      BY <1>2, <2>4
    <3>3. (X(n) % 2 = 1 \/ X(n) = X(s)) \/ (X(t) % 2 = 1 \/ X(t) - X(n) # 1)
      BY <1>2
    <3> HIDE DEF V
    <3> QED BY <3>1, <3>2, <3>3
  <2>5. CASE X(t) - X(n) < 0
    BY <1>2, <1>3, <2>5 DEF ODD_EVEN
  <2> QED BY <1>2, <2>2, <2>3, <2>4, <2>5
<1> QED BY <1>4, <1>5, <1>6, <1>7, <1>8 DEF MeshAlgorithms, Candidates, DYAD

LEMMA TorusStep ==
  ASSUME NEW n \in GridTiles, NEW d \in Directions
  PROVE  /\ TorusNeighbor(n, d) \in GridTiles /\ TorusNeighbor(n, d) # NOT_VALID
         /\ X(TorusNeighbor(n, d)) = (X(n) + StepX(d)) % mesh_dim_x
         /\ Y(TorusNeighbor(n, d)) = (Y(n) + StepY(d)) % mesh_dim_y
<1>1. X(n) \in Columns /\ Y(n) \in Rows
  BY Coordinates
<1>2. X(n) % mesh_dim_x = X(n) /\ Y(n) % mesh_dim_y = Y(n)
  BY <1>1, Dimensions DEF Columns, Rows
<1>3. /\ (X(n) + StepX(d)) % mesh_dim_x \in Columns
      /\ (Y(n) + StepY(d)) % mesh_dim_y \in Rows
  BY <1>1, Dimensions DEF Columns, Rows, StepX, StepY
<1>4. TorusNeighbor(n, d) = Id((X(n) + StepX(d)) % mesh_dim_x, (Y(n) + StepY(d)) % mesh_dim_y)
  BY <1>1, <1>2 DEF TorusNeighbor, Directions, StepX, StepY, Columns, Rows
<1>5. NOT_VALID \notin GridTiles
  BY Dimensions DEF GridTiles, NOT_VALID
<1> QED BY <1>3, <1>4, <1>5, IdOf

LEMMA TorusOffers ==
  ASSUME NEW n \in GridTiles, NEW t \in GridTiles, n # t
  PROVE  \E d \in Directions : XY_TORUS(n, t) = {d}
<1> DEFINE dx == Wrapped(X(t) - X(n), mesh_dim_x)
           dy == Wrapped(Y(t) - Y(n), mesh_dim_y)
<1>1. X(n) \in Columns /\ Y(n) \in Rows /\ X(t) \in Columns /\ Y(t) \in Rows
  BY Coordinates
<1>2. dx \in Int /\ (dx = 0 => X(t) = X(n))
  BY <1>1, Dimensions DEF Wrapped, Columns
<1>3. dy \in Int /\ (dy = 0 => Y(t) = Y(n))
  BY <1>1, Dimensions DEF Wrapped, Rows
<1>4. dx # 0 \/ dy # 0
  BY <1>2, <1>3, SameTile
<1>5. XY_TORUS(n, t) = CASE dx > 0 -> {"EAST"} [] dx < 0 -> {"WEST"}
                         [] dx = 0 /\ dy > 0 -> {"SOUTH"} [] dx = 0 /\ dy < 0 -> {"NORTH"}
                         [] dx = 0 /\ dy = 0 -> {}
  BY DEF XY_TORUS
<1> HIDE DEF dx, dy
<1> QED BY <1>2, <1>3, <1>4, <1>5 DEF Directions

-----------------------------------------------------------------------------
(***************************************************************************)
(* The network never changes, and its hubs are configured as the code      *)
(* takes for granted; where there are no relays, a packet in a hub has     *)
(* been sent there for its destination.  A packet on a mesh or torus is at *)
(* one of its tiles.                                                       *)
(***************************************************************************)
Configured ==
  /\ <<topology, routing_algorithm>> \in Combinations
  /\ src_id \in Tiles(topology) /\ dst_id \in Tiles(topology)
  /\ HubsConfigured(hubs)
  /\ \A h \in HubIds(hubs) : hubs.attachedNodes[h] \subseteq Nodes(topology)
  /\ hubs.winoc_dst_hops > 0 => topology = "BUTTERFLY"

AtHub ==
  hubs.winoc_dst_hops = 0 =>
    /\ hub_relay_node = NOT_VALID /\ body_relay = NOT_VALID
    /\ hub # NOT_VALID => TakesHub /\ hub = tile2Hub(hubs, current_id)

Grids == {"MESH", "TORUS", "FOLDED_TORUS"}
OnGrid == topology \in Grids /\ routing_algorithm # "TABLE_BASED"
OnMesh == topology = "MESH" /\ routing_algorithm \in MeshAlgorithms

Placed == OnGrid => current_id \in GridTiles

Bearings == Configured /\ AtHub /\ Placed

LEMMA Stages == stg \in 2 .. 10
BY DeltaAssumption DEF stg

LEMMA GridFacts ==
  ASSUME Configured, OnGrid
  PROVE  /\ src_id \in GridTiles /\ dst_id \in GridTiles
         /\ OnMesh \/ (topology \in {"TORUS", "FOLDED_TORUS"} /\ routing_algorithm = "XY_TORUS")
         /\ hubs.winoc_dst_hops = 0
<1>1. Tiles(topology) = GridTiles
  BY DEF OnGrid, Grids, Tiles, DeltaTopologies, GridTiles
<1>2. OnMesh \/ (topology \in {"TORUS", "FOLDED_TORUS"} /\ routing_algorithm = "XY_TORUS")
  BY DEF OnGrid, Grids, OnMesh, Configured, Combinations, DeltaTopologies
<1>3. hubs.winoc_dst_hops \in Nat /\ ~(hubs.winoc_dst_hops > 0)
  BY Stages DEF Configured, HubsConfigured, OnGrid, Grids
<1> QED BY <1>1, <1>2, <1>3 DEF Configured

LEMMA NoRelay ==
  ASSUME NEW c, c.winoc_dst_hops = 0, NEW n, NEW s, NEW t
  PROVE  Relay(c, n, s, t) = NOT_VALID
BY DEF Relay

(* What a grid offers leads to one of its tiles.                           *)
LEMMA GridOffers ==
  ASSUME Bearings, OnGrid, Underway, NEW d \in Offered
  PROVE  /\ d \in Directions
         /\ Neighbor(topology, current_id, d) \in GridTiles
         /\ Neighbor(topology, current_id, d) # NOT_VALID
<1>1. current_id \in GridTiles /\ src_id \in GridTiles /\ dst_id \in GridTiles /\ current_id # dst_id
  BY GridFacts DEF Bearings, Placed, Underway
<1>2. CASE OnMesh
  <2>1. Productive(current_id, dst_id, d)
    BY <1>1, <1>2, MeshOffers DEF Offered, OnMesh, AllProductive
  <2>2. d \in Directions
    BY <2>1 DEF Productive
  <2>3. Neighbor(topology, current_id, d) = MeshNeighbor(current_id, d)
    BY <1>2 DEF OnMesh, Neighbor, DeltaTopologies
  <2> QED BY <1>1, <2>1, <2>2, <2>3, MeshStep
<1>3. CASE topology \in {"TORUS", "FOLDED_TORUS"} /\ routing_algorithm = "XY_TORUS"
  <2>1. Offered = XY_TORUS(current_id, dst_id)
    BY <1>3 DEF Offered, Candidates
  <2>2. d \in Directions
    BY <1>1, <2>1, TorusOffers
  <2>3. Neighbor(topology, current_id, d) = TorusNeighbor(current_id, d)
    BY <1>3 DEF Neighbor, FoldedTorusNeighbor, DeltaTopologies
  <2> QED BY <1>1, <2>2, <2>3, TorusStep
<1> QED BY <1>2, <1>3, GridFacts DEF Bearings

LEMMA BearingsInit == Init => Bearings
<1> SUFFICES ASSUME Init PROVE Bearings
  OBVIOUS
<1>1. CASE \E net \in Networks :
             topology = net[1] /\ routing_algorithm = net[2] /\ hubs = NoHubs
  <2>1. PICK net \in Combinations :
          topology = net[1] /\ routing_algorithm = net[2] /\ hubs = NoHubs
    BY <1>1, NetworksAssumption
  <2>2. net = <<net[1], net[2]>>
    BY DEF Combinations
  <2>3. <<topology, routing_algorithm>> \in Combinations
    BY <2>1, <2>2
  <2>4. HubIds(hubs) = {} /\ hubs.winoc_dst_hops = 0
    BY <2>1 DEF NoHubs, HubIds
  <2>5. Configured
    BY <2>3, <2>4, Stages DEF Init, Configured, HubsConfigured
  <2>6. OnGrid => Tiles(topology) = GridTiles
    BY DEF OnGrid, Grids, Tiles, DeltaTopologies, GridTiles
  <2> QED BY <2>5, <2>6 DEF Init, Bearings, AtHub, Placed
<1>2. CASE \E net \in HubNetworks :
             /\ topology = net.topology /\ routing_algorithm = net.routing_algorithm
             /\ hubs = net.hubs
  <2>1. Configured
    BY <1>2, HubNetworksAssumption DEF Init, Configured
  <2>2. OnGrid => Tiles(topology) = GridTiles
    BY DEF OnGrid, Grids, Tiles, DeltaTopologies, GridTiles
  <2> QED BY <2>1, <2>2 DEF Init, Bearings, AtHub, Placed
<1> QED BY <1>1, <1>2 DEF Init

LEMMA BearingsNext ==
  ASSUME Bearings, [Next]_vars
  PROVE  Bearings'
<1> USE DEF Bearings
<1>1. UNCHANGED network
  BY DEF Next, vars, ToHub, ToRelay, Radio, Hop
<1>2. Configured' /\ (OnGrid' <=> OnGrid)
  BY <1>1 DEF network, Configured, OnGrid
<1>3. CASE ToHub
  <2>1. AtHub'
    BY <1>1, <1>3 DEF ToHub, AtHub, network, TakesHub
  <2> QED BY <1>2, <1>3, <2>1 DEF ToHub, Placed
<1>4. CASE ToRelay
  <2>1. hubs.winoc_dst_hops # 0
    BY <1>4, NoRelay DEF ToRelay, TakesWire, RelayTaken
  <2>2. AtHub'
    BY <1>1, <2>1 DEF AtHub, network
  <2> QED BY <1>2, <1>4, <2>2 DEF ToRelay, Placed
<1>5. CASE Radio
  <2>1. AtHub'
    BY <1>1, <1>5 DEF Radio, AtHub, network
  <2>2. OnGrid => RadioTarget = dst_id
    BY GridFacts DEF AtHub, RadioTarget
  <2> QED BY <1>2, <1>5, <2>1, <2>2, GridFacts DEF Radio, Placed
<1>6. ASSUME NEW d \in Directions, Hop(d) PROVE Bearings'
  <2>1. AtHub'
    BY <1>1, <1>6 DEF Hop, AtHub, network, Underway
  <2>2. OnGrid => current_id' \in GridTiles
    BY <1>6, GridOffers DEF Hop
  <2> QED BY <1>2, <2>1, <2>2 DEF Placed
<1>7. CASE UNCHANGED vars
  BY <1>1, <1>2, <1>7 DEF vars, network, AtHub, TakesHub, Placed
<1> QED BY <1>3, <1>4, <1>5, <1>6, <1>7 DEF Next

LEMMA BearingsAlways == Spec => []Bearings
BY BearingsInit, BearingsNext, PTL DEF Spec

-----------------------------------------------------------------------------
(* Three productive directions are not all different.                      *)
LEMMA TwoWays ==
  ASSUME NEW n, NEW t, X(n) \in Nat, Y(n) \in Nat, X(t) \in Nat, Y(t) \in Nat,
         NEW C, AllProductive(n, t, C),
         NEW d \in C, NEW e \in C, NEW f \in C
  PROVE  d = e \/ e = f \/ d = f
BY DEF AllProductive, Productive, Directions

(* A packet on a mesh or torus always has one or two ways on the network.  *)
LEMMA GridHasAWay == Bearings /\ OnGrid => AlwaysAWay
<1> SUFFICES ASSUME Bearings, OnGrid, Underway, TakesWire
             PROVE  /\ Offered # {}
                    /\ \A d, e, f \in Offered : d = e \/ e = f \/ d = f
                    /\ \A d \in Offered : Neighbor(topology, current_id, d) # NOT_VALID
  BY DEF AlwaysAWay
<1>1. /\ current_id \in GridTiles /\ src_id \in GridTiles /\ dst_id \in GridTiles
      /\ current_id # dst_id
  BY GridFacts DEF Bearings, Placed, Underway
<1>2. Offered # {} /\ \A d, e, f \in Offered : d = e \/ e = f \/ d = f
  <2>1. CASE OnMesh
    <3>1. AllProductive(current_id, dst_id, Offered)
      BY <1>1, <2>1, MeshOffers DEF Offered, OnMesh
    <3>2. X(current_id) \in Nat /\ Y(current_id) \in Nat /\ X(dst_id) \in Nat /\ Y(dst_id) \in Nat
      BY <1>1, Coordinates DEF Columns, Rows
    <3> QED BY <3>1, <3>2, TwoWays DEF AllProductive
  <2>2. CASE routing_algorithm = "XY_TORUS"
    <3>1. Offered = XY_TORUS(current_id, dst_id)
      BY <2>2 DEF Offered, Candidates
    <3> QED BY <1>1, <3>1, TorusOffers
  <2> QED BY <2>1, <2>2, GridFacts DEF Bearings
<1> QED BY <1>2, GridOffers

-----------------------------------------------------------------------------
(* Where there are no relays, routers and hubs agree: what a router sends  *)
(* to its hub is for another hub (the assertions of Hub.cpp:506, 516 and   *)
(* 567), on every topology.                                                *)
THEOREM HubsAgreeWithoutRelays ==
  ASSUME \A net \in HubNetworks : net.hubs.winoc_dst_hops = 0
  PROVE  Spec => []HubsAgree
<1> DEFINE Direct == hubs.winoc_dst_hops = 0
<1>1. Init => Direct
  BY DEF Init, NoHubs
<1>2. Direct /\ [Next]_vars => Direct'
  BY DEF network, vars, Next, ToHub, ToRelay, Radio, Hop
<1>3. Bearings /\ Direct => HubsAgree
  <2> SUFFICES ASSUME Bearings, Direct, hub # NOT_VALID PROVE HubCanSend
    BY DEF HubsAgree
  <2>1. /\ hub_relay_node = NOT_VALID /\ body_relay = NOT_VALID
        /\ TakesHub /\ hub = tile2Hub(hubs, current_id)
    BY DEF Bearings, AtHub
  <2> DEFINE g == tile2Hub(hubs, current_id)
             h == tile2Hub(hubs, dst_id)
  <2>2. /\ hasRadioHub(hubs, current_id) /\ hasRadioHub(hubs, dst_id) /\ g # h
        /\ connectedHubs(hubs, h, g)
    BY <2>1 DEF TakesHub, Directly, AtOtherHubs, sameRadioHub
  <2>3. g \in HubIds(hubs)
    BY <2>2 DEF hasRadioHub, tile2Hub
  <2>4. h \in HubIds(hubs) /\ dst_id \in hubs.attachedNodes[h]
    BY <2>2 DEF hasRadioHub, tile2Hub
  <2> HIDE DEF g, h
  <2>5. connectedHubs(hubs, g, h)
    BY <2>2, <2>3, <2>4 DEF Bearings, Configured, HubsConfigured
  <2>6. dst_id \notin hubs.attachedNodes[g]
    BY <2>2, <2>3, <2>4 DEF Bearings, Configured, HubsConfigured
  <2>7. NOT_VALID \notin hubs.attachedNodes[g]
    <3>1. hubs.attachedNodes[g] \subseteq Nodes(topology)
      BY <2>3 DEF Bearings, Configured
    <3>2. NOT_VALID \notin Nodes(topology)
      BY DEF NOT_VALID, Nodes, Tiles
    <3> QED BY <3>1, <3>2
  <2>8. RadioTarget = dst_id
    BY <2>1 DEF RadioTarget
  <2>9. RoutedWireless(hubs, hub, dst_id, NOT_VALID)
    BY <2>1, <2>6, <2>7 DEF RoutedWireless, g
  <2> QED BY <2>1, <2>5, <2>8, <2>9 DEF HubCanSend, g, h
<1> QED BY <1>1, <1>2, <1>3, BearingsAlways, PTL DEF Spec

-----------------------------------------------------------------------------
(***************************************************************************)
(* The turns.  For each algorithm, what its packets have behind them:      *)
(* after a hop, the directions that would make an excluded turn are no     *)
(* longer productive (XY, WEST_FIRST, NORTH_LAST, NEGATIVE_FIRST), or not  *)
(* offered in such a column (ODD_EVEN).                                    *)
(***************************************************************************)
TurnsBehind ==
  /\ routing_algorithm = "XY" /\ dir_out \in Vertical => X(dst_id) = X(current_id)
  /\ routing_algorithm = "WEST_FIRST" /\ dir_out \in {"NORTH", "SOUTH", "EAST"} =>
       X(dst_id) >= X(current_id)
  /\ routing_algorithm = "NORTH_LAST" /\ dir_out = "NORTH" =>
       X(dst_id) = X(current_id) /\ Y(dst_id) <= Y(current_id)
  /\ routing_algorithm = "NEGATIVE_FIRST" /\ dir_out \in {"EAST", "NORTH"} =>
       X(dst_id) >= X(current_id) /\ Y(dst_id) <= Y(current_id)
  /\ routing_algorithm \in {"ODD_EVEN", "DYAD"} =>
       /\ \/ X(src_id) <= X(current_id) /\ X(current_id) <= X(dst_id)
          \/ X(dst_id) <= X(current_id) /\ X(current_id) <= X(src_id)
       /\ dir_out = "EAST" =>
            /\ X(current_id) > X(src_id) /\ X(dst_id) >= X(current_id)
            /\ X(current_id) % 2 = 0 /\ X(current_id) = X(dst_id) => Y(current_id) = Y(dst_id)
       /\ dir_out \in Vertical => X(dst_id) >= X(current_id) \/ X(current_id) % 2 = 0

Turned == OnMesh => TurnsBehind

LEMMA MeshFacts ==
  ASSUME Bearings, OnMesh
  PROVE  /\ current_id \in GridTiles /\ src_id \in GridTiles /\ dst_id \in GridTiles
         /\ X(current_id) \in Nat /\ Y(current_id) \in Nat
         /\ X(src_id) \in Nat /\ Y(src_id) \in Nat
         /\ X(dst_id) \in Nat /\ Y(dst_id) \in Nat
         /\ hubs.winoc_dst_hops = 0
<1>1. OnGrid
  BY DEF OnMesh, OnGrid, Grids, MeshAlgorithms
<1> QED BY <1>1, GridFacts, Coordinates DEF Bearings, Placed, Columns, Rows

LEMMA MeshHop ==
  ASSUME Bearings, OnMesh, NEW d \in Directions, Hop(d)
  PROVE  /\ Productive(current_id, dst_id, d)
         /\ current_id # dst_id
         /\ d \in Offered /\ dir_out' = d
         /\ X(current_id)' = X(current_id) + StepX(d)
         /\ Y(current_id)' = Y(current_id) + StepY(d)
<1>1. /\ Underway /\ d \in Offered /\ dir_out' = d
      /\ current_id' = Neighbor(topology, current_id, d)
  BY DEF Hop
<1>2. Neighbor(topology, current_id, d) = MeshNeighbor(current_id, d)
  BY DEF OnMesh, Neighbor, DeltaTopologies
<1>3. current_id # dst_id
  BY <1>1 DEF Underway
<1>4. Productive(current_id, dst_id, d)
  BY <1>1, <1>3, MeshFacts, MeshOffers DEF Offered, OnMesh, AllProductive
<1> QED BY <1>1, <1>2, <1>3, <1>4, MeshFacts, MeshStep DEF X, Y

LEMMA TurnedNext ==
  ASSUME Bearings, Turned, [Next]_vars
  PROVE  Turned'
<1> SUFFICES ASSUME OnMesh' PROVE TurnsBehind'
  BY DEF Turned
<1>1. UNCHANGED network
  BY DEF Next, vars, ToHub, ToRelay, Radio, Hop
<1>2. OnMesh /\ TurnsBehind
  BY <1>1 DEF Turned, network, OnMesh
<1>3. UNCHANGED <<X(src_id), X(dst_id), Y(dst_id), routing_algorithm>>
  BY <1>1 DEF network, X, Y
<1>4. CASE UNCHANGED <<current_id, dir_out>>
  BY <1>2, <1>3, <1>4 DEF TurnsBehind, X, Y
<1>5. CASE ToHub \/ ToRelay
  BY <1>2, <1>3, <1>5 DEF TurnsBehind, ToHub, ToRelay, Vertical, X, Y
<1>6. CASE Radio
  <2>1. current_id' = dst_id /\ dir_out' = dir_out
    BY <1>2, <1>6, MeshFacts DEF Radio, RadioTarget, Bearings, AtHub
  <2>2. X(current_id)' = X(dst_id) /\ Y(current_id)' = Y(dst_id)
    BY <2>1 DEF X, Y
  <2> QED BY <1>2, <1>3, <2>1, <2>2, MeshFacts DEF TurnsBehind
<1>7. ASSUME NEW d \in Directions, Hop(d) PROVE TurnsBehind'
  <2>1. /\ Productive(current_id, dst_id, d) /\ current_id # dst_id
        /\ d \in Offered /\ dir_out' = d
        /\ X(current_id)' = X(current_id) + StepX(d)
        /\ Y(current_id)' = Y(current_id) + StepY(d)
    BY <1>2, <1>7, MeshHop
  <2> USE DEF Productive, StepX, StepY, Vertical, Directions
  <2>2. CASE routing_algorithm = "XY"
    <3>1. d \in XY(current_id, dst_id)
      BY <2>1, <2>2 DEF Offered, Candidates
    <3> QED BY <1>2, <1>3, <2>1, <2>2, <3>1, MeshFacts DEF TurnsBehind, XY
  <2>3. CASE routing_algorithm = "WEST_FIRST"
    <3>1. d \in WEST_FIRST(current_id, dst_id)
      BY <2>1, <2>3 DEF Offered, Candidates
    <3> QED BY <1>2, <1>3, <2>1, <2>3, <3>1, MeshFacts DEF TurnsBehind, XY, WEST_FIRST
  <2>4. CASE routing_algorithm = "NORTH_LAST"
    <3>1. d \in NORTH_LAST(current_id, dst_id)
      BY <2>1, <2>4 DEF Offered, Candidates
    <3> QED BY <1>2, <1>3, <2>1, <2>4, <3>1, MeshFacts DEF TurnsBehind, XY, NORTH_LAST
  <2>5. CASE routing_algorithm = "NEGATIVE_FIRST"
    <3>1. d \in NEGATIVE_FIRST(current_id, dst_id)
      BY <2>1, <2>5 DEF Offered, Candidates
    <3> QED BY <1>2, <1>3, <2>1, <2>5, <3>1, MeshFacts DEF TurnsBehind, NEGATIVE_FIRST
  <2>6. CASE routing_algorithm \in {"ODD_EVEN", "DYAD"}
    <3>1. d \in ODD_EVEN(current_id, src_id, dst_id)
      BY <2>1, <2>6 DEF Offered, Candidates, DYAD
    <3> DEFINE x == X(current_id)
               y == Y(current_id)
               xt == X(dst_id)
               yt == Y(dst_id)
               xs == X(src_id)
    <3>2. /\ d = "EAST" => xt > x /\ (y = yt \/ xt % 2 = 1 \/ xt - x # 1)
          /\ d \in Vertical => xt >= x \/ x % 2 = 0
      BY <2>1, <3>1, MeshFacts, <1>2 DEF ODD_EVEN
    <3>3. CASE d = "EAST"
      BY <1>2, <1>3, <2>1, <2>6, <3>2, <3>3, MeshFacts DEF TurnsBehind
    <3>4. CASE d = "WEST"
      BY <1>2, <1>3, <2>1, <2>6, <3>4, MeshFacts DEF TurnsBehind
    <3>5. CASE d \in Vertical
      BY <1>2, <1>3, <2>1, <2>6, <3>2, <3>5, MeshFacts DEF TurnsBehind
    <3> QED BY <3>3, <3>4, <3>5
  <2> QED BY <1>2, <2>2, <2>3, <2>4, <2>5, <2>6 DEF OnMesh, MeshAlgorithms
<1> QED BY <1>4, <1>5, <1>6, <1>7 DEF Next, vars

(* No packet makes a turn that the name of its algorithm excludes: on a    *)
(* mesh of any size, with or without hubs.                                 *)
THEOREM ExcludedTurnsAreNotMade == Spec => TurnsRespected
<1>1. Init => Turned
  <2> SUFFICES ASSUME Init, OnMesh PROVE TurnsBehind
    BY DEF Turned
  <2>1. Bearings
    BY BearingsInit
  <2>2. current_id = src_id /\ dir_out = "LOCAL"
    BY DEF Init
  <2> QED BY <2>1, <2>2, MeshFacts DEF TurnsBehind, Vertical
<1>2. Bearings /\ Turned /\ [Next]_vars => Turned'
  BY TurnedNext
<1>3. Bearings /\ Turned /\ [Next]_vars => [Turn \notin ExcludedTurns]_vars
  <2> SUFFICES ASSUME Bearings, Turned, Next, Turn \in ExcludedTurns PROVE FALSE
    OBVIOUS
  <2>1. routing_algorithm \in MeshAlgorithms
    BY DEF ExcludedTurns, MeshAlgorithms
  <2>2. OnMesh
    BY <2>1 DEF Bearings, Configured, Combinations, MeshAlgorithms, OnMesh
  <2>3. TurnsBehind
    BY <2>2 DEF Turned
  <2>4. /\ dir_out' # dir_out /\ dir_out' # "HUB" /\ dir_out' # "LOCAL"
    BY <2>1 DEF ExcludedTurns, Turn, Vertical, MeshAlgorithms
  <2>5. PICK d \in Directions : Hop(d)
    BY <2>4 DEF Next, ToHub, ToRelay, Radio
  <2>6. /\ Productive(current_id, dst_id, d) /\ current_id # dst_id
        /\ d \in Offered /\ dir_out' = d
    BY <2>2, <2>5, MeshHop
  <2>7. <<dir_out, d>> \in ExcludedTurns
    BY <2>6 DEF Turn
  <2> USE DEF Productive, Vertical
  <2>8. CASE routing_algorithm = "XY"
    BY <2>2, <2>3, <2>6, <2>7, <2>8, MeshFacts DEF ExcludedTurns, TurnsBehind
  <2>9. CASE routing_algorithm = "WEST_FIRST"
    BY <2>2, <2>3, <2>6, <2>7, <2>9, MeshFacts DEF ExcludedTurns, TurnsBehind
  <2>10. CASE routing_algorithm = "NORTH_LAST"
    BY <2>2, <2>3, <2>6, <2>7, <2>10, MeshFacts DEF ExcludedTurns, TurnsBehind
  <2>11. CASE routing_algorithm = "NEGATIVE_FIRST"
    BY <2>2, <2>3, <2>6, <2>7, <2>11, MeshFacts DEF ExcludedTurns, TurnsBehind
  <2>12. CASE routing_algorithm \in {"ODD_EVEN", "DYAD"}
    <3> DEFINE x == X(current_id)
               y == Y(current_id)
               xt == X(dst_id)
               yt == Y(dst_id)
               xs == X(src_id)
    <3>1. d \in ODD_EVEN(current_id, src_id, dst_id)
      BY <2>6, <2>12 DEF Offered, Candidates, DYAD
    <3>2. x # xt \/ y # yt
      BY <2>2, <2>6, MeshFacts, SameTile
    <3>3. CASE x % 2 = 0
      <4>1. dir_out = "EAST" /\ d \in Vertical
        BY <2>7, <2>12, <3>3 DEF ExcludedTurns
      <4>2. x > xs /\ xt > x
        BY <2>2, <2>3, <2>12, <3>2, <3>3, <4>1, MeshFacts DEF TurnsBehind
      <4>3. d \in Vertical => x % 2 = 1 \/ x = xs
        BY <2>2, <3>1, <4>2, MeshFacts DEF ODD_EVEN
      <4> QED BY <2>2, <3>3, <4>1, <4>2, <4>3, MeshFacts
    <3>4. CASE x % 2 # 0
      <4>1. dir_out \in Vertical /\ d = "WEST"
        BY <2>7, <2>12, <3>4 DEF ExcludedTurns
      <4> QED BY <2>2, <2>3, <2>6, <2>12, <3>4, <4>1, MeshFacts DEF TurnsBehind
    <3> QED BY <3>3, <3>4
  <2> QED BY <2>1, <2>8, <2>9, <2>10, <2>11, <2>12 DEF MeshAlgorithms
<1> QED BY <1>1, <1>2, <1>3, BearingsAlways, PTL DEF Spec, TurnsRespected

-----------------------------------------------------------------------------
(***************************************************************************)
(* Looking ahead, as NOP selection does.  Only the algorithms of a mesh    *)
(* offer two directions, one along each axis; the packet is then not yet   *)
(* beside its destination, and what the neighbour answers is productive.   *)
(***************************************************************************)
LEMMA TwoOfThem ==
  ASSUME NEW C, Cardinality(C) > 1, NEW d \in C
  PROVE  \E e \in C : e # d
<1> SUFFICES ASSUME \A e \in C : e = d PROVE FALSE
  OBVIOUS
<1>1. C = {d}
  OBVIOUS
<1>2. Cardinality(C) = 1
  BY <1>1, FS_Singleton
<1> QED BY <1>2

LEMMA OnlyMeshesOfferTwo ==
  ASSUME Bearings, Underway, routing_algorithm # "TABLE_BASED", Cardinality(Offered) > 1
  PROVE  OnMesh
<1> SUFFICES ASSUME ~OnMesh PROVE FALSE
  OBVIOUS
<1>1. routing_algorithm \in {"XY_TORUS", "OCTAGON", "DELTA"}
  BY DEF Bearings, Configured, Combinations, OnMesh
<1>2. \E d \in Offered, e \in Offered : d # e
  <2>1. Offered # {}
    BY FS_EmptySet
  <2> QED BY <2>1, TwoOfThem
<1>3. routing_algorithm # "OCTAGON"
  BY <1>2 DEF Offered, Candidates, OCTAGON
<1>4. routing_algorithm # "DELTA"
  BY <1>2 DEF Offered, Candidates, DELTA
<1>5. routing_algorithm # "XY_TORUS"
  <2> SUFFICES ASSUME routing_algorithm = "XY_TORUS" PROVE FALSE
    OBVIOUS
  <2>1. Offered = XY_TORUS(current_id, dst_id)
    BY DEF Offered, Candidates
  <2>2. OnGrid
    BY DEF Bearings, Configured, Combinations, DeltaTopologies, MeshAlgorithms, Grids, OnGrid
  <2>3. current_id \in GridTiles /\ dst_id \in GridTiles /\ current_id # dst_id
    BY <2>2, GridFacts DEF Bearings, Placed, Underway
  <2> QED BY <1>2, <2>1, <2>3, TorusOffers
<1> QED BY <1>1, <1>3, <1>4, <1>5

(* The neighbour that NOP asks is the one the wires lead to, no hub is     *)
(* part of its answer, and behind every channel it counts is a router: on  *)
(* networks of any size whose hubs all share a channel.                    *)
THEOREM NeighboursAreForeseen == Spec => []LooksAhead
<1>1. Bearings => LooksAhead
  <2> SUFFICES ASSUME Bearings, Underway, TakesWire, Cardinality(Offered) > 1,
                      AllConnected, routing_algorithm # "TABLE_BASED",
                      NEW d \in Offered
               PROVE  LET candidate_id == getNeighborId(topology, current_id, d)
                      IN  /\ candidate_id = Neighbor(topology, current_id, d)
                          /\ ~AtOtherHubs(hubs, current_id, dst_id)
                          /\ \A e \in Candidates(routing_algorithm, candidate_id, src_id, dst_id,
                                                 reflexDirection(d)) :
                               Neighbor(topology, candidate_id, e) # NOT_VALID
    BY DEF LooksAhead
  <2>0. ~AtOtherHubs(hubs, current_id, dst_id)
    <3> SUFFICES ASSUME AtOtherHubs(hubs, current_id, dst_id) PROVE FALSE
      OBVIOUS
    <3>1. /\ tile2Hub(hubs, current_id) \in HubIds(hubs)
          /\ tile2Hub(hubs, dst_id) \in HubIds(hubs)
      BY DEF AtOtherHubs, hasRadioHub, tile2Hub
    <3>2. connectedHubs(hubs, tile2Hub(hubs, dst_id), tile2Hub(hubs, current_id))
      BY <3>1 DEF AllConnected
    <3> QED BY <3>2 DEF TakesWire, TakesHub, Directly
  <2>1. OnMesh
    BY OnlyMeshesOfferTwo
  <2> DEFINE m == MeshNeighbor(current_id, d)
  <2>2. current_id # dst_id
    BY DEF Underway
  <2>3. AllProductive(current_id, dst_id, Offered)
    BY <2>1, <2>2, MeshFacts, MeshOffers DEF Offered, OnMesh
  <2>4. PICK f \in Offered : f # d
    BY TwoOfThem
  <2>5. Productive(current_id, dst_id, d) /\ Productive(current_id, dst_id, f)
    BY <2>3 DEF AllProductive
  <2>6. d \in Directions
    BY <2>5 DEF Productive
  <2>7. /\ m \in GridTiles /\ getNeighborId("MESH", current_id, d) = m
        /\ X(m) = X(current_id) + StepX(d) /\ Y(m) = Y(current_id) + StepY(d)
    BY <2>1, <2>5, <2>6, MeshFacts, MeshStep
  <2> HIDE DEF m
  <2>8. getNeighborId(topology, current_id, d) = m /\ Neighbor(topology, current_id, d) = m
    BY <2>1, <2>7 DEF OnMesh, Neighbor, DeltaTopologies, m
  <2>9. m # dst_id
    <3>1. X(dst_id) # X(m) \/ Y(dst_id) # Y(m)
      BY <2>1, <2>4, <2>5, <2>7, MeshFacts DEF Productive, Directions, StepX, StepY
    <3> QED BY <3>1
  <2>10. ASSUME NEW e \in Candidates(routing_algorithm, m, src_id, dst_id, reflexDirection(d))
         PROVE  Neighbor(topology, m, e) # NOT_VALID
    <3>1. Productive(m, dst_id, e)
      BY <2>1, <2>7, <2>9, MeshFacts, MeshOffers DEF OnMesh, AllProductive
    <3>2. e \in Directions
      BY <3>1 DEF Productive
    <3>3. MeshNeighbor(m, e) # NOT_VALID
      BY <2>1, <2>7, <3>1, <3>2, MeshFacts, MeshStep
    <3>4. Neighbor(topology, m, e) = MeshNeighbor(m, e)
      BY <2>1 DEF OnMesh, Neighbor, DeltaTopologies
    <3> QED BY <3>3, <3>4
  <2> QED BY <2>0, <2>8, <2>10
<1> QED BY <1>1, BearingsAlways, PTL DEF Spec

-----------------------------------------------------------------------------
(***************************************************************************)
(* Distances.  HopsIn counts the hops of a search that spreads from a      *)
(* node; it finds D where D is 0 at that node alone, grows by at most one  *)
(* with a hop, and can always be lessened by one.                          *)
(***************************************************************************)
LEMMA UpFromZero ==
  ASSUME NEW S \in SUBSET Nat, 0 \in S, \A n \in S : n + 1 \in S
  PROVE  S = Nat
<1> DEFINE T == Nat \ S
<1> SUFFICES ASSUME T # {} PROVE FALSE
  OBVIOUS
<1>1. PICK x \in T : \A y \in T : ~(<<y, x>> \in OpToRel(<, Nat))
  <2>1. T \subseteq Nat
    OBVIOUS
  <2> HIDE DEF T
  <2> QED BY <2>1, NatLessThanWellFounded, WFMin, Zenon
<1>2. x - 1 \in Nat /\ x - 1 < x
  OBVIOUS
<1>3. x - 1 \in T
  <2> SUFFICES ASSUME x - 1 \in S PROVE FALSE
    BY <1>2
  <2>1. (x - 1) + 1 \in S
    OBVIOUS
  <2> QED BY <2>1
<1>4. <<x - 1, x>> \in OpToRel(<, Nat)
  BY <1>2 DEF OpToRel
<1> QED BY <1>1, <1>3, <1>4

IsBall(b, succ, n) ==
  b = [k \in Nat |->
         IF k = 0 THEN {n} ELSE LET near == b[k - 1] IN near \cup UNION {succ[m] : m \in near}]

Measures(D, S, succ, n) ==
  /\ S \in SUBSET Nat /\ DOMAIN succ = S /\ n \in S /\ D \in [S -> Nat]
  /\ \A m \in S : D[m] = 0 <=> m = n
  /\ \A m \in S : succ[m] \subseteq S /\ \A l \in succ[m] : D[l] <= D[m] + 1
  /\ \A m \in S : D[m] # 0 => \E l \in S : m \in succ[l] /\ D[l] = D[m] - 1
  /\ \A m \in S : D[m] \in S

LEMMA HopsAreDistances ==
  ASSUME NEW D, NEW S, NEW succ, NEW n, Measures(D, S, succ, n)
  PROVE  \A m \in S : HopsIn(succ, n)[m] = D[m]
<1>a. S \in SUBSET Nat /\ DOMAIN succ = S /\ n \in S /\ D \in [S -> Nat]
  BY DEF Measures
<1>b. \A m \in S : D[m] = 0 <=> m = n
  BY DEF Measures
<1>c. \A m \in S : succ[m] \subseteq S /\ \A l \in succ[m] : D[l] <= D[m] + 1
  BY DEF Measures
<1>d. \A m \in S : D[m] # 0 => \E l \in S : m \in succ[l] /\ D[l] = D[m] - 1
  BY DEF Measures
<1>e. \A m \in S : D[m] \in S
  BY DEF Measures
<1> USE <1>a, <1>b, <1>c, <1>d, <1>e
<1> DEFINE Within(k) == {m \in S : D[m] <= k}
           ball == [k \in Nat |-> Within(k)]
<1>1. \A m \in S : D[m] \in Nat
  OBVIOUS
<1>2. Within(0) = {n}
  <2>1. \A m \in S : D[m] <= 0 <=> m = n
    BY <1>1
  <2> QED BY <2>1
<1>3. ASSUME NEW k \in Nat
      PROVE  Within(k + 1) = Within(k) \cup UNION {succ[m] : m \in Within(k)}
  <2>1. ASSUME NEW m \in Within(k + 1), m \notin Within(k)
        PROVE  m \in UNION {succ[l] : l \in Within(k)}
    <3>1. m \in S /\ D[m] = k + 1 /\ D[m] # 0
      BY <1>1, <2>1
    <3>2. \E l \in S : m \in succ[l] /\ D[l] = D[m] - 1
      <4> HIDE <1>a, <1>b, <1>c, <1>e
      <4> QED BY <1>d, <3>1, Zenon
    <3>3. PICK l \in S : m \in succ[l] /\ D[l] = D[m] - 1
      BY <3>2
    <3>4. l \in Within(k)
      BY <3>1, <3>3
    <3> QED BY <3>3, <3>4
  <2>2. ASSUME NEW m \in Within(k) PROVE m \in Within(k + 1)
    BY <1>1
  <2>3. ASSUME NEW l \in Within(k), NEW m \in succ[l] PROVE m \in Within(k + 1)
    <3>1. l \in S /\ D[l] <= k /\ m \in S /\ D[m] <= D[l] + 1
      OBVIOUS
    <3>2. D[m] \in Nat /\ D[l] \in Nat
      BY <1>1, <3>1
    <3> QED BY <3>1, <3>2
  <2> HIDE DEF Within
  <2> QED BY <2>1, <2>2, <2>3
<1>4. IsBall(ball, succ, n)
  <2>1. ASSUME NEW k \in Nat
        PROVE  ball[k] = IF k = 0 THEN {n}
                         ELSE LET near == ball[k - 1] IN near \cup UNION {succ[m] : m \in near}
    <3>1. CASE k = 0
      BY <1>2, <3>1
    <3>2. CASE k # 0
      <4>1. k - 1 \in Nat /\ (k - 1) + 1 = k
        BY <3>2
      <4>2. ball[k] = Within(k) /\ ball[k - 1] = Within(k - 1)
        BY <4>1
      <4> HIDE DEF ball, Within
      <4>3. Within(k) = Within(k - 1) \cup UNION {succ[m] : m \in Within(k - 1)}
        BY <1>3, <4>1
      <4> QED BY <3>2, <4>2, <4>3
    <3> QED BY <3>1, <3>2
  <2>2. ball = [k \in Nat |-> ball[k]]
    OBVIOUS
  <2> HIDE DEF ball
  <2>3. ball = [k \in Nat |->
                  IF k = 0 THEN {n}
                  ELSE LET near == ball[k - 1] IN near \cup UNION {succ[m] : m \in near}]
    BY <2>1, <2>2
  <2> QED BY <2>3 DEF IsBall
<1>5. ASSUME NEW b, IsBall(b, succ, n) PROVE \A k \in Nat : b[k] = Within(k)
  <2> DEFINE T == {k \in Nat : b[k] = Within(k)}
  <2>1. \A k \in Nat : b[k] = IF k = 0 THEN {n}
                              ELSE LET near == b[k - 1] IN near \cup UNION {succ[m] : m \in near}
    BY <1>5 DEF IsBall
  <2>2. 0 \in T
    BY <1>2, <2>1
  <2>3. ASSUME NEW k \in T PROVE k + 1 \in T
    <3>1. k \in Nat /\ k + 1 \in Nat /\ k + 1 # 0 /\ (k + 1) - 1 = k /\ b[k] = Within(k)
      OBVIOUS
    <3> HIDE DEF Within
    <3>2. b[k + 1] = b[k] \cup UNION {succ[m] : m \in b[k]}
      BY <2>1, <3>1
    <3> QED BY <1>3, <3>1, <3>2
  <2>4. T = Nat
    <3> HIDE DEF T
    <3>1. T \in SUBSET Nat
      BY DEF T
    <3> QED BY <2>2, <2>3, <3>1, UpFromZero
  <2> QED BY <2>4
<1> DEFINE Ball == CHOOSE b : IsBall(b, succ, n)
<1>6. HopsIn(succ, n) = [m \in S |-> Min({k \in S : m \in Ball[k]})]
  BY DEF HopsIn, IsBall
<1>7. IsBall(Ball, succ, n)
  BY <1>4
<1>8. \A k \in Nat : Ball[k] = Within(k)
  <2> HIDE DEF Ball, Within
  <2> QED BY <1>5, <1>7
<1> HIDE DEF Ball
<1> SUFFICES ASSUME NEW m \in S PROVE Min({k \in S : m \in Ball[k]}) = D[m]
  BY <1>6
<1> DEFINE K == {k \in S : m \in Ball[k]}
<1>9. D[m] \in K /\ \A k \in K : D[m] <= k /\ k \in Nat
  BY <1>1, <1>8
<1> HIDE DEF K
<1>10. Min(K) = CHOOSE x \in K : \A y \in K : x <= y
  BY DEF Min
<1>11. \A x \in K : (\A y \in K : x <= y) => x = D[m]
  BY <1>1, <1>9
<1>12. Min(K) = D[m]
  BY <1>9, <1>10, <1>11
<1> QED BY <1>12 DEF K

(***************************************************************************)
(* On a line and on a ring of dim tiles, from a to b.                      *)
(***************************************************************************)
Abs(i) == IF i < 0 THEN -i ELSE i
Line(a, b) == Abs(a - b)
Ring(a, b, dim) == IF 2 * Abs(a - b) <= dim THEN Abs(a - b) ELSE dim - Abs(a - b)

LEMMA LineFacts ==
  ASSUME NEW dim \in Nat \ {0, 1}, NEW a \in 0 .. dim - 1, NEW b \in 0 .. dim - 1
  PROVE  /\ Line(a, b) \in 0 .. dim - 1
         /\ Line(a, b) = 0 <=> a = b
         /\ Line(a, b) = Line(b, a)
         /\ \A i \in {-1, 0, 1} : Line(a + i, b) <= Line(a, b) + 1
         /\ b > a => Line(a + 1, b) = Line(a, b) - 1
         /\ b < a => Line(a + (-1), b) = Line(a, b) - 1
BY DEF Line, Abs

LEMMA Around ==
  ASSUME NEW dim \in Nat \ {0, 1}, NEW a \in 0 .. dim - 1
  PROVE  /\ (a + 1) % dim = IF a = dim - 1 THEN 0 ELSE a + 1
         /\ (a - 1) % dim = IF a = 0 THEN dim - 1 ELSE a - 1
         /\ (a + (-1)) % dim = IF a = 0 THEN dim - 1 ELSE a - 1
         /\ a % dim = a /\ (a + 0) % dim = a
<1>1. \A c \in 0 .. dim - 1 : c % dim = c
  OBVIOUS
<1>2. dim % dim = 0
  OBVIOUS
<1>3. (-1) % dim = dim - 1
  OBVIOUS
<1>4. CASE a = dim - 1
  BY <1>1, <1>2, <1>4
<1>5. CASE a = 0
  BY <1>1, <1>3, <1>5
<1>6. CASE a # 0 /\ a # dim - 1
  BY <1>1, <1>6
<1> QED BY <1>4, <1>5, <1>6

LEMMA RingFacts ==
  ASSUME NEW dim \in Nat \ {0, 1}, NEW a \in 0 .. dim - 1, NEW b \in 0 .. dim - 1
  PROVE  /\ Ring(a, b, dim) \in 0 .. dim - 1
         /\ Ring(a, b, dim) = 0 <=> a = b
         /\ Ring(a, b, dim) = Ring(b, a, dim)
         /\ \A i \in {-1, 0, 1} : Ring((a + i) % dim, b, dim) <= Ring(a, b, dim) + 1
<1> DEFINE e == (a + 1) % dim
           f == (a + (-1)) % dim
           g == (a + 0) % dim
<1>1. /\ e = IF a = dim - 1 THEN 0 ELSE a + 1
      /\ f = IF a = 0 THEN dim - 1 ELSE a - 1
      /\ g = a
  BY Around
<1>2. \A i \in {-1, 0, 1} : (a + i) % dim \in {e, f, g}
  BY Zenon
<1> HIDE DEF e, f, g
<1>3. /\ Ring(a, b, dim) \in 0 .. dim - 1
      /\ Ring(a, b, dim) = 0 <=> a = b
      /\ Ring(a, b, dim) = Ring(b, a, dim)
  BY DEF Ring, Abs
<1>4. /\ Ring(e, b, dim) <= Ring(a, b, dim) + 1
      /\ Ring(f, b, dim) <= Ring(a, b, dim) + 1
      /\ Ring(g, b, dim) <= Ring(a, b, dim) + 1
  BY <1>1 DEF Ring, Abs
<1>5. \A i \in {-1, 0, 1} : Ring((a + i) % dim, b, dim) <= Ring(a, b, dim) + 1
  BY <1>2, <1>4
<1> QED BY <1>3, <1>5

LEMMA RingNearer ==
  ASSUME NEW dim \in Nat \ {0, 1}, NEW a \in 0 .. dim - 1, NEW b \in 0 .. dim - 1
  PROVE  /\ Wrapped(b - a, dim) > 0 => Ring((a + 1) % dim, b, dim) = Ring(a, b, dim) - 1
         /\ Wrapped(b - a, dim) < 0 => Ring((a + (-1)) % dim, b, dim) = Ring(a, b, dim) - 1
         /\ Wrapped(b - a, dim) \in Int /\ (Wrapped(b - a, dim) = 0 <=> a = b)
<1> DEFINE e == (a + 1) % dim
           f == (a + (-1)) % dim
<1>1. /\ e = IF a = dim - 1 THEN 0 ELSE a + 1
      /\ f = IF a = 0 THEN dim - 1 ELSE a - 1
  BY Around, Zenon
<1> HIDE DEF e, f
<1>2. /\ Wrapped(b - a, dim) > 0 => Ring(e, b, dim) = Ring(a, b, dim) - 1
      /\ Wrapped(b - a, dim) < 0 => Ring(f, b, dim) = Ring(a, b, dim) - 1
      /\ Wrapped(b - a, dim) \in Int /\ (Wrapped(b - a, dim) = 0 <=> a = b)
  BY <1>1 DEF Ring, Abs, Wrapped
<1> QED BY <1>2 DEF e, f

(* Either of them: a line for a mesh, a ring for a torus.                  *)
Gap(w, a, b, dim) == IF w = "MESH" THEN Line(a, b) ELSE Ring(a, b, dim)
Along(w, a, i, dim) == IF w = "MESH" THEN a + i ELSE (a + i) % dim
Ahead(w, a, b, dim) == IF w = "MESH" THEN b - a ELSE Wrapped(b - a, dim)

LEMMA GapFacts ==
  ASSUME NEW w, NEW dim \in Nat \ {0, 1}, NEW a \in 0 .. dim - 1, NEW b \in 0 .. dim - 1
  PROVE  /\ Gap(w, a, b, dim) \in 0 .. dim - 1
         /\ Gap(w, a, b, dim) = 0 <=> a = b
         /\ Gap(w, a, b, dim) = Gap(w, b, a, dim)
         /\ \A i \in {-1, 0, 1} : Gap(w, Along(w, a, i, dim), b, dim) <= Gap(w, a, b, dim) + 1
         /\ Ahead(w, a, b, dim) > 0 => Gap(w, Along(w, a, 1, dim), b, dim) = Gap(w, a, b, dim) - 1
         /\ Ahead(w, a, b, dim) < 0 => Gap(w, Along(w, a, -1, dim), b, dim) = Gap(w, a, b, dim) - 1
         /\ Ahead(w, a, b, dim) \in Int /\ (Ahead(w, a, b, dim) = 0 <=> a = b)
<1>1. CASE w = "MESH"
  <2>1. Gap(w, a, b, dim) = Line(a, b) /\ Gap(w, b, a, dim) = Line(b, a)
    BY <1>1 DEF Gap
  <2>2. Ahead(w, a, b, dim) = b - a
    BY <1>1 DEF Ahead
  <2>3. \A i \in {-1, 0, 1} : Gap(w, Along(w, a, i, dim), b, dim) = Line(a + i, b)
    BY <1>1 DEF Gap, Along
  <2>4. /\ Gap(w, Along(w, a, 1, dim), b, dim) = Line(a + 1, b)
        /\ Gap(w, Along(w, a, -1, dim), b, dim) = Line(a + (-1), b)
    BY <1>1 DEF Gap, Along
  <2>5. /\ Line(a, b) \in 0 .. dim - 1 /\ (Line(a, b) = 0 <=> a = b)
        /\ Line(a, b) = Line(b, a)
    BY DEF Line, Abs
  <2>6. \A i \in {-1, 0, 1} : Line(a + i, b) <= Line(a, b) + 1
    BY DEF Line, Abs
  <2>7. /\ b - a > 0 => Line(a + 1, b) = Line(a, b) - 1
        /\ b - a < 0 => Line(a + (-1), b) = Line(a, b) - 1
        /\ b - a \in Int /\ (b - a = 0 <=> a = b)
    BY DEF Line, Abs
  <2> QED BY <2>1, <2>2, <2>3, <2>4, <2>5, <2>6, <2>7
<1>2. CASE w # "MESH"
  <2>1. Gap(w, a, b, dim) = Ring(a, b, dim) /\ Gap(w, b, a, dim) = Ring(b, a, dim)
    BY <1>2 DEF Gap
  <2>2. Ahead(w, a, b, dim) = Wrapped(b - a, dim)
    BY <1>2 DEF Ahead
  <2>3. \A i \in {-1, 0, 1} : Gap(w, Along(w, a, i, dim), b, dim) = Ring((a + i) % dim, b, dim)
    BY <1>2 DEF Gap, Along
  <2>4. /\ Gap(w, Along(w, a, 1, dim), b, dim) = Ring((a + 1) % dim, b, dim)
        /\ Gap(w, Along(w, a, -1, dim), b, dim) = Ring((a + (-1)) % dim, b, dim)
    BY <1>2 DEF Gap, Along
  <2>5. /\ Ring(a, b, dim) \in 0 .. dim - 1 /\ (Ring(a, b, dim) = 0 <=> a = b)
        /\ Ring(a, b, dim) = Ring(b, a, dim)
    BY RingFacts
  <2>6. \A i \in {-1, 0, 1} : Ring((a + i) % dim, b, dim) <= Ring(a, b, dim) + 1
    BY RingFacts
  <2>7. /\ Wrapped(b - a, dim) > 0 => Ring((a + 1) % dim, b, dim) = Ring(a, b, dim) - 1
        /\ Wrapped(b - a, dim) < 0 => Ring((a + (-1)) % dim, b, dim) = Ring(a, b, dim) - 1
        /\ Wrapped(b - a, dim) \in Int /\ (Wrapped(b - a, dim) = 0 <=> a = b)
    BY RingNearer, Zenon
  <2> QED BY <2>1, <2>2, <2>3, <2>4, <2>5, <2>6, <2>7
<1> QED BY <1>1, <1>2

LEMMA AlongFacts ==
  ASSUME NEW w, NEW dim \in Nat \ {0, 1}, NEW a \in 0 .. dim - 1
  PROVE  /\ Along(w, a, 0, dim) = a
         /\ Along(w, Along(w, a, 1, dim), -1, dim) = a
         /\ Along(w, Along(w, a, -1, dim), 1, dim) = a
<1>1. CASE w = "MESH"
  BY <1>1 DEF Along
<1>2. CASE w # "MESH"
  <2> DEFINE b == (a + 1) % dim
             c == (a + (-1)) % dim
  <2>1. /\ b = IF a = dim - 1 THEN 0 ELSE a + 1
        /\ c = IF a = 0 THEN dim - 1 ELSE a - 1
        /\ (a + 0) % dim = a
    BY Around, Zenon
  <2>2. b \in 0 .. dim - 1 /\ c \in 0 .. dim - 1
    BY <2>1
  <2> HIDE DEF b, c
  <2>3. /\ (b + (-1)) % dim = IF b = 0 THEN dim - 1 ELSE b - 1
        /\ (c + 1) % dim = IF c = dim - 1 THEN 0 ELSE c + 1
    BY <2>2, Around, Zenon
  <2>4. (b + (-1)) % dim = a /\ (c + 1) % dim = a
    BY <2>1, <2>3
  <2> QED BY <1>2, <2>1, <2>4 DEF Along, b, c
<1> QED BY <1>1, <1>2

(***************************************************************************)
(* On a grid.                                                              *)
(***************************************************************************)
GridDistance(w, n, m) == Gap(w, X(n), X(m), mesh_dim_x) + Gap(w, Y(n), Y(m), mesh_dim_y)

LEMMA InRange ==
  ASSUME NEW n \in GridTiles
  PROVE  X(n) \in 0 .. mesh_dim_x - 1 /\ Y(n) \in 0 .. mesh_dim_y - 1
BY Coordinates DEF Columns, Rows

LEMMA GridDistances ==
  ASSUME NEW w, NEW n \in GridTiles, NEW m \in GridTiles
  PROVE  /\ GridDistance(w, n, m) \in GridTiles
         /\ GridDistance(w, n, m) \in Nat
         /\ GridDistance(w, n, m) < mesh_dim_x + mesh_dim_y
         /\ GridDistance(w, n, m) = 0 <=> n = m
         /\ GridDistance(w, n, m) = GridDistance(w, m, n)
<1> DEFINE i == Gap(w, X(n), X(m), mesh_dim_x)
           j == Gap(w, Y(n), Y(m), mesh_dim_y)
<1>1. /\ i \in 0 .. mesh_dim_x - 1 /\ (i = 0 <=> X(n) = X(m))
      /\ i = Gap(w, X(m), X(n), mesh_dim_x)
  BY InRange, Dimensions, GapFacts
<1>2. /\ j \in 0 .. mesh_dim_y - 1 /\ (j = 0 <=> Y(n) = Y(m))
      /\ j = Gap(w, Y(m), Y(n), mesh_dim_y)
  BY InRange, Dimensions, GapFacts
<1>3. GridDistance(w, n, m) = i + j /\ GridDistance(w, m, n) = i + j
  BY <1>1, <1>2 DEF GridDistance
<1> HIDE DEF i, j
<1>4. i + j <= mesh_dim_x * mesh_dim_y - 1
  <2>1. PICK a \in Nat, b \in Nat : mesh_dim_x = a + 1 /\ mesh_dim_y = b + 1
    <3>1. mesh_dim_x - 1 \in Nat /\ mesh_dim_y - 1 \in Nat
      BY Dimensions
    <3> QED BY <3>1, Dimensions
  <2>2. mesh_dim_x * mesh_dim_y = a * b + a + b + 1 /\ a * b \in Nat
    BY <2>1
  <2> QED BY <1>1, <1>2, <2>1, <2>2
<1>5. n = m <=> X(n) = X(m) /\ Y(n) = Y(m)
  BY SameTile
<1> QED BY <1>1, <1>2, <1>3, <1>4, <1>5, Dimensions DEF GridTiles

(* Where the wires of a grid lead.                                         *)
LEMMA GridStep ==
  ASSUME NEW w \in Grids, NEW n \in GridTiles, NEW d \in Directions,
         Neighbor(w, n, d) # NOT_VALID
  PROVE  LET l == Neighbor(w, n, d)
         IN  /\ l \in GridTiles
             /\ X(l) = Along(w, X(n), StepX(d), mesh_dim_x)
             /\ Y(l) = Along(w, Y(n), StepY(d), mesh_dim_y)
<1>1. CASE w = "MESH"
  <2>1. Neighbor(w, n, d) = MeshNeighbor(n, d)
    BY <1>1 DEF Neighbor, DeltaTopologies
  <2>2. X(n) \in 0 .. mesh_dim_x - 1 /\ Y(n) \in 0 .. mesh_dim_y - 1
    BY InRange
  <2>3. /\ d = "NORTH" => Y(n) # 0
        /\ d = "SOUTH" => Y(n) # mesh_dim_y - 1
        /\ d = "EAST"  => X(n) # mesh_dim_x - 1
        /\ d = "WEST"  => X(n) # 0
    BY <2>1 DEF MeshNeighbor
  <2>4. X(n) + StepX(d) \in Columns /\ Y(n) + StepY(d) \in Rows
    BY <2>2, <2>3, Dimensions DEF Columns, Rows, StepX, StepY, Directions
  <2>5. MeshNeighbor(n, d) = Id(X(n) + StepX(d), Y(n) + StepY(d))
    BY <2>2, <2>3, Dimensions DEF MeshNeighbor, Directions, StepX, StepY
  <2> QED BY <1>1, <2>1, <2>4, <2>5, IdOf DEF Along
<1>2. CASE w # "MESH"
  <2>1. Neighbor(w, n, d) = TorusNeighbor(n, d)
    BY <1>2 DEF Neighbor, FoldedTorusNeighbor, DeltaTopologies, Grids
  <2> QED BY <1>2, <2>1, TorusStep DEF Along
<1> QED BY <1>1, <1>2

LEMMA GridHop ==
  ASSUME NEW w \in Grids, NEW n \in GridTiles, NEW t \in GridTiles, NEW d \in Directions,
         Neighbor(w, n, d) # NOT_VALID
  PROVE  GridDistance(w, Neighbor(w, n, d), t) <= GridDistance(w, n, t) + 1
<1> DEFINE l == Neighbor(w, n, d)
           i == StepX(d)
           j == StepY(d)
<1>1. /\ l \in GridTiles
      /\ X(l) = Along(w, X(n), i, mesh_dim_x) /\ Y(l) = Along(w, Y(n), j, mesh_dim_y)
  BY GridStep
<1>2. i \in {-1, 0, 1} /\ j \in {-1, 0, 1} /\ (i = 0 \/ j = 0)
  BY DEF StepX, StepY
<1> HIDE DEF l, i, j
<1> DEFINE a == Gap(w, X(n), X(t), mesh_dim_x)
           b == Gap(w, Y(n), Y(t), mesh_dim_y)
           e == Gap(w, X(l), X(t), mesh_dim_x)
           f == Gap(w, Y(l), Y(t), mesh_dim_y)
<1>3. a \in Nat /\ e \in Nat /\ e <= a + 1 /\ (i = 0 => e = a)
  BY <1>1, <1>2, InRange, Dimensions, GapFacts, AlongFacts
<1>4. b \in Nat /\ f \in Nat /\ f <= b + 1 /\ (j = 0 => f = b)
  BY <1>1, <1>2, InRange, Dimensions, GapFacts, AlongFacts
<1>5. GridDistance(w, n, t) = a + b /\ GridDistance(w, l, t) = e + f
  BY DEF GridDistance
<1> HIDE DEF a, b, e, f
<1> QED BY <1>2, <1>3, <1>4, <1>5 DEF l

(* The way back is the way there.                                          *)
LEMMA WayBack ==
  ASSUME NEW w \in Grids, NEW n \in GridTiles, NEW d \in Directions,
         Neighbor(w, n, d) # NOT_VALID
  PROVE  /\ reflexDirection(d) \in Directions
         /\ Neighbor(w, Neighbor(w, n, d), reflexDirection(d)) = n
<1> DEFINE l == Neighbor(w, n, d)
           r == reflexDirection(d)
<1>1. /\ l \in GridTiles
      /\ X(l) = Along(w, X(n), StepX(d), mesh_dim_x)
      /\ Y(l) = Along(w, Y(n), StepY(d), mesh_dim_y)
  BY GridStep
<1> HIDE DEF l
<1>2. r \in Directions /\ StepX(r) = -StepX(d) /\ StepY(r) = -StepY(d)
  BY DEF reflexDirection, Directions, StepX, StepY
<1> HIDE DEF r
<1>3. Neighbor(w, l, r) # NOT_VALID
  <2>1. CASE w = "MESH"
    <3>1. Neighbor(w, l, r) = MeshNeighbor(l, r)
      BY <2>1 DEF Neighbor, DeltaTopologies
    <3>2. X(l) = X(n) + StepX(d) /\ Y(l) = Y(n) + StepY(d)
      BY <1>1, <2>1 DEF Along
    <3>3. Productive(l, n, r)
      BY <1>1, <1>2, <3>2, InRange DEF Productive, StepX, StepY, Directions
    <3> QED BY <1>1, <1>2, <3>1, <3>3, MeshStep
  <2>2. CASE w # "MESH"
    <3>1. Neighbor(w, l, r) = TorusNeighbor(l, r)
      BY <2>2 DEF Neighbor, FoldedTorusNeighbor, DeltaTopologies, Grids
    <3> QED BY <1>1, <1>2, <3>1, TorusStep
  <2> QED BY <2>1, <2>2
<1> DEFINE k == Neighbor(w, l, r)
<1>4. /\ k \in GridTiles
      /\ X(k) = Along(w, X(l), StepX(r), mesh_dim_x)
      /\ Y(k) = Along(w, Y(l), StepY(r), mesh_dim_y)
  BY <1>1, <1>2, <1>3, GridStep
<1> HIDE DEF k
<1>5. ASSUME NEW i \in {-1, 0, 1} PROVE -i \in {-1, 0, 1} /\ (i = 1 => -i = -1)
                                         /\ (i = -1 => -i = 1) /\ (i = 0 => -i = 0)
  OBVIOUS
<1>6. StepX(d) \in {-1, 0, 1} /\ StepY(d) \in {-1, 0, 1}
  BY DEF StepX, StepY
<1>7. X(k) = X(n)
  BY <1>1, <1>2, <1>4, <1>5, <1>6, InRange, Dimensions, AlongFacts
<1>8. Y(k) = Y(n)
  BY <1>1, <1>2, <1>4, <1>5, <1>6, InRange, Dimensions, AlongFacts
<1> QED BY <1>2, <1>4, <1>7, <1>8, SameTile DEF k, l, r

(* Some hop from n brings a packet for t nearer.                           *)
LEMMA Nearer ==
  ASSUME NEW w \in Grids, NEW n \in GridTiles, NEW t \in GridTiles, NEW d \in Directions,
         Neighbor(w, n, d) # NOT_VALID,
         /\ d = "EAST"  => Ahead(w, X(n), X(t), mesh_dim_x) > 0
         /\ d = "WEST"  => Ahead(w, X(n), X(t), mesh_dim_x) < 0
         /\ d = "SOUTH" => Ahead(w, Y(n), Y(t), mesh_dim_y) > 0
         /\ d = "NORTH" => Ahead(w, Y(n), Y(t), mesh_dim_y) < 0
  PROVE  GridDistance(w, Neighbor(w, n, d), t) = GridDistance(w, n, t) - 1
<1> DEFINE l == Neighbor(w, n, d)
<1>1. /\ l \in GridTiles
      /\ X(l) = Along(w, X(n), StepX(d), mesh_dim_x)
      /\ Y(l) = Along(w, Y(n), StepY(d), mesh_dim_y)
  BY GridStep
<1> HIDE DEF l
<1> DEFINE a == Gap(w, X(n), X(t), mesh_dim_x)
           b == Gap(w, Y(n), Y(t), mesh_dim_y)
           e == Gap(w, X(l), X(t), mesh_dim_x)
           f == Gap(w, Y(l), Y(t), mesh_dim_y)
<1>2. a \in Nat /\ b \in Nat
  BY InRange, Dimensions, GapFacts
<1>3. GridDistance(w, n, t) = a + b /\ GridDistance(w, l, t) = e + f
  BY DEF GridDistance
<1>4. CASE d \in {"EAST", "WEST"}
  <2>1. Y(l) = Y(n)
    BY <1>1, <1>4, InRange, Dimensions, AlongFacts DEF StepY
  <2>2. e = a - 1
    <3>1. CASE d = "EAST"
      <4>1. X(l) = Along(w, X(n), 1, mesh_dim_x)
        BY <1>1, <3>1 DEF StepX
      <4> QED BY <3>1, <4>1, InRange, Dimensions, GapFacts
    <3>2. CASE d = "WEST"
      <4>1. X(l) = Along(w, X(n), -1, mesh_dim_x)
        BY <1>1, <3>2 DEF StepX
      <4> QED BY <3>2, <4>1, InRange, Dimensions, GapFacts
    <3> QED BY <1>4, <3>1, <3>2
  <2>3. f = b
    BY <2>1
  <2> HIDE DEF a, b, e, f
  <2> QED BY <1>2, <1>3, <2>2, <2>3 DEF l
<1>5. CASE d \in {"NORTH", "SOUTH"}
  <2>1. X(l) = X(n)
    BY <1>1, <1>5, InRange, Dimensions, AlongFacts DEF StepX
  <2>2. f = b - 1
    <3>1. CASE d = "SOUTH"
      <4>1. Y(l) = Along(w, Y(n), 1, mesh_dim_y)
        BY <1>1, <3>1 DEF StepY
      <4> QED BY <3>1, <4>1, InRange, Dimensions, GapFacts
    <3>2. CASE d = "NORTH"
      <4>1. Y(l) = Along(w, Y(n), -1, mesh_dim_y)
        BY <1>1, <3>2 DEF StepY
      <4> QED BY <3>2, <4>1, InRange, Dimensions, GapFacts
    <3> QED BY <1>5, <3>1, <3>2
  <2>3. e = a
    BY <2>1
  <2> HIDE DEF a, b, e, f
  <2> QED BY <1>2, <1>3, <2>2, <2>3 DEF l
<1> QED BY <1>4, <1>5 DEF Directions

(* There is always such a hop, and a wire to make it by.                   *)
LEMMA NearerExists ==
  ASSUME NEW w \in Grids, NEW n \in GridTiles, NEW t \in GridTiles, n # t
  PROVE  \E d \in Directions :
           /\ Neighbor(w, n, d) # NOT_VALID
           /\ GridDistance(w, Neighbor(w, n, d), t) = GridDistance(w, n, t) - 1
<1>1. /\ Ahead(w, X(n), X(t), mesh_dim_x) \in Int
      /\ Ahead(w, X(n), X(t), mesh_dim_x) = 0 <=> X(n) = X(t)
  BY InRange, Dimensions, GapFacts
<1>2. /\ Ahead(w, Y(n), Y(t), mesh_dim_y) \in Int
      /\ Ahead(w, Y(n), Y(t), mesh_dim_y) = 0 <=> Y(n) = Y(t)
  BY InRange, Dimensions, GapFacts
<1>3. X(n) # X(t) \/ Y(n) # Y(t)
  BY SameTile
<1>4. PICK d \in Directions :
        /\ d = "EAST"  => Ahead(w, X(n), X(t), mesh_dim_x) > 0
        /\ d = "WEST"  => Ahead(w, X(n), X(t), mesh_dim_x) < 0
        /\ d = "SOUTH" => Ahead(w, Y(n), Y(t), mesh_dim_y) > 0
        /\ d = "NORTH" => Ahead(w, Y(n), Y(t), mesh_dim_y) < 0
  <2>1. CASE Ahead(w, X(n), X(t), mesh_dim_x) > 0
    BY <2>1 DEF Directions
  <2>2. CASE Ahead(w, X(n), X(t), mesh_dim_x) < 0
    BY <2>2 DEF Directions
  <2>3. CASE Ahead(w, Y(n), Y(t), mesh_dim_y) > 0
    BY <2>3 DEF Directions
  <2>4. CASE Ahead(w, Y(n), Y(t), mesh_dim_y) < 0
    BY <2>4 DEF Directions
  <2> QED BY <1>1, <1>2, <1>3, <2>1, <2>2, <2>3, <2>4
<1>5. Neighbor(w, n, d) # NOT_VALID
  <2>1. CASE w = "MESH"
    <3>1. Neighbor(w, n, d) = MeshNeighbor(n, d)
      BY <2>1 DEF Neighbor, DeltaTopologies
    <3>2. Productive(n, t, d)
      BY <1>4, <2>1, InRange DEF Ahead, Productive
    <3> QED BY <3>1, <3>2, MeshStep
  <2>2. CASE w # "MESH"
    <3>1. Neighbor(w, n, d) = TorusNeighbor(n, d)
      BY <2>2 DEF Neighbor, FoldedTorusNeighbor, DeltaTopologies, Grids
    <3> QED BY <3>1, TorusStep
  <2> QED BY <2>1, <2>2
<1> QED BY <1>4, <1>5, Nearer

(* The distance along the wires is that of the coordinates.                *)
LEMMA Distances ==
  ASSUME NEW w \in Grids, \E net \in Networks : net[1] = w,
         NEW n \in GridTiles, NEW t \in GridTiles
  PROVE  Distance(w, n, t) = GridDistance(w, n, t)
<1> DEFINE succ == [m \in GridTiles |-> {Neighbor(w, m, d) : d \in Directions} \ {NOT_VALID}]
           D == [m \in GridTiles |-> GridDistance(w, n, m)]
<1>1. Nodes(w) = GridTiles
  BY DEF Nodes, Tiles, Grids, DeltaTopologies, GridTiles
<1>2. Distance(w, n, t) = HopsIn(succ, n)[t]
  BY <1>1 DEF Distance, DistanceTable
<1>3. D \in [GridTiles -> Nat] /\ \A m \in GridTiles : D[m] = 0 <=> m = n
  BY GridDistances
<1>4. \A m \in GridTiles : succ[m] \subseteq GridTiles /\ \A l \in succ[m] : D[l] <= D[m] + 1
  <2> SUFFICES ASSUME NEW m \in GridTiles, NEW l \in succ[m]
               PROVE  l \in GridTiles /\ D[l] <= D[m] + 1
    OBVIOUS
  <2>1. PICK d \in Directions : l = Neighbor(w, m, d) /\ l # NOT_VALID
    OBVIOUS
  <2>2. l \in GridTiles
    BY <2>1, GridStep
  <2>3. GridDistance(w, l, n) <= GridDistance(w, m, n) + 1
    BY <2>1, GridHop
  <2> QED BY <2>2, <2>3, GridDistances
<1>5. \A m \in GridTiles : D[m] # 0 => \E l \in GridTiles : m \in succ[l] /\ D[l] = D[m] - 1
  <2> SUFFICES ASSUME NEW m \in GridTiles, D[m] # 0
               PROVE  \E l \in GridTiles : m \in succ[l] /\ D[l] = D[m] - 1
    OBVIOUS
  <2>1. m # n
    BY <1>3
  <2>2. PICK d \in Directions :
          /\ Neighbor(w, m, d) # NOT_VALID
          /\ GridDistance(w, Neighbor(w, m, d), n) = GridDistance(w, m, n) - 1
    BY <2>1, NearerExists
  <2> DEFINE l == Neighbor(w, m, d)
  <2>3. l \in GridTiles
    BY <2>2, GridStep
  <2>4. reflexDirection(d) \in Directions /\ Neighbor(w, l, reflexDirection(d)) = m
    BY <2>2, WayBack
  <2>5. m # NOT_VALID
    BY DEF GridTiles, NOT_VALID
  <2>6. D[l] = D[m] - 1
    BY <2>2, <2>3, GridDistances
  <2> HIDE DEF l
  <2>7. m \in succ[l]
    BY <2>3, <2>4, <2>5
  <2> QED BY <2>3, <2>6, <2>7
<1>6. \A m \in GridTiles : D[m] \in GridTiles
  BY GridDistances
<1>7. GridTiles \in SUBSET Nat /\ DOMAIN succ = GridTiles
  BY DEF GridTiles
<1> HIDE DEF succ, D
<1>8. Measures(D, GridTiles, succ, n)
  BY <1>3, <1>4, <1>5, <1>6, <1>7 DEF Measures
<1>9. HopsIn(succ, n)[t] = D[t]
  BY <1>8, HopsAreDistances
<1> QED BY <1>2, <1>9 DEF D

-----------------------------------------------------------------------------
(***************************************************************************)
(* The way is a shortest one: what is behind a packet and what is before   *)
(* it make up the distance between source and destination, or less where a *)
(* hub cuts it short.                                                      *)
(***************************************************************************)
Measured ==
  LET done == hops + GridDistance(topology, current_id, dst_id)
      all  == GridDistance(topology, src_id, dst_id)
  IN  /\ hops \in Nat
      /\ IF hubs = NoHubs THEN done = all ELSE done <= all

LEMMA OfferedIsNearer ==
  ASSUME Bearings, OnGrid, Underway, NEW d \in Offered
  PROVE  GridDistance(topology, Neighbor(topology, current_id, d), dst_id) =
           GridDistance(topology, current_id, dst_id) - 1
<1>1. /\ current_id \in GridTiles /\ src_id \in GridTiles /\ dst_id \in GridTiles
      /\ current_id # dst_id /\ topology \in Grids
  BY GridFacts DEF Bearings, Placed, Underway, OnGrid
<1>2. d \in Directions /\ Neighbor(topology, current_id, d) # NOT_VALID
  BY GridOffers
<1> DEFINE ax == Ahead(topology, X(current_id), X(dst_id), mesh_dim_x)
           ay == Ahead(topology, Y(current_id), Y(dst_id), mesh_dim_y)
<1>3. /\ d = "EAST"  => ax > 0
      /\ d = "WEST"  => ax < 0
      /\ d = "SOUTH" => ay > 0
      /\ d = "NORTH" => ay < 0
  <2>1. CASE OnMesh
    <3>1. Productive(current_id, dst_id, d)
      BY <1>1, <2>1, MeshOffers DEF Offered, OnMesh, AllProductive
    <3>2. ax = X(dst_id) - X(current_id) /\ ay = Y(dst_id) - Y(current_id)
      BY <2>1 DEF OnMesh, Ahead
    <3> QED BY <1>1, <3>1, <3>2, InRange DEF Productive
  <2>2. CASE topology \in {"TORUS", "FOLDED_TORUS"} /\ routing_algorithm = "XY_TORUS"
    <3>1. d \in XY_TORUS(current_id, dst_id)
      BY <2>2 DEF Offered, Candidates
    <3>2. /\ ax = Wrapped(X(dst_id) - X(current_id), mesh_dim_x)
          /\ ay = Wrapped(Y(dst_id) - Y(current_id), mesh_dim_y)
      BY <2>2 DEF Ahead
    <3>3. /\ ax \in Int /\ (ax = 0 <=> X(current_id) = X(dst_id))
          /\ ay \in Int /\ (ay = 0 <=> Y(current_id) = Y(dst_id))
      BY <1>1, InRange, Dimensions, GapFacts
    <3>4. d \in CASE ax > 0 -> {"EAST"} [] ax < 0 -> {"WEST"}
                  [] ax = 0 /\ ay > 0 -> {"SOUTH"} [] ax = 0 /\ ay < 0 -> {"NORTH"}
                  [] ax = 0 /\ ay = 0 -> {}
      BY <3>1, <3>2 DEF XY_TORUS
    <3>5. ax # 0 \/ ay # 0
      BY <1>1, <3>3, SameTile
    <3> HIDE DEF ax, ay
    <3> QED BY <3>3, <3>4, <3>5
  <2> QED BY <2>1, <2>2, GridFacts DEF Bearings
<1> QED BY <1>1, <1>2, <1>3, Nearer

LEMMA MeasuredInit ==
  ASSUME Init, OnGrid
  PROVE  Measured
<1>1. src_id \in GridTiles /\ dst_id \in GridTiles
  BY BearingsInit, GridFacts DEF Bearings
<1>2. GridDistance(topology, src_id, dst_id) \in Nat
  BY <1>1, GridDistances
<1>3. current_id = src_id /\ hops = 0
  BY DEF Init
<1> QED BY <1>2, <1>3 DEF Measured

LEMMA MeasuredNext ==
  ASSUME MaxHops >= mesh_dim_x + mesh_dim_y, Bearings, OnGrid, Measured, [Next]_vars
  PROVE  Measured'
<1> DEFINE all == GridDistance(topology, src_id, dst_id)
           left == GridDistance(topology, current_id, dst_id)
<1>1. UNCHANGED network
  BY DEF Next, vars, ToHub, ToRelay, Radio, Hop
<1>2. current_id \in GridTiles /\ src_id \in GridTiles /\ dst_id \in GridTiles
  BY GridFacts DEF Bearings, Placed
<1>3. /\ all \in Nat /\ left \in Nat /\ all < mesh_dim_x + mesh_dim_y
      /\ left = 0 <=> current_id = dst_id
  BY <1>2, GridDistances
<1>4. current_id # dst_id => OneMore = hops + 1
  BY <1>3, Dimensions, MaxHopsAssumption DEF Measured, OneMore
<1>5. UNCHANGED all
  BY <1>1 DEF network, GridDistance, X, Y
<1>6. CASE UNCHANGED <<current_id, hops>>
  <2>1. UNCHANGED left
    BY <1>1, <1>6 DEF network, GridDistance, X, Y
  <2> QED BY <1>1, <1>5, <1>6, <2>1 DEF Measured, network
<1>7. CASE Radio
  <2>1. TakesHub
    BY <1>7, GridFacts DEF Radio, Bearings, AtHub
  <2>2. current_id # dst_id /\ hubs # NoHubs
    BY <2>1 DEF TakesHub, Directly, AtOtherHubs, hasRadioHub, sameRadioHub, HubIds, NoHubs
  <2>3. current_id' = dst_id /\ hops' = OneMore
    BY <1>7, GridFacts DEF Radio, RadioTarget, Bearings, AtHub
  <2>4. left' = GridDistance(topology, dst_id, dst_id)
    BY <1>1, <2>3 DEF network, GridDistance, X, Y
  <2>5. left' = 0
    BY <1>2, <2>4, GridDistances
  <2>6. hops' = hops + 1
    BY <1>4, <2>2, <2>3
  <2>7. hops \in Nat /\ hops + left <= all
    BY <2>2 DEF Measured
  <2>8. hops' \in Nat /\ hops' + left' <= all
    BY <1>3, <2>2, <2>5, <2>6, <2>7
  <2> QED BY <1>1, <1>5, <2>2, <2>8 DEF Measured, network
<1>8. ASSUME NEW d \in Directions, Hop(d) PROVE Measured'
  <2>1. /\ Underway /\ d \in Offered /\ hops' = OneMore
        /\ current_id' = Neighbor(topology, current_id, d)
    BY <1>8 DEF Hop
  <2>2. left' = GridDistance(topology, Neighbor(topology, current_id, d), dst_id)
    BY <1>1, <2>1 DEF network, GridDistance, X, Y
  <2>3. left' = left - 1
    BY <2>1, <2>2, OfferedIsNearer
  <2>4. hops' = hops + 1
    BY <1>4, <2>1 DEF Underway
  <2>5. /\ hops \in Nat
        /\ IF hubs = NoHubs THEN hops + left = all ELSE hops + left <= all
    BY DEF Measured
  <2> HIDE DEF left, all
  <2>6. hops' + left' = hops + left /\ hops' \in Nat
    BY <1>3, <2>3, <2>4, <2>5
  <2> QED BY <1>1, <1>5, <2>5, <2>6 DEF Measured, network, left, all
<1> QED BY <1>6, <1>7, <1>8 DEF Next, vars, ToHub, ToRelay

LEMMA MeasuredIsShortest ==
  ASSUME Bearings, OnGrid, \E net \in Networks : net[1] = topology, Measured
  PROVE  Shortest
<1>1. /\ current_id \in GridTiles /\ src_id \in GridTiles /\ dst_id \in GridTiles
      /\ topology \in Grids
  BY GridFacts DEF Bearings, Placed, OnGrid
<1>2. /\ Distance(topology, current_id, dst_id) = GridDistance(topology, current_id, dst_id)
      /\ Distance(topology, src_id, dst_id) = GridDistance(topology, src_id, dst_id)
  BY <1>1, Distances
<1> QED BY <1>2 DEF Measured, Shortest

-----------------------------------------------------------------------------
(***************************************************************************)
(* A function on Nat given by its value at 0 and a step.                   *)
(***************************************************************************)
Stepping(V, step, base) == step \in [V -> V] /\ base \in V
Stepped(f, V, step, base) ==
  f \in [Nat -> V] /\ f[0] = base /\ \A k \in Nat : f[k + 1] = step[f[k]]

LEMMA Iterates ==
  ASSUME NEW V, NEW step, NEW base, Stepping(V, step, base)
  PROVE  \E f : Stepped(f, V, step, base)
<1>0. step \in [V -> V] /\ base \in V
  BY DEF Stepping
<1> DEFINE Closed(R) == /\ <<0, base>> \in R
                        /\ \A k \in Nat, v \in V : <<k, v>> \in R => <<k + 1, step[v]>> \in R
           Pairs == {p \in Nat \X V : \A R \in SUBSET (Nat \X V) : Closed(R) => p \in R}
<1>1. Closed(Nat \X V)
  BY <1>0
<1>2. Closed(Pairs)
  <2>1. <<0, base>> \in Pairs
    BY <1>0
  <2>2. ASSUME NEW k \in Nat, NEW v \in V, <<k, v>> \in Pairs
        PROVE  <<k + 1, step[v]>> \in Pairs
    BY <1>0, <2>2
  <2> HIDE DEF Pairs
  <2> QED BY <2>1, <2>2
<1>3. ASSUME NEW p \in Pairs, Closed(Pairs \ {p}) PROVE FALSE
  BY <1>3
<1>4. ASSUME NEW v, <<0, v>> \in Pairs PROVE v = base
  <2> SUFFICES ASSUME v # base PROVE FALSE
    OBVIOUS
  <2>1. Closed(Pairs \ {<<0, v>>})
    <3>1. \A k \in Nat, u \in V : <<k + 1, step[u]>> # <<0, v>>
      OBVIOUS
    <3>2. <<0, base>> # <<0, v>>
      OBVIOUS
    <3> HIDE DEF Pairs
    <3> QED BY <1>2, <3>1, <3>2
  <2> HIDE DEF Pairs, Closed
  <2> QED BY <1>3, <1>4, <2>1
<1>5. ASSUME NEW k \in Nat, NEW v \in V, \A u : <<k, u>> \in Pairs => u = v,
             NEW y, <<k + 1, y>> \in Pairs
      PROVE  y = step[v]
  <2> SUFFICES ASSUME y # step[v] PROVE FALSE
    OBVIOUS
  <2>1. Closed(Pairs \ {<<k + 1, y>>})
    <3>1. <<0, base>> # <<k + 1, y>>
      OBVIOUS
    <3>2. ASSUME NEW j \in Nat, NEW u \in V, <<j, u>> \in Pairs
          PROVE  <<j + 1, step[u]>> # <<k + 1, y>>
      <4>1. CASE j = k
        <5>1. u = v
          BY <1>5, <3>2, <4>1
        <5> QED BY <5>1
      <4>2. CASE j # k
        BY <4>2
      <4> QED BY <4>1, <4>2
    <3> HIDE DEF Pairs
    <3> QED BY <1>2, <3>1, <3>2
  <2> HIDE DEF Pairs, Closed
  <2> QED BY <1>3, <1>5, <2>1
<1> DEFINE One(k) == \E v \in V : <<k, v>> \in Pairs /\ \A u : <<k, u>> \in Pairs => u = v
           T == {k \in Nat : One(k)}
<1>6. T = Nat
  <2>1. 0 \in T
    <3> HIDE DEF Pairs
    <3> QED BY <1>0, <1>2, <1>4
  <2>2. ASSUME NEW k \in T PROVE k + 1 \in T
    <3> HIDE DEF Pairs
    <3>1. PICK v \in V : <<k, v>> \in Pairs /\ \A u : <<k, u>> \in Pairs => u = v
      OBVIOUS
    <3>2. step[v] \in V /\ <<k + 1, step[v]>> \in Pairs
      BY <1>0, <1>2, <3>1
    <3>3. \A y : <<k + 1, y>> \in Pairs => y = step[v]
      BY <1>5, <3>1
    <3> QED BY <3>2, <3>3
  <2>3. T \in SUBSET Nat
    OBVIOUS
  <2> HIDE DEF T
  <2> QED BY <2>1, <2>2, <2>3, UpFromZero
<1> DEFINE f == [k \in Nat |-> CHOOSE v \in V : <<k, v>> \in Pairs]
<1>7. \A k \in Nat : f[k] \in V /\ <<k, f[k]>> \in Pairs /\ \A u : <<k, u>> \in Pairs => u = f[k]
  <2> SUFFICES ASSUME NEW k \in Nat
               PROVE  f[k] \in V /\ <<k, f[k]>> \in Pairs /\ \A u : <<k, u>> \in Pairs => u = f[k]
    OBVIOUS
  <2>1. One(k)
    <3> HIDE DEF One, Pairs
    <3>1. k \in T
      BY <1>6
    <3> QED BY <3>1
  <2> HIDE DEF Pairs
  <2> QED BY <2>1
<1>8. f[0] = base /\ \A k \in Nat : f[k + 1] = step[f[k]]
  <2> HIDE DEF Pairs, f
  <2>1. f[0] = base
    BY <1>2, <1>7
  <2>2. ASSUME NEW k \in Nat PROVE f[k + 1] = step[f[k]]
    <3>1. <<k + 1, step[f[k]]>> \in Pairs
      BY <1>2, <1>7
    <3>2. \A u : <<k + 1, u>> \in Pairs => u = f[k + 1]
      <4>1. k + 1 \in Nat
        OBVIOUS
      <4> QED BY <1>7, <4>1, Zenon
    <3> QED BY <3>1, <3>2
  <2> QED BY <2>1, <2>2
<1>9. f \in [Nat -> V]
  <2> HIDE DEF Pairs
  <2> QED BY <1>7
<1> HIDE DEF f
<1> QED BY <1>8, <1>9 DEF Stepped

(***************************************************************************)
(* Where a packet may get to: any set that holds its start and every       *)
(* router behind a way offered in it.                                      *)
(***************************************************************************)
From(w, a, s, t, v) ==
  IF v[1] = t THEN {}
  ELSE {<<Neighbor(w, v[1], d), reflexDirection(d)>> : d \in Candidates(a, v[1], s, t, v[2])}

IsWithin(f, w, a, s, t) ==
  f = [k \in Nat |->
         IF k = 0 THEN {<<s, "LOCAL">>}
         ELSE LET near == f[k - 1] IN near \cup UNION {From(w, a, s, t, v) : v \in near}]

KeptBy(G, w, a, s, t) ==
  <<s, "LOCAL">> \in G /\ \A v \in G : From(w, a, s, t, v) \subseteq G

LEMMA VisitedStay ==
  ASSUME NEW G, NEW w, NEW a, NEW s, NEW t, KeptBy(G, w, a, s, t), Max(Nodes(w)) \in Nat
  PROVE  Visited(w, a, s, t) \subseteq G
<1> DEFINE F(v) == From(w, a, s, t, v)
           V == SUBSET G
           step == [near \in V |-> near \cup UNION {F(v) : v \in near}]
           base == {<<s, "LOCAL">>}
<1>1. \A v \in G : F(v) \subseteq G
  BY DEF KeptBy
<1> HIDE DEF F
<1>2. base \in V
  BY DEF KeptBy
<1>3. step \in [V -> V]
  BY <1>1
<1> HIDE DEF V, base
<1>4. PICK f \in [Nat -> V] : f[0] = base /\ \A k \in Nat : f[k + 1] = step[f[k]]
  <2>1. Stepping(V, step, base)
    BY <1>2, <1>3 DEF Stepping
  <2>2. PICK f : Stepped(f, V, step, base)
    BY <2>1, Iterates
  <2> QED BY <2>2 DEF Stepped
<1>5. ASSUME NEW k \in Nat
      PROVE  f[k] = IF k = 0 THEN {<<s, "LOCAL">>}
                    ELSE LET near == f[k - 1] IN near \cup UNION {F(v) : v \in near}
  <2>1. CASE k = 0
    BY <1>4, <2>1 DEF base
  <2>2. CASE k # 0
    <3>1. k - 1 \in Nat /\ (k - 1) + 1 = k
      BY <2>2
    <3>2. f[k] = step[f[k - 1]] /\ f[k - 1] \in V
      BY <1>4, <3>1
    <3> QED BY <2>2, <3>2
  <2> QED BY <2>1, <2>2
<1>6. IsWithin(f, w, a, s, t)
  <2>1. f = [k \in Nat |-> f[k]]
    BY <1>4
  <2>2. f = [k \in Nat |->
               IF k = 0 THEN {<<s, "LOCAL">>}
               ELSE LET near == f[k - 1] IN near \cup UNION {F(v) : v \in near}]
    BY <1>5, <2>1
  <2> QED BY <2>2 DEF IsWithin, F
<1> DEFINE g == CHOOSE h : IsWithin(h, w, a, s, t)
<1>7. IsWithin(g, w, a, s, t)
  BY <1>6
<1> HIDE DEF g, step
<1>8. \A k \in Nat : g[k] = IF k = 0 THEN {<<s, "LOCAL">>}
                            ELSE LET near == g[k - 1] IN near \cup UNION {F(v) : v \in near}
  BY <1>7 DEF IsWithin, F
<1> DEFINE T == {k \in Nat : g[k] \subseteq G}
<1>9. T = Nat
  <2>1. 0 \in T
    BY <1>2, <1>8 DEF V, base
  <2>2. ASSUME NEW k \in T PROVE k + 1 \in T
    <3>1. k + 1 \in Nat /\ k + 1 # 0 /\ (k + 1) - 1 = k /\ g[k] \subseteq G
      OBVIOUS
    <3>2. g[k + 1] = g[k] \cup UNION {F(v) : v \in g[k]}
      BY <1>8, <3>1
    <3> QED BY <1>1, <3>1, <3>2
  <2>3. T \in SUBSET Nat
    OBVIOUS
  <2> HIDE DEF T
  <2> QED BY <2>1, <2>2, <2>3, UpFromZero
<1>10. Visited(w, a, s, t) = g[Max(Nodes(w))]
  BY DEF Visited, g, IsWithin, From
<1> QED BY <1>9, <1>10

(***************************************************************************)
(* Where every wait lowers a number there is no endless chain of waits: of *)
(* the channels that are left, the lowest waits for none of the others, so *)
(* that each round takes one away.                                         *)
(***************************************************************************)
IsLeft(f, C, waits) ==
  f = [k \in Nat |->
         IF k = 0 THEN C
         ELSE LET left == f[k - 1]
              IN  {x[1] : x \in {y \in waits : y[1] \in left /\ y[2] \in left}}]

LowersAll(rank, C, waits) ==
  /\ rank \in [C -> Nat]
  /\ \A x \in waits : x[1] \in C /\ x[2] \in C => rank[x[2]] < rank[x[1]]

LEMMA WaitsEnd ==
  ASSUME NEW w, NEW a, NEW rank, LowersAll(rank, Channels(w), MayWait(w, a)),
         IsFiniteSet(Channels(w))
  PROVE  Endless(w, a) = {}
<1> DEFINE C == Channels(w)
           waits == MayWait(w, a)
           Stay(left) == {x[1] : x \in {y \in waits : y[1] \in left /\ y[2] \in left}}
           V == SUBSET C
           step == [left \in V |-> Stay(left)]
<1>1. rank \in [C -> Nat] /\ \A x \in waits : x[1] \in C /\ x[2] \in C => rank[x[2]] < rank[x[1]]
  BY DEF LowersAll
<1>2. IsFiniteSet(C)
  OBVIOUS
<1> HIDE DEF C, waits
<1>3. ASSUME NEW left \in V PROVE Stay(left) \subseteq left
  OBVIOUS
<1>4. step \in [V -> V]
  BY <1>3
<1>5. ASSUME NEW left \in V, left # {} PROVE Stay(left) # left
  <2> DEFINE Ranks == {rank[c] : c \in left}
  <2>1. Ranks \subseteq Nat /\ Ranks # {}
    BY <1>1, <1>5
  <2>2. PICK r \in Ranks : \A q \in Ranks : ~(<<q, r>> \in OpToRel(<, Nat))
    <3> HIDE DEF Ranks
    <3> QED BY <2>1, NatLessThanWellFounded, WFMin, Zenon
  <2>3. \A q \in Ranks : ~(q < r)
    BY <2>1, <2>2 DEF OpToRel
  <2>4. PICK c \in left : r = rank[c]
    OBVIOUS
  <2>5. c \notin Stay(left)
    <3> SUFFICES ASSUME NEW x \in waits, x[1] = c, x[2] \in left PROVE FALSE
      OBVIOUS
    <3>1. rank[x[2]] < rank[c]
      BY <1>1
    <3> QED BY <2>3, <2>4, <3>1
  <2> QED BY <2>4, <2>5
<1>6. ASSUME NEW left \in V
      PROVE  /\ IsFiniteSet(left) /\ Cardinality(left) \in Nat
             /\ left # {} => Cardinality(Stay(left)) + 1 <= Cardinality(left)
             /\ left = {} => Stay(left) = {}
  <2>1. IsFiniteSet(left) /\ Cardinality(left) \in Nat
    BY <1>2, FS_Subset, FS_CardinalityType
  <2>2. /\ Cardinality(Stay(left)) \in Nat /\ Cardinality(Stay(left)) <= Cardinality(left)
        /\ Cardinality(Stay(left)) = Cardinality(left) => Stay(left) = left
    <3>1. Stay(left) \in SUBSET left
      BY <1>3
    <3> HIDE DEF Stay
    <3> QED BY <2>1, <3>1, FS_Subset, FS_CardinalityType
  <2>3. left # {} => Stay(left) # left
    BY <1>5
  <2> HIDE DEF Stay
  <2>4. left # {} => Cardinality(Stay(left)) + 1 <= Cardinality(left)
    BY <2>1, <2>2, <2>3
  <2>5. left = {} => Stay(left) = {}
    BY <1>3
  <2> QED BY <2>1, <2>4, <2>5
<1>7. C \in V
  OBVIOUS
<1> HIDE DEF V, Stay
<1>8. PICK f \in [Nat -> V] : f[0] = C /\ \A k \in Nat : f[k + 1] = step[f[k]]
  <2>1. Stepping(V, step, C)
    BY <1>4, <1>7 DEF Stepping
  <2>2. PICK f : Stepped(f, V, step, C)
    BY <2>1, Iterates
  <2> QED BY <2>2 DEF Stepped
<1>9. ASSUME NEW k \in Nat PROVE f[k] = IF k = 0 THEN C ELSE Stay(f[k - 1])
  <2>1. CASE k = 0
    BY <1>8, <2>1
  <2>2. CASE k # 0
    <3>1. k - 1 \in Nat /\ (k - 1) + 1 = k
      BY <2>2
    <3>2. f[k] = step[f[k - 1]] /\ f[k - 1] \in V
      BY <1>8, <3>1
    <3> QED BY <2>2, <3>2
  <2> QED BY <2>1, <2>2
<1>10. IsLeft(f, C, waits)
  <2>1. f = [k \in Nat |-> f[k]]
    BY <1>8
  <2>2. f = [k \in Nat |-> IF k = 0 THEN C ELSE Stay(f[k - 1])]
    BY <1>9, <2>1
  <2> QED BY <2>2 DEF IsLeft, Stay
<1> DEFINE g == CHOOSE h : IsLeft(h, C, waits)
<1>11. IsLeft(g, C, waits)
  BY <1>10
<1> HIDE DEF g, step
<1>12. \A k \in Nat : g[k] = IF k = 0 THEN C ELSE Stay(g[k - 1])
  BY <1>11 DEF IsLeft, Stay
<1> DEFINE N == Cardinality(C)
           T == {k \in Nat : g[k] \in V /\ (g[k] = {} \/ Cardinality(g[k]) + k <= N)}
<1>13. N \in Nat
  BY <1>6, <1>7
<1>14. T = Nat
  <2>1. 0 \in T
    <3>1. g[0] = C
      BY <1>12
    <3> QED BY <1>7, <1>13, <3>1
  <2>2. ASSUME NEW k \in T PROVE k + 1 \in T
    <3>1. k + 1 \in Nat /\ k + 1 # 0 /\ (k + 1) - 1 = k /\ g[k] \in V
      OBVIOUS
    <3>2. g[k] = {} \/ Cardinality(g[k]) + k <= N
      OBVIOUS
    <3> HIDE DEF N, T
    <3>3. g[k + 1] = Stay(g[k])
      BY <1>12, <3>1
    <3>4. Stay(g[k]) \in V
      BY <1>3, <3>1 DEF V
    <3>5. CASE g[k] = {}
      BY <1>6, <3>1, <3>3, <3>4, <3>5 DEF T
    <3>6. CASE g[k] # {}
      <4> DEFINE i == Cardinality(g[k])
                 j == Cardinality(Stay(g[k]))
      <4>1. i \in Nat /\ j \in Nat /\ j + 1 <= i /\ i + k <= N
        BY <1>6, <3>1, <3>2, <3>4, <3>6
      <4>2. j + (k + 1) <= N
        <5> HIDE DEF i, j
        <5> QED BY <1>13, <3>1, <4>1
      <4> QED BY <3>1, <3>3, <3>4, <4>2 DEF T
    <3> QED BY <3>5, <3>6
  <2>3. T \in SUBSET Nat
    OBVIOUS
  <2> HIDE DEF T
  <2> QED BY <2>1, <2>2, <2>3, UpFromZero
<1>15. g[N] = {}
  <2>1. N \in T
    BY <1>13, <1>14
  <2>2. g[N] \in V /\ (g[N] = {} \/ Cardinality(g[N]) + N <= N)
    BY <2>1
  <2>3. IsFiniteSet(g[N]) /\ Cardinality(g[N]) \in Nat
    BY <1>6, <2>2
  <2> HIDE DEF N
  <2>4. g[N] = {} \/ Cardinality(g[N]) = 0
    BY <1>13, <2>2, <2>3
  <2> QED BY <2>3, <2>4, FS_EmptySet
<1>16. Endless(w, a) = g[N]
  BY DEF Endless, g, IsLeft, C, waits
<1> QED BY <1>15, <1>16

-----------------------------------------------------------------------------
(***************************************************************************)
(* The number of a channel of a mesh, by the direction it has and the      *)
(* column and row it leaves from, in two digits.  Each algorithm has its   *)
(* own: with WEST_FIRST, for one, all channels to the west come before     *)
(* (are above) the others, and those column by column, the vertical ones   *)
(* of a column before the ones that leave it.                              *)
(***************************************************************************)
East(x)  == mesh_dim_x - x
South(y) == mesh_dim_y - y

Room(d, x, y) ==
  IF d = "EAST" THEN East(x) ELSE IF d = "WEST" THEN x + 1
  ELSE IF d = "SOUTH" THEN South(y) ELSE y + 1

InOrder(d, x) == d = "EAST" \/ (d \in Vertical /\ x % 2 = 1)

Major(a, d, x, y) ==
  CASE a = "XY" -> IF d \in Vertical THEN 0 ELSE 1
    [] a = "WEST_FIRST" -> IF d = "WEST" THEN mesh_dim_x + 1 ELSE East(x)
    [] a = "NORTH_LAST" -> IF d = "NORTH" THEN 0 ELSE South(y)
    [] a = "NEGATIVE_FIRST" -> IF d \in {"WEST", "SOUTH"} THEN 1 ELSE 0
    [] a \in {"ODD_EVEN", "DYAD"} -> IF InOrder(d, x) THEN East(x) ELSE mesh_dim_x + 1 + x

Minor(a, d, x, y) ==
  CASE a = "XY" -> Room(d, x, y)
    [] a = "WEST_FIRST" -> IF d = "EAST" THEN 0 ELSE Room(d, x, y)
    [] a = "NORTH_LAST" -> IF d = "SOUTH" THEN 0 ELSE Room(d, x, y)
    [] a = "NEGATIVE_FIRST" ->
         IF d \in {"WEST", "SOUTH"} THEN x + South(y) ELSE East(x) + y
    [] a \in {"ODD_EVEN", "DYAD"} -> IF d \in Vertical THEN Room(d, x, y) ELSE 0

Base == mesh_dim_x + mesh_dim_y + 1

Below(a, e, u, v, d, x, y) ==
  \/ Major(a, e, u, v) < Major(a, d, x, y)
  \/ Major(a, e, u, v) = Major(a, d, x, y) /\ Minor(a, e, u, v) < Minor(a, d, x, y)

LEMMA Digits ==
  ASSUME NEW a \in MeshAlgorithms, NEW d \in Directions, NEW x \in Columns, NEW y \in Rows
  PROVE  Major(a, d, x, y) \in Nat /\ Minor(a, d, x, y) \in 0 .. Base - 1
<1>1. /\ x \in Nat /\ y \in Nat /\ East(x) \in Nat \ {0} /\ South(y) \in Nat \ {0}
      /\ x + East(x) = mesh_dim_x /\ y + South(y) = mesh_dim_y
      /\ mesh_dim_x \in Nat /\ mesh_dim_y \in Nat
  BY Dimensions DEF Columns, Rows, East, South
<1>2. Major(a, d, x, y) \in Nat
  BY <1>1 DEF Major, MeshAlgorithms
<1>3. Minor(a, d, x, y) \in Nat /\ Minor(a, d, x, y) <= mesh_dim_x + mesh_dim_y
  <2>1. Room(d, x, y) \in Nat /\ Room(d, x, y) <= mesh_dim_x + mesh_dim_y
    BY <1>1 DEF Room
  <2> QED BY <1>1, <2>1 DEF Minor, MeshAlgorithms
<1> QED BY <1>1, <1>2, <1>3 DEF Base

LEMMA TwoDigits ==
  ASSUME NEW i \in Nat, NEW j \in Nat, NEW b \in Nat, NEW k \in 0 .. b - 1, NEW l \in 0 .. b - 1,
         i < j \/ (i = j /\ k < l)
  PROVE  i * b + k \in Nat /\ j * b + l \in Nat /\ i * b + k < j * b + l
<1>1. i * b \in Nat /\ j * b \in Nat
  OBVIOUS
<1>2. CASE i = j
  BY <1>1, <1>2
<1>3. CASE i < j
  <2>1. PICK g \in Nat : j = i + 1 + g
    <3>1. j - (i + 1) \in Nat
      BY <1>3
    <3> QED BY <3>1
  <2>2. j * b = i * b + b + g * b /\ g * b \in Nat
    BY <2>1
  <2> QED BY <1>1, <2>2
<1> QED BY <1>2, <1>3

(* The turns from d to e that a packet may make.                           *)
MayTurn(a, d, e, x, u) ==
  /\ e # reflexDirection(d)
  /\ a = "XY" => (d \in Vertical => e \in Vertical)
  /\ a = "WEST_FIRST" => (e = "WEST" => d = "WEST")
  /\ a = "NORTH_LAST" => (d = "NORTH" => e = "NORTH")
  /\ a = "NEGATIVE_FIRST" => (e \in {"WEST", "SOUTH"} => d \in {"WEST", "SOUTH"})
  /\ a \in {"ODD_EVEN", "DYAD"} => (InOrder(d, x) => InOrder(e, u))

LEMMA TurnsLower ==
  ASSUME NEW a \in MeshAlgorithms, NEW d \in Directions, NEW e \in Directions,
         NEW x \in Columns, NEW y \in Rows, NEW u \in Columns, NEW v \in Rows,
         u = x + StepX(d), v = y + StepY(d), MayTurn(a, d, e, x, u)
  PROVE  Below(a, e, u, v, d, x, y)
<1>1. /\ x \in Nat /\ y \in Nat /\ u \in Nat /\ v \in Nat
      /\ East(x) \in Nat \ {0} /\ South(y) \in Nat \ {0} /\ East(u) \in Nat \ {0} /\ South(v) \in Nat \ {0}
      /\ x + East(x) = mesh_dim_x /\ y + South(y) = mesh_dim_y
      /\ u + East(u) = mesh_dim_x /\ v + South(v) = mesh_dim_y
      /\ mesh_dim_x \in Nat /\ mesh_dim_y \in Nat
  BY Dimensions DEF Columns, Rows, East, South
<1>2. /\ d = "EAST"  => u = x + 1 /\ v = y
      /\ d = "WEST"  => u = x - 1 /\ v = y
      /\ d = "SOUTH" => u = x /\ v = y + 1
      /\ d = "NORTH" => u = x /\ v = y - 1
  BY <1>1 DEF StepX, StepY
<1>3. /\ d = "EAST"  => e # "WEST"
      /\ d = "WEST"  => e # "EAST"
      /\ d = "SOUTH" => e # "NORTH"
      /\ d = "NORTH" => e # "SOUTH"
  BY DEF MayTurn, reflexDirection
<1>4. /\ d = "EAST"  => Room(d, x, y) = East(x)
      /\ d = "WEST"  => Room(d, x, y) = x + 1
      /\ d = "SOUTH" => Room(d, x, y) = South(y)
      /\ d = "NORTH" => Room(d, x, y) = y + 1
      /\ e = "EAST"  => Room(e, u, v) = East(u)
      /\ e = "WEST"  => Room(e, u, v) = u + 1
      /\ e = "SOUTH" => Room(e, u, v) = South(v)
      /\ e = "NORTH" => Room(e, u, v) = v + 1
  BY DEF Room
<1> USE DEF Below, Major, Minor, MayTurn, Directions, Vertical
<1>5. CASE a = "XY"
  BY <1>1, <1>2, <1>3, <1>4, <1>5
<1>6. CASE a = "WEST_FIRST"
  BY <1>1, <1>2, <1>3, <1>4, <1>6
<1>7. CASE a = "NORTH_LAST"
  BY <1>1, <1>2, <1>3, <1>4, <1>7
<1>8. CASE a = "NEGATIVE_FIRST"
  BY <1>1, <1>2, <1>3, <1>4, <1>8
<1>9. CASE a \in {"ODD_EVEN", "DYAD"}
  BY <1>1, <1>2, <1>3, <1>4, <1>9 DEF InOrder
<1> QED BY <1>5, <1>6, <1>7, <1>8, <1>9 DEF MeshAlgorithms

(* A packet on a mesh is always between the columns of its source and its  *)
(* destination, as the algorithm ODD_EVEN takes it to be.                  *)
Between(s, n, t) ==
  \/ X(s) <= X(n) /\ X(n) <= X(t)
  \/ X(t) <= X(n) /\ X(n) <= X(s)

MeshPlaces(s, t) == {v \in GridTiles \X (Directions \cup {"LOCAL"}) : Between(s, v[1], t)}

LEMMA MeshKept ==
  ASSUME NEW a \in MeshAlgorithms, NEW s \in GridTiles, NEW t \in GridTiles
  PROVE  KeptBy(MeshPlaces(s, t), "MESH", a, s, t)
<1>1. X(s) \in Nat /\ X(t) \in Nat
  BY Coordinates DEF Columns
<1>2. <<s, "LOCAL">> \in MeshPlaces(s, t)
  BY <1>1 DEF MeshPlaces, Between
<1>3. ASSUME NEW v \in MeshPlaces(s, t), v[1] # t, NEW d \in Candidates(a, v[1], s, t, v[2])
      PROVE  <<Neighbor("MESH", v[1], d), reflexDirection(d)>> \in MeshPlaces(s, t)
  <2>1. v[1] \in GridTiles /\ Between(s, v[1], t)
    BY DEF MeshPlaces
  <2>2. Productive(v[1], t, d) /\ d \in Directions
    BY <1>3, <2>1, MeshOffers DEF AllProductive, Productive
  <2> DEFINE m == MeshNeighbor(v[1], d)
  <2>3. m \in GridTiles /\ X(m) = X(v[1]) + StepX(d)
    BY <2>1, <2>2, MeshStep
  <2>4. Neighbor("MESH", v[1], d) = m
    BY DEF Neighbor, DeltaTopologies
  <2> HIDE DEF m
  <2>5. X(v[1]) \in Nat
    BY <2>1, Coordinates DEF Columns
  <2>6. Between(s, m, t)
    BY <1>1, <2>1, <2>2, <2>3, <2>5 DEF Between, Productive, StepX
  <2>7. reflexDirection(d) \in Directions
    BY <2>2 DEF reflexDirection, Directions
  <2> QED BY <2>3, <2>4, <2>6, <2>7 DEF MeshPlaces
<1> QED BY <1>2, <1>3 DEF KeptBy, From

(* What a packet from s to t may hold: the algorithms of a mesh do not ask *)
(* for the port it came in by.                                             *)
MeshMayHold(a, s, t, n, d) ==
  /\ n \in GridTiles /\ n # t /\ Between(s, n, t)
  /\ d \in Candidates(a, n, s, t, "LOCAL")

LEMMA MeshHeld ==
  ASSUME NEW a \in MeshAlgorithms, NEW s \in GridTiles, NEW t \in GridTiles,
         NEW c \in Held("MESH", a, s, t)
  PROVE  c = <<c[1], c[2]>> /\ MeshMayHold(a, s, t, c[1], c[2])
<1>1. Max(Nodes("MESH")) \in Nat
  <2>1. Nodes("MESH") = GridTiles
    BY DEF Nodes, Tiles, DeltaTopologies, GridTiles
  <2>2. mesh_dim_x * mesh_dim_y - 1 \in GridTiles /\ \A n \in GridTiles : mesh_dim_x * mesh_dim_y - 1 >= n
    <3>1. 0 \in GridTiles
      BY IdOf, Dimensions, s \in GridTiles DEF GridTiles
    <3> QED BY <3>1, Dimensions DEF GridTiles
  <2>3. Max(GridTiles) \in GridTiles
    BY <2>2 DEF Max
  <2> QED BY <2>1, <2>3 DEF GridTiles
<1>2. Visited("MESH", a, s, t) \subseteq MeshPlaces(s, t)
  BY <1>1, MeshKept, VisitedStay
<1>3. PICK v \in MeshPlaces(s, t) : v[1] # t /\ c \in {v[1]} \X Candidates(a, v[1], s, t, v[2])
  BY <1>2 DEF Held
<1>4. v[1] \in GridTiles /\ Between(s, v[1], t)
  BY DEF MeshPlaces
<1>5. Candidates(a, v[1], s, t, v[2]) = Candidates(a, v[1], s, t, "LOCAL")
  BY DEF MeshAlgorithms, Candidates
<1> QED BY <1>3, <1>4, <1>5 DEF MeshMayHold

(* Every wait on a mesh is for a lower channel.                            *)
LEMMA MeshWaitsLower ==
  ASSUME NEW a \in MeshAlgorithms, NEW s \in GridTiles, NEW t \in GridTiles,
         NEW n, NEW d, MeshMayHold(a, s, t, n, d),
         NEW m, NEW e, MeshMayHold(a, s, t, m, e),
         m = Neighbor("MESH", n, d)
  PROVE  /\ d \in Directions /\ e \in Directions
         /\ Below(a, e, X(m), Y(m), d, X(n), Y(n))
<1>1. n \in GridTiles /\ n # t /\ m \in GridTiles /\ m # t
  BY DEF MeshMayHold
<1>2. Productive(n, t, d) /\ Productive(m, t, e) /\ d \in Directions /\ e \in Directions
  BY <1>1, MeshOffers DEF AllProductive, Productive, MeshMayHold
<1>3. m = MeshNeighbor(n, d)
  BY DEF Neighbor, DeltaTopologies
<1>4. X(m) = X(n) + StepX(d) /\ Y(m) = Y(n) + StepY(d)
  BY <1>1, <1>2, <1>3, MeshStep
<1>5. /\ X(n) \in Columns /\ Y(n) \in Rows /\ X(m) \in Columns /\ Y(m) \in Rows
      /\ X(t) \in Columns /\ Y(t) \in Rows /\ X(s) \in Columns
  BY <1>1, Coordinates
<1>6. X(m) # X(t) \/ Y(m) # Y(t)
  BY <1>1, SameTile
<1>7. e # reflexDirection(d)
  BY <1>2, <1>4, <1>5, <1>6 DEF Productive, StepX, StepY, Directions, Columns, Rows, reflexDirection
<1> USE DEF Productive, StepX, StepY, Directions, Vertical, Columns, Rows
<1>8. a = "XY" => (d \in Vertical => e \in Vertical)
  <2>1. a = "XY" => d \in XY(n, t)
    BY DEF MeshMayHold, Candidates
  <2> QED BY <1>2, <1>4, <1>5, <2>1 DEF XY
<1>9. a = "WEST_FIRST" => (e = "WEST" => d = "WEST")
  <2>1. a = "WEST_FIRST" => d \in WEST_FIRST(n, t)
    BY DEF MeshMayHold, Candidates
  <2> QED BY <1>2, <1>4, <1>5, <2>1 DEF WEST_FIRST, XY
<1>10. a = "NORTH_LAST" => (d = "NORTH" => e = "NORTH")
  <2>1. a = "NORTH_LAST" => d \in NORTH_LAST(n, t)
    BY DEF MeshMayHold, Candidates
  <2> QED BY <1>2, <1>4, <1>5, <2>1 DEF NORTH_LAST, XY
<1>11. a = "NEGATIVE_FIRST" => (e \in {"WEST", "SOUTH"} => d \in {"WEST", "SOUTH"})
  <2>1. a = "NEGATIVE_FIRST" => d \in NEGATIVE_FIRST(n, t)
    BY DEF MeshMayHold, Candidates
  <2> QED BY <1>2, <1>4, <1>5, <2>1 DEF NEGATIVE_FIRST
<1>12. a \in {"ODD_EVEN", "DYAD"} => (InOrder(d, X(n)) => InOrder(e, X(m)))
  <2> SUFFICES ASSUME a \in {"ODD_EVEN", "DYAD"}, InOrder(d, X(n)) PROVE InOrder(e, X(m))
    OBVIOUS
  <2>1. d \in ODD_EVEN(n, s, t) /\ e \in ODD_EVEN(m, s, t)
    BY DEF MeshMayHold, Candidates, DYAD
  <2>2. Between(s, n, t) /\ Between(s, m, t)
    BY DEF MeshMayHold
  <2>3. /\ d = "EAST" => X(t) > X(n) /\ (Y(n) = Y(t) \/ X(t) % 2 = 1 \/ X(t) - X(n) # 1)
        /\ d \in Vertical => X(t) >= X(n) \/ X(n) % 2 = 0
    BY <1>2, <1>5, <2>1 DEF ODD_EVEN
  <2>4. e \in Vertical /\ X(t) > X(m) => X(m) % 2 = 1 \/ X(m) = X(s)
    BY <1>5, <2>1 DEF ODD_EVEN
  <2>5. CASE d = "EAST"
    BY <1>2, <1>4, <1>5, <1>6, <2>2, <2>3, <2>4, <2>5 DEF Between, InOrder
  <2>6. CASE d \in Vertical /\ X(n) % 2 = 1
    BY <1>2, <1>4, <1>5, <1>6, <2>2, <2>3, <2>4, <2>6 DEF Between, InOrder
  <2> QED BY <2>5, <2>6 DEF InOrder
<1>13. MayTurn(a, d, e, X(n), X(m))
  BY <1>7, <1>8, <1>9, <1>10, <1>11, <1>12 DEF MayTurn
<1> QED BY <1>2, <1>4, <1>5, <1>13, TurnsLower

(* So no chain of waits on a mesh, of any size, is endless.                *)
LEMMA MeshWaitsEnd ==
  ASSUME NEW a \in MeshAlgorithms
  PROVE  Endless("MESH", a) = {}
<1> DEFINE C == Channels("MESH")
           rank == [c \in C |-> Major(a, c[2], X(c[1]), Y(c[1])) * Base
                                  + Minor(a, c[2], X(c[1]), Y(c[1]))]
<1>1. Nodes("MESH") = GridTiles /\ Tiles("MESH") = GridTiles
  BY DEF Nodes, Tiles, DeltaTopologies, GridTiles
<1>2. C \subseteq GridTiles \X Directions
  BY <1>1 DEF Channels
<1>3. IsFiniteSet(C)
  <2>1. IsFiniteSet(GridTiles)
    BY FS_Interval, Dimensions DEF GridTiles
  <2>2. IsFiniteSet(Directions)
    <3>1. Directions = {"NORTH"} \cup ({"EAST"} \cup ({"SOUTH"} \cup {"WEST"}))
      BY DEF Directions
    <3> QED BY <3>1, FS_Singleton, FS_Union
  <2>3. IsFiniteSet(GridTiles \X Directions)
    BY <2>1, <2>2, FS_Product
  <2> QED BY <1>2, <2>3, FS_Subset
<1>4. Base \in Nat
  BY Dimensions DEF Base
<1>5. ASSUME NEW c \in C
      PROVE  /\ Major(a, c[2], X(c[1]), Y(c[1])) \in Nat
             /\ Minor(a, c[2], X(c[1]), Y(c[1])) \in 0 .. Base - 1
  <2>1. c[1] \in GridTiles /\ c[2] \in Directions
    BY <1>2
  <2> QED BY <2>1, Coordinates, Digits
<1>6. rank \in [C -> Nat]
  <2>1. ASSUME NEW i \in Nat, NEW k \in 0 .. Base - 1 PROVE i * Base + k \in Nat
    <3>1. i * Base \in Nat
      BY <1>4
    <3> QED BY <1>4, <3>1
  <2> HIDE DEF C
  <2> QED BY <1>5, <2>1
<1>7. ASSUME NEW x \in MayWait("MESH", a), x[1] \in C, x[2] \in C
      PROVE  rank[x[2]] < rank[x[1]]
  <2>1. PICK s \in GridTiles, t \in GridTiles :
          x[1] \in Held("MESH", a, s, t) /\ x[2] \in Held("MESH", a, s, t) /\ x[2][1] = End("MESH", x[1])
    BY <1>1 DEF MayWait
  <2> DEFINE n == x[1][1]
             d == x[1][2]
             m == x[2][1]
             e == x[2][2]
  <2>2. MeshMayHold(a, s, t, n, d) /\ MeshMayHold(a, s, t, m, e)
    BY <2>1, MeshHeld
  <2>3. m = Neighbor("MESH", n, d)
    BY <2>1 DEF End
  <2>4. Below(a, e, X(m), Y(m), d, X(n), Y(n))
    BY <2>2, <2>3, MeshWaitsLower
  <2>5. /\ Major(a, d, X(n), Y(n)) \in Nat /\ Minor(a, d, X(n), Y(n)) \in 0 .. Base - 1
        /\ Major(a, e, X(m), Y(m)) \in Nat /\ Minor(a, e, X(m), Y(m)) \in 0 .. Base - 1
    BY <1>5, <1>7
  <2>6. /\ rank[x[1]] = Major(a, d, X(n), Y(n)) * Base + Minor(a, d, X(n), Y(n))
        /\ rank[x[2]] = Major(a, e, X(m), Y(m)) * Base + Minor(a, e, X(m), Y(m))
    BY <1>7
  <2> HIDE DEF n, d, m, e, rank, C
  <2> QED BY <1>4, <2>4, <2>5, <2>6, TwoDigits DEF Below
<1>8. LowersAll(rank, C, MayWait("MESH", a))
  BY <1>6, <1>7 DEF LowersAll
<1> QED BY <1>3, <1>8, WaitsEnd

-----------------------------------------------------------------------------
(***************************************************************************)
(* Powers of two, quotients and bits.                                      *)
(***************************************************************************)
LEMMA Powers ==
  /\ 2 ^ 0 = 1
  /\ \A k \in 0 .. 10 : 2 ^ k \in Nat \ {0} /\ 2 ^ (k + 1) = 2 * 2 ^ k
<1>1. \A k \in 0 .. 10 : k \in {0, 1, 2, 3, 4, 5, 6, 7, 8, 9, 10}
  OBVIOUS
<1>2. /\ 2 ^ 0 = 1 /\ 2 ^ 1 = 2 /\ 2 ^ 2 = 4 /\ 2 ^ 3 = 8 /\ 2 ^ 4 = 16 /\ 2 ^ 5 = 32
      /\ 2 ^ 6 = 64 /\ 2 ^ 7 = 128 /\ 2 ^ 8 = 256 /\ 2 ^ 9 = 512 /\ 2 ^ 10 = 1024 /\ 2 ^ 11 = 2048
  OBVIOUS
<1> QED BY <1>1, <1>2

LEMMA Quotient ==
  ASSUME NEW b \in Nat \ {0}, NEW q \in Nat, NEW r \in 0 .. b - 1, NEW z, z = b * q + r
  PROVE  z \in Nat /\ z \div b = q /\ z % b = r
<1> DEFINE p == z \div b
<1>1. b * q \in Nat /\ z \in Nat
  OBVIOUS
<1>2. p \in Nat /\ z = b * p + (z % b) /\ z % b \in 0 .. b - 1
  BY <1>1
<1> HIDE DEF p
<1>3. CASE p = q
  BY <1>1, <1>2, <1>3 DEF p
<1>4. CASE p < q
  <2>1. PICK e \in Nat : q = p + 1 + e
    <3>1. q - (p + 1) \in Nat
      BY <1>2, <1>4
    <3> QED BY <1>2, <3>1
  <2>2. b * q = b * p + b + b * e /\ b * e \in Nat
    BY <1>2, <2>1
  <2> QED BY <1>1, <1>2, <2>2
<1>5. CASE p > q
  <2>1. PICK e \in Nat : p = q + 1 + e
    <3>1. p - (q + 1) \in Nat
      BY <1>2, <1>5
    <3> QED BY <1>2, <3>1
  <2>2. b * p = b * q + b + b * e /\ b * e \in Nat
    BY <1>2, <2>1
  <2> QED BY <1>1, <1>2, <2>2
<1> QED BY <1>2, <1>3, <1>4, <1>5

LEMMA Remains ==
  ASSUME NEW b \in Nat \ {0}, NEW z \in Nat
  PROVE  z \div b \in Nat /\ z % b \in 0 .. b - 1 /\ z = b * (z \div b) + (z % b)
OBVIOUS

(* The bit worth b of a number, and what is above it.                      *)
BitAt(z, b) == (z \div b) % 2

LEMMA Halves ==
  ASSUME NEW b \in Nat \ {0}, NEW z \in Nat
  PROVE  /\ BitAt(z, b) \in {0, 1}
         /\ z \div b = 2 * (z \div (2 * b)) + BitAt(z, b)
         /\ z \div (2 * b) \in Nat /\ z \div b \in Nat
<1> DEFINE p == z \div b
           q == p \div 2
           c == p % 2
           r == z % b
<1>1. p \in Nat /\ r \in 0 .. b - 1 /\ z = b * p + r
  BY Remains
<1>2. q \in Nat /\ c \in {0, 1} /\ p = 2 * q + c
  BY <1>1
<1> HIDE DEF p, q, c, r
<1>3. z = (2 * b) * q + (b * c + r)
  BY <1>1, <1>2
<1>4. b * c + r \in 0 .. 2 * b - 1
  BY <1>1, <1>2
<1>5. z \div (2 * b) = q
  BY <1>2, <1>3, <1>4, Quotient
<1> QED BY <1>1, <1>2, <1>5 DEF BitAt, p, c

(* A number with its bit worth b turned.                                   *)
Toggled(z, b) == IF BitAt(z, b) = 0 THEN z + b ELSE z - b

LEMMA BitTurned ==
  ASSUME NEW b \in Nat \ {0}, NEW z \in Nat
  PROVE  /\ Toggled(z, b) \in Nat
         /\ Toggled(z, b) \div (2 * b) = z \div (2 * b)
         /\ BitAt(Toggled(z, b), b) = 1 - BitAt(z, b)
         /\ Toggled(Toggled(z, b), b) = z
<1> DEFINE p == z \div b
           q == z \div (2 * b)
           c == BitAt(z, b)
           r == z % b
           y == Toggled(z, b)
<1>1. p \in Nat /\ r \in 0 .. b - 1 /\ z = b * p + r
  BY Remains
<1>2. q \in Nat /\ c \in {0, 1} /\ p = 2 * q + c
  BY Halves
<1>3. y = IF c = 0 THEN z + b ELSE z - b
  BY DEF Toggled
<1> HIDE DEF p, q, c, r, y
<1>4. y = b * (2 * q + (1 - c)) + r
  BY <1>1, <1>2, <1>3
<1>5. 2 * q + (1 - c) \in Nat /\ (2 * q + (1 - c)) % 2 = 1 - c
  BY <1>2
<1>6. y \in Nat /\ y \div b = 2 * q + (1 - c)
  BY <1>1, <1>4, <1>5, Quotient
<1>7. BitAt(y, b) = 1 - c
  BY <1>5, <1>6 DEF BitAt
<1>8. y \div (2 * b) = q
  <2>1. y = (2 * b) * q + (b * (1 - c) + r)
    BY <1>1, <1>2, <1>4
  <2>2. b * (1 - c) + r \in 0 .. 2 * b - 1
    BY <1>1, <1>2
  <2> QED BY <1>2, <2>1, <2>2, Quotient
<1>9. Toggled(y, b) = z
  BY <1>1, <1>2, <1>3, <1>6, <1>7 DEF Toggled
<1> QED BY <1>6, <1>7, <1>8, <1>9 DEF y, q, c

LEMMA PowerOfSum ==
  ASSUME NEW a \in 0 .. 10, NEW b \in 0 .. 10, a + b <= 10
  PROVE  2 ^ (a + b) = 2 ^ a * 2 ^ b
<1> DEFINE S == {k \in Nat : a + k <= 10 => 2 ^ (a + k) = 2 ^ a * 2 ^ k}
<1>1. 0 \in S
  <2>1. 2 ^ a \in Nat
    BY Powers
  <2> QED BY <2>1, Powers
<1>2. ASSUME NEW k \in S PROVE k + 1 \in S
  <2> SUFFICES ASSUME a + (k + 1) <= 10 PROVE 2 ^ (a + (k + 1)) = 2 ^ a * 2 ^ (k + 1)
    OBVIOUS
  <2>1. k \in 0 .. 10 /\ a + k \in 0 .. 10 /\ a + (k + 1) = (a + k) + 1
    OBVIOUS
  <2>2. 2 ^ (a + k) = 2 ^ a * 2 ^ k
    BY <2>1
  <2>3. 2 ^ (a + (k + 1)) = 2 * 2 ^ (a + k) /\ 2 ^ (k + 1) = 2 * 2 ^ k
    BY <2>1, Powers
  <2>4. 2 ^ a \in Nat /\ 2 ^ k \in Nat
    BY <2>1, Powers
  <2> DEFINE p == 2 ^ a
             q == 2 ^ k
  <2>5. 2 * (p * q) = p * (2 * q)
    <3> HIDE DEF p, q
    <3> QED BY <2>4 DEF p, q
  <2> QED BY <2>2, <2>3, <2>5
<1>3. S \in SUBSET Nat
  OBVIOUS
<1>4. S = Nat
  <2> HIDE DEF S
  <2> QED BY <1>1, <1>2, <1>3, UpFromZero
<1>5. b \in S
  <2> HIDE DEF S
  <2> QED BY <1>4
<1> QED BY <1>5

(***************************************************************************)
(* The shape of a delta network.  Worth(i) is the worth of the bit of its  *)
(* row that a packet settles on its way to stage i.                        *)
(***************************************************************************)
Worth(i) == 2 ^ (stg - 1 - i)

LastStage == stg - 1
DeltaTiles == 0 .. n_delta_tiles - 1
DeltaRows == 0 .. sw - 1

LEMMA Shape ==
  /\ stg \in 2 .. 10 /\ LastStage \in Nat
  /\ sw \in Nat \ {0} /\ n_delta_tiles = 2 * sw /\ n_delta_tiles \in Nat
  /\ Worth(0) = sw /\ Worth(LastStage) = 1
  /\ \A i \in 0 .. stg - 1 :
       /\ Worth(i) \in Nat \ {0} /\ 2 ^ i \in Nat \ {0} /\ 2 ^ i * Worth(i) = sw
       /\ sw \div 2 ^ i = Worth(i)
       /\ i # LastStage => Worth(i) = 2 * Worth(i + 1) /\ 2 ^ (i + 1) = 2 * 2 ^ i
<1>1. stg \in 2 .. 10 /\ n_delta_tiles = 2 ^ stg
  BY DeltaAssumption DEF stg
<1>2. stg - 1 \in 1 .. 9 /\ (stg - 1) + 1 = stg
  BY <1>1
<1>3. n_delta_tiles = 2 * 2 ^ (stg - 1) /\ 2 ^ (stg - 1) \in Nat \ {0}
  <2>1. 2 ^ (stg - 1) \in Nat \ {0} /\ 2 ^ ((stg - 1) + 1) = 2 * 2 ^ (stg - 1)
    <3> DEFINE k == stg - 1
    <3>1. k \in 0 .. 10
      BY <1>2
    <3> HIDE DEF k
    <3>2. 2 ^ k \in Nat \ {0} /\ 2 ^ (k + 1) = 2 * 2 ^ k
      BY <3>1, Powers
    <3> QED BY <3>2 DEF k
  <2> QED BY <1>1, <1>2, <2>1
<1>4. sw = 2 ^ (stg - 1)
  <2> DEFINE h == 2 ^ (stg - 1)
  <2>1. h \in Nat /\ n_delta_tiles = 2 * h
    BY <1>3
  <2> HIDE DEF h
  <2>2. sw = h
    BY <2>1 DEF sw
  <2> QED BY <2>2 DEF h
<1>5. Worth(0) = sw /\ Worth(LastStage) = 1
  <2>1. stg - 1 - 0 = stg - 1 /\ stg - 1 - (stg - 1) = 0
    BY <1>1
  <2> QED BY <1>4, <2>1, Powers DEF Worth, LastStage
<1>6. ASSUME NEW i \in 0 .. stg - 1
      PROVE  /\ Worth(i) \in Nat \ {0} /\ 2 ^ i \in Nat \ {0} /\ 2 ^ i * Worth(i) = sw
             /\ sw \div 2 ^ i = Worth(i)
             /\ i # LastStage => Worth(i) = 2 * Worth(i + 1) /\ 2 ^ (i + 1) = 2 * 2 ^ i
  <2>1. i \in 0 .. 10 /\ stg - 1 - i \in 0 .. 10 /\ i + (stg - 1 - i) = stg - 1 /\ stg - 1 <= 10
    BY <1>1
  <2>2. Worth(i) \in Nat \ {0} /\ 2 ^ i \in Nat \ {0}
    BY <2>1, Powers DEF Worth
  <2>3. 2 ^ i * Worth(i) = sw
    BY <1>4, <2>1, PowerOfSum DEF Worth
  <2>4. sw \div 2 ^ i = Worth(i)
    <3> DEFINE p == 2 ^ i
               q == Worth(i)
    <3>1. p \in Nat \ {0} /\ q \in Nat /\ sw = p * q + 0 /\ 0 \in 0 .. p - 1
      BY <2>2, <2>3
    <3> HIDE DEF p, q
    <3>2. sw \div p = q
      BY <3>1, Quotient
    <3> QED BY <3>2 DEF p, q
  <2>5. ASSUME i # LastStage PROVE Worth(i) = 2 * Worth(i + 1) /\ 2 ^ (i + 1) = 2 * 2 ^ i
    <3>1. stg - 1 - (i + 1) \in 0 .. 10 /\ (stg - 1 - (i + 1)) + 1 = stg - 1 - i
      BY <1>1, <2>5 DEF LastStage
    <3>2. 2 ^ ((stg - 1 - (i + 1)) + 1) = 2 * 2 ^ (stg - 1 - (i + 1))
      BY <3>1, Powers
    <3>3. 2 ^ (i + 1) = 2 * 2 ^ i
      BY <2>1, Powers
    <3> QED BY <3>1, <3>2, <3>3 DEF Worth
  <2> QED BY <2>2, <2>3, <2>4, <2>5
<1> QED BY <1>1, <1>2, <1>3, <1>4, <1>5, <1>6 DEF LastStage

(* Switches are numbered row after row within a stage.                     *)
LEMMA SwitchOf ==
  ASSUME NEW i \in 0 .. stg - 1, NEW y \in DeltaRows
  PROVE  /\ Stage(Switch(i, y)) = i /\ Row(Switch(i, y)) = y
         /\ Switch(i, y) \in Nat /\ Switch(i, y) >= n_delta_tiles
         /\ \A w \in DeltaTopologies : Switch(i, y) \in Nodes(w)
<1>1. i \in Nat /\ i < stg /\ y \in Nat /\ y < sw /\ sw \in Nat \ {0} /\ n_delta_tiles \in Nat /\ stg \in Nat
  BY Shape DEF DeltaRows
<1>2. i * sw = sw * i /\ i * sw \in Nat
  BY <1>1
<1>3. Switch(i, y) - n_delta_tiles = sw * i + y
  BY <1>1, <1>2 DEF Switch
<1>4. Stage(Switch(i, y)) = i /\ Row(Switch(i, y)) = y
  BY <1>1, <1>3, Quotient DEF Stage, Row
<1>5. Switch(i, y) \in Nat /\ Switch(i, y) >= n_delta_tiles
  BY <1>1, <1>2 DEF Switch
<1>6. Switch(i, y) <= n_delta_tiles + stg * sw - 1
  <2>1. PICK e \in Nat : stg = i + 1 + e
    <3>1. stg - (i + 1) \in Nat
      BY <1>1
    <3> QED BY <1>1, <3>1
  <2>2. stg * sw = i * sw + sw + e * sw /\ e * sw \in Nat
    BY <1>1, <2>1
  <2> QED BY <1>1, <1>2, <2>2 DEF Switch
<1>7. stg * sw \in Nat
  BY <1>1
<1> QED BY <1>1, <1>4, <1>5, <1>6, <1>7 DEF Nodes

(***************************************************************************)
(* A packet for t is on its way at row y of stage i if the bits of y       *)
(* settled so far are those of t: the high ones, and on the omega network  *)
(* the low ones.                                                           *)
(***************************************************************************)
Aligned(w, i, y, t) ==
  /\ i \in 0 .. stg - 1 /\ y \in DeltaRows
  /\ IF w = "OMEGA" THEN y % 2 ^ i = t \div (2 * Worth(i))
                    ELSE y \div Worth(i) = t \div (2 * Worth(i))

(* The output a switch of stage i takes.                                   *)
Output(i, t) == DirectionOf(BitAt(t, Worth(i)))

LEMMA DeltaOutput ==
  ASSUME NEW i \in 0 .. stg - 1, NEW y \in DeltaRows, NEW t \in DeltaTiles
  PROVE  /\ DELTA(Switch(i, y), t) = {Output(i, t)}
         /\ Output(i, t) \in {"NORTH", "EAST"}
         /\ BitAt(t, Worth(i)) \in {0, 1}
         /\ Output(i, t) = "NORTH" <=> BitAt(t, Worth(i)) = 0
<1>1. Stage(Switch(i, y)) = i /\ Switch(i, y) \in Nat /\ Switch(i, y) >= n_delta_tiles
  BY SwitchOf
<1>2. BitAt(t, Worth(i)) \in {0, 1}
  <2>1. Worth(i) \in Nat \ {0} /\ t \in Nat
    BY Shape DEF DeltaTiles
  <2> QED BY <2>1, Halves
<1>3. DELTA(Switch(i, y), t) = {DirectionOf(Bit(t, stg - 1 - i))}
  BY <1>1, Shape DEF DELTA
<1>4. Bit(t, stg - 1 - i) = BitAt(t, Worth(i))
  BY DEF Bit, BitAt, Worth
<1> QED BY <1>2, <1>3, <1>4 DEF Output, DirectionOf

(* The links of a delta network lead to the switch whose settled bits are  *)
(* those of the destination, and that is the only switch they lead to.     *)
Fed(w, i, y, d) == {k \in DeltaRows : <<y, d>> \in Feeds(w, i + 1, k)}

LEMMA Below2 ==
  ASSUME NEW i \in 0 .. stg - 1, i # LastStage
  PROVE  i + 1 \in 0 .. stg - 1 /\ i + 1 \in Nat /\ i \in Nat
BY Shape DEF LastStage

LEMMA StageFacts ==
  ASSUME NEW i \in 0 .. stg - 1, i # LastStage
  PROVE  /\ Worth(i + 1) \in Nat \ {0} /\ Worth(i) = 2 * Worth(i + 1)
         /\ 2 ^ i \in Nat \ {0} /\ 2 ^ i * (2 * Worth(i + 1)) = sw /\ 2 ^ (i + 1) = 2 * 2 ^ i
         /\ sw \div 2 ^ (i + 1) = Worth(i + 1)
<1>1. Worth(i) = 2 * Worth(i + 1) /\ 2 ^ i * Worth(i) = sw /\ 2 ^ i \in Nat \ {0} /\ 2 ^ (i + 1) = 2 * 2 ^ i
  BY Shape
<1>2. i + 1 \in 0 .. stg - 1
  BY Below2
<1>3. Worth(i + 1) \in Nat \ {0} /\ sw \div 2 ^ (i + 1) = Worth(i + 1)
  BY <1>2, Shape
<1> QED BY <1>1, <1>3

(* Row y with its bit worth b set to c.                                    *)
WithBit(y, b, c) == IF BitAt(y, b) = c THEN y ELSE Toggled(y, b)

(* The rows from which setting the bit worth b to c leads to row k.        *)
Reaches(k, y, b, c) == BitAt(k, b) = c /\ y \in {k, Toggled(k, b)}

LEMMA BitSet ==
  ASSUME NEW b \in Nat \ {0}, NEW y \in Nat, NEW c \in {0, 1}
  PROVE  /\ WithBit(y, b, c) \in Nat
         /\ WithBit(y, b, c) \div (2 * b) = y \div (2 * b)
         /\ Reaches(WithBit(y, b, c), y, b, c)
         /\ \A k \in Nat : Reaches(k, y, b, c) => k = WithBit(y, b, c)
<1>1. BitAt(y, b) \in {0, 1}
  BY Halves
<1>2. \A k \in Nat : /\ Toggled(k, b) \in Nat
                     /\ Toggled(k, b) \div (2 * b) = k \div (2 * b)
                     /\ BitAt(Toggled(k, b), b) = 1 - BitAt(k, b)
                     /\ Toggled(Toggled(k, b), b) = k
  BY BitTurned
<1>3. ASSUME NEW k \in Nat, Reaches(k, y, b, c) PROVE k = WithBit(y, b, c)
  <2>1. CASE y = k
    BY <1>3, <2>1 DEF WithBit, Reaches
  <2>2. CASE y = Toggled(k, b)
    <3>1. BitAt(y, b) = 1 - c /\ Toggled(y, b) = k
      BY <1>2, <1>3, <2>2 DEF Reaches
    <3> QED BY <3>1 DEF WithBit
  <2> QED BY <1>3, <2>1, <2>2 DEF Reaches
<1>4. CASE BitAt(y, b) = c
  BY <1>1, <1>3, <1>4 DEF WithBit, Reaches
<1>5. CASE BitAt(y, b) # c
  <2>1. WithBit(y, b, c) = Toggled(y, b)
    BY <1>5 DEF WithBit
  <2> QED BY <1>1, <1>2, <1>3, <1>5, <2>1 DEF Reaches
<1> QED BY <1>4, <1>5

(* Setting a lower bit leads to no other half of the rows.                 *)
LEMMA BitSetRow ==
  ASSUME NEW i \in 0 .. stg - 1, i # LastStage, NEW y \in DeltaRows, NEW c \in {0, 1}
  PROVE  WithBit(y, Worth(i + 1), c) \in DeltaRows
<1> DEFINE b == Worth(i + 1)
           p == 2 ^ i
           k == WithBit(y, b, c)
<1>1. b \in Nat \ {0} /\ p \in Nat /\ p * (2 * b) = sw /\ y \in Nat /\ y < sw /\ sw \in Nat
  <2>1. b \in Nat \ {0} /\ p \in Nat /\ p * (2 * b) = sw
    BY StageFacts
  <2> QED BY <2>1, Shape DEF DeltaRows
<1>2. k \in Nat /\ k \div (2 * b) = y \div (2 * b)
  BY <1>1, BitSet
<1> HIDE DEF b, p, k
<1> DEFINE q == y \div (2 * b)
<1>3. 2 * b \in Nat \ {0}
  BY <1>1
<1>4. /\ q \in Nat /\ y % (2 * b) \in 0 .. 2 * b - 1 /\ y = (2 * b) * q + (y % (2 * b))
      /\ k % (2 * b) \in 0 .. 2 * b - 1 /\ k = (2 * b) * q + (k % (2 * b))
  <2>1. /\ y \div (2 * b) \in Nat /\ y % (2 * b) \in 0 .. 2 * b - 1
        /\ y = (2 * b) * (y \div (2 * b)) + (y % (2 * b))
    BY <1>1, <1>3, Remains
  <2>2. /\ k % (2 * b) \in 0 .. 2 * b - 1
        /\ k = (2 * b) * (k \div (2 * b)) + (k % (2 * b))
    BY <1>2, <1>3, Remains
  <2> QED BY <1>2, <2>1, <2>2
<1>5. q < p
  <2> HIDE DEF q
  <2> SUFFICES ASSUME ~(q < p) PROVE FALSE
    OBVIOUS
  <2>1. PICK e \in Nat : q = p + e
    <3>1. q - p \in Nat
      BY <1>1, <1>4
    <3> QED BY <1>1, <1>4, <3>1
  <2>2. (2 * b) * q = sw + (2 * b) * e /\ (2 * b) * e \in Nat
    BY <1>1, <2>1
  <2> QED BY <1>1, <1>4, <2>2
<1>6. k < sw
  <2> HIDE DEF q
  <2>1. PICK e \in Nat : p = q + 1 + e
    <3>1. p - (q + 1) \in Nat
      BY <1>1, <1>4, <1>5
    <3> QED BY <1>1, <1>4, <3>1
  <2>2. sw = (2 * b) * q + 2 * b + (2 * b) * e /\ (2 * b) * e \in Nat /\ (2 * b) * q \in Nat
    BY <1>1, <1>4, <2>1
  <2> QED BY <1>1, <1>2, <1>4, <2>2
<1>7. k \in DeltaRows
  BY <1>1, <1>2, <1>6 DEF DeltaRows
<1> QED BY <1>7 DEF k, b

LEMMA ButterflyFed ==
  ASSUME NEW i \in 0 .. stg - 1, i # LastStage, NEW y \in DeltaRows, NEW t \in DeltaTiles
  PROVE  {k \in DeltaRows : <<y, Output(i, t)>> \in ButterflyFeeds(i + 1, k)} =
           {WithBit(y, Worth(i + 1), BitAt(t, Worth(i)))}
<1> DEFINE b == Worth(i + 1)
           c == BitAt(t, Worth(i))
           K == WithBit(y, b, c)
<1>1. b \in Nat \ {0} /\ y \in Nat /\ c \in {0, 1} /\ DeltaRows \subseteq Nat
  BY StageFacts, DeltaOutput, Shape DEF DeltaRows
<1>2. ASSUME NEW k \in DeltaRows
      PROVE  <<y, Output(i, t)>> \in ButterflyFeeds(i + 1, k) <=>
               Reaches(k, y, b, c)
  <2>1. sw \div 2 ^ (i + 1) = b
    BY StageFacts
  <2>2. toggleKthBit(k, stg - (i + 1)) = Toggled(k, b)
    <3>1. stg - (i + 1) - 1 = stg - 1 - (i + 1)
      BY Shape
    <3> QED BY <3>1 DEF toggleKthBit, Toggled, BitAt, Worth
  <2>3. ButterflyFeeds(i + 1, k) = {<<k, DirectionOf(BitAt(k, b))>>,
                                    <<Toggled(k, b), DirectionOf(BitAt(k, b))>>}
    BY <2>1, <2>2 DEF ButterflyFeeds, BitAt
  <2>4. BitAt(k, b) \in {0, 1}
    BY <1>1, Halves
  <2>5. DirectionOf(BitAt(k, b)) = DirectionOf(c) <=> BitAt(k, b) = c
    BY <1>1, <2>4 DEF DirectionOf
  <2> HIDE DEF b, c
  <2>6. Output(i, t) = DirectionOf(c)
    BY DEF Output, c
  <2> QED BY <2>3, <2>5, <2>6 DEF Reaches
<1>3. K \in DeltaRows
  BY <1>1, BitSetRow
<1>4. Reaches(K, y, b, c) /\ \A k \in Nat : Reaches(k, y, b, c) => k = K
  <2> HIDE DEF b, c
  <2> QED BY <1>1, BitSet
<1> HIDE DEF b, c, K
<1>5. {k \in DeltaRows : <<y, Output(i, t)>> \in ButterflyFeeds(i + 1, k)} = {K}
  BY <1>1, <1>2, <1>3, <1>4
<1> QED BY <1>5 DEF K, b, c

(* The row the output leads to: the first stage of a baseline network      *)
(* settles the highest bit by shifting the others, and each stage of an    *)
(* omega network shifts them the other way.                                *)
NextRow(w, i, y, c) ==
  CASE w = "OMEGA" -> 2 * (y % Worth(1)) + c
    [] w = "BASELINE" /\ i = 0 -> Worth(1) * c + (y \div 2)
    [] OTHER -> WithBit(y, Worth(i + 1), c)

LEMMA FirstStage ==
  /\ 0 \in 0 .. stg - 1 /\ 0 # LastStage
  /\ Worth(1) \in Nat \ {0} /\ sw = 2 * Worth(1) /\ sw \div 2 = Worth(1)
  /\ n_delta_tiles \div 4 = Worth(1)
<1>1. 0 \in 0 .. stg - 1 /\ 0 # LastStage
  BY Shape DEF LastStage
<1>2. 0 + 1 = 1
  OBVIOUS
<1>3. Worth(1) \in Nat \ {0} /\ sw = 2 * Worth(1)
  BY <1>1, <1>2, StageFacts, Shape
<1>4. n_delta_tiles = 4 * Worth(1)
  BY <1>3, Shape
<1> DEFINE h == Worth(1)
<1> HIDE DEF h
<1>5. (2 * h) \div 2 = h /\ (4 * h) \div 4 = h
  BY <1>3 DEF h
<1> QED BY <1>1, <1>3, <1>4, <1>5 DEF h

LEMMA BaselineFed ==
  ASSUME NEW y \in DeltaRows, NEW t \in DeltaTiles
  PROVE  {k \in DeltaRows : <<y, Output(0, t)>> \in BaselineFirstFeeds(k)} =
           {Worth(1) * BitAt(t, Worth(0)) + (y \div 2)}
<1> DEFINE h == Worth(1)
           c == BitAt(t, Worth(0))
           K == h * c + (y \div 2)
<1>1. /\ h \in Nat \ {0} /\ sw = 2 * h /\ sw \div 2 = h /\ DeltaRows = 0 .. 2 * h - 1
  BY FirstStage DEF DeltaRows
<1>2. c \in {0, 1} /\ (Output(0, t) = "NORTH" <=> c = 0) /\ Output(0, t) \in {"NORTH", "EAST"}
  BY FirstStage, DeltaOutput
<1> HIDE DEF h, c, K
<1>3. K = (IF c = 0 THEN 0 ELSE h) + (y \div 2) /\ y \div 2 \in 0 .. h - 1
  BY <1>1, <1>2 DEF K
<1>4. K \in DeltaRows
  BY <1>1, <1>3
<1>5. ASSUME NEW k \in DeltaRows
      PROVE  <<y, Output(0, t)>> \in BaselineFirstFeeds(k) <=> k = K
  <2>1. k \in 0 .. 2 * h - 1 /\ y \in 0 .. 2 * h - 1
    BY <1>1
  <2>2. CASE k < h
    <3>1. BaselineFirstFeeds(k) = {<<2 * k, "NORTH">>, <<2 * k + 1, "NORTH">>}
      BY <1>1, <2>2 DEF BaselineFirstFeeds
    <3>2. y \in {2 * k, 2 * k + 1} <=> y \div 2 = k
      BY <2>1
    <3> QED BY <1>1, <1>2, <1>3, <2>1, <2>2, <3>1, <3>2
  <2>3. CASE ~(k < h)
    <3>1. BaselineFirstFeeds(k) = {<<2 * (k - h), "EAST">>, <<2 * (k - h) + 1, "EAST">>}
      BY <1>1, <2>3 DEF BaselineFirstFeeds
    <3>2. y \in {2 * (k - h), 2 * (k - h) + 1} <=> y \div 2 = k - h
      BY <1>1, <2>1
    <3> QED BY <1>1, <1>2, <1>3, <2>1, <2>3, <3>1, <3>2
  <2> QED BY <2>2, <2>3
<1>6. {k \in DeltaRows : <<y, Output(0, t)>> \in BaselineFirstFeeds(k)} = {K}
  BY <1>4, <1>5
<1> QED BY <1>6 DEF K, h, c

LEMMA OmegaFed ==
  ASSUME NEW i \in 0 .. stg - 1, NEW y \in DeltaRows, NEW t \in DeltaTiles
  PROVE  {k \in DeltaRows : <<y, Output(i, t)>> \in OmegaFeeds(i + 1, k)} =
           {2 * (y % Worth(1)) + BitAt(t, Worth(i))}
<1> DEFINE h == Worth(1)
           c == BitAt(t, Worth(i))
           r == y % h
           K == 2 * r + c
<1>1. /\ h \in Nat \ {0} /\ n_delta_tiles \div 4 = h /\ DeltaRows = 0 .. 2 * h - 1
  BY FirstStage DEF DeltaRows
<1>2. c \in {0, 1} /\ (Output(i, t) = "NORTH" <=> c = 0) /\ Output(i, t) \in {"NORTH", "EAST"}
  BY DeltaOutput
<1>3. y \in 0 .. 2 * h - 1 /\ r \in 0 .. h - 1 /\ r = IF y < h THEN y ELSE y - h
  <2>1. CASE y < h
    <3>1. y = h * 0 + y /\ y \in 0 .. h - 1 /\ 0 \in Nat
      BY <1>1, <2>1
    <3>2. y % h = y
      BY <1>1, <3>1, Quotient
    <3> QED BY <1>1, <2>1, <3>1, <3>2
  <2>2. CASE ~(y < h)
    <3>1. y = h * 1 + (y - h) /\ y - h \in 0 .. h - 1 /\ 1 \in Nat
      BY <1>1, <2>2
    <3> DEFINE e == y - h
    <3>2. y = h * 1 + e /\ e \in 0 .. h - 1 /\ h \in Nat \ {0} /\ 1 \in Nat
      BY <1>1, <3>1
    <3> HIDE DEF e, h
    <3>3. y % h = e
      BY <3>2, Quotient
    <3> QED BY <1>1, <2>2, <3>1, <3>3 DEF e, r
  <2> QED BY <2>1, <2>2
<1> HIDE DEF h, c, K, r
<1>4. K \in DeltaRows
  BY <1>1, <1>2, <1>3 DEF K
<1>5. ASSUME NEW k \in DeltaRows
      PROVE  <<y, Output(i, t)>> \in OmegaFeeds(i + 1, k) <=> k = K
  <2> DEFINE p == k \div 2
             q == k % 2
  <2>1. p \in 0 .. h - 1 /\ q \in {0, 1} /\ k = 2 * p + q
    BY <1>1
  <2>2. OmegaFeeds(i + 1, k) = {<<p, DirectionOf(q)>>, <<h + p, DirectionOf(q)>>}
    BY <1>1 DEF OmegaFeeds
  <2>3. Output(i, t) = DirectionOf(q) <=> q = c
    BY <1>2, <2>1 DEF DirectionOf
  <2> HIDE DEF p, q
  <2>4. y \in {p, h + p} <=> r = p
    BY <1>1, <1>3, <2>1
  <2>5. k = K <=> p = r /\ q = c
    BY <1>1, <1>2, <1>3, <2>1 DEF K
  <2> QED BY <2>2, <2>3, <2>4, <2>5
<1>6. {k \in DeltaRows : <<y, Output(i, t)>> \in OmegaFeeds(i + 1, k)} = {K}
  BY <1>4, <1>5
<1> QED BY <1>6 DEF K, h, c, r

LEMMA DeltaFed ==
  ASSUME NEW w \in DeltaTopologies, NEW i \in 0 .. stg - 1, i # LastStage,
         NEW y \in DeltaRows, NEW t \in DeltaTiles
  PROVE  Fed(w, i, y, Output(i, t)) = {NextRow(w, i, y, BitAt(t, Worth(i)))}
<1>1. CASE w = "OMEGA"
  BY <1>1, OmegaFed DEF Fed, Feeds, NextRow
<1>2. CASE w = "BASELINE" /\ i = 0
  <2>1. \A k : Feeds(w, i + 1, k) = BaselineFirstFeeds(k)
    BY <1>2 DEF Feeds, BaselineFeeds
  <2> QED BY <1>2, <2>1, BaselineFed DEF Fed, NextRow
<1>3. CASE w = "BUTTERFLY" \/ (w = "BASELINE" /\ i # 0)
  <2>1. \A k : Feeds(w, i + 1, k) = ButterflyFeeds(i + 1, k)
    BY <1>3 DEF Feeds, BaselineFeeds
  <2> QED BY <1>3, <2>1, ButterflyFed DEF Fed, NextRow
<1> QED BY <1>1, <1>2, <1>3 DEF DeltaTopologies

LEMMA NextBit ==
  ASSUME NEW i \in 0 .. stg - 1, i # LastStage, NEW t \in DeltaTiles
  PROVE  /\ BitAt(t, Worth(i)) \in {0, 1}
         /\ t \div (2 * Worth(i)) \in Nat
         /\ t \div (2 * Worth(i + 1)) = 2 * (t \div (2 * Worth(i))) + BitAt(t, Worth(i))
<1>1. Worth(i) = 2 * Worth(i + 1) /\ Worth(i) \in Nat \ {0} /\ t \in Nat
  BY StageFacts, Shape DEF DeltaTiles
<1> DEFINE b == Worth(i)
<1> HIDE DEF b
<1>2. BitAt(t, b) \in {0, 1} /\ t \div (2 * b) \in Nat /\ t \div b = 2 * (t \div (2 * b)) + BitAt(t, b)
  BY <1>1, Halves DEF b
<1> QED BY <1>1, <1>2 DEF b

LEMMA ButterflyAligned ==
  ASSUME NEW w, w # "OMEGA", NEW i \in 0 .. stg - 1, i # LastStage, NEW y, NEW t \in DeltaTiles,
         Aligned(w, i, y, t)
  PROVE  Aligned(w, i + 1, WithBit(y, Worth(i + 1), BitAt(t, Worth(i))), t)
<1> DEFINE b == Worth(i + 1)
           c == BitAt(t, Worth(i))
           k == WithBit(y, b, c)
<1>1. y \in DeltaRows /\ y \in Nat /\ y \div Worth(i) = t \div (2 * Worth(i))
  BY Shape DEF Aligned, DeltaRows
<1>2. b \in Nat \ {0} /\ Worth(i) = 2 * b /\ i + 1 \in 0 .. stg - 1
  BY StageFacts, Below2
<1>3. c \in {0, 1} /\ t \div (2 * b) = 2 * (t \div (2 * Worth(i))) + c
  BY NextBit
<1>4. k \in DeltaRows
  BY <1>1, <1>3, BitSetRow
<1> HIDE DEF b, c
<1>5. k \in Nat /\ k \div (2 * b) = y \div (2 * b) /\ BitAt(k, b) = c
  <2>1. b \in Nat \ {0} /\ y \in Nat /\ c \in {0, 1}
    BY <1>1, <1>2, <1>3
  <2>2. k \in Nat /\ k \div (2 * b) = y \div (2 * b) /\ Reaches(k, y, b, c)
    BY <2>1, BitSet
  <2> HIDE DEF k
  <2> QED BY <2>2 DEF Reaches
<1> HIDE DEF k
<1>6. k \div b = 2 * (k \div (2 * b)) + c
  BY <1>2, <1>5, Halves
<1>7. k \div b = t \div (2 * b)
  BY <1>1, <1>2, <1>3, <1>5, <1>6
<1> QED BY <1>2, <1>4, <1>7 DEF Aligned, b, c, k

LEMMA BaselineAligned ==
  ASSUME NEW y \in DeltaRows, NEW t \in DeltaTiles
  PROVE  Aligned("BASELINE", 1, Worth(1) * BitAt(t, Worth(0)) + (y \div 2), t)
<1> DEFINE h == Worth(1)
           c == BitAt(t, Worth(0))
           k == h * c + (y \div 2)
<1>1. /\ h \in Nat \ {0} /\ sw = 2 * h /\ Worth(0) = 2 * h /\ n_delta_tiles = 4 * h
      /\ y \in Nat /\ y < 2 * h /\ t \in 0 .. 4 * h - 1
  <2>1. h \in Nat \ {0} /\ sw = 2 * h /\ Worth(0) = sw /\ n_delta_tiles = 2 * sw
    BY FirstStage, Shape
  <2> HIDE DEF h
  <2> QED BY <2>1 DEF DeltaRows, DeltaTiles
<1>2. c \in {0, 1} /\ t \div (2 * h) = 2 * (t \div (2 * Worth(0))) + c
  <2>1. 0 + 1 = 1
    OBVIOUS
  <2> QED BY <2>1, FirstStage, NextBit
<1>3. 1 \in 0 .. stg - 1
  BY Shape
<1> HIDE DEF h, c
<1>4. t \div (2 * Worth(0)) = 0
  <2> DEFINE z == 4 * h
  <2>1. z \in Nat \ {0} /\ t = z * 0 + t /\ t \in 0 .. z - 1 /\ 0 \in Nat
    BY <1>1
  <2>2. z = 2 * Worth(0)
    BY <1>1
  <2> HIDE DEF z
  <2>3. t \div z = 0
    BY <2>1, Quotient
  <2> QED BY <2>2, <2>3
<1>5. k \in 0 .. 2 * h - 1 /\ y \div 2 \in 0 .. h - 1
  <2>1. y \div 2 \in 0 .. h - 1
    BY <1>1
  <2>2. h * c = IF c = 0 THEN 0 ELSE h
    BY <1>1, <1>2
  <2> QED BY <1>1, <1>2, <2>1, <2>2
<1>6. k \div h = c
  <2> DEFINE r == y \div 2
  <2>1. k = h * c + r /\ r \in 0 .. h - 1 /\ c \in Nat
    BY <1>2, <1>5
  <2> HIDE DEF r, k
  <2> QED BY <1>1, <2>1, Quotient
<1>7. k \div h = t \div (2 * h)
  BY <1>2, <1>4, <1>6
<1> HIDE DEF k
<1> QED BY <1>1, <1>3, <1>5, <1>7 DEF Aligned, DeltaRows, h, c, k

LEMMA OmegaAligned ==
  ASSUME NEW i \in 0 .. stg - 1, i # LastStage, NEW y, NEW t \in DeltaTiles,
         Aligned("OMEGA", i, y, t)
  PROVE  Aligned("OMEGA", i + 1, 2 * (y % Worth(1)) + BitAt(t, Worth(i)), t)
<1> DEFINE h == Worth(1)
           b == Worth(i + 1)
           p == 2 ^ i
           c == BitAt(t, Worth(i))
           v == t \div (2 * Worth(i))
           r == y % h
           q == y \div h
           e == r \div p
           x == r % p
           k == 2 * r + c
<1>1. h \in Nat \ {0} /\ sw = 2 * h /\ b \in Nat \ {0} /\ p \in Nat \ {0} /\ p * (2 * b) = sw /\ 2 ^ (i + 1) = 2 * p
  BY FirstStage, StageFacts
<1>2. i + 1 \in 0 .. stg - 1 /\ y \in Nat /\ y % p = v
  <2>1. y \in DeltaRows /\ y % 2 ^ i = t \div (2 * Worth(i))
    BY DEF Aligned
  <2>2. y \in Nat
    BY <2>1, Shape DEF DeltaRows
  <2> QED BY <2>1, <2>2, Below2
<1>3. c \in {0, 1} /\ v \in Nat /\ t \div (2 * b) = 2 * v + c
  BY NextBit
<1> HIDE DEF h, b, p, c, v
<1>4. p * b = h
  <2>1. p * (2 * b) = 2 * (p * b) /\ p * b \in Nat
    BY <1>1
  <2> QED BY <1>1, <2>1
<1>5. q \in Nat /\ r \in 0 .. h - 1 /\ y = h * q + r
  BY <1>1, <1>2, Remains
<1>6. e \in Nat /\ x \in 0 .. p - 1 /\ r = p * e + x
  <2>1. p \in Nat \ {0} /\ r \in Nat
    BY <1>1, <1>5
  <2> HIDE DEF r
  <2>2. r \div p \in Nat /\ r % p \in 0 .. p - 1 /\ r = p * (r \div p) + (r % p)
    BY <2>1, Remains
  <2> QED BY <2>2
<1> HIDE DEF q, r, e, x
<1>7. x = v
  <2>1. y = p * (b * q + e) + x /\ b * q + e \in Nat
    <3>1. h * q = p * (b * q)
      BY <1>1, <1>4, <1>5
    <3>2. p * (b * q + e) = p * (b * q) + p * e /\ b * q \in Nat
      BY <1>1, <1>5, <1>6
    <3> QED BY <1>1, <1>5, <1>6, <3>1, <3>2
  <2> DEFINE g == b * q + e
  <2>2. p \in Nat \ {0} /\ x \in 0 .. p - 1 /\ g \in Nat /\ y = p * g + x
    BY <1>1, <1>6, <2>1
  <2> HIDE DEF g
  <2>3. y % p = x
    BY <2>2, Quotient
  <2> QED BY <1>2, <2>3
<1>8. k % (2 * p) = 2 * v + c
  <2> DEFINE a == 2 * p
             z == 2 * x + c
  <2>1. a \in Nat \ {0} /\ z \in 0 .. a - 1
    BY <1>1, <1>3, <1>6
  <2>2. k = a * e + z
    BY <1>1, <1>3, <1>6
  <2> HIDE DEF a, z
  <2>3. k % a = z
    BY <1>6, <2>1, <2>2, Quotient
  <2> QED BY <1>7, <2>3 DEF a, z
<1>9. k \in DeltaRows
  BY <1>1, <1>3, <1>5 DEF DeltaRows
<1> HIDE DEF k
<1> QED BY <1>1, <1>2, <1>3, <1>8, <1>9 DEF Aligned, h, b, p, c, v, k, r

LEMMA StaysAligned ==
  ASSUME NEW w \in DeltaTopologies, NEW i \in 0 .. stg - 1, i # LastStage, NEW y,
         NEW t \in DeltaTiles, Aligned(w, i, y, t)
  PROVE  Aligned(w, i + 1, NextRow(w, i, y, BitAt(t, Worth(i))), t)
<1>1. CASE w = "OMEGA"
  BY <1>1, OmegaAligned DEF NextRow
<1>2. CASE w = "BASELINE" /\ i = 0
  <2>1. y \in DeltaRows /\ i + 1 = 1
    BY <1>2 DEF Aligned
  <2> QED BY <1>2, <2>1, BaselineAligned DEF NextRow
<1>3. CASE w # "OMEGA" /\ ~(w = "BASELINE" /\ i = 0)
  BY <1>3, ButterflyAligned DEF NextRow
<1> QED BY <1>1, <1>2, <1>3

-----------------------------------------------------------------------------
(* Row y of stage i, of which a packet for t is on its way.                *)
OnSwitch(w, i, y, t, n) == n = Switch(i, y) /\ Aligned(w, i, y, t)

OnDeltaWay(w, s, t, n) ==
  n = s \/ n = t \/ \E i \in 0 .. stg - 1, y \in DeltaRows : OnSwitch(w, i, y, t, n)

(* The number of a node of a delta network, which falls from stage to      *)
(* stage, and with it how far a node of the way is from the destination.   *)
Level(n) == IF n < n_delta_tiles THEN stg + 1 ELSE stg - Stage(n)

DeltaGap(t, n) == IF n = t THEN 0 ELSE Level(n)

(* One hop of a packet: along its way and one stage on.                    *)
DeltaHop(w, s, t, n, d) ==
  /\ DELTA(n, t) = {d} /\ d \in {"NORTH", "EAST"}
  /\ Neighbor(w, n, d) \in Nodes(w) /\ Neighbor(w, n, d) # NOT_VALID
  /\ OnDeltaWay(w, s, t, Neighbor(w, n, d))
  /\ DeltaGap(t, Neighbor(w, n, d)) = DeltaGap(t, n) - 1

LEMMA TilesAreNodes ==
  ASSUME NEW w \in DeltaTopologies
  PROVE  /\ Tiles(w) = DeltaTiles /\ DeltaTiles \subseteq Nodes(w) /\ Nodes(w) \subseteq Nat
         /\ IsFiniteSet(Nodes(w)) /\ Max(Nodes(w)) \in Nat
<1>1. stg * sw \in Nat /\ n_delta_tiles \in Nat \ {0}
  <2>1. stg \in Nat /\ sw \in Nat \ {0} /\ n_delta_tiles = 2 * sw
    BY Shape
  <2> QED BY <2>1
<1>2. Tiles(w) = DeltaTiles /\ Nodes(w) = 0 .. n_delta_tiles + stg * sw - 1
  BY DEF Tiles, Nodes, DeltaTopologies, DeltaTiles
<1> DEFINE top == n_delta_tiles + stg * sw - 1
<1>3. top \in Nat
  BY <1>1
<1>4. DeltaTiles \subseteq Nodes(w)
  BY <1>1, <1>2 DEF DeltaTiles
<1>5. Nodes(w) = 0 .. top
  BY <1>2
<1> HIDE DEF top
<1>6. Max(Nodes(w)) \in Nodes(w)
  <2>1. top \in Nodes(w) /\ \A n \in Nodes(w) : top >= n
    BY <1>3, <1>5
  <2> QED BY <2>1 DEF Max
<1>7. IsFiniteSet(Nodes(w))
  BY <1>3, <1>5, FS_Interval
<1> QED BY <1>2, <1>3, <1>4, <1>5, <1>6, <1>7

(* A node that is not a core is a switch.                                  *)
LEMMA SwitchAt ==
  ASSUME NEW w \in DeltaTopologies, NEW n \in Nodes(w), n \notin DeltaTiles
  PROVE  /\ Stage(n) \in 0 .. stg - 1 /\ Row(n) \in DeltaRows
         /\ n = Switch(Stage(n), Row(n)) /\ n >= n_delta_tiles
<1> DEFINE z == n - n_delta_tiles
           q == z \div sw
           r == z % sw
<1>1. sw \in Nat \ {0} /\ stg \in Nat /\ n_delta_tiles \in Nat
  BY Shape
<1>2. z \in Nat /\ n = n_delta_tiles + z /\ z < stg * sw /\ n >= n_delta_tiles
  <2>1. stg * sw \in Nat
    BY <1>1
  <2>2. n \in 0 .. n_delta_tiles + stg * sw - 1
    BY DEF Nodes
  <2> QED BY <1>1, <2>1, <2>2 DEF DeltaTiles
<1> HIDE DEF z
<1>3. q \in Nat /\ r \in 0 .. sw - 1 /\ z = sw * q + r
  BY <1>1, <1>2, Remains
<1> HIDE DEF q, r
<1>4. q < stg
  <2> SUFFICES ASSUME ~(q < stg) PROVE FALSE
    OBVIOUS
  <2>1. PICK e \in Nat : q = stg + e
    <3>1. q - stg \in Nat
      BY <1>1, <1>3
    <3> QED BY <1>1, <1>3, <3>1
  <2>2. sw * q = stg * sw + sw * e /\ sw * e \in Nat
    BY <1>1, <2>1
  <2> QED BY <1>1, <1>2, <1>3, <2>2
<1>5. q \in 0 .. stg - 1 /\ r \in DeltaRows
  BY <1>1, <1>3, <1>4 DEF DeltaRows
<1>6. n = Switch(q, r)
  <2>1. sw * q = q * sw /\ sw * q \in Nat
    BY <1>1, <1>3
  <2> QED BY <1>1, <1>2, <1>3, <2>1 DEF Switch
<1> QED BY <1>2, <1>5, <1>6 DEF Stage, Row, q, r, z

LEMMA Levels ==
  /\ \A i \in 0 .. stg - 1, y \in DeltaRows : Level(Switch(i, y)) = stg - i
  /\ \A n \in DeltaTiles : Level(n) = stg + 1
  /\ \A w \in DeltaTopologies : \A n \in Nodes(w) : Level(n) \in 1 .. stg + 1
<1>1. n_delta_tiles \in Nat /\ stg \in 2 .. 10
  BY Shape
<1>2. \A i \in 0 .. stg - 1, y \in DeltaRows : Level(Switch(i, y)) = stg - i
  BY <1>1, SwitchOf DEF Level
<1>3. \A n \in DeltaTiles : Level(n) = stg + 1
  BY <1>1 DEF Level, DeltaTiles
<1>4. ASSUME NEW w \in DeltaTopologies, NEW n \in Nodes(w) PROVE Level(n) \in 1 .. stg + 1
  <2>1. CASE n \in DeltaTiles
    BY <1>1, <1>3, <2>1
  <2>2. CASE n \notin DeltaTiles
    <3>1. Stage(n) \in 0 .. stg - 1 /\ n = Switch(Stage(n), Row(n)) /\ Row(n) \in DeltaRows
      BY <2>2, SwitchAt
    <3>2. Level(n) = stg - Stage(n)
      BY <1>2, <3>1
    <3> QED BY <1>1, <3>1, <3>2
  <2> QED BY <2>1, <2>2
<1> QED BY <1>2, <1>3, <1>4

(* From a core into the first stage.                                       *)
LEMMA FirstAligned ==
  ASSUME NEW w \in DeltaTopologies, NEW s \in DeltaTiles, NEW t \in DeltaTiles
  PROVE  Aligned(w, 0, s \div 2, t)
<1> DEFINE y == s \div 2
<1>1. /\ sw \in Nat \ {0} /\ n_delta_tiles = 2 * sw /\ s \in 0 .. 2 * sw - 1 /\ t \in 0 .. 2 * sw - 1
      /\ Worth(0) = sw
  BY Shape DEF DeltaTiles
<1>2. y \in DeltaRows /\ y \in 0 .. sw - 1 /\ 0 \in 0 .. stg - 1
  BY <1>1, FirstStage DEF DeltaRows
<1> HIDE DEF y
<1>3. t \div (2 * Worth(0)) = 0 /\ y \div Worth(0) = 0
  <2> DEFINE b == 2 * sw
  <2>1. b \in Nat \ {0} /\ t \in 0 .. b - 1 /\ t = b * 0 + t /\ y = sw * 0 + y /\ 0 \in Nat
    BY <1>1, <1>2
  <2> HIDE DEF b
  <2>2. t \div b = 0
    BY <2>1, Quotient
  <2>3. y \div sw = 0
    BY <1>1, <1>2, <2>1, Quotient
  <2> QED BY <1>1, <2>2, <2>3 DEF b
<1>4. y % 2 ^ 0 = 0
  BY <1>2, Powers
<1> QED BY <1>2, <1>3, <1>4 DEF Aligned, y

LEMMA FirstHop ==
  ASSUME NEW w \in DeltaTopologies, NEW s \in DeltaTiles, NEW t \in DeltaTiles, s # t
  PROVE  DeltaHop(w, s, t, s, "NORTH") /\ Neighbor(w, s, "NORTH") = Switch(0, s \div 2)
<1> DEFINE y == s \div 2
<1>1. Aligned(w, 0, y, t) /\ y \in DeltaRows /\ 0 \in 0 .. stg - 1
  BY FirstAligned DEF Aligned
<1>2. s \in Nat /\ s < n_delta_tiles /\ t < n_delta_tiles /\ n_delta_tiles \in Nat
  BY Shape DEF DeltaTiles
<1>3. Neighbor(w, s, "NORTH") = Switch(0, y)
  <2>1. Neighbor(w, s, "NORTH") = DeltaNeighbor(w, s, "NORTH")
    BY DEF Neighbor, DeltaTopologies
  <2> QED BY <1>2, <2>1 DEF DeltaNeighbor, FirstSwitch
<1> HIDE DEF y
<1>4. OnSwitch(w, 0, y, t, Switch(0, y))
  BY <1>1 DEF OnSwitch
<1>5. Switch(0, y) \in Nodes(w) /\ Switch(0, y) # NOT_VALID /\ Switch(0, y) # t
  BY <1>1, <1>2, SwitchOf DEF NOT_VALID
<1>6. DeltaGap(t, Switch(0, y)) = DeltaGap(t, s) - 1
  <2>1. Level(Switch(0, y)) = stg - 0 /\ Level(s) = stg + 1
    BY <1>1, Levels
  <2> QED BY <1>5, <2>1, Shape DEF DeltaGap
<1>7. DELTA(s, t) = {"NORTH"}
  BY <1>2 DEF DELTA
<1> QED BY <1>1, <1>3, <1>4, <1>5, <1>6, <1>7 DEF DeltaHop, OnDeltaWay, y

(* From stage to stage.                                                    *)
LEMMA InnerHop ==
  ASSUME NEW w \in DeltaTopologies, NEW s \in DeltaTiles, NEW t \in DeltaTiles,
         NEW i \in 0 .. stg - 1, i # LastStage, NEW y, Aligned(w, i, y, t)
  PROVE  /\ DeltaHop(w, s, t, Switch(i, y), Output(i, t))
         /\ Neighbor(w, Switch(i, y), Output(i, t)) =
              Switch(i + 1, NextRow(w, i, y, BitAt(t, Worth(i))))
<1> DEFINE n == Switch(i, y)
           d == Output(i, t)
           k == NextRow(w, i, y, BitAt(t, Worth(i)))
<1>1. y \in DeltaRows
  BY DEF Aligned
<1>2. /\ n \in Nat /\ n >= n_delta_tiles /\ Stage(n) = i /\ Row(n) = y
      /\ DELTA(n, t) = {d} /\ d \in {"NORTH", "EAST"}
  BY <1>1, SwitchOf, DeltaOutput
<1>3. Fed(w, i, y, d) = {k}
  BY <1>1, DeltaFed
<1>4. i + 1 \in 0 .. stg - 1 /\ Aligned(w, i + 1, k, t) /\ k \in DeltaRows
  <2>1. Aligned(w, i + 1, k, t)
    BY StaysAligned
  <2> QED BY <2>1, Below2 DEF Aligned
<1> HIDE DEF n, d, k
<1>5. Neighbor(w, n, d) = Switch(i + 1, k)
  <2>1. Neighbor(w, n, d) = DeltaNeighbor(w, n, d)
    BY DEF Neighbor, DeltaTopologies
  <2>2. {r \in 0 .. sw - 1 : <<Row(n), d>> \in Feeds(w, Stage(n) + 1, r)} = {k}
    BY <1>2, <1>3 DEF Fed, DeltaRows
  <2>3. ~(n < n_delta_tiles) /\ Stage(n) # stg - 1 /\ Stage(n) + 1 = i + 1
    BY <1>2, Shape DEF LastStage
  <2>4. (CHOOSE r \in {k} : TRUE) = k
    OBVIOUS
  <2> QED BY <1>2, <2>1, <2>2, <2>3, <2>4 DEF DeltaNeighbor
<1>6. Switch(i + 1, k) \in Nodes(w) /\ Switch(i + 1, k) # NOT_VALID
  BY <1>4, SwitchOf DEF NOT_VALID
<1>7. OnSwitch(w, i + 1, k, t, Switch(i + 1, k))
  BY <1>4 DEF OnSwitch
<1>8. DeltaGap(t, Switch(i + 1, k)) = DeltaGap(t, n) - 1
  <2>1. Level(Switch(i + 1, k)) = stg - (i + 1) /\ Level(n) = stg - i
    BY <1>1, <1>4, Levels DEF n
  <2>2. Switch(i + 1, k) # t /\ n # t
    BY <1>2, <1>4, SwitchOf, Shape DEF DeltaTiles
  <2> QED BY <2>1, <2>2, Shape DEF DeltaGap
<1> QED BY <1>2, <1>4, <1>5, <1>6, <1>7, <1>8 DEF DeltaHop, OnDeltaWay, n, d, k

(* From the last stage to the destination.                                 *)
LEMMA LastHop ==
  ASSUME NEW w \in DeltaTopologies, NEW s \in DeltaTiles, NEW t \in DeltaTiles,
         NEW y, Aligned(w, LastStage, y, t)
  PROVE  /\ DeltaHop(w, s, t, Switch(LastStage, y), Output(LastStage, t))
         /\ Neighbor(w, Switch(LastStage, y), Output(LastStage, t)) = t
<1> DEFINE n == Switch(LastStage, y)
           d == Output(LastStage, t)
<1>1. y \in DeltaRows /\ LastStage \in 0 .. stg - 1 /\ Worth(LastStage) = 1 /\ t \in Nat
  BY Shape DEF Aligned, LastStage, DeltaTiles
<1>2. /\ n \in Nat /\ n >= n_delta_tiles /\ Stage(n) = LastStage /\ Row(n) = y
      /\ DELTA(n, t) = {d} /\ d \in {"NORTH", "EAST"} /\ BitAt(t, 1) \in {0, 1}
      /\ d = "NORTH" <=> BitAt(t, 1) = 0
  BY <1>1, SwitchOf, DeltaOutput
<1> HIDE DEF n, d
<1>3. y = t \div 2
  <2>1. CASE w = "OMEGA"
    <3>1. y % 2 ^ LastStage = t \div (2 * Worth(LastStage))
      BY <2>1 DEF Aligned
    <3>2. 2 ^ LastStage = sw
      <4>1. 2 ^ LastStage * Worth(LastStage) = sw /\ 2 ^ LastStage \in Nat
        BY <1>1, Shape
      <4> QED BY <1>1, <4>1
    <3>3. y \in 0 .. sw - 1 /\ sw \in Nat \ {0} /\ y = sw * 0 + y /\ 0 \in Nat
      BY <1>1, Shape DEF DeltaRows
    <3>4. y % sw = y
      BY <3>3, Quotient
    <3> QED BY <1>1, <3>1, <3>2, <3>4
  <2>2. CASE w # "OMEGA"
    <3>1. y \div Worth(LastStage) = t \div (2 * Worth(LastStage)) /\ y \in Nat
      BY <1>1, <2>2, Shape DEF Aligned, DeltaRows
    <3> QED BY <1>1, <3>1
  <2> QED BY <2>1, <2>2
<1>4. BitAt(t, 1) = t % 2
  BY <1>1 DEF BitAt
<1>5. CoreBehind(y, d) = t
  BY <1>1, <1>2, <1>3, <1>4 DEF CoreBehind
<1>6. Neighbor(w, n, d) = t
  <2>1. Neighbor(w, n, d) = DeltaNeighbor(w, n, d)
    BY DEF Neighbor, DeltaTopologies
  <2>2. ~(n < n_delta_tiles) /\ Stage(n) = stg - 1
    BY <1>2, Shape DEF LastStage
  <2> QED BY <1>2, <1>5, <2>1, <2>2 DEF DeltaNeighbor
<1>7. t \in Nodes(w) /\ t # NOT_VALID
  BY <1>1, TilesAreNodes DEF NOT_VALID
<1>8. DeltaGap(t, t) = DeltaGap(t, n) - 1
  <2>1. Level(n) = stg - LastStage
    BY <1>1, Levels DEF n
  <2>2. n # t
    BY <1>2, Shape DEF DeltaTiles
  <2> QED BY <2>1, <2>2, Shape DEF DeltaGap, LastStage
<1> QED BY <1>2, <1>6, <1>7, <1>8 DEF DeltaHop, OnDeltaWay, n, d

LEMMA EveryHop ==
  ASSUME NEW w \in DeltaTopologies, NEW s \in DeltaTiles, NEW t \in DeltaTiles,
         NEW n, OnDeltaWay(w, s, t, n), n # t
  PROVE  \E d \in {"NORTH", "EAST"} : DELTA(n, t) = {d} /\ DeltaHop(w, s, t, n, d)
<1>1. CASE n = s
  BY <1>1, FirstHop DEF DeltaHop
<1>2. CASE \E i \in 0 .. stg - 1, y \in DeltaRows : OnSwitch(w, i, y, t, n)
  <2>1. PICK i \in 0 .. stg - 1, y \in DeltaRows : n = Switch(i, y) /\ Aligned(w, i, y, t)
    BY <1>2 DEF OnSwitch
  <2>2. CASE i = LastStage
    BY <2>1, <2>2, LastHop DEF DeltaHop
  <2>3. CASE i # LastStage
    BY <2>1, <2>3, InnerHop DEF DeltaHop
  <2> QED BY <2>2, <2>3
<1> QED BY <1>1, <1>2 DEF OnDeltaWay

(* So no chain of waits on a delta network is endless.                     *)
LEMMA DeltaHeld ==
  ASSUME NEW w \in DeltaTopologies, NEW s \in DeltaTiles, NEW t \in DeltaTiles,
         NEW c \in Held(w, "DELTA", s, t)
  PROVE  c[1] # t /\ OnDeltaWay(w, s, t, c[1]) /\ c[2] \in DELTA(c[1], t)
<1> DEFINE G == {v \in Nodes(w) \X (Directions \cup {"LOCAL"}) : OnDeltaWay(w, s, t, v[1])}
<1>1. \A v : Candidates("DELTA", v[1], s, t, v[2]) = DELTA(v[1], t)
  BY DEF Candidates
<1>2. KeptBy(G, w, "DELTA", s, t)
  <2>1. <<s, "LOCAL">> \in G
    BY TilesAreNodes DEF OnDeltaWay
  <2>2. ASSUME NEW v \in G, v[1] # t, NEW d \in DELTA(v[1], t)
        PROVE  <<Neighbor(w, v[1], d), reflexDirection(d)>> \in G
    <3>1. DeltaHop(w, s, t, v[1], d)
      BY <2>2, EveryHop
    <3>2. reflexDirection(d) \in Directions
      BY <3>1 DEF DeltaHop, reflexDirection, Directions
    <3> QED BY <3>1, <3>2 DEF DeltaHop
  <2> HIDE DEF G
  <2> QED BY <1>1, <2>1, <2>2 DEF KeptBy, From
<1>3. Visited(w, "DELTA", s, t) \subseteq G
  <2> HIDE DEF G
  <2> QED BY <1>2, TilesAreNodes, VisitedStay
<1>4. PICK v \in G : v[1] # t /\ c \in {v[1]} \X DELTA(v[1], t)
  BY <1>1, <1>3 DEF Held
<1> QED BY <1>4

LEMMA DeltaWaitsEnd ==
  ASSUME NEW w \in DeltaTopologies
  PROVE  Endless(w, "DELTA") = {}
<1> DEFINE C == Channels(w)
           rank == [c \in C |-> Level(c[1])]
<1>1. C \subseteq Nodes(w) \X Directions
  BY DEF Channels
<1>2. IsFiniteSet(C)
  <2>1. IsFiniteSet(Directions)
    <3>1. Directions = {"NORTH"} \cup ({"EAST"} \cup ({"SOUTH"} \cup {"WEST"}))
      BY DEF Directions
    <3> QED BY <3>1, FS_Singleton, FS_Union
  <2>2. IsFiniteSet(Nodes(w) \X Directions)
    BY <2>1, TilesAreNodes, FS_Product
  <2> QED BY <1>1, <2>2, FS_Subset
<1>3. rank \in [C -> Nat]
  <2>1. \A n \in Nodes(w) : Level(n) \in Nat
    BY Levels, Shape
  <2> HIDE DEF C
  <2> QED BY <1>1, <2>1
<1>4. ASSUME NEW x \in MayWait(w, "DELTA"), x[1] \in C, x[2] \in C
      PROVE  rank[x[2]] < rank[x[1]]
  <2>1. PICK s \in DeltaTiles, t \in DeltaTiles :
          /\ x[1] \in Held(w, "DELTA", s, t) /\ x[2] \in Held(w, "DELTA", s, t)
          /\ x[2][1] = End(w, x[1])
    BY TilesAreNodes DEF MayWait
  <2> DEFINE n == x[1][1]
             d == x[1][2]
             m == x[2][1]
  <2>2. n # t /\ OnDeltaWay(w, s, t, n) /\ d \in DELTA(n, t) /\ m # t
    BY <2>1, DeltaHeld
  <2>3. m = Neighbor(w, n, d)
    BY <2>1 DEF End
  <2>4. DeltaHop(w, s, t, n, d)
    BY <2>2, EveryHop
  <2>5. Level(m) = Level(n) - 1
    BY <2>2, <2>3, <2>4 DEF DeltaHop, DeltaGap
  <2>6. Level(n) \in Nat
    BY <1>1, <1>3, <1>4
  <2> QED BY <1>4, <2>5, <2>6
<1>5. LowersAll(rank, C, MayWait(w, "DELTA"))
  BY <1>3, <1>4 DEF LowersAll
<1> QED BY <1>2, <1>5, WaitsEnd

(* No packet of a mesh or of a delta network, of whatever size, waits      *)
(* through any chain of others for a channel it holds itself: only a       *)
(* routing table that is circular can bring that about.                    *)
THEOREM NobodyWaitsInACircle ==
  ASSUME <<"MESH", "TABLE_BASED">> \notin CircularNetworks
  PROVE  Spec => []NoCircle
<1>1. \A net \in Combinations :
        net[1] \in {"MESH"} \cup DeltaTopologies /\ net # <<"MESH", "TABLE_BASED">>
          => Endless(net[1], net[2]) = {}
  <2> SUFFICES ASSUME NEW net \in Combinations,
                      net[1] \in {"MESH"} \cup DeltaTopologies, net # <<"MESH", "TABLE_BASED">>
               PROVE  Endless(net[1], net[2]) = {}
    OBVIOUS
  <2>1. CASE net[1] = "MESH"
    <3>1. net[2] \in MeshAlgorithms
      BY <2>1 DEF Combinations, DeltaTopologies
    <3> QED BY <2>1, <3>1, MeshWaitsEnd
  <2>2. CASE net[1] \in DeltaTopologies
    <3>1. net[2] = "DELTA"
      BY <2>2 DEF Combinations, DeltaTopologies
    <3> QED BY <2>2, <3>1, DeltaWaitsEnd
  <2> QED BY <2>1, <2>2
<1>2. NoCircle
  <2>1. ASSUME NEW w, NEW a, <<w, a>> \in CircularNetworks
        PROVE  w \notin {"MESH"} \cup DeltaTopologies
    <3>1. PICK net \in Networks : Endless(net[1], net[2]) # {} /\ <<w, a>> = net
      BY <2>1 DEF CircularNetworks
    <3>2. net \in Combinations /\ net # <<"MESH", "TABLE_BASED">> /\ net[1] = w
      BY <2>1, <3>1, NetworksAssumption
    <3> QED BY <1>1, <3>1, <3>2
  <2> QED BY <2>1 DEF NoCircle
<1> QED BY <1>2, PTL

-----------------------------------------------------------------------------
(***************************************************************************)
(* nextDeltaHops foretells the way of a butterfly.                         *)
(***************************************************************************)
RowAfter(i, y, t) ==
  LET straight == DELTA(Switch(i - 1, y), t) = {DirectionOf(Bit(y, stg - i - 1))}
  IN  IF straight THEN y ELSE toggleKthBit(y, stg - i)

IsRow(f, s, t) ==
  f = [i \in 0 .. stg - 1 |-> IF i = 0 THEN s \div 2 ELSE RowAfter(i, f[i - 1], t)]

LEMMA RowStep ==
  ASSUME NEW i \in 0 .. stg - 1, i # LastStage, NEW y \in DeltaRows, NEW t \in DeltaTiles
  PROVE  /\ RowAfter(i + 1, y, t) = NextRow("BUTTERFLY", i, y, BitAt(t, Worth(i)))
         /\ RowAfter(i + 1, y, t) \in DeltaRows
<1> DEFINE b == Worth(i + 1)
           c == BitAt(t, Worth(i))
<1>1. b \in Nat \ {0} /\ y \in Nat /\ i \in Nat /\ (i + 1) - 1 = i
  BY StageFacts, Shape DEF DeltaRows
<1>2. c \in {0, 1} /\ DELTA(Switch(i, y), t) = {DirectionOf(c)}
  BY DeltaOutput DEF Output
<1>3. stg - (i + 1) - 1 = stg - 1 - (i + 1)
  BY <1>1, Shape
<1>4. toggleKthBit(y, stg - (i + 1)) = Toggled(y, b)
  BY <1>3 DEF toggleKthBit, Toggled, BitAt, Worth
<1>5. Bit(y, stg - (i + 1) - 1) = BitAt(y, b)
  BY <1>3 DEF Bit, BitAt, Worth
<1>6. BitAt(y, b) \in {0, 1}
  BY <1>1, Halves
<1> HIDE DEF b, c
<1>7. {DirectionOf(c)} = {DirectionOf(BitAt(y, b))} <=> BitAt(y, b) = c
  BY <1>2, <1>6 DEF DirectionOf
<1>8. RowAfter(i + 1, y, t) = WithBit(y, b, c)
  BY <1>1, <1>2, <1>4, <1>5, <1>7 DEF RowAfter, WithBit
<1>9. WithBit(y, b, c) \in DeltaRows
  BY <1>2, BitSetRow DEF b
<1> QED BY <1>8, <1>9 DEF NextRow, b, c

LEMMA RowExists ==
  ASSUME NEW s \in DeltaTiles, NEW t \in DeltaTiles
  PROVE  \E f : IsRow(f, s, t)
<1> DEFINE I == 0 .. stg - 1
           V == Nat \X DeltaRows
           step == [p \in V |-> <<p[1] + 1, IF p[1] \in I /\ p[1] # LastStage
                                              THEN RowAfter(p[1] + 1, p[2], t) ELSE p[2]>>]
           base == <<0, s \div 2>>
<1>1. step \in [V -> V]
  <2> SUFFICES ASSUME NEW p \in V PROVE step[p] \in V
    OBVIOUS
  <2>1. p[1] \in Nat /\ p[2] \in DeltaRows
    OBVIOUS
  <2>2. p[1] \in I /\ p[1] # LastStage => RowAfter(p[1] + 1, p[2], t) \in DeltaRows
    BY <2>1, RowStep
  <2> QED BY <2>1, <2>2
<1>2. base \in V
  <2>1. s \div 2 \in DeltaRows
    BY Shape DEF DeltaTiles, DeltaRows
  <2> QED BY <2>1
<1>3. PICK f \in [Nat -> V] : f[0] = base /\ \A k \in Nat : f[k + 1] = step[f[k]]
  <2> HIDE DEF V, step, base
  <2>1. Stepping(V, step, base)
    BY <1>1, <1>2 DEF Stepping
  <2>2. PICK f : Stepped(f, V, step, base)
    BY <2>1, Iterates
  <2> QED BY <2>2 DEF Stepped
<1>4. \A k \in Nat : f[k] \in V
  <2> HIDE DEF V
  <2> QED BY <1>3
<1>5. \A k \in Nat : f[k][1] = k
  <2> DEFINE T == {k \in Nat : f[k][1] = k}
  <2>1. 0 \in T
    BY <1>3
  <2>2. ASSUME NEW k \in T PROVE k + 1 \in T
    <3>1. \A p \in V : step[p][1] = p[1] + 1
      OBVIOUS
    <3>2. k \in Nat /\ f[k][1] = k
      OBVIOUS
    <3> HIDE DEF V, step, T
    <3>3. f[k + 1][1] = k + 1
      BY <1>3, <1>4, <3>1, <3>2
    <3> QED BY <3>2, <3>3 DEF T
  <2>3. T \in SUBSET Nat
    OBVIOUS
  <2>4. T = Nat
    <3> HIDE DEF T
    <3> QED BY <2>1, <2>2, <2>3, UpFromZero
  <2> QED BY <2>4
<1> DEFINE row == [i \in I |-> f[i][2]]
<1>6. I \subseteq Nat
  OBVIOUS
<1>7. ASSUME NEW i \in I
      PROVE  row[i] = IF i = 0 THEN s \div 2 ELSE RowAfter(i, row[i - 1], t)
  <2>1. CASE i = 0
    BY <1>3, <2>1
  <2>2. CASE i # 0
    <3>1. i - 1 \in I /\ i - 1 \in Nat /\ i - 1 # LastStage /\ (i - 1) + 1 = i
      BY <2>2, Shape DEF LastStage
    <3> DEFINE j == i - 1
    <3>2. f[j + 1] = step[f[j]] /\ f[j] \in V /\ f[j][1] = j
      BY <1>3, <1>4, <1>5, <3>1
    <3>3. f[j + 1][2] = RowAfter(j + 1, f[j][2], t)
      <4> HIDE DEF j
      <4> QED BY <3>1, <3>2 DEF j
    <3> QED BY <2>2, <3>1, <3>3
  <2> QED BY <2>1, <2>2
<1>8. row = [i \in I |-> row[i]]
  OBVIOUS
<1> HIDE DEF row
<1>9. row = [i \in I |-> IF i = 0 THEN s \div 2 ELSE RowAfter(i, row[i - 1], t)]
  BY <1>7, <1>8
<1> QED BY <1>9 DEF IsRow

LEMMA Foretold ==
  ASSUME NEW s \in DeltaTiles, NEW t \in DeltaTiles
  PROVE  /\ nextDeltaRow(s, t)[0] = s \div 2
         /\ \A i \in 0 .. stg - 1 :
              /\ Aligned("BUTTERFLY", i, nextDeltaRow(s, t)[i], t)
              /\ i # LastStage => nextDeltaRow(s, t)[i + 1] =
                   NextRow("BUTTERFLY", i, nextDeltaRow(s, t)[i], BitAt(t, Worth(i)))
<1> DEFINE I == 0 .. stg - 1
           row == nextDeltaRow(s, t)
<1>1. IsRow(row, s, t)
  <2> DEFINE f == CHOOSE g : IsRow(g, s, t)
  <2>1. IsRow(f, s, t)
    BY RowExists
  <2>2. row = f
    BY DEF nextDeltaRow, IsRow, RowAfter
  <2> QED BY <2>1, <2>2
<1> HIDE DEF row
<1>2. \A i \in I : row[i] = IF i = 0 THEN s \div 2 ELSE RowAfter(i, row[i - 1], t)
  BY <1>1 DEF IsRow
<1>3. \A i \in I : i # LastStage => i + 1 \in I /\ i + 1 # 0 /\ (i + 1) - 1 = i
  BY Below2
<1>4. ASSUME NEW i \in I, i # LastStage, Aligned("BUTTERFLY", i, row[i], t)
      PROVE  /\ row[i + 1] = NextRow("BUTTERFLY", i, row[i], BitAt(t, Worth(i)))
             /\ Aligned("BUTTERFLY", i + 1, row[i + 1], t)
  <2>1. row[i] \in DeltaRows
    BY <1>4 DEF Aligned
  <2>2. row[i + 1] = RowAfter(i + 1, row[i], t)
    BY <1>2, <1>3, <1>4
  <2>3. row[i + 1] = NextRow("BUTTERFLY", i, row[i], BitAt(t, Worth(i)))
    BY <1>4, <2>1, <2>2, RowStep
  <2>4. "BUTTERFLY" \in DeltaTopologies
    BY DEF DeltaTopologies
  <2> QED BY <1>4, <2>3, <2>4, StaysAligned
<1>5. 0 \in I /\ row[0] = s \div 2 /\ Aligned("BUTTERFLY", 0, row[0], t)
  <2>1. 0 \in I /\ row[0] = s \div 2
    BY <1>2, FirstStage
  <2>2. Aligned("BUTTERFLY", 0, s \div 2, t)
    BY FirstAligned DEF DeltaTopologies
  <2> QED BY <2>1, <2>2
<1> DEFINE T == {i \in Nat : i \in I => Aligned("BUTTERFLY", i, row[i], t)}
<1>6. T = Nat
  <2>1. 0 \in T
    BY <1>5
  <2>2. ASSUME NEW i \in T PROVE i + 1 \in T
    <3> SUFFICES ASSUME i + 1 \in I PROVE Aligned("BUTTERFLY", i + 1, row[i + 1], t)
      OBVIOUS
    <3>1. i \in I /\ i # LastStage
      BY Shape DEF LastStage
    <3> QED BY <1>4, <3>1
  <2>3. T \in SUBSET Nat
    OBVIOUS
  <2> HIDE DEF T
  <2> QED BY <2>1, <2>2, <2>3, UpFromZero
<1>7. \A i \in I : Aligned("BUTTERFLY", i, row[i], t)
  <2>1. \A i \in I : i \in T
    BY <1>6
  <2> QED BY <2>1
<1> QED BY <1>4, <1>5, <1>7 DEF row

-----------------------------------------------------------------------------
LEMMA LeastOf ==
  ASSUME NEW S \in SUBSET Nat, S # {}
  PROVE  Min(S) \in S /\ \A y \in S : Min(S) <= y
<1>1. PICK x \in S : \A y \in S : ~(<<y, x>> \in OpToRel(<, Nat))
  BY NatLessThanWellFounded, WFMin, Zenon
<1>2. ASSUME NEW y \in S PROVE x <= y
  <2>1. x \in Nat /\ y \in Nat
    OBVIOUS
  <2>2. ~(y < x)
    BY <1>1, <2>1 DEF OpToRel
  <2> QED BY <2>1, <2>2
<1> QED BY <1>2 DEF Min

(***************************************************************************)
(* A packet on a delta network is always at a node of its way, by wire or  *)
(* by radio.                                                               *)
(***************************************************************************)
OnDelta == topology \in DeltaTopologies

OnItsWay ==
  OnDelta => /\ OnDeltaWay(topology, src_id, dst_id, current_id)
             /\ hub_relay_node # NOT_VALID => OnDeltaWay(topology, src_id, dst_id, hub_relay_node)

LEMMA DeltaFacts ==
  ASSUME Configured, OnDelta
  PROVE  src_id \in DeltaTiles /\ dst_id \in DeltaTiles /\ routing_algorithm = "DELTA"
<1>1. routing_algorithm = "DELTA"
  BY DEF Configured, OnDelta, Combinations, DeltaTopologies
<1> QED BY <1>1, TilesAreNodes DEF Configured, OnDelta

LEMMA RelayOnTheWay ==
  ASSUME NEW c, c.winoc_dst_hops \in 0 .. stg, NEW n, NEW s \in DeltaTiles, NEW t \in DeltaTiles,
         Relay(c, n, s, t) # NOT_VALID
  PROVE  OnDeltaWay("BUTTERFLY", s, t, Relay(c, n, s, t))
<1> DEFINE hop(i) == nextDeltaHops(s, t)[stg + 1 - i]
           good == {i \in 1 .. c.winoc_dst_hops : hasRadioHub(c, hop(i)) /\ ~sameRadioHub(c, n, hop(i))}
<1>1. good # {} /\ Relay(c, n, s, t) = hop(Min(good))
  BY DEF Relay
<1>2. stg \in Nat /\ good \subseteq 1 .. stg
  BY Shape
<1> HIDE DEF good
<1>3. Min(good) \in 1 .. stg
  <2>1. good \in SUBSET Nat
    BY <1>2
  <2> QED BY <1>1, <1>2, <2>1, LeastOf
<1> DEFINE i == stg - Min(good)
<1>4. i \in 0 .. stg - 1 /\ stg + 1 - Min(good) = i + 1
  BY <1>2, <1>3
<1> HIDE DEF i
<1>5. hop(Min(good)) = Switch(i, nextDeltaRow(s, t)[i])
  <2>1. i + 1 \in 1 .. stg + 1 /\ i + 1 # stg + 1 /\ (i + 1) - 1 = i
    BY <1>2, <1>4
  <2> QED BY <1>4, <2>1 DEF nextDeltaHops
<1>6. Aligned("BUTTERFLY", i, nextDeltaRow(s, t)[i], t)
  BY <1>4, Foretold
<1>7. nextDeltaRow(s, t)[i] \in DeltaRows
  BY <1>6 DEF Aligned
<1> QED BY <1>1, <1>4, <1>5, <1>6, <1>7 DEF OnDeltaWay, OnSwitch

LEMMA OnItsWayInit == Init /\ Bearings => OnItsWay
BY DEF Init, OnItsWay, OnDeltaWay

LEMMA OnItsWayNext ==
  ASSUME Bearings, OnItsWay, [Next]_vars
  PROVE  OnItsWay'
<1> USE DEF OnItsWay
<1>1. UNCHANGED network
  BY DEF Next, vars, ToHub, ToRelay, Radio, Hop
<1>2. OnDelta' <=> OnDelta
  BY <1>1 DEF network, OnDelta
<1> SUFFICES ASSUME OnDelta
             PROVE  /\ OnDeltaWay(topology, src_id, dst_id, current_id')
                    /\ hub_relay_node' # NOT_VALID =>
                         OnDeltaWay(topology, src_id, dst_id, hub_relay_node')
  BY <1>1, <1>2 DEF network
<1>3. src_id \in DeltaTiles /\ dst_id \in DeltaTiles /\ routing_algorithm = "DELTA"
  BY DeltaFacts DEF Bearings
<1>4. CASE ToHub
  BY <1>4 DEF ToHub
<1>5. CASE ToRelay
  <2>1. RelayTaken # NOT_VALID /\ hub_relay_node' = RelayTaken /\ current_id' = current_id
    BY <1>5 DEF ToRelay, TakesWire
  <2>2. hubs.winoc_dst_hops \in 0 .. stg
    BY DEF Bearings, Configured, HubsConfigured
  <2>3. topology = "BUTTERFLY"
    <3>1. hubs.winoc_dst_hops # 0
      BY <2>1, NoRelay DEF RelayTaken
    <3> QED BY <2>2, <3>1 DEF Bearings, Configured
  <2> QED BY <1>3, <2>1, <2>2, <2>3, RelayOnTheWay DEF RelayTaken
<1>6. CASE Radio
  <2>1. OnDeltaWay(topology, src_id, dst_id, dst_id)
    BY DEF OnDeltaWay
  <2> QED BY <1>6, <2>1 DEF Radio, RadioTarget
<1>7. ASSUME NEW d \in Directions, Hop(d)
      PROVE  /\ OnDeltaWay(topology, src_id, dst_id, current_id')
             /\ UNCHANGED hub_relay_node
  <2>1. d \in DELTA(current_id, dst_id) /\ current_id # dst_id
    BY <1>3, <1>7 DEF Hop, Offered, Candidates, Underway
  <2>2. DeltaHop(topology, src_id, dst_id, current_id, d)
    BY <1>3, <2>1, EveryHop DEF OnDelta
  <2> QED BY <1>7, <2>2 DEF Hop, DeltaHop
<1>8. CASE UNCHANGED vars
  BY <1>8 DEF vars
<1> QED BY <1>4, <1>5, <1>6, <1>7, <1>8 DEF Next

LEMMA OnItsWayAlways == Spec => []OnItsWay
BY BearingsInit, BearingsAlways, OnItsWayInit, OnItsWayNext, PTL DEF Spec

LEMMA DeltaOffers ==
  ASSUME Bearings, OnItsWay, OnDelta, Underway
  PROVE  \E d \in {"NORTH", "EAST"} :
           Offered = {d} /\ DeltaHop(topology, src_id, dst_id, current_id, d)
<1>1. src_id \in DeltaTiles /\ dst_id \in DeltaTiles /\ routing_algorithm = "DELTA"
  BY DeltaFacts DEF Bearings
<1>2. Offered = DELTA(current_id, dst_id)
  BY <1>1 DEF Offered, Candidates
<1> QED BY <1>1, <1>2, EveryHop DEF OnDelta, OnItsWay, Underway

-----------------------------------------------------------------------------
(***************************************************************************)
(* The octagon, by its own table: a ring of eight with a chord from each   *)
(* node to the one opposite.                                               *)
(***************************************************************************)
Spokes(n) ==
  CASE n = 0 -> {1, 4, 7} [] n = 1 -> {2, 5, 0} [] n = 2 -> {3, 6, 1} [] n = 3 -> {4, 7, 2}
    [] n = 4 -> {0, 5, 3} [] n = 5 -> {1, 6, 4} [] n = 6 -> {2, 7, 5} [] n = 7 -> {3, 0, 6}

Steps(n, m) == IF n = m THEN 0 ELSE IF m \in Spokes(n) THEN 1 ELSE 2

OctagonEnds == 0 .. 7

OctagonSucc == [n \in OctagonEnds |-> {OctagonTable[n][k] : k \in 1 .. 4} \ {NOT_VALID}]

LEMMA OctagonEight == OctagonEnds = {0, 1, 2, 3, 4, 5, 6, 7}
BY DEF OctagonEnds

LEMMA SuccIsSpokes ==
  ASSUME NEW n \in OctagonEnds
  PROVE  OctagonSucc[n] = Spokes(n)
<1>1. 1 .. 4 = {1, 2, 3, 4}
  OBVIOUS
<1>2. OctagonSucc[n] =
        {OctagonTable[n][1], OctagonTable[n][2], OctagonTable[n][3], OctagonTable[n][4]} \ {NOT_VALID}
  BY <1>1 DEF OctagonSucc
<1>3. n \in {0, 1, 2, 3, 4, 5, 6, 7}
  BY OctagonEight
<1> QED BY <1>2, <1>3 DEF OctagonTable, Spokes, NOT_VALID

LEMMA OctagonMeasured ==
  ASSUME NEW n \in OctagonEnds
  PROVE  Measures([m \in OctagonEnds |-> Steps(n, m)], OctagonEnds, OctagonSucc, n)
<1> DEFINE D == [m \in OctagonEnds |-> Steps(n, m)]
<1>1. /\ OctagonEnds \in SUBSET Nat /\ DOMAIN OctagonSucc = OctagonEnds
      /\ D \in [OctagonEnds -> Nat] /\ \A m \in OctagonEnds : D[m] \in OctagonEnds
      /\ \A m \in OctagonEnds : D[m] = 0 <=> m = n
  BY DEF OctagonEnds, OctagonSucc, Steps
<1>2. ASSUME NEW m \in OctagonEnds
      PROVE  OctagonSucc[m] \subseteq OctagonEnds /\ \A l \in OctagonSucc[m] : D[l] <= D[m] + 1
  <2> SUFFICES ASSUME NEW l \in OctagonSucc[m] PROVE l \in OctagonEnds /\ D[l] <= D[m] + 1
    OBVIOUS
  <2>1. l \in Spokes(m) /\ m \in {0, 1, 2, 3, 4, 5, 6, 7}
    BY SuccIsSpokes, OctagonEight
  <2>2. l \in OctagonEnds
    BY <2>1 DEF Spokes, OctagonEnds
  <2>3. D[l] <= D[m] + 1
    BY <2>1, <2>2 DEF Steps
  <2> QED BY <2>2, <2>3
<1>3. ASSUME NEW m \in OctagonEnds, D[m] # 0
      PROVE  \E l \in OctagonEnds : m \in OctagonSucc[l] /\ D[l] = D[m] - 1
  <2>1. m # n
    BY <1>1, <1>3
  <2>2. n \in {0, 1, 2, 3, 4, 5, 6, 7} /\ m \in {0, 1, 2, 3, 4, 5, 6, 7}
    BY OctagonEight
  <2>3. CASE m \in Spokes(n)
    <3>1. D[m] = 1 /\ D[n] = 0
      BY <2>1, <2>3 DEF Steps
    <3> QED BY <2>3, <3>1, SuccIsSpokes
  <2>4. CASE m \notin Spokes(n)
    <3>1. D[m] = 2
      BY <2>1, <2>4 DEF Steps
    <3>2. \E l \in {0, 1, 2, 3, 4, 5, 6, 7} : l \in Spokes(n) /\ m \in Spokes(l) /\ l # n
      BY <2>1, <2>2, <2>4 DEF Spokes
    <3>3. PICK l \in OctagonEnds : l \in Spokes(n) /\ m \in Spokes(l) /\ l # n
      BY <3>2, OctagonEight
    <3>4. D[l] = 1
      BY <3>3 DEF Steps
    <3> QED BY <3>1, <3>3, <3>4, SuccIsSpokes
  <2> QED BY <2>3, <2>4
<1> HIDE DEF D
<1>4. Measures(D, OctagonEnds, OctagonSucc, n)
  BY <1>1, <1>2, <1>3 DEF Measures
<1> QED BY <1>4 DEF D

(* It offers the direction of one of the node's links, and every one of    *)
(* them is wired, though not always to the node that the table says.       *)
LEMMA OctagonWired ==
  ASSUME NEW n \in OctagonEnds, NEW k \in 1 .. 4, OctagonTable[n][k] # NOT_VALID
  PROVE  /\ OctagonOrder[k] \in Directions
         /\ OctagonNeighbor(n, OctagonOrder[k]) \in OctagonEnds
<1> DEFINE d == OctagonOrder[k]
           ends == {l[3] : l \in {j \in OctagonLinks : j[1] = n /\ j[2] = d}}
                   \cup {l[1] : l \in {j \in OctagonLinks : j[3] = n /\ j[4] = d}}
<1>1. n \in {0, 1, 2, 3, 4, 5, 6, 7} /\ k \in {1, 2, 3, 4}
  BY OctagonEight
<1>2. d \in Directions
  BY <1>1 DEF OctagonOrder, Directions
<1>3. ends \subseteq OctagonEnds
  BY DEF OctagonLinks, OctagonEnds
<1>4. ends # {}
  <2>1. \E l \in OctagonLinks : (l[1] = n /\ l[2] = d) \/ (l[3] = n /\ l[4] = d)
    BY <1>1 DEF OctagonLinks, OctagonOrder, OctagonTable, NOT_VALID
  <2> QED BY <2>1
<1>5. OctagonNeighbor(n, d) = CHOOSE m \in ends : TRUE
  BY <1>4 DEF OctagonNeighbor
<1> HIDE DEF ends, d
<1>6. OctagonNeighbor(n, d) \in OctagonEnds
  BY <1>3, <1>4, <1>5
<1> QED BY <1>2, <1>6 DEF d

LEMMA OctagonOffers ==
  ASSUME NEW n \in OctagonEnds, NEW t \in OctagonEnds
  PROVE  \E d \in Directions : OCTAGON(n, t) = {d} /\ OctagonNeighbor(n, d) \in OctagonEnds
<1> DEFINE ways == {k \in 1 .. 4 : OctagonTable[n][k] # NOT_VALID}
           dist(k) == OctagonDistance[t][OctagonTable[n][k]]
           best == {k \in ways : \A l \in ways : dist(k) <= dist(l)}
           dists == {dist(k) : k \in ways}
<1>1. n \in {0, 1, 2, 3, 4, 5, 6, 7}
  BY OctagonEight
<1>2. \A k \in ways : OctagonTable[n][k] \in OctagonEnds
  BY <1>1 DEF OctagonTable, OctagonEnds, NOT_VALID
<1>3. 3 \in ways \/ 2 \in ways
  <2>1. OctagonTable[n][2] # -1 \/ OctagonTable[n][3] # -1
    <3>1. CASE n = 3
      <4>1. OctagonTable[3] = <<4, NOT_VALID, 7, 2>>
        BY DEF OctagonTable
      <4> QED BY <3>1, <4>1
    <3>2. CASE n # 3
      <4>1. OctagonTable[n][2] \in 0 .. 7
        BY <1>1, <3>2 DEF OctagonTable
      <4> QED BY <4>1
    <3> QED BY <3>1, <3>2
  <2>2. 2 \in 1 .. 4 /\ 3 \in 1 .. 4
    OBVIOUS
  <2> QED BY <2>1, <2>2 DEF NOT_VALID
<1>4. \A m \in OctagonEnds : OctagonDistance[t][m] \in Nat
  <2>1. OctagonDistance[t] = HopsIn(OctagonSucc, t)
    BY DEF OctagonDistance, OctagonSucc, OctagonEnds
  <2>2. ASSUME NEW m \in OctagonEnds PROVE HopsIn(OctagonSucc, t)[m] = Steps(t, m)
    <3> DEFINE D == [k \in OctagonEnds |-> Steps(t, k)]
    <3>1. Measures(D, OctagonEnds, OctagonSucc, t)
      BY OctagonMeasured
    <3>2. D[m] = Steps(t, m)
      OBVIOUS
    <3> HIDE DEF D
    <3> QED BY <3>1, <3>2, HopsAreDistances
  <2> QED BY <2>1, <2>2 DEF Steps
<1>5. dists \in SUBSET Nat /\ dists # {}
  BY <1>2, <1>3, <1>4
<1>6. best # {}
  <2>1. Min(dists) \in dists /\ \A y \in dists : Min(dists) <= y
    <3> HIDE DEF dists
    <3> QED BY <1>5, LeastOf
  <2>2. PICK k \in ways : dist(k) = Min(dists)
    BY <2>1
  <2>3. \A l \in ways : dist(l) \in dists
    OBVIOUS
  <2> HIDE DEF dists, dist
  <2>4. \A l \in ways : dist(k) <= dist(l)
    BY <2>1, <2>2, <2>3
  <2> QED BY <2>4
<1>7. Min(best) \in ways
  <2>1. best \in SUBSET Nat /\ best \subseteq ways
    OBVIOUS
  <2> HIDE DEF best
  <2> QED BY <1>6, <2>1, LeastOf
<1>8. OCTAGON(n, t) = {OctagonOrder[Min(best)]}
  BY DEF OCTAGON
<1> HIDE DEF best
<1> QED BY <1>7, <1>8, OctagonWired

-----------------------------------------------------------------------------
(***************************************************************************)
(* The octagon: a packet is at one of its nodes.                           *)
(***************************************************************************)
OnOctagon == topology = "OCTAGON"
AtAnEnd == OnOctagon => current_id \in OctagonEnds

LEMMA OctagonFacts ==
  ASSUME Configured, OnOctagon
  PROVE  /\ src_id \in OctagonEnds /\ dst_id \in OctagonEnds /\ routing_algorithm = "OCTAGON"
         /\ hubs.winoc_dst_hops = 0
<1>1. routing_algorithm = "OCTAGON"
  BY DEF Configured, OnOctagon, Combinations, DeltaTopologies
<1>2. hubs.winoc_dst_hops \in Nat /\ ~(hubs.winoc_dst_hops > 0)
  BY Stages DEF Configured, HubsConfigured, OnOctagon
<1>3. Tiles(topology) = OctagonEnds
  BY DEF OnOctagon, Tiles, OctagonEnds, DeltaTopologies
<1> QED BY <1>1, <1>2, <1>3 DEF Configured

LEMMA EndOffers ==
  ASSUME Configured, AtAnEnd, OnOctagon
  PROVE  \E d \in Directions :
           Offered = {d} /\ Neighbor(topology, current_id, d) \in OctagonEnds
<1>1. current_id \in OctagonEnds /\ dst_id \in OctagonEnds /\ routing_algorithm = "OCTAGON"
  BY OctagonFacts DEF AtAnEnd
<1>2. Offered = OCTAGON(current_id, dst_id)
  BY <1>1 DEF Offered, Candidates
<1>3. \A d : Neighbor(topology, current_id, d) = OctagonNeighbor(current_id, d)
  BY DEF Neighbor, OnOctagon, DeltaTopologies
<1>4. PICK d \in Directions :
        OCTAGON(current_id, dst_id) = {d} /\ OctagonNeighbor(current_id, d) \in OctagonEnds
  BY <1>1, OctagonOffers
<1>5. Offered = {d} /\ Neighbor(topology, current_id, d) \in OctagonEnds
  BY <1>2, <1>3, <1>4
<1> QED BY <1>5

LEMMA AtAnEndNext ==
  ASSUME Bearings, AtAnEnd, [Next]_vars
  PROVE  AtAnEnd'
<1>1. UNCHANGED topology
  BY DEF Next, vars, ToHub, ToRelay, Radio, Hop, network
<1> SUFFICES ASSUME OnOctagon PROVE current_id' \in OctagonEnds
  BY <1>1 DEF AtAnEnd, OnOctagon
<1>2. current_id \in OctagonEnds /\ dst_id \in OctagonEnds /\ hubs.winoc_dst_hops = 0
  BY OctagonFacts DEF AtAnEnd, Bearings
<1>3. CASE Radio
  BY <1>2, <1>3 DEF Radio, RadioTarget, Bearings, AtHub
<1>4. ASSUME NEW d \in Directions, Hop(d) PROVE current_id' \in OctagonEnds
  BY <1>4, EndOffers DEF Hop, Bearings
<1> QED BY <1>2, <1>3, <1>4 DEF Next, ToHub, ToRelay, vars

LEMMA AtAnEndAlways == Spec => []AtAnEnd
<1>1. Init => AtAnEnd
  BY BearingsInit, OctagonFacts DEF Init, Bearings, AtAnEnd
<1> QED BY <1>1, AtAnEndNext, BearingsAlways, PTL DEF Spec

(* A packet is never without a way, has at most two to choose from, and    *)
(* none leads off the network: on every topology, of any size, with any    *)
(* layout of hubs and with relays, for every algorithm but TABLE_BASED,    *)
(* whose table may say anything.                                           *)
THEOREM ThereIsAlwaysAWay ==
  ASSUME <<"MESH", "TABLE_BASED">> \notin Networks
  PROVE  Spec => []AlwaysAWay
<1> DEFINE Computed == <<topology, routing_algorithm>> # <<"MESH", "TABLE_BASED">>
<1>1. Init => Computed
  <2> SUFFICES ASSUME Init PROVE Computed
    OBVIOUS
  <2>1. CASE \E net \in Networks :
               topology = net[1] /\ routing_algorithm = net[2] /\ hubs = NoHubs
    <3>1. PICK net \in Networks : topology = net[1] /\ routing_algorithm = net[2]
      BY <2>1
    <3>2. net = <<net[1], net[2]>>
      BY NetworksAssumption DEF Combinations
    <3> QED BY <3>1, <3>2
  <2>2. CASE \E net \in HubNetworks :
               /\ topology = net.topology /\ routing_algorithm = net.routing_algorithm
               /\ hubs = net.hubs
    BY <2>2, HubNetworksAssumption
  <2> QED BY <2>1, <2>2 DEF Init
<1>2. Computed /\ [Next]_vars => Computed'
  BY DEF network, vars, Next, ToHub, ToRelay, Radio, Hop
<1>3. Bearings /\ OnItsWay /\ AtAnEnd /\ Computed => AlwaysAWay
  <2> SUFFICES ASSUME Bearings, OnItsWay, AtAnEnd, Computed PROVE AlwaysAWay
    OBVIOUS
  <2>1. CASE OnGrid
    BY <2>1, GridHasAWay
  <2>2. CASE OnDelta
    BY <2>2, DeltaOffers DEF AlwaysAWay, DeltaHop
  <2>3. CASE OnOctagon
    <3>1. NOT_VALID \notin OctagonEnds
      BY DEF NOT_VALID, OctagonEnds
    <3> QED BY <2>3, <3>1, EndOffers DEF AlwaysAWay, Bearings
  <2>4. OnGrid \/ OnDelta \/ OnOctagon
    BY DEF Bearings, Configured, Combinations, OnGrid, Grids, OnDelta, OnOctagon, MeshAlgorithms
  <2> QED BY <2>1, <2>2, <2>3, <2>4
<1> QED BY <1>1, <1>2, <1>3, BearingsAlways, OnItsWayAlways, AtAnEndAlways, PTL DEF Spec

-----------------------------------------------------------------------------
(***************************************************************************)
(* On a butterfly without hubs the packet is, after k hops, where          *)
(* nextDeltaHops says.                                                     *)
(***************************************************************************)
Wired == topology = "BUTTERFLY" /\ hubs = NoHubs

WhereForetold ==
  Wired => /\ hops \in 0 .. stg + 1
           /\ hops = 0 => current_id = src_id
           /\ hops \in 1 .. stg =>
                current_id = Switch(hops - 1, nextDeltaRow(src_id, dst_id)[hops - 1])
           /\ hops = stg + 1 => current_id = dst_id

LEMMA NoHubToTake ==
  ASSUME Bearings, hubs = NoHubs
  PROVE  hub = NOT_VALID /\ ~TakesHub /\ TakesWire /\ hubs.winoc_dst_hops = 0
<1>1. hubs.winoc_dst_hops = 0 /\ HubIds(hubs) = {}
  BY DEF NoHubs, HubIds
<1>2. ~TakesHub
  BY <1>1 DEF TakesHub, Directly, AtOtherHubs, hasRadioHub
<1> QED BY <1>1, <1>2, NoRelay DEF TakesWire, RelayTaken, Bearings, AtHub

LEMMA WhereForetoldNext ==
  ASSUME MaxHops > stg, Bearings, WhereForetold, [Next]_vars
  PROVE  WhereForetold'
<1>1. UNCHANGED network
  BY DEF Next, vars, ToHub, ToRelay, Radio, Hop
<1>2. Wired' <=> Wired
  BY <1>1 DEF network, Wired
<1> SUFFICES ASSUME Wired PROVE WhereForetold'
  BY <1>2 DEF WhereForetold
<1>3. hub = NOT_VALID /\ ~TakesHub /\ TakesWire
  BY NoHubToTake DEF Wired
<1>4. CASE UNCHANGED vars
  BY <1>1, <1>4 DEF vars, network, WhereForetold, Wired
<1>5. ASSUME NEW d \in Directions, Hop(d) PROVE WhereForetold'
  <2> DEFINE row == nextDeltaRow(src_id, dst_id)
  <2>1. src_id \in DeltaTiles /\ dst_id \in DeltaTiles /\ routing_algorithm = "DELTA"
        /\ "BUTTERFLY" \in DeltaTopologies /\ topology = "BUTTERFLY"
    BY DeltaFacts DEF Bearings, Wired, OnDelta, DeltaTopologies
  <2>2. /\ current_id # dst_id /\ d \in DELTA(current_id, dst_id)
        /\ current_id' = Neighbor("BUTTERFLY", current_id, d) /\ hops' = OneMore
    BY <1>5, <2>1 DEF Hop, Underway, Offered, Candidates
  <2>3. hops \in 0 .. stg /\ hops' = hops + 1 /\ stg \in 2 .. 10
    BY <2>2, Shape, MaxHopsAssumption DEF WhereForetold, OneMore
  <2>4. row[0] = src_id \div 2 /\ \A i \in 0 .. stg - 1 :
          /\ Aligned("BUTTERFLY", i, row[i], dst_id)
          /\ i # LastStage => row[i + 1] = NextRow("BUTTERFLY", i, row[i], BitAt(dst_id, Worth(i)))
    BY <2>1, Foretold
  <2> HIDE DEF row
  <2>5. CASE hops = 0
    <3>1. current_id = src_id /\ src_id # dst_id
      BY <2>2, <2>5 DEF WhereForetold
    <3>2. DELTA(src_id, dst_id) = {"NORTH"} /\ Neighbor("BUTTERFLY", src_id, "NORTH") = Switch(0, row[0])
      BY <2>1, <2>4, <3>1, FirstHop DEF DeltaHop
    <3>3. hops' = 1 /\ current_id' = Switch(0, row[0])
      BY <2>2, <2>3, <2>5, <3>1, <3>2
    <3> QED BY <1>1, <2>3, <3>3 DEF WhereForetold, network, row
  <2>6. CASE hops # 0
    <3> DEFINE i == hops - 1
    <3>1. i \in 0 .. stg - 1 /\ hops = i + 1 /\ hops' = i + 2 /\ current_id = Switch(i, row[i])
      BY <2>3, <2>6 DEF WhereForetold, row
    <3>2. Aligned("BUTTERFLY", i, row[i], dst_id)
      BY <2>4, <3>1
    <3> HIDE DEF i
    <3>3. CASE i = LastStage
      <4>1. DELTA(current_id, dst_id) = {Output(i, dst_id)}
            /\ Neighbor("BUTTERFLY", current_id, Output(i, dst_id)) = dst_id
        BY <2>1, <3>1, <3>2, <3>3, LastHop DEF DeltaHop
      <4>2. hops' = stg + 1 /\ current_id' = dst_id
        BY <2>2, <2>3, <3>1, <3>3, <4>1 DEF LastStage
      <4> QED BY <1>1, <2>3, <4>2 DEF WhereForetold, network
    <3>4. CASE i # LastStage
      <4>1. DELTA(current_id, dst_id) = {Output(i, dst_id)}
            /\ Neighbor("BUTTERFLY", current_id, Output(i, dst_id)) = Switch(i + 1, row[i + 1])
        BY <2>1, <2>4, <3>1, <3>2, <3>4, InnerHop DEF DeltaHop
      <4>2. current_id' = Switch(i + 1, row[i + 1])
        BY <2>2, <4>1
      <4>3. i + 2 \in 1 .. stg /\ (i + 2) - 1 = i + 1 /\ i + 2 # 0 /\ i + 2 # stg + 1
        BY <2>3, <3>1, <3>4 DEF LastStage
      <4> QED BY <1>1, <2>3, <3>1, <4>2, <4>3 DEF WhereForetold, network, row
    <3> QED BY <3>3, <3>4
  <2> QED BY <2>5, <2>6
<1>6. ~Radio /\ ~ToHub /\ ~ToRelay
  BY <1>3 DEF Radio, ToHub, ToRelay
<1> QED BY <1>4, <1>5, <1>6 DEF Next

(* nextDeltaHops, by which routers look for relays, tells the way that the *)
(* wires and the routing of a butterfly of any size give, hop by hop, as   *)
(* long as MaxHops counts that far.                                        *)
THEOREM TheWayIsForetold ==
  ASSUME MaxHops > stg
  PROVE  Spec => []AsForetold
<1>1. Init => WhereForetold
  BY Shape DEF Init, WhereForetold
<1>2. Bearings /\ WhereForetold /\ [Next]_vars => WhereForetold'
  BY WhereForetoldNext
<1>3. WhereForetold => AsForetold
  <2> SUFFICES ASSUME WhereForetold, Wired, hops > 0
               PROVE  current_id = nextDeltaHops(src_id, dst_id)[hops]
    BY DEF AsForetold, Wired
  <2>1. hops \in 1 .. stg + 1 /\ stg \in Nat
    BY Shape DEF WhereForetold
  <2>2. nextDeltaHops(src_id, dst_id)[hops] =
          IF hops = stg + 1 THEN dst_id ELSE Switch(hops - 1, nextDeltaRow(src_id, dst_id)[hops - 1])
    BY <2>1 DEF nextDeltaHops
  <2>3. CASE hops = stg + 1
    BY <2>2, <2>3 DEF WhereForetold
  <2>4. CASE hops # stg + 1
    <3>1. hops \in 1 .. stg
      BY <2>1, <2>4
    <3> QED BY <2>2, <2>4, <3>1 DEF WhereForetold
  <2> QED BY <2>3, <2>4
<1> QED BY <1>1, <1>2, <1>3, BearingsAlways, PTL DEF Spec

-----------------------------------------------------------------------------
(***************************************************************************)
(* The distance to one node t from a node of W: no hop goes down in G by   *)
(* more than one, and from a node of W other than t there is one that goes *)
(* down by one and stays in W.                                             *)
(***************************************************************************)
Descends(G, W, S, succ, n, t) ==
  /\ S \in SUBSET Nat /\ DOMAIN succ = S /\ W \subseteq S /\ n \in W
  /\ G \in [S -> Nat] /\ G[n] \in S
  /\ \A m \in W : G[m] = 0 <=> m = t
  /\ t \in S /\ G[t] = 0
  /\ \A m \in S : succ[m] \subseteq S /\ \A l \in succ[m] : G[m] <= G[l] + 1
  /\ \A m \in W : m # t => \E l \in W : l \in succ[m] /\ G[l] = G[m] - 1

LEMMA DescentIsDistance ==
  ASSUME NEW G, NEW W, NEW S, NEW succ, NEW n, NEW t, Descends(G, W, S, succ, n, t)
  PROVE  HopsIn(succ, n)[t] = G[n]
<1>a. S \in SUBSET Nat /\ DOMAIN succ = S /\ W \subseteq S /\ n \in W /\ n \in S /\ t \in S
  BY DEF Descends
<1>b. G \in [S -> Nat] /\ G[n] \in S /\ G[n] \in Nat /\ G[t] = 0 /\ \A m \in W : G[m] = 0 <=> m = t
  BY DEF Descends
<1>c. \A m \in S : succ[m] \subseteq S /\ \A l \in succ[m] : G[m] <= G[l] + 1
  BY DEF Descends
<1>d. \A m \in W : m # t => \E l \in W : l \in succ[m] /\ G[l] = G[m] - 1
  BY DEF Descends
<1> DEFINE V == SUBSET S
           step == [near \in V |-> near \cup UNION {succ[m] : m \in near}]
<1>1. step \in [V -> V] /\ {n} \in V
  <2>1. ASSUME NEW near \in V PROVE near \cup UNION {succ[m] : m \in near} \in V
    <3>1. \A m \in near : succ[m] \subseteq S
      BY <1>c
    <3> QED BY <3>1
  <2>2. {n} \in V
    BY <1>a
  <2> HIDE DEF V
  <2> QED BY <2>1, <2>2
<1>2. \E b : IsBall(b, succ, n)
  <2>1. PICK b \in [Nat -> V] : b[0] = {n} /\ \A k \in Nat : b[k + 1] = step[b[k]]
    <3> HIDE DEF V, step
    <3>1. Stepping(V, step, {n})
      BY <1>1 DEF Stepping
    <3>2. PICK b : Stepped(b, V, step, {n})
      BY <3>1, Iterates
    <3> QED BY <3>2 DEF Stepped
  <2>2. ASSUME NEW k \in Nat
        PROVE  b[k] = IF k = 0 THEN {n}
                      ELSE LET near == b[k - 1] IN near \cup UNION {succ[m] : m \in near}
    <3>1. CASE k = 0
      BY <2>1, <3>1
    <3>2. CASE k # 0
      <4>1. k - 1 \in Nat /\ (k - 1) + 1 = k
        BY <3>2
      <4>2. b[k] = step[b[k - 1]] /\ b[k - 1] \in V
        BY <2>1, <4>1
      <4> QED BY <3>2, <4>2
    <3> QED BY <3>1, <3>2
  <2>3. b = [k \in Nat |-> b[k]]
    BY <2>1
  <2>4. b = [k \in Nat |->
               IF k = 0 THEN {n}
               ELSE LET near == b[k - 1] IN near \cup UNION {succ[m] : m \in near}]
    BY <2>2, <2>3
  <2> QED BY <2>4 DEF IsBall
<1> DEFINE Ball == CHOOSE b : IsBall(b, succ, n)
<1>3. HopsIn(succ, n)[t] = Min({k \in S : t \in Ball[k]})
  BY <1>a DEF HopsIn, IsBall
<1>4. IsBall(Ball, succ, n)
  BY <1>2
<1> HIDE DEF Ball, V, step
<1>5. /\ Ball[0] = {n}
      /\ \A k \in Nat : Ball[k + 1] = Ball[k] \cup UNION {succ[m] : m \in Ball[k]}
  <2>1. \A k \in Nat : Ball[k] = IF k = 0 THEN {n}
                                 ELSE LET near == Ball[k - 1]
                                      IN  near \cup UNION {succ[m] : m \in near}
    BY <1>4 DEF IsBall
  <2>2. \A k \in Nat : k + 1 \in Nat /\ k + 1 # 0 /\ (k + 1) - 1 = k
    OBVIOUS
  <2> QED BY <2>1, <2>2
<1> DEFINE LowerOf(k) == \A m \in Ball[k] : m \in S /\ G[n] <= G[m] + k
           UpperOf(k) == k <= G[n] => \E m \in W : m \in Ball[k] /\ G[m] = G[n] - k
           T == {k \in Nat : LowerOf(k) /\ UpperOf(k)}
<1>6. 0 \in T
  BY <1>a, <1>b, <1>5
<1>7. ASSUME NEW k \in T PROVE k + 1 \in T
  <2>1. k \in Nat /\ LowerOf(k) /\ UpperOf(k)
    OBVIOUS
  <2>2. Ball[k + 1] = Ball[k] \cup UNION {succ[m] : m \in Ball[k]}
    BY <1>5, <2>1
  <2>3. LowerOf(k + 1)
    <3> SUFFICES ASSUME NEW m \in Ball[k + 1] PROVE m \in S /\ G[n] <= G[m] + (k + 1)
      OBVIOUS
    <3>1. CASE m \in Ball[k]
      <4>1. m \in S /\ G[n] <= G[m] + k /\ G[m] \in Nat
        BY <1>b, <2>1, <3>1
      <4> QED BY <1>b, <2>1, <4>1
    <3>2. CASE m \notin Ball[k]
      <4>1. PICK l \in Ball[k] : m \in succ[l]
        BY <2>2, <3>2
      <4>2. l \in S /\ G[n] <= G[l] + k /\ m \in S /\ G[l] <= G[m] + 1
        BY <1>c, <2>1, <4>1
      <4>3. G[l] \in Nat /\ G[m] \in Nat
        BY <1>b, <4>2
      <4> QED BY <1>b, <2>1, <4>2, <4>3
    <3> QED BY <3>1, <3>2
  <2>4. UpperOf(k + 1)
    <3> SUFFICES ASSUME k + 1 <= G[n]
                 PROVE  \E m \in W : m \in Ball[k + 1] /\ G[m] = G[n] - (k + 1)
      OBVIOUS
    <3>1. PICK l \in W : l \in Ball[k] /\ G[l] = G[n] - k
      BY <1>b, <2>1
    <3>2. l # t
      BY <1>b, <2>1, <3>1
    <3>3. PICK m \in W : m \in succ[l] /\ G[m] = G[l] - 1
      BY <1>d, <3>1, <3>2
    <3>4. m \in Ball[k + 1]
      BY <2>2, <3>1, <3>3
    <3>5. G[m] = G[n] - (k + 1)
      BY <1>b, <2>1, <3>1, <3>3
    <3> QED BY <3>4, <3>5
  <2> HIDE DEF LowerOf, UpperOf
  <2> QED BY <2>1, <2>3, <2>4
<1>8. T = Nat
  <2>1. T \in SUBSET Nat
    OBVIOUS
  <2> HIDE DEF T
  <2> QED BY <1>6, <1>7, <2>1, UpFromZero
<1> DEFINE K == {k \in S : t \in Ball[k]}
<1>9. G[n] \in K
  <2>1. G[n] \in T
    BY <1>b, <1>8
  <2>2. PICK m \in W : m \in Ball[G[n]] /\ G[m] = G[n] - G[n]
    BY <1>b, <2>1
  <2>3. m = t
    BY <1>b, <2>2
  <2> QED BY <1>b, <2>2, <2>3
<1>10. \A k \in K : G[n] <= k
  <2> SUFFICES ASSUME NEW k \in K PROVE G[n] <= k
    OBVIOUS
  <2>1. k \in T /\ k \in Nat
    BY <1>a, <1>8
  <2>2. G[n] <= G[t] + k
    BY <2>1
  <2> QED BY <1>b, <2>1, <2>2
<1>11. K \in SUBSET Nat
  BY <1>a
<1> HIDE DEF K
<1>12. Min(K) = G[n]
  <2>1. Min(K) \in K /\ \A y \in K : Min(K) <= y
    BY <1>9, <1>11, LeastOf
  <2>2. Min(K) <= G[n] /\ G[n] <= Min(K) /\ Min(K) \in Nat
    BY <1>9, <1>10, <1>11, <2>1
  <2> QED BY <1>b, <2>2
<1> QED BY <1>3, <1>12 DEF K

(***************************************************************************)
(* Every link of a delta network leads one stage on.                       *)
(***************************************************************************)
LEMMA DeltaLink ==
  ASSUME NEW w \in DeltaTopologies, NEW n \in Nodes(w), NEW d \in Directions,
         NEW l, l = Neighbor(w, n, d), l # NOT_VALID, NEW t \in DeltaTiles
  PROVE  l \in Nodes(w) /\ DeltaGap(t, n) <= DeltaGap(t, l) + 1
<1>1. l = DeltaNeighbor(w, n, d)
  BY DEF Neighbor, DeltaTopologies
<1>2. n_delta_tiles \in Nat /\ stg \in 2 .. 10 /\ sw \in Nat /\ n_delta_tiles = 2 * sw
  BY Shape
<1>3. CASE n \in DeltaTiles
  <2>1. n \in 0 .. n_delta_tiles - 1 /\ n < n_delta_tiles
    BY <1>2, <1>3 DEF DeltaTiles
  <2>2. l = Switch(0, n \div 2)
    BY <1>1, <2>1 DEF DeltaNeighbor, FirstSwitch
  <2>3. n \div 2 \in DeltaRows /\ 0 \in 0 .. stg - 1
    BY <1>2, <2>1 DEF DeltaRows
  <2>4. l \in Nodes(w) /\ Level(l) = stg /\ Level(n) = stg + 1 /\ l >= n_delta_tiles
    BY <1>2, <1>3, <2>2, <2>3, SwitchOf, Levels
  <2>5. l # t
    BY <1>2, <2>4 DEF DeltaTiles
  <2> QED BY <1>2, <2>4, <2>5 DEF DeltaGap
<1>4. CASE n \notin DeltaTiles
  <2> DEFINE i == Stage(n)
             y == Row(n)
  <2>1. i \in 0 .. stg - 1 /\ y \in DeltaRows /\ n = Switch(i, y) /\ n >= n_delta_tiles
    BY <1>4, SwitchAt
  <2>2. Level(n) = stg - i /\ n # t
    BY <1>4, <2>1, Levels
  <2>3. ~(n < n_delta_tiles)
    <3>1. n \in Nat
      BY TilesAreNodes
    <3> QED BY <1>2, <2>1, <3>1
  <2>4. CASE i = stg - 1
    <3>1. d \in {"NORTH", "EAST"} /\ l = CoreBehind(y, d)
      BY <1>1, <2>3, <2>4 DEF DeltaNeighbor
    <3>2. y \in 0 .. sw - 1 /\ CoreBehind(y, d) \in {2 * y, 2 * y + 1}
      BY <2>1 DEF DeltaRows, CoreBehind
    <3>3. l \in DeltaTiles
      <4> HIDE DEF y, i
      <4> QED BY <1>2, <3>1, <3>2 DEF DeltaTiles
    <3>4. l \in Nodes(w) /\ DeltaGap(t, l) \in Nat
      BY <1>2, <3>3, TilesAreNodes, Levels DEF DeltaGap
    <3> QED BY <1>2, <2>2, <2>4, <3>4 DEF DeltaGap
  <2>5. CASE i # stg - 1
    <3> DEFINE fed == {k \in 0 .. sw - 1 : <<y, d>> \in Feeds(w, i + 1, k)}
               k == CHOOSE r \in fed : TRUE
    <3>1. fed # {} /\ l = Switch(i + 1, k)
      BY <1>1, <2>3, <2>5 DEF DeltaNeighbor
    <3>2. k \in DeltaRows
      BY <3>1 DEF DeltaRows
    <3> HIDE DEF fed, k, i
    <3>3. i + 1 \in 0 .. stg - 1
      BY <1>2, <2>1, <2>5
    <3>4. l \in Nodes(w) /\ l \in Nat /\ l >= n_delta_tiles /\ Level(l) = stg - (i + 1)
      BY <3>1, <3>2, <3>3, SwitchOf, Levels
    <3>5. l # t
      BY <1>2, <3>4 DEF DeltaTiles
    <3> QED BY <1>2, <2>1, <2>2, <3>4, <3>5 DEF DeltaGap
  <2> QED BY <2>4, <2>5
<1> QED BY <1>3, <1>4

LEMMA DeltaDistances ==
  ASSUME NEW w \in DeltaTopologies, \E net \in Networks : net[1] = w,
         NEW s \in DeltaTiles, NEW t \in DeltaTiles, NEW n, OnDeltaWay(w, s, t, n)
  PROVE  Distance(w, n, t) = DeltaGap(t, n)
<1> DEFINE S == Nodes(w)
           succ == [m \in S |-> {Neighbor(w, m, d) : d \in Directions} \ {NOT_VALID}]
           G == [m \in S |-> DeltaGap(t, m)]
           W == {m \in S : OnDeltaWay(w, s, t, m)}
<1>1. S \subseteq Nat /\ DeltaTiles \subseteq S /\ s \in S /\ t \in S
  BY TilesAreNodes
<1>2. n \in W
  <2>1. ASSUME NEW i \in 0 .. stg - 1, NEW y \in DeltaRows, OnSwitch(w, i, y, t, n) PROVE n \in S
    BY <2>1, SwitchOf DEF OnSwitch
  <2>2. n \in S
    BY <1>1, <2>1 DEF OnDeltaWay
  <2> QED BY <2>2
<1>3. \A m \in S : G[m] \in 0 .. stg + 1 /\ (G[m] = 0 <=> m = t)
  BY Levels, Shape DEF DeltaGap
<1>4. 0 .. stg + 1 \subseteq S
  <2>1. stg \in Nat /\ stg * sw >= stg /\ n_delta_tiles \in Nat \ {0} /\ n_delta_tiles >= 2
    <3>1. stg \in Nat /\ sw \in Nat \ {0} /\ n_delta_tiles = 2 * sw
      BY Shape
    <3>2. PICK e \in Nat : sw = 1 + e
      <4>1. sw - 1 \in Nat
        BY <3>1
      <4> QED BY <3>1, <4>1
    <3>3. stg * sw = stg + stg * e /\ stg * e \in Nat
      BY <3>1, <3>2
    <3> QED BY <3>1, <3>3
  <2>2. S = 0 .. n_delta_tiles + stg * sw - 1
    BY DEF Nodes
  <2>3. stg * sw \in Nat
    BY <2>1, Shape
  <2> QED BY <2>1, <2>2, <2>3
<1>5. \A m \in S : succ[m] \subseteq S /\ \A l \in succ[m] : G[m] <= G[l] + 1
  <2> SUFFICES ASSUME NEW m \in S, NEW l \in succ[m] PROVE l \in S /\ G[m] <= G[l] + 1
    OBVIOUS
  <2>1. PICK d \in Directions : l = Neighbor(w, m, d) /\ l # NOT_VALID
    OBVIOUS
  <2>2. l \in S /\ DeltaGap(t, m) <= DeltaGap(t, l) + 1
    BY <2>1, DeltaLink
  <2> QED BY <2>2
<1>6. \A m \in W : m # t => \E l \in W : l \in succ[m] /\ G[l] = G[m] - 1
  <2> SUFFICES ASSUME NEW m \in W, m # t PROVE \E l \in W : l \in succ[m] /\ G[l] = G[m] - 1
    OBVIOUS
  <2>1. PICK d \in {"NORTH", "EAST"} : DeltaHop(w, s, t, m, d)
    BY EveryHop
  <2> DEFINE l == Neighbor(w, m, d)
  <2>2. /\ l \in S /\ l # NOT_VALID /\ OnDeltaWay(w, s, t, l) /\ DeltaGap(t, l) = DeltaGap(t, m) - 1
        /\ d \in Directions
    BY <2>1 DEF DeltaHop, Directions
  <2> HIDE DEF l
  <2>3. l \in succ[m]
    BY <2>2 DEF l
  <2>4. l \in W /\ G[l] = G[m] - 1
    BY <2>2
  <2> QED BY <2>3, <2>4
<1>7. Distance(w, n, t) = HopsIn(succ, n)[t]
  BY <1>2 DEF Distance, DistanceTable
<1>8. G[n] = DeltaGap(t, n) /\ G[n] \in S /\ G \in [S -> Nat] /\ G[t] = 0 /\ W \subseteq S
  BY <1>1, <1>2, <1>3, <1>4
<1>9. DOMAIN succ = S /\ S \in SUBSET Nat /\ \A m \in W : m \in S
  BY <1>1
<1> HIDE DEF S, succ, G, W
<1>10. Descends(G, W, S, succ, n, t)
  BY <1>1, <1>2, <1>3, <1>5, <1>6, <1>8, <1>9 DEF Descends
<1>11. HopsIn(succ, n)[t] = G[n]
  BY <1>10, DescentIsDistance
<1> QED BY <1>7, <1>8, <1>11

(* The same on a delta network, where every hop leads one stage on.        *)
DeltaMeasured ==
  LET done == hops + DeltaGap(dst_id, current_id)
      all  == DeltaGap(dst_id, src_id)
  IN  /\ hops \in Nat
      /\ IF hubs = NoHubs THEN done = all ELSE done <= all

LEMMA GapsOnTheWay ==
  ASSUME Bearings, OnItsWay, OnDelta
  PROVE  /\ DeltaGap(dst_id, src_id) \in 0 .. stg + 1 /\ DeltaGap(dst_id, current_id) \in 0 .. stg + 1
         /\ DeltaGap(dst_id, current_id) = 0 <=> current_id = dst_id
<1>1. src_id \in DeltaTiles /\ dst_id \in DeltaTiles
  BY DeltaFacts DEF Bearings
<1>2. src_id \in Nodes(topology) /\ current_id \in Nodes(topology)
  BY <1>1, TilesAreNodes, SwitchOf DEF OnItsWay, OnDelta, OnDeltaWay, OnSwitch
<1>3. Level(src_id) \in 1 .. stg + 1 /\ Level(current_id) \in 1 .. stg + 1 /\ stg \in Nat
  BY <1>2, Levels, Shape DEF OnDelta
<1> QED BY <1>3 DEF DeltaGap

LEMMA DeltaMeasuredNext ==
  ASSUME MaxHops > stg, Bearings, OnItsWay, OnDelta, hubs.winoc_dst_hops = 0,
         DeltaMeasured, [Next]_vars
  PROVE  DeltaMeasured'
<1> DEFINE all == DeltaGap(dst_id, src_id)
           left == DeltaGap(dst_id, current_id)
<1>1. UNCHANGED network
  BY DEF Next, vars, ToHub, ToRelay, Radio, Hop
<1>2. /\ all \in 0 .. stg + 1 /\ left \in 0 .. stg + 1 /\ stg \in Nat
      /\ left = 0 <=> current_id = dst_id
  BY GapsOnTheWay, Shape
<1>3. /\ hops \in Nat
      /\ IF hubs = NoHubs THEN hops + left = all ELSE hops + left <= all
  BY DEF DeltaMeasured
<1>4. current_id # dst_id => OneMore = hops + 1
  <2>1. current_id # dst_id => hops <= stg
    BY <1>2, <1>3
  <2> QED BY <1>2, <1>3, <2>1, MaxHopsAssumption DEF OneMore
<1>5. UNCHANGED all
  BY <1>1 DEF network, DeltaGap, Level
<1>6. CASE UNCHANGED <<current_id, hops>>
  <2>1. UNCHANGED left
    BY <1>1, <1>6 DEF network, DeltaGap, Level
  <2> QED BY <1>1, <1>5, <1>6, <2>1 DEF DeltaMeasured, network
<1>7. CASE Radio
  <2>1. TakesHub
    BY <1>7 DEF Radio, Bearings, AtHub
  <2>2. current_id # dst_id /\ hubs # NoHubs
    BY <2>1 DEF TakesHub, Directly, AtOtherHubs, hasRadioHub, sameRadioHub, HubIds, NoHubs
  <2>3. current_id' = dst_id /\ hops' = OneMore
    BY <1>7 DEF Radio, RadioTarget, Bearings, AtHub
  <2>4. left' = 0
    BY <1>1, <2>3 DEF network, DeltaGap
  <2> HIDE DEF all, left
  <2>5. hops' = hops + 1 /\ hops + left <= all /\ left # 0
    BY <1>2, <1>3, <1>4, <2>2, <2>3
  <2>6. hops' \in Nat /\ hops' + left' <= all
    BY <1>2, <1>3, <2>4, <2>5
  <2> QED BY <1>1, <1>5, <2>2, <2>6 DEF DeltaMeasured, network, all, left
<1>8. ASSUME NEW d \in Directions, Hop(d) PROVE DeltaMeasured'
  <2>1. Underway /\ d \in Offered /\ hops' = OneMore /\ current_id' = Neighbor(topology, current_id, d)
    BY <1>8 DEF Hop
  <2>2. left' = DeltaGap(dst_id, Neighbor(topology, current_id, d))
    BY <1>1, <2>1 DEF network, DeltaGap, Level
  <2>3. left' = left - 1
    BY <2>1, <2>2, DeltaOffers DEF DeltaHop
  <2>4. hops' = hops + 1
    BY <1>4, <2>1 DEF Underway
  <2> HIDE DEF left, all
  <2>5. hops' + left' = hops + left /\ hops' \in Nat
    BY <1>2, <1>3, <2>3, <2>4
  <2> QED BY <1>1, <1>3, <1>5, <2>5 DEF DeltaMeasured, network, left, all
<1> QED BY <1>6, <1>7, <1>8 DEF Next, vars, ToHub, ToRelay

(* On a mesh, a torus or a delta network of any size every packet takes a  *)
(* shortest way, with any algorithm but TABLE_BASED, and a hub is never a  *)
(* detour where there are no relays.  Distances are tabulated for the      *)
(* topologies of Networks, so those with hubs must be among them, and      *)
(* MaxHops must leave room for the longest way.                            *)
THEOREM WaysAreShortest ==
  ASSUME <<"MESH", "TABLE_BASED">> \notin Networks,
         \A net \in HubNetworks : /\ net.hubs.winoc_dst_hops = 0
                                  /\ \E wired \in Networks : net.topology = wired[1],
         MaxHops >= mesh_dim_x + mesh_dim_y, MaxHops > stg
  PROVE  Spec => []Shortest
<1> DEFINE Plain == /\ <<topology, routing_algorithm>> # <<"MESH", "TABLE_BASED">>
                    /\ \E net \in Networks : net[1] = topology
                    /\ hubs.winoc_dst_hops = 0
<1>1. Init => Plain
  <2> SUFFICES ASSUME Init PROVE Plain
    OBVIOUS
  <2>1. CASE \E net \in Networks :
               topology = net[1] /\ routing_algorithm = net[2] /\ hubs = NoHubs
    <3>1. PICK net \in Networks : topology = net[1] /\ routing_algorithm = net[2] /\ hubs = NoHubs
      BY <2>1
    <3>2. net = <<net[1], net[2]>>
      BY NetworksAssumption DEF Combinations
    <3> QED BY <3>1, <3>2 DEF NoHubs
  <2>2. CASE \E net \in HubNetworks :
               /\ topology = net.topology /\ routing_algorithm = net.routing_algorithm
               /\ hubs = net.hubs
    BY <2>2, HubNetworksAssumption
  <2> QED BY <2>1, <2>2 DEF Init
<1>2. Plain /\ [Next]_vars => Plain'
  BY DEF network, vars, Next, ToHub, ToRelay, Radio, Hop
<1>3. Plain /\ Bearings => OnGrid \/ OnDelta \/ topology = "OCTAGON"
  BY DEF Bearings, Configured, Combinations, OnGrid, Grids, OnDelta, MeshAlgorithms
<1>4. [Next]_vars => UNCHANGED <<topology, routing_algorithm>>
  BY DEF network, vars, Next, ToHub, ToRelay, Radio, Hop
<1> DEFINE Counted == (OnGrid => Measured) /\ (OnDelta => DeltaMeasured)
<1>5. Init => Counted
  <2> SUFFICES ASSUME Init PROVE Counted
    OBVIOUS
  <2>1. OnDelta => DeltaMeasured
    <3> SUFFICES ASSUME OnDelta PROVE DeltaMeasured
      OBVIOUS
    <3>1. DeltaGap(dst_id, src_id) \in Nat
      BY BearingsInit, OnItsWayInit, GapsOnTheWay, Shape
    <3>2. current_id = src_id /\ hops = 0
      BY DEF Init
    <3> QED BY <3>1, <3>2 DEF DeltaMeasured
  <2> QED BY <2>1, MeasuredInit
<1>6. Bearings /\ OnItsWay /\ Plain /\ Counted /\ [Next]_vars => Counted'
  <2> SUFFICES ASSUME Bearings, OnItsWay, Plain, Counted, [Next]_vars PROVE Counted'
    OBVIOUS
  <2>1. (OnGrid' <=> OnGrid) /\ (OnDelta' <=> OnDelta)
    BY <1>4 DEF OnGrid, OnDelta
  <2>2. OnGrid => Measured'
    BY MeasuredNext
  <2>3. OnDelta => DeltaMeasured'
    BY DeltaMeasuredNext
  <2> QED BY <2>1, <2>2, <2>3
<1>7. Bearings /\ OnItsWay /\ Plain /\ Counted => Shortest
  <2> SUFFICES ASSUME Bearings, OnItsWay, Plain, Counted PROVE Shortest
    OBVIOUS
  <2>1. CASE OnGrid
    BY <2>1, MeasuredIsShortest
  <2>2. CASE OnDelta
    <3>1. src_id \in DeltaTiles /\ dst_id \in DeltaTiles
      BY <2>2, DeltaFacts DEF Bearings
    <3>2. /\ OnDeltaWay(topology, src_id, dst_id, current_id)
          /\ OnDeltaWay(topology, src_id, dst_id, src_id)
      BY <2>2 DEF OnItsWay, OnDeltaWay
    <3>3. /\ Distance(topology, current_id, dst_id) = DeltaGap(dst_id, current_id)
          /\ Distance(topology, src_id, dst_id) = DeltaGap(dst_id, src_id)
      BY <2>2, <3>1, <3>2, DeltaDistances DEF OnDelta
    <3> QED BY <2>2, <3>3 DEF DeltaMeasured, Shortest
  <2>3. CASE topology = "OCTAGON"
    BY <2>3 DEF Shortest
  <2> QED BY <1>3, <2>1, <2>2, <2>3
<1> QED BY <1>1, <1>2, <1>5, <1>6, <1>7, BearingsAlways, OnItsWayAlways, PTL DEF Spec

=============================================================================
