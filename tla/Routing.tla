------------------------------- MODULE Routing -------------------------------
(***************************************************************************)
(* The routing algorithms (src/src/routingAlgorithms) on the topologies    *)
(* that src/src/NoC.cpp builds.  A router asks its algorithm for the set   *)
(* of directions it may take, and the selection strategy takes one of them *)
(* (Router::routingFunction and selectionFunction, wired part).            *)
(*                                                                         *)
(* Mesh, torus and octagon: nodes are numbered row by row; y grows to the  *)
(* south.  Delta networks: first the cores, then the switches stage by     *)
(* stage; their outputs 0 and 1 are NORTH and EAST, their inputs 2 and 3.  *)
(***************************************************************************)
EXTENDS Integers, FiniteSetsExt

CONSTANTS
  mesh_dim_x,   (* of mesh and torus; the octagon has eight nodes          *)
  mesh_dim_y,
  n_delta_tiles,   (* cores of a delta network                             *)
  Networks,     (* the <<topology, routing_algorithm>> pairs to look at    *)
  rt_noc        (* the routing table of TABLE_BASED: rt_noc[n][t] has the  *)
                (* <<input link, output link>> pairs of node n for         *)
                (* destination t; links are pairs of nodes                 *)

(* BFT and SPIN are built by buildButterfly.                               *)
DeltaTopologies == {"BUTTERFLY", "BASELINE", "OMEGA"}
Topologies == {"MESH", "TORUS", "FOLDED_TORUS", "OCTAGON"} \cup DeltaTopologies

MeshAlgorithms ==
  {"XY", "WEST_FIRST", "NORTH_LAST", "NEGATIVE_FIRST", "ODD_EVEN", "DYAD"}

ASSUME DimAssumption ==
  /\ mesh_dim_x \in Nat \ {0, 1}
  /\ mesh_dim_y \in Nat \ {0, 1}
ASSUME DeltaAssumption == \E k \in 2 .. 10 : n_delta_tiles = 2 ^ k
(* Each algorithm is written for the topologies it goes with.              *)
Combinations ==
  ({"MESH"} \X (MeshAlgorithms \cup {"TABLE_BASED"}))
  \cup {<<"TORUS", "XY_TORUS">>, <<"FOLDED_TORUS", "XY_TORUS">>}
  \cup {<<"OCTAGON", "OCTAGON">>}
  \cup (DeltaTopologies \X {"DELTA"})

ASSUME NetworksAssumption == Networks \subseteq Combinations

(* Of a delta network: the number of stages and of switches in each.       *)
stg == CHOOSE k \in 2 .. 10 : n_delta_tiles = 2 ^ k
sw  == n_delta_tiles \div 2

(* The nodes with a processing element that sends and receives, and all.   *)
Tiles(w) ==
  CASE w = "OCTAGON" -> 0 .. 7
    [] w \in DeltaTopologies -> 0 .. n_delta_tiles - 1
    [] OTHER -> 0 .. mesh_dim_x * mesh_dim_y - 1

Nodes(w) ==
  IF w \in DeltaTopologies THEN 0 .. n_delta_tiles + stg * sw - 1 ELSE Tiles(w)

Directions == {"NORTH", "EAST", "SOUTH", "WEST"}

NOT_VALID == -1

(* What leaves a router in direction d enters the next one by this port.   *)
reflexDirection(d) ==
  CASE d = "NORTH" -> "SOUTH" [] d = "EAST" -> "WEST"
    [] d = "WEST" -> "EAST" [] d = "SOUTH" -> "NORTH"

(* id2Coord and coord2Id *)
X(id) == id % mesh_dim_x
Y(id) == id \div mesh_dim_x
Id(x, y) == y * mesh_dim_x + x

(* The same for the switches of a delta network.                           *)
Stage(id) == (id - n_delta_tiles) \div sw
Row(id)   == (id - n_delta_tiles) % sw
Switch(i, j) == i * sw + j + n_delta_tiles

(***************************************************************************)
(* The links: the node behind each direction, NOT_VALID at a border.       *)
(***************************************************************************)

MeshNeighbor(n, d) ==
  CASE d = "NORTH" -> IF Y(n) = 0 THEN NOT_VALID ELSE Id(X(n), Y(n) - 1)
    [] d = "SOUTH" -> IF Y(n) = mesh_dim_y - 1 THEN NOT_VALID ELSE Id(X(n), Y(n) + 1)
    [] d = "EAST"  -> IF X(n) = mesh_dim_x - 1 THEN NOT_VALID ELSE Id(X(n) + 1, Y(n))
    [] d = "WEST"  -> IF X(n) = 0 THEN NOT_VALID ELSE Id(X(n) - 1, Y(n))

TorusNeighbor(n, d) ==
  CASE d = "NORTH" -> Id(X(n), (Y(n) - 1) % mesh_dim_y)
    [] d = "SOUTH" -> Id(X(n), (Y(n) + 1) % mesh_dim_y)
    [] d = "EAST"  -> Id((X(n) + 1) % mesh_dim_x, Y(n))
    [] d = "WEST"  -> Id((X(n) - 1) % mesh_dim_x, Y(n))

FoldedTorusNeighbor(n, d) == TorusNeighbor(n, d)

(* buildOctagon: <<a, dir_a, b, dir_b>> for each connectBidirectional.     *)
OctagonLinks ==
  { <<0, "EAST",  1, "WEST">>,  <<1, "EAST",  2, "WEST">>,
    <<2, "EAST",  3, "WEST">>,  <<3, "SOUTH", 7, "NORTH">>,
    <<7, "WEST",  6, "EAST">>,  <<6, "WEST",  5, "EAST">>,
    <<5, "WEST",  4, "EAST">>,  <<4, "NORTH", 0, "SOUTH">>,
    <<1, "SOUTH", 6, "NORTH">>, <<2, "SOUTH", 5, "NORTH">>,
    <<0, "WEST",  7, "EAST">>,  <<3, "NORTH", 4, "SOUTH">> }

OctagonNeighbor(n, d) ==
  LET ends == {l[3] : l \in {k \in OctagonLinks : k[1] = n /\ k[2] = d}}
              \cup {l[1] : l \in {k \in OctagonLinks : k[3] = n /\ k[4] = d}}
  IN  IF ends = {} THEN NOT_VALID ELSE CHOOSE m \in ends : TRUE

(* The outputs <<row, direction>> of stage i - 1 that feed the inputs of   *)
(* switch <<i, j>>.  The loops of buildButterfly toggle their direction d  *)
(* at every r-th row, which makes it the parity of j \div r.               *)
toggleKthBit(n, k) ==
  LET b == 2 ^ (k - 1) IN IF (n \div b) % 2 = 0 THEN n + b ELSE n - b

Bit(n, k) == (n \div 2 ^ k) % 2

DirectionOf(bit) == IF bit = 0 THEN "NORTH" ELSE "EAST"

ButterflyFeeds(i, j) ==
  LET d == DirectionOf((j \div (sw \div 2 ^ i)) % 2)
  IN  {<<j, d>>, <<toggleKthBit(j, stg - i), d>>}

BaselineFirstFeeds(j) ==
  LET r == sw \div 2
  IN  IF j < r THEN {<<2 * j, "NORTH">>, <<2 * j + 1, "NORTH">>}
               ELSE {<<2 * (j - r), "EAST">>, <<2 * (j - r) + 1, "EAST">>}

BaselineFeeds(i, j) == IF i = 1 THEN BaselineFirstFeeds(j) ELSE ButterflyFeeds(i, j)

OmegaFeeds(i, j) ==
  LET d == DirectionOf(j % 2)
  IN  {<<j \div 2, d>>, <<n_delta_tiles \div 4 + j \div 2, d>>}

Feeds(w, i, j) ==
  CASE w = "BUTTERFLY" -> ButterflyFeeds(i, j)
    [] w = "BASELINE"  -> BaselineFeeds(i, j)
    [] w = "OMEGA"     -> OmegaFeeds(i, j)

(* Cores send to the first stage, and the last stage sends to the cores.   *)
FirstSwitch(c) == Switch(0, c \div 2)
CoreBehind(j, d) == 2 * j + (IF d = "NORTH" THEN 0 ELSE 1)

DeltaNeighbor(w, n, d) ==
  LET fed(i, j) == {k \in 0 .. sw - 1 : <<j, d>> \in Feeds(w, i + 1, k)}
  IN  IF n < n_delta_tiles
        THEN IF d = "NORTH" THEN FirstSwitch(n) ELSE NOT_VALID
      ELSE IF d \notin {"NORTH", "EAST"} THEN NOT_VALID
      ELSE IF Stage(n) = stg - 1 THEN CoreBehind(Row(n), d)
      ELSE IF fed(Stage(n), Row(n)) = {} THEN NOT_VALID
      ELSE Switch(Stage(n) + 1, CHOOSE k \in fed(Stage(n), Row(n)) : TRUE)

Neighbor(w, n, d) ==
  CASE w = "MESH"         -> MeshNeighbor(n, d)
    [] w = "TORUS"        -> TorusNeighbor(n, d)
    [] w = "FOLDED_TORUS" -> FoldedTorusNeighbor(n, d)
    [] w = "OCTAGON"      -> OctagonNeighbor(n, d)
    [] w \in DeltaTopologies -> DeltaNeighbor(w, n, d)

(* The neighbour a router takes to be in a direction when it looks ahead,  *)
(* on a network numbered row by row.                                       *)
getNeighborIdUpsideDown(w, n, d) ==   (* mutant *)
  LET dx == CASE d = "EAST" -> 1 [] d = "WEST" -> -1 [] OTHER -> 0
      dy == CASE d = "SOUTH" -> -1 [] d = "NORTH" -> 1 [] OTHER -> 0
      outside == X(n) + dx \notin 0 .. mesh_dim_x - 1 \/ Y(n) + dy \notin 0 .. mesh_dim_y - 1
  IN  IF outside /\ w \in {"MESH", "OCTAGON"} THEN NOT_VALID
      ELSE Id((X(n) + dx) % mesh_dim_x, (Y(n) + dy) % mesh_dim_y)
getNeighborId(w, n, d) ==
  LET dx == CASE d = "EAST" -> 1 [] d = "WEST" -> -1 [] OTHER -> 0
      dy == CASE d = "SOUTH" -> 1 [] d = "NORTH" -> -1 [] OTHER -> 0
      outside == X(n) + dx \notin 0 .. mesh_dim_x - 1 \/ Y(n) + dy \notin 0 .. mesh_dim_y - 1
  IN  IF outside /\ w \in {"MESH", "OCTAGON"} THEN NOT_VALID
      ELSE Id((X(n) + dx) % mesh_dim_x, (Y(n) + dy) % mesh_dim_y)

(***************************************************************************)
(* Hop distance in a graph given by the successors of each node, and in    *)
(* the topologies of Networks.                                             *)
(***************************************************************************)
HopsIn(succ, n) ==
  LET Ball[k \in Nat] ==
        IF k = 0 THEN {n}
        ELSE LET near == Ball[k - 1] IN near \cup UNION {succ[m] : m \in near}
  IN  [m \in DOMAIN succ |-> Min({k \in DOMAIN succ : m \in Ball[k]})]

DistanceTable ==
  [w \in {net[1] : net \in Networks} |->
     LET succ == [n \in Nodes(w) |->
                    {Neighbor(w, n, d) : d \in Directions} \ {NOT_VALID}]
     IN  [n \in Nodes(w) |-> HopsIn(succ, n)]]

Distance(w, n, m) == DistanceTable[w][n][m]

(***************************************************************************)
(* The algorithms: the directions a head from s to t may take at n # t.    *)
(***************************************************************************)

XYSwapped(n, t) ==   (* mutant *)
  IF X(t) < X(n)      THEN {"EAST"}
  ELSE IF X(t) > X(n) THEN {"WEST"}
  ELSE IF Y(t) > Y(n) THEN {"SOUTH"}
  ELSE {"NORTH"}
XY(n, t) ==
  IF X(t) > X(n)      THEN {"EAST"}
  ELSE IF X(t) < X(n) THEN {"WEST"}
  ELSE IF Y(t) > Y(n) THEN {"SOUTH"}
  ELSE {"NORTH"}

WestWhenever(n, t) ==      (* mutant *)
  IF X(t) = X(n) \/ Y(t) = Y(n) THEN XY(n, t)
  ELSE XY(n, t) \cup {IF Y(t) < Y(n) THEN "NORTH" ELSE "SOUTH"}
WEST_FIRST(n, t) ==
  IF X(t) <= X(n) \/ Y(t) = Y(n) THEN XY(n, t)
  ELSE {"EAST", IF Y(t) < Y(n) THEN "NORTH" ELSE "SOUTH"}

NORTH_LAST(n, t) ==
  IF X(t) = X(n) \/ Y(t) <= Y(n) THEN XY(n, t)
  ELSE {"SOUTH", IF X(t) < X(n) THEN "WEST" ELSE "EAST"}

NEGATIVE_FIRST(n, t) ==
  LET negative == {d \in {"WEST", "SOUTH"} : IF d = "WEST" THEN X(t) < X(n) ELSE Y(t) > Y(n)}
      positive == {d \in {"EAST", "NORTH"} : IF d = "EAST" THEN X(t) > X(n) ELSE Y(t) < Y(n)}
  IN  IF negative # {} THEN negative ELSE positive

(* Eastbound packets turn in odd columns or in the one they start from,    *)
(* westbound ones in even columns.                                         *)
ODD_EVEN(n, s, t) ==
  LET e0 == X(t) - X(n)
      e1 == Y(n) - Y(t)
      vertical == IF e1 > 0 THEN {"NORTH"} ELSE {"SOUTH"}
  IN  CASE e0 = 0 -> vertical
        [] e0 > 0 /\ e1 = 0 -> {"EAST"}
        [] e0 > 0 /\ e1 # 0 ->
             (IF X(n) % 2 = 1 \/ X(n) = X(s) THEN vertical ELSE {})
             \cup (IF X(t) % 2 = 1 \/ e0 # 1 THEN {"EAST"} ELSE {})
        [] e0 < 0 -> {"WEST"} \cup (IF X(n) % 2 = 0 /\ e1 # 0 THEN vertical ELSE {})

(* DyAD keeps the first direction of ODD_EVEN when no neighbour is         *)
(* congested, and all of them otherwise; congestion may be or not be.      *)
DYAD(n, s, t) == ODD_EVEN(n, s, t)

(* The shorter way round each ring, east and west first; exactly half of a *)
(* ring is not turned round.                                               *)
WrappedAtHalf(delta, dim) ==   (* mutant *)
  IF delta >= dim \div 2        THEN delta - dim
  ELSE IF delta < -(dim \div 2) THEN delta + dim
  ELSE delta
Wrapped(delta, dim) ==
  IF delta > dim \div 2         THEN delta - dim
  ELSE IF delta < -(dim \div 2) THEN delta + dim
  ELSE delta

XY_TORUS(n, t) ==
  LET dx == Wrapped(X(t) - X(n), mesh_dim_x)
      dy == Wrapped(Y(t) - Y(n), mesh_dim_y)
  IN  CASE dx > 0 -> {"EAST"}
        [] dx < 0 -> {"WEST"}
        [] dx = 0 /\ dy > 0 -> {"SOUTH"}
        [] dx = 0 /\ dy < 0 -> {"NORTH"}
        [] dx = 0 /\ dy = 0 -> {}

(* Routing_OCTAGON's own table of neighbours, in the order NORTH, EAST,    *)
(* SOUTH, WEST, and the first direction whose node is nearest in it.       *)
OctagonOrder == <<"NORTH", "EAST", "SOUTH", "WEST">>
OctagonTable ==
  [n \in 0 .. 7 |->
     CASE n = 0 -> <<NOT_VALID, 1, 4, 7>> [] n = 1 -> <<NOT_VALID, 2, 5, 0>>
       [] n = 2 -> <<NOT_VALID, 3, 6, 1>> [] n = 3 -> <<4, NOT_VALID, 7, 2>>
       [] n = 4 -> <<0, 5, 3, NOT_VALID>> [] n = 5 -> <<1, 6, NOT_VALID, 4>>
       [] n = 6 -> <<2, 7, NOT_VALID, 5>> [] n = 7 -> <<3, 0, NOT_VALID, 6>>]

OctagonDistance ==
  LET succ == [n \in 0 .. 7 |-> {OctagonTable[n][k] : k \in 1 .. 4} \ {NOT_VALID}]
  IN  [n \in 0 .. 7 |-> HopsIn(succ, n)]

OctagonFarthest(n, t) ==   (* mutant *)
  LET ways == {k \in 1 .. 4 : OctagonTable[n][k] # NOT_VALID}
      dist(k) == OctagonDistance[t][OctagonTable[n][k]]
  IN  {OctagonOrder[Min({k \in ways : \A l \in ways : dist(k) >= dist(l)})]}
OCTAGON(n, t) ==
  LET ways == {k \in 1 .. 4 : OctagonTable[n][k] # NOT_VALID}
      dist(k) == OctagonDistance[t][OctagonTable[n][k]]
      best == Min({k \in ways : \A l \in ways : dist(k) <= dist(l)})
  IN  {OctagonOrder[best]}

(* A routing table tells links by the numbers of their ends, row by row,   *)
(* and has nothing to say about a link that is not in it.                  *)
InputLinkUpsideDown(node_id, dir) ==   (* mutant *)
  CASE dir = "NORTH" -> <<node_id + mesh_dim_x, node_id>>
    [] dir = "SOUTH" -> <<node_id - mesh_dim_x, node_id>>
    [] dir = "EAST"  -> <<node_id + 1, node_id>>
    [] dir = "WEST"  -> <<node_id - 1, node_id>>
    [] dir = "LOCAL" -> <<node_id, node_id>>
direction2ILinkId(node_id, dir) ==
  CASE dir = "NORTH" -> <<node_id - mesh_dim_x, node_id>>
    [] dir = "SOUTH" -> <<node_id + mesh_dim_x, node_id>>
    [] dir = "EAST"  -> <<node_id + 1, node_id>>
    [] dir = "WEST"  -> <<node_id - 1, node_id>>
    [] dir = "LOCAL" -> <<node_id, node_id>>

oLinkId2Direction(l) ==
  CASE l[2] = l[1] -> "LOCAL"
    [] l[2] = l[1] + 1 -> "EAST"
    [] l[2] = l[1] - 1 -> "WEST"
    [] l[2] = l[1] - mesh_dim_x -> "NORTH"
    [] l[2] = l[1] + mesh_dim_x -> "SOUTH"

getAdmissibleOutputs(node_id, in_link, t) ==
  {x[2] : x \in {y \in rt_noc[node_id][t] : y[1] = in_link}}

TABLE_BASED(n, dir_in, t) ==
  {oLinkId2Direction(l) : l \in getAdmissibleOutputs(n, direction2ILinkId(n, dir_in), t)}

(* A switch takes the output that its stage's bit of the destination says. *)
DELTA(n, t) ==
  IF n < n_delta_tiles THEN {"NORTH"}
  ELSE {DirectionOf(Bit(t, stg - 1 - Stage(n)))}

(* Router::nextDeltaHops: the nodes of the way from core s to core t that  *)
(* the relay decision looks at, computed without looking at the wiring.    *)
(* Relays are allowed on the butterfly family only, so the first switch is *)
(* reckoned as there and not as on an omega network.                       *)
nextDeltaRowWrongBit(s, t) ==   (* mutant *)
  LET row[i \in 0 .. stg - 1] ==
        IF i = 0 THEN s \div 2
        ELSE LET y == row[i - 1]
                 bit_to_check == stg - i
                 straight == DELTA(Switch(i - 1, y), t) = {DirectionOf(Bit(y, bit_to_check))}
             IN  IF straight THEN y ELSE toggleKthBit(y, bit_to_check)
  IN  row
nextDeltaRow(s, t) ==
  LET row[i \in 0 .. stg - 1] ==
        IF i = 0 THEN s \div 2
        ELSE LET y == row[i - 1]
                 bit_to_check == stg - i
                 straight == DELTA(Switch(i - 1, y), t) = {DirectionOf(Bit(y, bit_to_check - 1))}
             IN  IF straight THEN y ELSE toggleKthBit(y, bit_to_check)
  IN  row

nextDeltaHops(s, t) ==
  [k \in 1 .. stg + 1 |-> IF k = stg + 1 THEN t ELSE Switch(k - 1, nextDeltaRow(s, t)[k - 1])]

(* The route of each algorithm: dir_in is the port the head came in by.    *)
Candidates(algorithm, n, s, t, dir_in) ==
  CASE algorithm = "XY"             -> XY(n, t)
    [] algorithm = "WEST_FIRST"     -> WEST_FIRST(n, t)
    [] algorithm = "NORTH_LAST"     -> NORTH_LAST(n, t)
    [] algorithm = "NEGATIVE_FIRST" -> NEGATIVE_FIRST(n, t)
    [] algorithm = "ODD_EVEN"       -> ODD_EVEN(n, s, t)
    [] algorithm = "DYAD"           -> DYAD(n, s, t)
    [] algorithm = "XY_TORUS"       -> XY_TORUS(n, t)
    [] algorithm = "OCTAGON"        -> OCTAGON(n, t)
    [] algorithm = "DELTA"          -> DELTA(n, t)
    [] algorithm = "TABLE_BASED"    -> TABLE_BASED(n, dir_in, t)

=============================================================================
