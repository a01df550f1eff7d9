-------------------------- MODULE ProcessingElement --------------------------
(***************************************************************************)
(* A processing element (src/src/ProcessingElement.cpp) of a mesh or torus *)
(* and the local port of its router.  Both sides run at the same clock     *)
(* edge and read the signals as they were before it.  Whether a packet is  *)
(* made at an edge is left to chance, as is everything else that rand()    *)
(* decides; rates and the locality are percentages.                        *)
(*                                                                         *)
(* rxProcess, which acknowledges whatever comes and keeps none of it,      *)
(* shares nothing with txProcess and is left out.                          *)
(***************************************************************************)
EXTENDS Integers, SequencesExt

CONSTANTS
  mesh_dim_x, mesh_dim_y,
  n_virtual_channels,
  min_packet_size, max_packet_size,
  packet_injection_rate, probability_of_retransmission,
  locality,
  hub_for_tile,           (* the hub that each tile is attached to         *)
  traffic_table,          (* of TABLE_BASED: set of Communication          *)
  table_period,           (* a common multiple of the periods in it        *)
  traffic_list,           (* of HARDCODED: for each cycle, <<src, dst>>s   *)
  traffic_distributions,  (* the distributions to look at                  *)
  MaxQueue                (* bound: no packet is made when so many wait    *)

Tiles == 0 .. mesh_dim_x * mesh_dim_y - 1
VCs   == 0 .. n_virtual_channels - 1
Sizes == min_packet_size .. max_packet_size

Communication == [src : Tiles, dst : Tiles, t_on : Nat, t_off : Nat, t_period : Nat \ {0}]

(* Those that send one packet at a time to a destination drawn or computed.*)
BitDistributions == {"BIT_REVERSAL", "SHUFFLE", "BUTTERFLY"}
Broadcasts == {"BROADCAST", "BROADCAST_LONG_DISTANCE"}
Distributions ==
  {"RANDOM", "TRANSPOSE1", "TRANSPOSE2", "LOCAL", "ULOCAL", "LONG_DISTANCE",
   "TABLE_BASED", "HARDCODED"} \cup BitDistributions \cup Broadcasts

ASSUME DimAssumption == mesh_dim_x \in Nat \ {0, 1} /\ mesh_dim_y \in Nat \ {0, 1}
ASSUME SizeAssumption ==
  min_packet_size \in Nat \ {0, 1} /\ max_packet_size \in Nat /\ min_packet_size <= max_packet_size
ASSUME RateAssumption ==
  /\ packet_injection_rate \in 1 .. 100
  /\ probability_of_retransmission \in 0 .. 100
  /\ locality \in 0 .. 100
(* TRAFFIC_LOCAL divides by the number of tiles at the same hub but the    *)
(* sender, and by the number of those elsewhere; neither may be zero.      *)
ASSUME HubAssumption ==
  /\ DOMAIN hub_for_tile = Tiles
  /\ \A t \in Tiles : \E near, far \in Tiles :
       /\ near # t /\ hub_for_tile[near] = hub_for_tile[t]
       /\ hub_for_tile[far] # hub_for_tile[t]
ASSUME TableAssumption ==
  traffic_table \subseteq Communication /\ \A c \in traffic_table : table_period % c.t_period = 0
ASSUME ListAssumption == traffic_list \in Seq(Seq(Tiles \X Tiles))
ASSUME BoundAssumption ==
  n_virtual_channels \in Nat \ {0} /\ traffic_distributions \subseteq Distributions /\ MaxQueue \in Nat

VARIABLES
  local_id, traffic_distribution,
  now,                           (* of TABLE_BASED: the cycle             *)
  traffic_cycle,                 (* of HARDCODED: the next cycle          *)
  transmittedAtPreviousCycle,
  packet_queue,
  req_tx, ack_tx, flit_tx, current_level_tx,   (* to the router           *)
  aborted                        (* an assertion has failed               *)

fixed   == <<local_id, traffic_distribution>>
traffic == <<now, traffic_cycle, transmittedAtPreviousCycle>>
vars    == <<fixed, traffic, packet_queue, req_tx, ack_tx, flit_tx, current_level_tx, aborted>>

Packet == [dst_id : Tiles, vc_id : VCs, size : Sizes, flit_left : 1 .. max_packet_size]

(***************************************************************************)
(* Destinations of one packet.                                             *)
(***************************************************************************)
X(id) == id % mesh_dim_x
Y(id) == id \div mesh_dim_x
Id(x, y) == y * mesh_dim_x + x
abs(n) == IF n < 0 THEN -n ELSE n
Away(s, t) == abs(X(s) - X(t)) + abs(Y(s) - Y(t))

trafficRandom(s) == Tiles \ {s}

(* Below the locality a tile of the same hub, else one of another.         *)
trafficLocal(s) ==
  {t \in Tiles : t # s /\ hub_for_tile[t] = hub_for_tile[s]}
  \cup {t \in Tiles : locality < 100 /\ hub_for_tile[t] # hub_for_tile[s]}

(* A walk of so many hops in one of four diagonal directions; at a border  *)
(* that part of the direction is given up for good.                        *)
NotStopped(c, inc, dim) == inc   (* mutant *)
Stopped(c, inc, dim) ==
  IF (c = 0 /\ inc < 0) \/ (c = dim - 1 /\ inc > 0) THEN 0 ELSE inc

(* From places and directions, <<x, y, inc_x, inc_y>>, to the next ones.   *)
Hop(cs) ==
  UNION {LET i == Stopped(c[1], c[3], mesh_dim_x)
             j == Stopped(c[2], c[4], mesh_dim_y)
         IN  {<<c[1] + i, c[2], i, j>>, <<c[1], c[2] + j, i, j>>} : c \in cs}

findRandomDestination(s, hops) ==
  LET Walk[h \in 0 .. hops] ==
        IF h = 0 THEN {<<X(s), Y(s), i, j>> : i \in {-1, 1}, j \in {-1, 1}} ELSE Hop(Walk[h - 1])
  IN  {Id(c[1], c[2]) : c \in Walk[hops]}

(* Between one hop and the length of the longest way.                      *)
slices == mesh_dim_x + mesh_dim_y - 2

trafficULocal(s) == UNION {findRandomDestination(s, hops) : hops \in 1 .. slices}

(* At least half of the longest way away.                                  *)
min_distance == IF slices < 2 THEN 1 ELSE (slices + 1) \div 2
LongDistance(s) == {t \in Tiles \ {s} : Away(s, t) >= min_distance}
trafficLongDistance(s) == IF LongDistance(s) = {} THEN trafficRandom(s) ELSE LongDistance(s)

Clamped(c, dim) == IF c < 0 THEN 0 ELSE IF c >= dim THEN dim - 1 ELSE c
fixRanges(x, y) == Id(Clamped(x, mesh_dim_x), Clamped(y, mesh_dim_y))

trafficTranspose1(s) == {fixRanges(mesh_dim_x - 1 - Y(s), mesh_dim_y - 1 - X(s))}
trafficTranspose2(s) == {fixRanges(Y(s), X(s))}

nbits == CHOOSE k \in Tiles : /\ 2 ^ k >= mesh_dim_x * mesh_dim_y
                              /\ \A l \in 0 .. k - 1 : 2 ^ l < mesh_dim_x * mesh_dim_y
getBit(x, w) == (x \div 2 ^ w) % 2
(* The number whose bit i is bit from[i] of s.                             *)
Permuted(s, from) ==
  FoldFunction(LAMBDA a, b : a + b, 0, [i \in 0 .. nbits - 1 |-> getBit(s, from[i]) * 2 ^ i])

trafficBitReversal(s) == {Permuted(s, [i \in 0 .. nbits - 1 |-> nbits - 1 - i])}
trafficShuffle(s)     == {Permuted(s, [i \in 0 .. nbits - 1 |-> (i - 1) % nbits])}
trafficButterfly(s)   ==
  {Permuted(s, [i \in 0 .. nbits - 1 |->
                  CASE i = 0 -> nbits - 1 [] i = nbits - 1 -> 0 [] OTHER -> i])}

(* The communications of the table that are on.                            *)
getCumulativePirPor(s) ==
  {c \in traffic_table : c.src = s /\ now % c.t_period > c.t_on /\ now % c.t_period < c.t_off}

Destinations(s) ==
  CASE traffic_distribution = "RANDOM"        -> trafficRandom(s)
    [] traffic_distribution = "TRANSPOSE1"    -> trafficTranspose1(s)
    [] traffic_distribution = "TRANSPOSE2"    -> trafficTranspose2(s)
    [] traffic_distribution = "BIT_REVERSAL"  -> trafficBitReversal(s)
    [] traffic_distribution = "SHUFFLE"       -> trafficShuffle(s)
    [] traffic_distribution = "BUTTERFLY"     -> trafficButterfly(s)
    [] traffic_distribution = "LOCAL"         -> trafficLocal(s)
    [] traffic_distribution = "ULOCAL"        -> trafficULocal(s)
    [] traffic_distribution = "LONG_DISTANCE" -> trafficLongDistance(s)
    [] traffic_distribution = "TABLE_BASED"   -> {c.dst : c \in getCumulativePirPor(s)}

(***************************************************************************)
(* Making packets.                                                         *)
(***************************************************************************)

(* One packet to each of the destinations, in their order.                 *)
PacketsTo(ds) ==
  {[i \in DOMAIN ds |->
      [dst_id |-> ds[i], vc_id |-> v[i], size |-> z[i], flit_left |-> z[i]]] :
    v \in [DOMAIN ds -> VCs], z \in [DOMAIN ds -> Sizes]}

(* Numbers in ascending order.                                             *)
InOrder(ts) ==
  [k \in 1 .. Cardinality(ts) |-> CHOOSE t \in ts : Cardinality({u \in ts : u <= t}) = k]

(* What one shot may put into the queue.                                   *)
Shots ==
  CASE traffic_distribution = "BROADCAST" -> PacketsTo(InOrder(Tiles \ {local_id}))
    [] traffic_distribution = "BROADCAST_LONG_DISTANCE" -> PacketsTo(InOrder(LongDistance(local_id)))
    [] OTHER -> UNION {PacketsTo(<<t>>) : t \in Destinations(local_id)}

threshold ==
  IF transmittedAtPreviousCycle THEN probability_of_retransmission ELSE packet_injection_rate

(* The list as read from the file, where a line of -1 ends each cycle.     *)
traffic_at_cycle(c) == traffic_list[c + 1]
num_cycles == Len(traffic_list)

(* Its packets for this tile and this cycle.                               *)
Expected ==
  LET entries == traffic_at_cycle(traffic_cycle)
      mine    == InOrder({i \in DOMAIN entries : entries[i][1] = local_id})
  IN  [i \in DOMAIN mine |-> entries[mine[i]][2]]

Tick ==
  now' = IF traffic_distribution = "TABLE_BASED" THEN (now + 1) % table_period ELSE now

(***************************************************************************)
(* Cutting them into flits.                                                *)
(***************************************************************************)
NoFlit == [dst_id |-> 0, vc_id |-> 0, sequence_no |-> 0, sequence_length |-> 0, flit_type |-> "NONE"]

nextFlit(p) ==
  [dst_id |-> p.dst_id, vc_id |-> p.vc_id,
   sequence_no |-> p.size - p.flit_left, sequence_length |-> p.size,
   flit_type |-> IF p.size = p.flit_left THEN "HEAD"
                 ELSE IF p.flit_left = 1 THEN "TAIL" ELSE "BODY"]

(* The queue without the flit just taken.                                  *)
QueueAfter(q) ==
  IF Head(q).flit_left = 1 THEN Tail(q) ELSE [q EXCEPT ![1].flit_left = @ - 1]

QueuedInFront(packets) == packets \o packet_queue   (* mutant *)
Queued(packets) == packet_queue \o packets

txProcess(packets) ==
  LET q == Queued(packets)
  IN  IF ack_tx = current_level_tx /\ q # <<>>
        THEN /\ flit_tx' = nextFlit(Head(q))
             /\ packet_queue' = QueueAfter(q)
             /\ current_level_tx' = 1 - current_level_tx
             /\ req_tx' = current_level_tx'
        ELSE /\ packet_queue' = q
             /\ UNCHANGED <<flit_tx, current_level_tx, req_tx>>

(* The router takes the flit offered, or has no room for it.               *)
RouterSide == ack_tx' \in {ack_tx, req_tx}

Init ==
  /\ local_id \in Tiles
  /\ traffic_distribution \in traffic_distributions
  /\ now = 0 /\ traffic_cycle = 0 /\ transmittedAtPreviousCycle = FALSE
  /\ packet_queue = <<>>
  /\ req_tx = 0 /\ ack_tx = 0 /\ current_level_tx = 0 /\ flit_tx = NoFlit
  /\ aborted = FALSE

(* One edge at which these packets are made.                               *)
Edge(packets) ==
  /\ ~aborted
  /\ txProcess(packets)
  /\ RouterSide
  /\ UNCHANGED <<fixed, aborted>>

MayShoot ==
  /\ traffic_distribution # "HARDCODED"
  /\ threshold > 0
  /\ Len(packet_queue) < MaxQueue

Shoot ==
  /\ MayShoot
  /\ \E packets \in Shots : Edge(packets)
  /\ transmittedAtPreviousCycle' = TRUE
  /\ Tick
  /\ UNCHANGED traffic_cycle

DoNotShoot ==
  /\ traffic_distribution # "HARDCODED"
  /\ Edge(<<>>)
  /\ transmittedAtPreviousCycle' = FALSE
  /\ Tick
  /\ UNCHANGED traffic_cycle

(* The packets of the list, at its cycle.                                  *)
ShootListed ==
  /\ traffic_distribution = "HARDCODED"
  /\ traffic_cycle < num_cycles
  /\ \E packets \in PacketsTo(Expected) : Edge(packets)
  /\ transmittedAtPreviousCycle' = (Expected # <<>>)
  /\ traffic_cycle' = traffic_cycle + 1
  /\ UNCHANGED now

ListIsOver ==
  /\ traffic_distribution = "HARDCODED"
  /\ traffic_cycle >= num_cycles
  /\ Edge(<<>>)
  /\ UNCHANGED traffic

(* roulette: no number of hops is drawn, and assert(false) is reached.     *)
RouletteFails ==
  /\ ~aborted
  /\ MayShoot
  /\ traffic_distribution = "ULOCAL"
  /\ aborted' = TRUE
  /\ UNCHANGED <<fixed, traffic, packet_queue, req_tx, ack_tx, flit_tx, current_level_tx>>

Next == Shoot \/ DoNotShoot \/ ShootListed \/ ListIsOver \/ RouletteFails

Spec == Init /\ [][Next]_vars

-----------------------------------------------------------------------------
(***************************************************************************)
(* Properties.                                                             *)
(***************************************************************************)

(* Every packet is for a tile of the network, whatever its destination was *)
(* computed from, and where one is drawn among other tiles never for the   *)
(* sender itself.                                                          *)
ToOthers == {"RANDOM", "LOCAL", "LONG_DISTANCE"} \cup Broadcasts
DestinationOK ==
  \A i \in DOMAIN packet_queue :
    /\ packet_queue[i] \in Packet
    /\ traffic_distribution \in ToOthers => packet_queue[i].dst_id # local_id

(* The router is offered a flit only after it has taken the last one, and  *)
(* gets packet after packet: head, bodies, tail, in the order of their     *)
(* numbers and without a flit of another packet between them, also when    *)
(* packets are made while one is being sent.                               *)
Starts(f) == f.flit_type = "HEAD" /\ f.sequence_no = 0
Continues(f, g) ==
  /\ g = [f EXCEPT !.sequence_no = @ + 1, !.flit_type = g.flit_type]
  /\ g.flit_type = IF g.sequence_no = g.sequence_length - 1 THEN "TAIL" ELSE "BODY"

WholePackets ==
  [][req_tx' # req_tx =>
       /\ ack_tx = req_tx
       /\ IF flit_tx.flit_type \in {"NONE", "TAIL"}
            THEN Starts(flit_tx') ELSE Continues(flit_tx, flit_tx')]_vars

=============================================================================
