----------------------- MODULE ProcessingElementProofs -----------------------
(***************************************************************************)
(* Theorems about ProcessingElement, for any mesh, packet sizes, rates,    *)
(* hubs, traffic tables and lists.                                         *)
(***************************************************************************)
EXTENDS ProcessingElement, TLAPS, FiniteSetTheorems, SequenceTheorems, WellFoundedInduction

-----------------------------------------------------------------------------
(***************************************************************************)
(* The packets are cut in order.  The inductive invariant: what waits in   *)
(* the queue goes on where the flit on the wires has stopped.              *)
(***************************************************************************)
Waiting(ds) == [dst_id : ds, vc_id : VCs, size : Sizes, flit_left : Nat \ {0}]

Fresh(p) == p.flit_left = p.size

BetweenPackets(f) == f.flit_type \in {"NONE", "TAIL"}

(* No packet of q but the first is begun, and that one only when f was its *)
(* last flit.                                                              *)
GoesOn(f, q) ==
  /\ \A k \in 2 .. Len(q) : Fresh(q[k])
  /\ IF BetweenPackets(f)
       THEN q # <<>> => Fresh(q[1])
       ELSE /\ q # <<>> /\ q[1].flit_left < q[1].size
            /\ f = nextFlit([q[1] EXCEPT !.flit_left = @ + 1])

Levels ==
  /\ current_level_tx \in {0, 1} /\ ack_tx \in {0, 1}
  /\ req_tx = current_level_tx

Cutting ==
  /\ Levels
  /\ traffic_cycle \in Nat
  /\ \E ds : packet_queue \in Seq(Waiting(ds))
  /\ GoesOn(flit_tx, packet_queue)

-----------------------------------------------------------------------------
LEMMA SizesFacts == Sizes \subseteq Nat \ {0, 1} /\ max_packet_size \in Nat
BY SizeAssumption DEF Sizes

LEMMA TilesFinite == IsFiniteSet(Tiles)
<1>1. mesh_dim_x * mesh_dim_y - 1 \in Int
  BY DimAssumption
<1> QED BY <1>1, FS_Interval DEF Tiles

(* A packet of some size on some virtual channel for each destination.     *)
LEMMA PacketsMade ==
  ASSUME NEW n \in Nat, NEW ds, DOMAIN ds = 1 .. n, NEW packets \in PacketsTo(ds)
  PROVE  \E v \in [1 .. n -> VCs], z \in [1 .. n -> Sizes] :
           packets = [i \in 1 .. n |->
                        [dst_id |-> ds[i], vc_id |-> v[i], size |-> z[i], flit_left |-> z[i]]]
BY DEF PacketsTo

(* New packets are sequences of packets none of which is begun.            *)
AllFresh(packets) ==
  \E ds : /\ packets \in Seq(Waiting(ds))
          /\ \A k \in 1 .. Len(packets) : Fresh(packets[k])

LEMMA PacketsAreFresh ==
  ASSUME NEW n \in Nat, NEW ds, DOMAIN ds = 1 .. n, NEW packets \in PacketsTo(ds)
  PROVE  AllFresh(packets)
<1>1. PICK v \in [1 .. n -> VCs], z \in [1 .. n -> Sizes] :
        packets = [i \in 1 .. n |->
                     [dst_id |-> ds[i], vc_id |-> v[i], size |-> z[i], flit_left |-> z[i]]]
  BY PacketsMade
<1> DEFINE D == {ds[i] : i \in 1 .. n}
<1>2. \A i \in 1 .. n : packets[i] \in Waiting(D) /\ Fresh(packets[i])
  BY <1>1, SizesFacts DEF Waiting, Fresh
<1>3. packets \in [1 .. n -> Waiting(D)]
  BY <1>1, <1>2
<1>4. packets \in Seq(Waiting(D)) /\ Len(packets) = n
  BY <1>3
<1> QED BY <1>2, <1>4 DEF AllFresh

LEMMA InOrderDomain ==
  ASSUME NEW S, IsFiniteSet(S)
  PROVE  Cardinality(S) \in Nat /\ DOMAIN InOrder(S) = 1 .. Cardinality(S)
BY FS_CardinalityType DEF InOrder

LEMMA ShotsAreFresh ==
  ASSUME NEW packets \in Shots
  PROVE  AllFresh(packets)
<1>1. ASSUME NEW S \in SUBSET Tiles, packets \in PacketsTo(InOrder(S))
      PROVE  AllFresh(packets)
  BY <1>1, TilesFinite, FS_Subset, InOrderDomain, PacketsAreFresh
<1>2. ASSUME NEW t, packets \in PacketsTo(<<t>>)
      PROVE  AllFresh(packets)
  <2>1. DOMAIN <<t>> = 1 .. 1
    OBVIOUS
  <2> QED BY <1>2, <2>1, PacketsAreFresh
<1>3. CASE traffic_distribution = "BROADCAST"
  BY <1>1, <1>3 DEF Shots
<1>4. CASE traffic_distribution = "BROADCAST_LONG_DISTANCE"
  <2>1. LongDistance(local_id) \subseteq Tiles
    BY DEF LongDistance
  <2> QED BY <1>1, <1>4, <2>1 DEF Shots
<1>5. CASE traffic_distribution \notin {"BROADCAST", "BROADCAST_LONG_DISTANCE"}
  BY <1>2, <1>5 DEF Shots
<1> QED BY <1>3, <1>4, <1>5

LEMMA ListedAreFresh ==
  ASSUME traffic_cycle \in Nat, traffic_cycle < num_cycles, NEW packets \in PacketsTo(Expected)
  PROVE  AllFresh(packets)
<1> DEFINE entries == traffic_at_cycle(traffic_cycle)
           S == {i \in DOMAIN entries : entries[i][1] = local_id}
<1>1. entries \in Seq(Tiles \X Tiles)
  <2>1. traffic_list \in Seq(Seq(Tiles \X Tiles)) /\ traffic_cycle + 1 \in 1 .. Len(traffic_list)
    BY ListAssumption DEF num_cycles
  <2> QED BY <2>1, ElementOfSeq DEF traffic_at_cycle
<1>2. IsFiniteSet(DOMAIN entries)
  <2>1. DOMAIN entries = 1 .. Len(entries) /\ Len(entries) \in Int
    BY <1>1, LenProperties
  <2> QED BY <2>1, FS_Interval
<1>3. IsFiniteSet(S)
  BY <1>2, FS_Subset
<1>4. DOMAIN Expected = 1 .. Cardinality(S) /\ Cardinality(S) \in Nat
  BY <1>3, InOrderDomain DEF Expected
<1> QED BY <1>4, PacketsAreFresh

LEMMA MorePackets ==
  ASSUME NEW ds, NEW q \in Seq(Waiting(ds)), NEW f, GoesOn(f, q),
         NEW packets, AllFresh(packets)
  PROVE  /\ \E es : q \o packets \in Seq(Waiting(es))
         /\ GoesOn(f, q \o packets)
<1>1. PICK es : /\ packets \in Seq(Waiting(es))
                /\ \A k \in 1 .. Len(packets) : Fresh(packets[k])
  BY DEF AllFresh
<1> DEFINE r == q \o packets
           W == Waiting(ds \cup es)
<1>2. Waiting(ds) \subseteq W /\ Waiting(es) \subseteq W
  BY DEF Waiting
<1>3. q \in Seq(W) /\ packets \in Seq(W)
  BY <1>1, <1>2, SeqMonotonic
<1> HIDE DEF W
<1>4. /\ r \in Seq(W) /\ Len(r) = Len(q) + Len(packets)
      /\ Len(q) \in Nat /\ Len(packets) \in Nat
      /\ \A k \in 1 .. Len(q) : r[k] = q[k]
      /\ \A k \in 1 .. Len(r) : k > Len(q) => r[k] = packets[k - Len(q)]
  BY <1>3, ConcatProperties, LenProperties
<1>5. q = <<>> <=> Len(q) = 0
  BY EmptySeq
<1>6. r = <<>> <=> Len(r) = 0
  BY <1>4, EmptySeq
<1> HIDE DEF r
<1>7. ASSUME NEW k \in 1 .. Len(r), k > Len(q) PROVE Fresh(r[k])
  <2>1. k - Len(q) \in 1 .. Len(packets)
    BY <1>4, <1>7
  <2> QED BY <1>1, <1>4, <1>7, <2>1
<1>8. \A k \in 2 .. Len(r) : Fresh(r[k])
  <2> SUFFICES ASSUME NEW k \in 2 .. Len(r) PROVE Fresh(r[k])
    OBVIOUS
  <2>1. CASE k <= Len(q)
    BY <1>4, <2>1 DEF GoesOn
  <2>2. CASE k > Len(q)
    BY <1>7, <2>2
  <2> QED BY <1>4, <2>1, <2>2
<1>9. CASE q = <<>>
  BY <1>4, <1>5, <1>6, <1>7, <1>8, <1>9 DEF GoesOn, r, W
<1>10. CASE q # <<>>
  <2>1. r[1] = q[1] /\ r # <<>>
    BY <1>4, <1>5, <1>6, <1>10
  <2> QED BY <1>4, <1>8, <1>10, <2>1 DEF GoesOn, r, W
<1> QED BY <1>9, <1>10

(* A flit with another number and type, field by field.                    *)
FlitFields == {"dst_id", "vc_id", "sequence_no", "sequence_length", "flit_type"}

IsFlit(f, d, v, n, l, t) ==
  f = [dst_id |-> d, vc_id |-> v, sequence_no |-> n, sequence_length |-> l, flit_type |-> t]

Renumbered(f, m, u) == [f EXCEPT !.sequence_no = m, !.flit_type = u]

LEMMA FlitUpdate ==
  ASSUME NEW d, NEW v, NEW n, NEW l, NEW t, NEW m, NEW u, NEW f, NEW g,
         IsFlit(f, d, v, n, l, t), IsFlit(g, d, v, m, l, u)
  PROVE  g = Renumbered(f, m, u)
<1> USE DEF FlitFields, IsFlit, Renumbered
<1>1. DOMAIN f = FlitFields /\ g = [x \in FlitFields |-> g[x]]
  OBVIOUS
<1>2. /\ f.dst_id = g.dst_id /\ f.vc_id = g.vc_id /\ f.sequence_length = g.sequence_length
      /\ g.sequence_no = m /\ g.flit_type = u
  OBVIOUS
<1>3. \A x \in FlitFields : [f EXCEPT !.sequence_no = m, !.flit_type = u][x] = g[x]
  BY <1>1, <1>2
<1>4. [f EXCEPT !.sequence_no = m, !.flit_type = u] =
        [x \in FlitFields |-> [f EXCEPT !.sequence_no = m, !.flit_type = u][x]]
  BY <1>1
<1> QED BY <1>1, <1>3, <1>4

(* The next flit continues what is on the wires.                           *)
InTurn(f, g) == IF BetweenPackets(f) THEN Starts(g) ELSE Continues(f, g)

LEMMA CutFlit ==
  ASSUME NEW ds, NEW q \in Seq(Waiting(ds)), q # <<>>, NEW f, GoesOn(f, q)
  PROVE  /\ InTurn(f, nextFlit(Head(q)))
         /\ QueueAfter(q) \in Seq(Waiting(ds))
         /\ GoesOn(nextFlit(Head(q)), QueueAfter(q))
<1>1. Head(q) = q[1] /\ Len(q) \in Nat \ {0} /\ q[1] \in Waiting(ds)
  BY EmptySeq, LenProperties, ElementOfSeq
<1>2. PICK p \in Waiting(ds) : p = Head(q) /\ p = q[1]
  BY <1>1
<1> DEFINE g == nextFlit(p)
<1>3. p.size \in Nat \ {0, 1} /\ p.flit_left \in Nat \ {0} /\ p.flit_left <= p.size
  BY <1>1, <1>2, SizesFacts DEF GoesOn, Waiting, Fresh
<1>4. InTurn(f, g)
  <2>1. CASE BetweenPackets(f)
    BY <1>2, <1>3, <2>1 DEF InTurn, Starts, GoesOn, Fresh, nextFlit
  <2>2. CASE ~BetweenPackets(f)
    <3>1. p.flit_left < p.size /\ f = nextFlit([p EXCEPT !.flit_left = @ + 1])
      BY <1>2, <2>2 DEF GoesOn
    <3>2. /\ f.dst_id = p.dst_id /\ f.vc_id = p.vc_id /\ f.sequence_length = p.size
          /\ f.sequence_no = p.size - (p.flit_left + 1)
          /\ f = [dst_id |-> f.dst_id, vc_id |-> f.vc_id, sequence_no |-> f.sequence_no,
                  sequence_length |-> f.sequence_length, flit_type |-> f.flit_type]
      BY <3>1 DEF nextFlit, Waiting
    <3>3. /\ g.dst_id = p.dst_id /\ g.vc_id = p.vc_id /\ g.sequence_length = p.size
          /\ g.sequence_no = p.size - p.flit_left
          /\ g.flit_type = IF p.flit_left = 1 THEN "TAIL" ELSE "BODY"
          /\ g = [dst_id |-> g.dst_id, vc_id |-> g.vc_id, sequence_no |-> g.sequence_no,
                  sequence_length |-> g.sequence_length, flit_type |-> g.flit_type]
      BY <1>3, <3>1 DEF nextFlit
    <3> HIDE DEF g
    <3>4. g.sequence_no = f.sequence_no + 1
      BY <1>3, <3>2, <3>3
    <3>5. g = [f EXCEPT !.sequence_no = @ + 1, !.flit_type = g.flit_type]
      <4>1. PICK d, v, n, l, t : IsFlit(f, d, v, n, l, t)
        BY <3>2 DEF IsFlit
      <4>2. f.dst_id = d /\ f.vc_id = v /\ f.sequence_no = n /\ f.sequence_length = l
        BY <4>1 DEF IsFlit
      <4>3. PICK m, u : m = n + 1 /\ u = g.flit_type
        OBVIOUS
      <4>4. IsFlit(g, d, v, m, l, u)
        BY <3>2, <3>3, <3>4, <4>2, <4>3 DEF IsFlit
      <4>5. g = Renumbered(f, m, u)
        BY <4>1, <4>4, FlitUpdate
      <4> QED BY <4>2, <4>3, <4>5 DEF Renumbered
    <3>6. g.flit_type = IF g.sequence_no = g.sequence_length - 1 THEN "TAIL" ELSE "BODY"
      BY <1>3, <3>3
    <3> QED BY <2>2, <3>5, <3>6 DEF InTurn, Continues
  <2> QED BY <2>1, <2>2
<1>5. CASE p.flit_left = 1
  <2>1. QueueAfter(q) = Tail(q)
    BY <1>2, <1>5 DEF QueueAfter
  <2>2. /\ Tail(q) \in Seq(Waiting(ds)) /\ Len(Tail(q)) = Len(q) - 1
        /\ \A k \in 1 .. Len(Tail(q)) : Tail(q)[k] = q[k + 1]
    BY HeadTailProperties
  <2>3. BetweenPackets(g)
    BY <1>3, <1>5 DEF BetweenPackets, nextFlit
  <2>4. \A k \in 1 .. Len(Tail(q)) : Fresh(Tail(q)[k])
    <3>1. \A k \in 1 .. Len(Tail(q)) : k + 1 \in 2 .. Len(q)
      BY <1>1, <2>2
    <3> QED BY <2>2, <3>1 DEF GoesOn
  <2>5. Tail(q) # <<>> => 1 \in 1 .. Len(Tail(q))
    BY <1>1, <2>2, EmptySeq
  <2>6. GoesOn(g, Tail(q))
    BY <1>1, <2>2, <2>3, <2>4, <2>5 DEF GoesOn
  <2> QED BY <1>2, <1>4, <2>1, <2>2, <2>6
<1>6. CASE p.flit_left # 1
  <2> DEFINE r == [q EXCEPT ![1].flit_left = @ - 1]
  <2>1. QueueAfter(q) = r
    BY <1>2, <1>6 DEF QueueAfter
  <2> DEFINE o == [p EXCEPT !.flit_left = @ - 1]
  <2>0. p = [dst_id |-> p.dst_id, vc_id |-> p.vc_id, size |-> p.size, flit_left |-> p.flit_left]
    BY DEF Waiting
  <2>10. /\ o.dst_id = p.dst_id /\ o.vc_id = p.vc_id /\ o.size = p.size
         /\ o.flit_left = p.flit_left - 1
         /\ o = [dst_id |-> o.dst_id, vc_id |-> o.vc_id, size |-> o.size,
                 flit_left |-> o.flit_left]
    BY <2>0
  <2>2. o \in Waiting(ds)
    <3>1. p.flit_left - 1 \in Nat \ {0}
      BY <1>3, <1>6
    <3>2. p.dst_id \in ds /\ p.vc_id \in VCs /\ p.size \in Sizes
      BY DEF Waiting
    <3> HIDE DEF o
    <3> QED BY <2>10, <3>1, <3>2 DEF Waiting
  <2>3. r = [q EXCEPT ![1] = o]
    BY <1>2
  <2> HIDE DEF o
  <2>4. /\ r \in Seq(Waiting(ds)) /\ Len(r) = Len(q)
        /\ \A k \in 1 .. Len(q) : r[k] = IF k = 1 THEN o ELSE q[k]
    BY <1>1, <2>2, <2>3, ExceptSeq
  <2> HIDE DEF r
  <2>5. \A k \in 2 .. Len(r) : Fresh(r[k])
    BY <1>1, <2>4 DEF GoesOn
  <2>6. ~BetweenPackets(g)
    BY <1>3, <1>6 DEF BetweenPackets, nextFlit
  <2>7. r[1] = o /\ r # <<>> /\ o.flit_left < o.size
    BY <1>1, <1>3, <1>6, <2>10, <2>4, EmptySeq
  <2>8. [o EXCEPT !.flit_left = @ + 1] = p
    <3>1. o.flit_left + 1 = p.flit_left
      BY <1>3, <2>10
    <3>2. [o EXCEPT !.flit_left = @ + 1] =
            [dst_id |-> o.dst_id, vc_id |-> o.vc_id, size |-> o.size,
             flit_left |-> o.flit_left + 1]
      BY <2>10
    <3> QED BY <2>0, <2>10, <3>1, <3>2
  <2>9. GoesOn(g, r)
    BY <2>5, <2>6, <2>7, <2>8 DEF GoesOn
  <2> QED BY <1>2, <1>4, <2>1, <2>4, <2>9
<1> QED BY <1>5, <1>6

(***************************************************************************)
(* The invariant, action by action.                                        *)
(***************************************************************************)
LEMMA NothingIsFresh == AllFresh(<<>>)
<1>1. <<>> \in Seq(Waiting({})) /\ Len(<<>>) = 0
  OBVIOUS
<1> QED BY <1>1 DEF AllFresh

(* Whatever fresh packets an edge is given, the queue goes on where the    *)
(* wires will have stopped, and the wires go on where they had.            *)
LEMMA EdgeInTurn ==
  ASSUME Cutting, NEW packets, AllFresh(packets), Edge(packets)
  PROVE  /\ Levels'
         /\ \E ds : packet_queue' \in Seq(Waiting(ds))
         /\ GoesOn(flit_tx', packet_queue')
         /\ req_tx' # req_tx => ack_tx = req_tx /\ InTurn(flit_tx, flit_tx')
<1> DEFINE q == packet_queue \o packets
<1>1. PICK ds : packet_queue \in Seq(Waiting(ds))
  BY DEF Cutting
<1>2. (\E es : q \in Seq(Waiting(es))) /\ GoesOn(flit_tx, q)
  BY <1>1, MorePackets DEF Cutting
<1>3. PICK es : q \in Seq(Waiting(es))
  BY <1>2
<1>4. ack_tx' \in {ack_tx, req_tx}
  BY DEF Edge, RouterSide
<1>5. CASE ack_tx = current_level_tx /\ q # <<>>
  <2>1. /\ flit_tx' = nextFlit(Head(q)) /\ packet_queue' = QueueAfter(q)
        /\ current_level_tx' = 1 - current_level_tx /\ req_tx' = current_level_tx'
    BY <1>5 DEF Edge, txProcess, Queued
  <2>2. /\ InTurn(flit_tx, nextFlit(Head(q)))
        /\ QueueAfter(q) \in Seq(Waiting(es))
        /\ GoesOn(nextFlit(Head(q)), QueueAfter(q))
    BY <1>2, <1>3, <1>5, CutFlit
  <2>3. Levels'
    BY <1>4, <2>1 DEF Cutting, Levels
  <2>4. ack_tx = req_tx
    BY <1>5 DEF Cutting, Levels
  <2> QED BY <2>1, <2>2, <2>3, <2>4
<1>6. CASE ~(ack_tx = current_level_tx /\ q # <<>>)
  <2>1. packet_queue' = q /\ UNCHANGED <<flit_tx, current_level_tx, req_tx>>
    BY <1>6 DEF Edge, txProcess, Queued
  <2>2. Levels'
    BY <1>4, <2>1 DEF Cutting, Levels
  <2> QED BY <1>2, <1>3, <2>1, <2>2
<1> QED BY <1>5, <1>6

LEMMA CuttingInit == Init => Cutting
<1> SUFFICES ASSUME Init PROVE Cutting
  OBVIOUS
<1>1. <<>> \in Seq(Waiting({})) /\ Len(<<>>) = 0
  OBVIOUS
<1>2. BetweenPackets(flit_tx)
  BY DEF Init, NoFlit, BetweenPackets
<1>3. GoesOn(flit_tx, packet_queue)
  BY <1>1, <1>2 DEF Init, GoesOn
<1> QED BY <1>1, <1>3 DEF Init, Cutting, Levels

LEMMA CuttingNext ==
  ASSUME Cutting, [Next]_vars
  PROVE  /\ Cutting'
         /\ req_tx' # req_tx => ack_tx = req_tx /\ InTurn(flit_tx, flit_tx')
<1>1. CASE Shoot
  <2>1. PICK packets \in Shots : Edge(packets)
    BY <1>1 DEF Shoot
  <2>2. traffic_cycle' \in Nat
    BY <1>1 DEF Shoot, Cutting
  <2> QED BY <2>1, <2>2, ShotsAreFresh, EdgeInTurn DEF Cutting
<1>2. CASE DoNotShoot
  <2>1. Edge(<<>>) /\ traffic_cycle' \in Nat
    BY <1>2 DEF DoNotShoot, Cutting
  <2> QED BY <2>1, NothingIsFresh, EdgeInTurn DEF Cutting
<1>3. CASE ShootListed
  <2>1. traffic_cycle \in Nat /\ traffic_cycle < num_cycles /\ traffic_cycle' = traffic_cycle + 1
    BY <1>3 DEF ShootListed, Cutting
  <2>2. PICK packets \in PacketsTo(Expected) : Edge(packets)
    BY <1>3 DEF ShootListed
  <2>3. AllFresh(packets)
    BY <2>1, <2>2, ListedAreFresh
  <2>4. traffic_cycle' \in Nat
    BY <2>1
  <2> QED BY <2>2, <2>3, <2>4, EdgeInTurn DEF Cutting
<1>4. CASE ListIsOver
  <2>1. Edge(<<>>) /\ traffic_cycle' \in Nat
    BY <1>4 DEF ListIsOver, Cutting, traffic
  <2> QED BY <2>1, NothingIsFresh, EdgeInTurn DEF Cutting
<1>5. CASE RouletteFails
  BY <1>5 DEF RouletteFails, Cutting, Levels, traffic
<1>6. CASE UNCHANGED vars
  BY <1>6 DEF vars, traffic, Cutting, Levels
<1> QED BY <1>1, <1>2, <1>3, <1>4, <1>5, <1>6 DEF Next

(* The router is offered a flit only after it has taken the last one, and  *)
(* packet after packet in the order of the flits: for every distribution,  *)
(* also while packets are made in the middle of one (txProcess).           *)
THEOREM PacketsAreCutInOrder == Spec => WholePackets
<1>1. Cutting /\ [Next]_vars =>
        [req_tx' # req_tx =>
           /\ ack_tx = req_tx
           /\ IF flit_tx.flit_type \in {"NONE", "TAIL"}
                THEN Starts(flit_tx') ELSE Continues(flit_tx, flit_tx')]_vars
  BY CuttingNext DEF InTurn, BetweenPackets
<1>2. Cutting /\ [Next]_vars => Cutting'
  BY CuttingNext
<1> QED BY CuttingInit, <1>1, <1>2, PTL DEF Spec, WholePackets

-----------------------------------------------------------------------------
(***************************************************************************)
(* Numbers in ascending order: InOrder lists each member of its set.  That *)
(* there is a member of every rank is seen by counting: ranks differ, and  *)
(* there are as many as members.                                           *)
(***************************************************************************)
LEMMA Ranks ==
  ASSUME NEW S \in SUBSET Nat, IsFiniteSet(S), NEW k \in 1 .. Cardinality(S)
  PROVE  \E t \in S : Cardinality({u \in S : u <= t}) = k
<1> DEFINE Upto(t) == {u \in S : u <= t}
           rank == [t \in S |-> Cardinality(Upto(t))]
           C == 1 .. Cardinality(S)
<1>1. Cardinality(S) \in Nat
  BY FS_CardinalityType
<1>2. IsFiniteSet(C) /\ Cardinality(C) = Cardinality(S)
  BY <1>1, FS_Interval
<1>3. \A t \in S : IsFiniteSet(Upto(t)) /\ Cardinality(Upto(t)) \in C
  <2> TAKE t \in S
  <2>1. /\ IsFiniteSet(Upto(t)) /\ Cardinality(Upto(t)) <= Cardinality(S)
    BY FS_Subset
  <2>2. Cardinality(Upto(t)) \in Nat
    BY <2>1, FS_CardinalityType
  <2>3. t \in Upto(t)
    OBVIOUS
  <2>4. Cardinality(Upto(t)) # 0
    BY <2>1, <2>3, FS_EmptySet
  <2> QED BY <1>1, <2>1, <2>2, <2>4
<1>4. ASSUME NEW t \in S, NEW u \in S, t < u
      PROVE  rank[t] # rank[u]
  <2>1. Upto(t) \in SUBSET Upto(u) /\ u \notin Upto(t) /\ u \in Upto(u)
    <3>1. S \subseteq Nat /\ t \in Nat /\ u \in Nat
      OBVIOUS
    <3>2. \A w \in S : w <= t => w <= u
      BY <1>4, <3>1
    <3>3. ~(u <= t) /\ u <= u
      BY <1>4, <3>1
    <3> QED BY <3>2, <3>3
  <2>2. Cardinality(Upto(u)) = Cardinality(Upto(t)) => Upto(u) = Upto(t)
    <3> HIDE DEF Upto
    <3> QED BY <1>3, <2>1, FS_Subset
  <2> QED BY <2>1, <2>2
<1>5. rank \in Injection(S, C)
  <2>1. rank \in [S -> C]
    BY <1>3
  <2>2. ASSUME NEW t \in S, NEW u \in S, rank[t] = rank[u] PROVE t = u
    <3>1. t \in Nat /\ u \in Nat
      OBVIOUS
    <3> HIDE DEF rank
    <3> QED BY <1>4, <2>2, <3>1
  <2> HIDE DEF rank, C
  <2> QED BY <2>1, <2>2 DEF Injection, IsInjective
<1>6. rank \in Surjection(S, C)
  BY <1>2, <1>5, FS_Injection
<1>7. \E t \in S : rank[t] = k
  <2> HIDE DEF rank
  <2> QED BY <1>6 DEF Surjection
<1> QED BY <1>7

LEMMA InOrderMembers ==
  ASSUME NEW S \in SUBSET Nat, IsFiniteSet(S)
  PROVE  /\ Cardinality(S) \in Nat
         /\ DOMAIN InOrder(S) = 1 .. Cardinality(S)
         /\ \A k \in 1 .. Cardinality(S) : InOrder(S)[k] \in S
<1>1. ASSUME NEW k \in 1 .. Cardinality(S) PROVE InOrder(S)[k] \in S
  <2>1. InOrder(S)[k] = CHOOSE t \in S : Cardinality({u \in S : u <= t}) = k
    BY DEF InOrder
  <2> QED BY <2>1, Ranks
<1> QED BY <1>1, InOrderDomain

-----------------------------------------------------------------------------
(***************************************************************************)
(* Coordinates.                                                            *)
(***************************************************************************)
LEMMA TilesAreNumbers == /\ mesh_dim_x \in Nat \ {0, 1} /\ mesh_dim_y \in Nat \ {0, 1}
                         /\ mesh_dim_x * mesh_dim_y \in Nat /\ Tiles \subseteq Nat
BY DimAssumption DEF Tiles

LEMMA IdIsATile ==
  ASSUME NEW x \in 0 .. mesh_dim_x - 1, NEW y \in 0 .. mesh_dim_y - 1
  PROVE  Id(x, y) \in Tiles
<1>1. x \in Nat /\ y \in Nat /\ x < mesh_dim_x /\ mesh_dim_x \in Nat /\ mesh_dim_y \in Nat
  BY TilesAreNumbers
<1>2. PICK d \in Nat : mesh_dim_y = y + 1 + d
  <2>1. mesh_dim_y - (y + 1) \in Nat
    BY <1>1
  <2> QED BY <1>1, <2>1
<1>3. mesh_dim_x * mesh_dim_y = y * mesh_dim_x + mesh_dim_x + d * mesh_dim_x
  BY <1>1, <1>2
<1>4. d * mesh_dim_x \in Nat /\ y * mesh_dim_x \in Nat
  BY <1>1, <1>2
<1>5. y * mesh_dim_x + x \in Nat /\ y * mesh_dim_x + x <= mesh_dim_x * mesh_dim_y - 1
  BY <1>1, <1>3, <1>4
<1> QED BY <1>5 DEF Id, Tiles

LEMMA Coordinates ==
  ASSUME NEW s \in Tiles
  PROVE  X(s) \in 0 .. mesh_dim_x - 1 /\ Y(s) \in 0 .. mesh_dim_y - 1
<1>1. /\ s \in Nat /\ s < mesh_dim_x * mesh_dim_y
      /\ mesh_dim_x \in Nat \ {0} /\ mesh_dim_y \in Nat \ {0}
  BY TilesAreNumbers DEF Tiles
<1>2. /\ s % mesh_dim_x \in 0 .. mesh_dim_x - 1 /\ s \div mesh_dim_x \in Nat
      /\ s = mesh_dim_x * (s \div mesh_dim_x) + (s % mesh_dim_x)
  BY <1>1
<1>3. s \div mesh_dim_x < mesh_dim_y
  <2> SUFFICES ASSUME ~(s \div mesh_dim_x < mesh_dim_y) PROVE FALSE
    OBVIOUS
  <2> DEFINE e == s \div mesh_dim_x - mesh_dim_y
  <2>1. e \in Nat /\ s \div mesh_dim_x = mesh_dim_y + e
    BY <1>1, <1>2
  <2> HIDE DEF e
  <2>2. mesh_dim_x * (s \div mesh_dim_x) = mesh_dim_x * mesh_dim_y + mesh_dim_x * e
    BY <1>1, <2>1
  <2>3. mesh_dim_x * e \in Nat
    BY <1>1, <2>1
  <2> QED BY <1>1, <1>2, <2>2, <2>3
<1> QED BY <1>1, <1>2, <1>3 DEF X, Y

LEMMA RangesAreFixed ==
  ASSUME NEW x \in Int, NEW y \in Int
  PROVE  fixRanges(x, y) \in Tiles
<1>1. Clamped(x, mesh_dim_x) \in 0 .. mesh_dim_x - 1 /\ Clamped(y, mesh_dim_y) \in 0 .. mesh_dim_y - 1
  BY TilesAreNumbers DEF Clamped
<1> QED BY <1>1, IdIsATile DEF fixRanges

(***************************************************************************)
(* ULOCAL: a walk of any length ends at a tile.  That the recursive        *)
(* function of the walk exists is shown for each length from the one       *)
(* before; a least length without one would be an absurdity.               *)
(***************************************************************************)
Places == (0 .. mesh_dim_x - 1) \X (0 .. mesh_dim_y - 1) \X {-1, 0, 1} \X {-1, 0, 1}

Directions(s) == {<<X(s), Y(s), i, j>> : i \in {-1, 1}, j \in {-1, 1}}

IsWalk(w, s, n) == w = [h \in 0 .. n |-> IF h = 0 THEN Directions(s) ELSE Hop(w[h - 1])]

LEMMA UpFromZero ==
  ASSUME NEW S \in SUBSET Nat, 0 \in S, \A n \in S : n + 1 \in S
  PROVE  S = Nat
<1> DEFINE T == Nat \ S
<1> SUFFICES ASSUME T # {} PROVE FALSE
  OBVIOUS
<1>1. PICK x \in T : \A y \in T : ~(<<y, x>> \in OpToRel(<, Nat))
  <2>1. T \subseteq Nat
    OBVIOUS
  <2> HIDE DEF T
  <2> QED BY <2>1, NatLessThanWellFounded, WFMin, Zenon
<1>2. x - 1 \in Nat /\ x - 1 < x
  OBVIOUS
<1>3. x - 1 \in T
  <2> SUFFICES ASSUME x - 1 \in S PROVE FALSE
    BY <1>2
  <2>1. (x - 1) + 1 \in S
    OBVIOUS
  <2> QED BY <2>1
<1>4. <<x - 1, x>> \in OpToRel(<, Nat)
  BY <1>2 DEF OpToRel
<1> QED BY <1>1, <1>3, <1>4

LEMMA HopStays ==
  ASSUME NEW cs \in SUBSET Places
  PROVE  Hop(cs) \in SUBSET Places
<1> SUFFICES ASSUME NEW d \in Hop(cs) PROVE d \in Places
  OBVIOUS
<1>1. PICK c \in cs : LET i == Stopped(c[1], c[3], mesh_dim_x)
                          j == Stopped(c[2], c[4], mesh_dim_y)
                      IN  d \in {<<c[1] + i, c[2], i, j>>, <<c[1], c[2] + j, i, j>>}
  BY DEF Hop
<1>2. /\ c[1] \in 0 .. mesh_dim_x - 1 /\ c[2] \in 0 .. mesh_dim_y - 1
      /\ c[3] \in {-1, 0, 1} /\ c[4] \in {-1, 0, 1}
  BY DEF Places
<1> DEFINE i == Stopped(c[1], c[3], mesh_dim_x)
           j == Stopped(c[2], c[4], mesh_dim_y)
<1>3. i \in {-1, 0, 1} /\ c[1] + i \in 0 .. mesh_dim_x - 1
  BY <1>2, TilesAreNumbers DEF Stopped
<1>4. j \in {-1, 0, 1} /\ c[2] + j \in 0 .. mesh_dim_y - 1
  BY <1>2, TilesAreNumbers DEF Stopped
<1>5. d = <<c[1] + i, c[2], i, j>> \/ d = <<c[1], c[2] + j, i, j>>
  BY <1>1
<1> HIDE DEF i, j
<1> QED BY <1>2, <1>3, <1>4, <1>5 DEF Places

LEMMA WalksExist ==
  ASSUME NEW s \in Tiles, NEW hops \in Nat
  PROVE  \E w : IsWalk(w, s, hops)
<1> DEFINE S == {n \in Nat : \E w : IsWalk(w, s, n)}
<1>1. 0 \in S
  <2> DEFINE w == [h \in 0 .. 0 |-> Directions(s)]
  <2>1. w = [h \in 0 .. 0 |-> IF h = 0 THEN Directions(s) ELSE Hop(w[h - 1])]
    OBVIOUS
  <2> HIDE DEF w
  <2>2. IsWalk(w, s, 0)
    BY <2>1 DEF IsWalk
  <2> QED BY <2>2
<1>2. ASSUME NEW n \in S PROVE n + 1 \in S
  <2>1. PICK w : IsWalk(w, s, n)
    OBVIOUS
  <2> DEFINE v == [h \in 0 .. n + 1 |-> IF h = n + 1 THEN Hop(w[n]) ELSE w[h]]
  <2>2. \A h \in 0 .. n : w[h] = IF h = 0 THEN Directions(s) ELSE Hop(w[h - 1])
    BY <2>1 DEF IsWalk
  <2>3. \A h \in 0 .. n + 1 : v[h] = IF h = 0 THEN Directions(s) ELSE Hop(v[h - 1])
    <3> SUFFICES ASSUME NEW h \in 0 .. n + 1
                 PROVE  v[h] = IF h = 0 THEN Directions(s) ELSE Hop(v[h - 1])
      OBVIOUS
    <3>1. CASE h = n + 1
      <4>1. v[h] = Hop(w[n]) /\ n \in 0 .. n + 1 /\ n # n + 1 /\ h # 0 /\ h - 1 = n
        BY <3>1
      <4>2. v[n] = w[n]
        BY <4>1
      <4> HIDE DEF v
      <4> QED BY <4>1, <4>2
    <3>2. CASE h # n + 1 /\ h # 0
      <4>1. h \in 0 .. n /\ h - 1 \in 0 .. n + 1 /\ h - 1 # n + 1
        BY <3>2
      <4>2. v[h] = w[h] /\ v[h - 1] = w[h - 1]
        BY <3>2, <4>1
      <4> HIDE DEF v
      <4> QED BY <2>2, <3>2, <4>1, <4>2
    <3>3. CASE h = 0
      <4>1. 0 \in 0 .. n /\ 0 # n + 1 /\ v[0] = w[0]
        OBVIOUS
      <4> HIDE DEF v
      <4> QED BY <2>2, <3>3, <4>1
    <3> HIDE DEF v
    <3> QED BY <3>1, <3>2, <3>3
  <2>4. DOMAIN v = 0 .. n + 1 /\ v = [h \in 0 .. n + 1 |-> v[h]]
    OBVIOUS
  <2> HIDE DEF v
  <2>5. v = [h \in 0 .. n + 1 |-> IF h = 0 THEN Directions(s) ELSE Hop(v[h - 1])]
    BY <2>3, <2>4
  <2>6. IsWalk(v, s, n + 1)
    BY <2>5 DEF IsWalk
  <2> QED BY <2>6
<1>3. S = Nat
  <2> HIDE DEF S
  <2>1. S \in SUBSET Nat
    BY DEF S
  <2> QED BY <1>1, <1>2, <2>1, UpFromZero
<1> QED BY <1>3

LEMMA WalksStay ==
  ASSUME NEW s \in Tiles, NEW hops \in Nat, NEW w, IsWalk(w, s, hops)
  PROVE  w[hops] \in SUBSET Places
<1> DEFINE S == {n \in Nat : n <= hops => w[n] \in SUBSET Places}
<1>1. \A h \in 0 .. hops : w[h] = IF h = 0 THEN Directions(s) ELSE Hop(w[h - 1])
  BY DEF IsWalk
<1>2. Directions(s) \in SUBSET Places
  BY Coordinates DEF Directions, Places
<1>3. 0 \in S
  BY <1>1, <1>2
<1>4. ASSUME NEW n \in S PROVE n + 1 \in S
  <2> SUFFICES ASSUME n + 1 <= hops PROVE w[n + 1] \in SUBSET Places
    OBVIOUS
  <2>1. n + 1 \in 0 .. hops /\ n + 1 # 0 /\ (n + 1) - 1 = n /\ n <= hops
    OBVIOUS
  <2>2. w[n + 1] = Hop(w[n])
    BY <1>1, <2>1
  <2> QED BY <2>1, <2>2, HopStays
<1>5. S = Nat
  <2> HIDE DEF S
  <2>1. S \in SUBSET Nat
    BY DEF S
  <2> QED BY <1>3, <1>4, <2>1, UpFromZero
<1> QED BY <1>5

LEMMA WalksEndAtTiles ==
  ASSUME NEW s \in Tiles, NEW hops \in Nat
  PROVE  findRandomDestination(s, hops) \subseteq Tiles
<1> DEFINE w == CHOOSE v : IsWalk(v, s, hops)
<1>1. IsWalk(w, s, hops)
  BY WalksExist
<1>2. findRandomDestination(s, hops) = {Id(c[1], c[2]) : c \in w[hops]}
  BY DEF findRandomDestination, IsWalk, Directions
<1> HIDE DEF w
<1>3. w[hops] \in SUBSET Places
  BY <1>1, WalksStay
<1>4. \A c \in w[hops] : Id(c[1], c[2]) \in Tiles
  <2> TAKE c \in w[hops]
  <2>1. c[1] \in 0 .. mesh_dim_x - 1 /\ c[2] \in 0 .. mesh_dim_y - 1
    BY <1>3 DEF Places
  <2> QED BY <2>1, IdIsATile
<1> QED BY <1>2, <1>4

(***************************************************************************)
(* The distributions that permute bits: on a network of 2^k tiles, which   *)
(* are numbered by the 31 bits of an int.  The number made of the bits is  *)
(* a sum that takes its summands in some order.                            *)
(***************************************************************************)
Worth(i) == 2 ^ i

LEMMA WorthsBelow ==
  \A k \in 0 .. 14 : Worth(k) \in Nat \ {0} /\ Worth(k + 1) = 2 * Worth(k)
<1>1. \A k \in 0 .. 14 : k \in {0, 1, 2, 3, 4, 5, 6, 7, 8, 9, 10, 11, 12, 13, 14}
  OBVIOUS
<1>2. /\ Worth(0) = 1 /\ Worth(1) = 2 /\ Worth(2) = 4 /\ Worth(3) = 8 /\ Worth(4) = 16
      /\ Worth(5) = 32 /\ Worth(6) = 64 /\ Worth(7) = 128 /\ Worth(8) = 256
      /\ Worth(9) = 512 /\ Worth(10) = 1024 /\ Worth(11) = 2048 /\ Worth(12) = 4096
      /\ Worth(13) = 8192 /\ Worth(14) = 16384 /\ Worth(15) = 32768
  BY DEF Worth
<1> QED BY <1>1, <1>2

LEMMA WorthsAbove ==
  \A k \in 15 .. 29 : Worth(k) \in Nat \ {0} /\ Worth(k + 1) = 2 * Worth(k)
<1>1. \A k \in 15 .. 29 : k \in {15, 16, 17, 18, 19, 20, 21, 22, 23, 24, 25, 26, 27, 28, 29}
  OBVIOUS
<1>2. /\ Worth(15) = 32768 /\ Worth(16) = 65536 /\ Worth(17) = 131072
      /\ Worth(18) = 262144 /\ Worth(19) = 524288 /\ Worth(20) = 1048576
      /\ Worth(21) = 2097152 /\ Worth(22) = 4194304 /\ Worth(23) = 8388608
      /\ Worth(24) = 16777216 /\ Worth(25) = 33554432 /\ Worth(26) = 67108864
      /\ Worth(27) = 134217728 /\ Worth(28) = 268435456 /\ Worth(29) = 536870912
      /\ Worth(30) = 1073741824
  BY DEF Worth
<1> QED BY <1>1, <1>2

LEMMA Worths ==
  /\ Worth(0) = 1
  /\ \A k \in 0 .. 29 : Worth(k + 1) = 2 * Worth(k)
  /\ \A k \in 0 .. 30 : Worth(k) \in Nat \ {0}
<1>1. \A k \in 0 .. 29 : Worth(k) \in Nat \ {0} /\ Worth(k + 1) = 2 * Worth(k)
  <2> TAKE k \in 0 .. 29
  <2>1. k \in 0 .. 14 \/ k \in 15 .. 29
    OBVIOUS
  <2> QED BY <2>1, WorthsBelow, WorthsAbove
<1>2. Worth(0) = 1 /\ Worth(30) \in Nat \ {0}
  BY DEF Worth
<1>3. \A k \in 0 .. 30 : k \in 0 .. 29 \/ k = 30
  OBVIOUS
<1> QED BY <1>1, <1>2, <1>3

LEMMA WorthNext ==
  ASSUME NEW k \in 0 .. 29
  PROVE  Worth(k + 1) = 2 * Worth(k) /\ Worth(k) \in Nat \ {0}
<1>1. k \in 0 .. 30
  OBVIOUS
<1> QED BY <1>1, Worths

LEMMA WorthStep ==
  ASSUME NEW n \in 0 .. 29, n < Worth(n), \A l \in 0 .. n - 1 : Worth(l) < Worth(n)
  PROVE  n + 1 < Worth(n + 1) /\ \A l \in 0 .. n : Worth(l) < Worth(n + 1)
<1> DEFINE p == Worth(n)
<1>1. Worth(n + 1) = 2 * p /\ p \in Nat \ {0} /\ n < p
  BY WorthNext
<1>2. p < 2 * p /\ n + 1 < 2 * p
  <2> HIDE DEF p
  <2> QED BY <1>1
<1>3. ASSUME NEW l \in 0 .. n PROVE Worth(l) < Worth(n + 1)
  <2>1. CASE l = n
    BY <1>1, <1>2, <2>1
  <2>2. CASE l # n
    <3>1. l \in 0 .. n - 1 /\ l \in 0 .. 30
      BY <2>2
    <3> DEFINE r == Worth(l)
    <3>2. r < p /\ r \in Nat
      BY <3>1, Worths
    <3>3. r < 2 * p
      <4> HIDE DEF r, p
      <4> QED BY <1>1, <3>2
    <3> QED BY <1>1, <3>3
  <2> QED BY <2>1, <2>2
<1> QED BY <1>1, <1>2, <1>3

LEMMA WorthsGrow ==
  ASSUME NEW m \in 0 .. 30
  PROVE  \A l \in 0 .. m : /\ l < m => Worth(l) < Worth(m)
                           /\ l < Worth(l)
<1> DEFINE S == {n \in Nat : n <= m => /\ \A l \in 0 .. n - 1 : Worth(l) < Worth(n)
                                       /\ n < Worth(n)}
<1>1. 0 \in S
  BY Worths
<1>2. ASSUME NEW n \in S PROVE n + 1 \in S
  <2> SUFFICES ASSUME n + 1 <= m
               PROVE  (\A l \in 0 .. (n + 1) - 1 : Worth(l) < Worth(n + 1)) /\ n + 1 < Worth(n + 1)
    OBVIOUS
  <2>1. n \in 0 .. 29 /\ n <= m /\ (n + 1) - 1 = n
    OBVIOUS
  <2>2. n < Worth(n) /\ \A l \in 0 .. n - 1 : Worth(l) < Worth(n)
    BY <2>1
  <2>3. n + 1 < Worth(n + 1) /\ \A l \in 0 .. n : Worth(l) < Worth(n + 1)
    BY <2>1, <2>2, WorthStep
  <2> QED BY <2>1, <2>3
<1>3. S = Nat
  <2> HIDE DEF S
  <2>1. S \in SUBSET Nat
    BY DEF S
  <2> QED BY <1>1, <1>2, <2>1, UpFromZero
<1>4. m \in S
  BY <1>3
<1>5. ASSUME NEW l \in 0 .. m PROVE l < Worth(l)
  <2>1. l \in S /\ l <= m
    BY <1>3
  <2> QED BY <2>1
<1> QED BY <1>4, <1>5

(* The sums over the subsets of I, as the fold over a function has them.   *)
Pick(s) == CHOOSE x \in s : TRUE

IsSum(f, g, I) ==
  f = [s \in SUBSET I |-> IF s = {} THEN 0 ELSE g[Pick(s)] + f[s \ {Pick(s)}]]

Small(I, n) == {s \in SUBSET I : Cardinality(s) <= n}

IsSumUpTo(f, g, I, n) ==
  f = [s \in Small(I, n) |-> IF s = {} THEN 0 ELSE g[Pick(s)] + f[s \ {Pick(s)}]]

LEMMA Picked ==
  ASSUME NEW I, IsFiniteSet(I), NEW s \in SUBSET I
  PROVE  /\ IsFiniteSet(s) /\ Cardinality(s) \in Nat /\ Cardinality(s) <= Cardinality(I)
         /\ s # {} => Pick(s) \in s
         /\ \A x \in s : /\ s \ {x} \in SUBSET I
                         /\ Cardinality(s \ {x}) = Cardinality(s) - 1
<1>1. IsFiniteSet(s) /\ Cardinality(s) <= Cardinality(I)
  BY FS_Subset
<1>2. Cardinality(s) \in Nat
  BY <1>1, FS_CardinalityType
<1>3. \A x \in s : Cardinality(s \ {x}) = Cardinality(s) - 1
  BY <1>1, FS_RemoveElement
<1> QED BY <1>1, <1>2, <1>3 DEF Pick

LEMMA SumsExist ==
  ASSUME NEW I, IsFiniteSet(I), NEW g
  PROVE  \E f : IsSum(f, g, I)
<1> DEFINE S == {n \in Nat : \E f : IsSumUpTo(f, g, I, n)}
<1>1. 0 \in S
  <2> DEFINE f == [s \in Small(I, 0) |-> 0]
  <2>1. \A s \in Small(I, 0) : s = {}
    BY Picked, FS_EmptySet DEF Small
  <2>2. f = [s \in Small(I, 0) |-> IF s = {} THEN 0 ELSE g[Pick(s)] + f[s \ {Pick(s)}]]
    BY <2>1
  <2> HIDE DEF f
  <2>3. IsSumUpTo(f, g, I, 0)
    BY <2>2 DEF IsSumUpTo
  <2> QED BY <2>3
<1>2. ASSUME NEW n \in S PROVE n + 1 \in S
  <2>1. PICK w : IsSumUpTo(w, g, I, n)
    OBVIOUS
  <2> DEFINE v == [s \in Small(I, n + 1) |->
                     IF s \in Small(I, n) THEN w[s] ELSE g[Pick(s)] + w[s \ {Pick(s)}]]
  <2>2. \A s \in Small(I, n) : w[s] = IF s = {} THEN 0 ELSE g[Pick(s)] + w[s \ {Pick(s)}]
    BY <2>1 DEF IsSumUpTo
  <2>3. {} \in Small(I, n)
    BY FS_EmptySet DEF Small
  <2>4. \A s \in Small(I, n) : v[s] = w[s]
    <3>1. Small(I, n) \subseteq Small(I, n + 1)
      BY Picked DEF Small
    <3> QED BY <3>1
  <2>5. \A s \in Small(I, n + 1) : s # {} => s \ {Pick(s)} \in Small(I, n)
    BY Picked DEF Small
  <2>6. \A s \in Small(I, n + 1) :
          v[s] = IF s = {} THEN 0 ELSE g[Pick(s)] + v[s \ {Pick(s)}]
    <3> SUFFICES ASSUME NEW s \in Small(I, n + 1)
                 PROVE  v[s] = IF s = {} THEN 0 ELSE g[Pick(s)] + v[s \ {Pick(s)}]
      OBVIOUS
    <3>1. CASE s \in Small(I, n)
      <4>1. v[s] = w[s]
        BY <2>4, <3>1
      <4>2. s # {} => v[s \ {Pick(s)}] = w[s \ {Pick(s)}]
        BY <2>4, <2>5
      <4> HIDE DEF v
      <4> QED BY <2>2, <3>1, <4>1, <4>2
    <3>2. CASE s \notin Small(I, n)
      <4>1. s # {} /\ v[s] = g[Pick(s)] + w[s \ {Pick(s)}]
        BY <2>3, <3>2
      <4>2. v[s \ {Pick(s)}] = w[s \ {Pick(s)}]
        BY <2>4, <2>5, <4>1
      <4> HIDE DEF v
      <4> QED BY <4>1, <4>2
    <3> QED BY <3>1, <3>2
  <2>7. v = [s \in Small(I, n + 1) |-> v[s]]
    OBVIOUS
  <2> HIDE DEF v
  <2>8. IsSumUpTo(v, g, I, n + 1)
    BY <2>6, <2>7 DEF IsSumUpTo
  <2> QED BY <2>8
<1>3. S = Nat
  <2> HIDE DEF S
  <2>1. S \in SUBSET Nat
    BY DEF S
  <2> QED BY <1>1, <1>2, <2>1, UpFromZero
<1>4. Cardinality(I) \in S
  BY <1>3, FS_CardinalityType
<1>5. PICK f : IsSumUpTo(f, g, I, Cardinality(I))
  BY <1>4
<1>6. Small(I, Cardinality(I)) = SUBSET I
  BY Picked DEF Small
<1> QED BY <1>5, <1>6 DEF IsSum, IsSumUpTo

(* The order in which the summands are taken does not matter.              *)
AddsUp(f, g, I) ==
  /\ f[{}] = 0
  /\ \A s \in SUBSET I : f[s] \in Nat /\ \A y \in s : f[s] = g[y] + f[s \ {y}]

LEMMA SumsSplit ==
  ASSUME NEW I, IsFiniteSet(I), NEW g \in [I -> Nat], NEW f, IsSum(f, g, I)
  PROVE  AddsUp(f, g, I)
<1> DEFINE Splits(s) == f[s] \in Nat /\ \A y \in s : f[s] = g[y] + f[s \ {y}]
           S == {n \in Nat : \A s \in Small(I, n) : Splits(s)}
<1>1. \A s \in SUBSET I : f[s] = IF s = {} THEN 0 ELSE g[Pick(s)] + f[s \ {Pick(s)}]
  BY DEF IsSum
<1>a. Splits({})
  BY <1>1
<1>2. 0 \in S
  <2>1. \A s \in Small(I, 0) : s = {}
    BY Picked, FS_EmptySet DEF Small
  <2> HIDE DEF Splits
  <2> QED BY <1>a, <2>1
<1>3. ASSUME NEW n \in S PROVE n + 1 \in S
  <2> SUFFICES ASSUME NEW s \in Small(I, n + 1), s # {} PROVE Splits(s)
    <3> HIDE DEF Splits
    <3>1. \A s \in Small(I, n + 1) : Splits(s)
      BY <1>a
    <3> QED BY <3>1
  <2> DEFINE x == Pick(s)
  <2>1. s \in SUBSET I /\ x \in s
    BY Picked DEF Small
  <2>2. ASSUME NEW y \in s
        PROVE  s \ {y} \in Small(I, n) /\ Splits(s \ {y})
    <3>1. s \ {y} \in Small(I, n)
      BY Picked DEF Small
    <3> QED BY <3>1
  <2>3. f[s] = g[x] + f[s \ {x}]
    BY <1>1, <2>1
  <2>4. f[s] \in Nat
    <3>1. g[x] \in Nat /\ f[s \ {x}] \in Nat
      BY <2>1, <2>2
    <3> QED BY <2>3, <3>1
  <2>5. ASSUME NEW y \in s, y # x PROVE f[s] = g[y] + f[s \ {y}]
    <3>1. y \in s \ {x} /\ x \in s \ {y} /\ (s \ {x}) \ {y} = (s \ {y}) \ {x}
      BY <2>1, <2>5
    <3>2. f[s \ {x}] = g[y] + f[(s \ {x}) \ {y}]
      BY <2>1, <2>2, <3>1
    <3>3. f[s \ {y}] = g[x] + f[(s \ {x}) \ {y}]
      BY <2>2, <3>1
    <3>4. (s \ {x}) \ {y} \in Small(I, n)
      <4>1. s \ {x} \in SUBSET I /\ Cardinality(s \ {x}) \in Nat /\ Cardinality(s \ {x}) <= n
        BY <2>1, <2>2, Picked DEF Small
      <4> QED BY <3>1, <4>1, Picked DEF Small
    <3>5. g[x] \in Nat /\ g[y] \in Nat /\ f[(s \ {x}) \ {y}] \in Nat
      BY <2>1, <3>4
    <3> HIDE DEF x
    <3> QED BY <2>3, <3>2, <3>3, <3>5
  <2> QED BY <2>3, <2>4, <2>5
<1>4. S = Nat
  <2> HIDE DEF S
  <2>1. S \in SUBSET Nat
    BY DEF S
  <2> QED BY <1>2, <1>3, <2>1, UpFromZero
<1>5. Cardinality(I) \in S
  BY <1>4, FS_CardinalityType
<1>6. \A s \in SUBSET I : s \in Small(I, Cardinality(I))
  BY Picked DEF Small
<1>7. f[{}] = 0
  BY <1>1
<1> QED BY <1>5, <1>6, <1>7 DEF AddsUp

Total(g) == FoldFunction(LAMBDA a, b : a + b, 0, g)

LEMMA TotalIsSum ==
  ASSUME NEW I, IsFiniteSet(I), NEW g \in [I -> Nat]
  PROVE  \E f : Total(g) = f[I] /\ AddsUp(f, g, I)
<1> DEFINE f == CHOOSE h : IsSum(h, g, I)
<1>1. IsSum(f, g, I)
  BY SumsExist
<1>2. Total(g) = (CHOOSE h : IsSum(h, g, DOMAIN g))[DOMAIN g]
  BY DEF Total, FoldFunction, FoldFunctionOnSet, MapThenFoldSet, IsSum, Pick
<1>3. DOMAIN g = I
  OBVIOUS
<1>4. Total(g) = f[I]
  BY <1>2, <1>3
<1> HIDE DEF f
<1>5. AddsUp(f, g, I)
  BY <1>1, SumsSplit
<1> QED BY <1>4, <1>5

LEMMA SumFits ==
  ASSUME NEW n \in 0 .. 30, NEW g, NEW f, AddsUp(f, g, 0 .. n - 1),
         \A i \in 0 .. n - 1 : g[i] \in Nat /\ g[i] <= Worth(i)
  PROVE  f[0 .. n - 1] \in 0 .. Worth(n) - 1
<1> DEFINE I == 0 .. n - 1
<1>3. /\ f[{}] = 0
      /\ \A s \in SUBSET I : f[s] \in Nat /\ \A y \in s : f[s] = g[y] + f[s \ {y}]
  BY DEF AddsUp
<1> DEFINE S == {m \in Nat : m <= n => \A s \in SUBSET (0 .. m - 1) : f[s] <= Worth(m) - 1}
<1>8. 0 \in S
  <2>1. \A s \in SUBSET (0 .. 0 - 1) : s = {}
    OBVIOUS
  <2>2. f[{}] <= Worth(0) - 1
    <3>1. Worth(0) = 1
      BY Worths
    <3> QED BY <1>3, <3>1
  <2> QED BY <2>1, <2>2
<1>9. ASSUME NEW m \in S PROVE m + 1 \in S
  <2>a. m \in Nat /\ m + 1 \in Nat
    OBVIOUS
  <2> SUFFICES m + 1 <= n =>
                 \A s \in SUBSET (0 .. (m + 1) - 1) : f[s] <= Worth(m + 1) - 1
    BY <2>a
  <2> HAVE m + 1 <= n
  <2> TAKE s \in SUBSET (0 .. (m + 1) - 1)
  <2> DEFINE r == s \ {m}
             p == Worth(m)
  <2>1. m \in 0 .. 29 /\ m \in I /\ s \in SUBSET I /\ r \in SUBSET I
    OBVIOUS
  <2>2. r \in SUBSET (0 .. m - 1)
    OBVIOUS
  <2>3. f[r] <= p - 1 /\ f[r] \in Nat
    BY <1>3, <2>1, <2>2
  <2>4. Worth(m + 1) = 2 * p /\ p \in Nat \ {0}
    <3> HIDE DEF S
    <3> QED BY <2>1, WorthNext
  <2>5. f[s] <= p + f[r] /\ f[s] \in Nat
    <3>1. CASE m \in s
      <4>1. f[s] = g[m] + f[r] /\ f[s] \in Nat
        BY <1>3, <2>1, <3>1
      <4>2. g[m] \in Nat /\ g[m] <= p
        BY <2>1
      <4> HIDE DEF p, r
      <4> QED BY <2>3, <2>4, <4>1, <4>2
    <3>2. CASE m \notin s
      <4>1. r = s
        BY <3>2
      <4> HIDE DEF p, r
      <4> QED BY <2>3, <2>4, <4>1
    <3> QED BY <3>1, <3>2
  <2> HIDE DEF p, r
  <2> QED BY <2>3, <2>4, <2>5
<1>10. S = Nat
  <2> HIDE DEF S
  <2>1. S \in SUBSET Nat
    BY DEF S
  <2> QED BY <1>8, <1>9, <2>1, UpFromZero
<1>11. f[I] <= Worth(n) - 1 /\ f[I] \in Nat
  <2>1. n \in S /\ I \in SUBSET (0 .. n - 1)
    BY <1>10
  <2> QED BY <1>3, <2>1
<1>12. Worth(n) \in Nat
  BY Worths
<1> QED BY <1>11, <1>12

(* A number of n bits is below 2^n.                                        *)
LEMMA BitsFit ==
  ASSUME NEW n \in 0 .. 30, NEW g
  PROVE  g \in [0 .. n - 1 -> Nat] /\ (\A i \in 0 .. n - 1 : g[i] <= Worth(i)) =>
           Total(g) \in 0 .. Worth(n) - 1
<1> DEFINE I == 0 .. n - 1
<1>1. IsFiniteSet(I)
  BY FS_Interval
<1>2. g \in [I -> Nat] => \E f : Total(g) = f[I] /\ AddsUp(f, g, I)
  <2> HIDE DEF I
  <2> QED BY <1>1, TotalIsSum
<1> SUFFICES ASSUME g \in [I -> Nat], \A i \in I : g[i] <= Worth(i)
             PROVE  Total(g) \in 0 .. Worth(n) - 1
  OBVIOUS
<1>3. PICK f : Total(g) = f[I] /\ AddsUp(f, g, I)
  BY <1>2
<1>4. f[I] \in 0 .. Worth(n) - 1
  <2>1. \A i \in I : g[i] \in Nat /\ g[i] <= Worth(i)
    OBVIOUS
  <2> QED BY <1>3, <2>1, SumFits
<1> QED BY <1>3, <1>4

(* The number of tiles has k bits, and it takes k bits to count them.      *)
PowerOfTwo == \E k \in 1 .. 30 : mesh_dim_x * mesh_dim_y = 2 ^ k

LEMMA BitsOfTiles ==
  ASSUME PowerOfTwo
  PROVE  nbits \in 1 .. 30 /\ Tiles = 0 .. Worth(nbits) - 1
<1>1. PICK k \in 1 .. 30 : mesh_dim_x * mesh_dim_y = Worth(k)
  BY DEF PowerOfTwo, Worth
<1> DEFINE Counts(b) == /\ Worth(b) >= mesh_dim_x * mesh_dim_y
                        /\ \A l \in 0 .. b - 1 : Worth(l) < mesh_dim_x * mesh_dim_y
<1>2. Worth(k) \in Nat \ {0} /\ k < Worth(k) /\ \A l \in 0 .. k - 1 : Worth(l) < Worth(k)
  <2>1. k \in 0 .. 30 /\ k \in 0 .. k /\ \A l \in 0 .. k - 1 : l \in 0 .. k /\ l < k
    OBVIOUS
  <2> QED BY <2>1, Worths, WorthsGrow
<1>3. k \in Tiles /\ Counts(k)
  BY <1>1, <1>2 DEF Tiles
<1>4. ASSUME NEW b \in Tiles, Counts(b) PROVE b = k
  <2>1. b \in Nat
    BY TilesAreNumbers
  <2>2. CASE b < k
    <3>1. b \in 0 .. k - 1 /\ b \in 0 .. 30
      BY <2>1, <2>2
    <3>2. Worth(b) < Worth(k) /\ Worth(b) \in Nat
      BY <1>2, <3>1, Worths
    <3> QED BY <1>1, <1>2, <1>4, <3>2
  <2>3. CASE k < b
    <3>1. k \in 0 .. b - 1
      BY <2>1, <2>3
    <3> QED BY <1>1, <1>2, <1>4, <3>1
  <2> QED BY <2>1, <2>2, <2>3
<1>5. nbits = CHOOSE b \in Tiles : Counts(b)
  BY DEF nbits, Worth
<1> HIDE DEF Counts
<1>6. nbits = k
  BY <1>3, <1>4, <1>5
<1> QED BY <1>1, <1>6 DEF Tiles

LEMMA BitIsBit ==
  ASSUME NEW s \in Nat, NEW b \in Nat \ {0}
  PROVE  (s \div b) % 2 \in {0, 1}
<1> DEFINE q == s \div b
<1>1. q \in Int
  OBVIOUS
<1>2. q % 2 \in {0, 1}
  <2> HIDE DEF q
  <2> QED BY <1>1
<1> QED BY <1>2

LEMMA WithinInt ==
  ASSUME NEW b \in 1 .. 30, NEW i \in 0 .. b - 1
  PROVE  i \in 0 .. 30
OBVIOUS

LEMMA PermutedIsATile ==
  ASSUME PowerOfTwo, NEW s \in Tiles, NEW from \in [0 .. nbits - 1 -> 0 .. nbits - 1]
  PROVE  Permuted(s, from) \in Tiles
<1> DEFINE g == [i \in 0 .. nbits - 1 |-> getBit(s, from[i]) * Worth(i)]
<1>1. nbits \in 1 .. 30 /\ Tiles = 0 .. Worth(nbits) - 1 /\ s \in Nat
  BY BitsOfTiles, TilesAreNumbers
<1>2. ASSUME NEW i \in 0 .. nbits - 1 PROVE g[i] \in Nat /\ g[i] <= Worth(i)
  <2>1. i \in 0 .. 30 /\ from[i] \in 0 .. 30
    <3>1. from[i] \in 0 .. nbits - 1
      OBVIOUS
    <3>2. nbits \in 1 .. 30
      BY <1>1
    <3> HIDE DEF g
    <3> QED BY <3>1, <3>2, WithinInt
  <2>2. Worth(i) \in Nat /\ Worth(from[i]) \in Nat \ {0}
    BY <2>1, Worths
  <2> DEFINE c == getBit(s, from[i])
  <2>3. c \in {0, 1}
    BY <1>1, <2>2, BitIsBit DEF getBit, Worth
  <2>6. g[i] = c * Worth(i)
    OBVIOUS
  <2> HIDE DEF c, g
  <2> QED BY <2>2, <2>3, <2>6
<1>3. g \in [0 .. nbits - 1 -> Nat]
  BY <1>2
<1>4. Permuted(s, from) = Total(g)
  BY DEF Permuted, Worth, Total
<1> HIDE DEF g
<1>5. nbits \in 0 .. 30
  BY <1>1
<1>6. Total(g) \in 0 .. Worth(nbits) - 1
  BY <1>2, <1>3, <1>5, BitsFit
<1> QED BY <1>1, <1>4, <1>6

LEMMA BitsStay ==
  ASSUME PowerOfTwo, NEW s \in Tiles
  PROVE  /\ trafficBitReversal(s) \subseteq Tiles
         /\ trafficShuffle(s) \subseteq Tiles
         /\ trafficButterfly(s) \subseteq Tiles
<1> DEFINE I == 0 .. nbits - 1
<1>1. nbits \in 1 .. 30
  BY BitsOfTiles
<1>2. [i \in I |-> nbits - 1 - i] \in [I -> I]
  BY <1>1
<1>3. [i \in I |-> (i - 1) % nbits] \in [I -> I]
  BY <1>1
<1>4. [i \in I |-> CASE i = 0 -> nbits - 1 [] i = nbits - 1 -> 0 [] OTHER -> i] \in [I -> I]
  BY <1>1
<1>5. Permuted(s, [i \in I |-> nbits - 1 - i]) \in Tiles
  BY <1>2, PermutedIsATile
<1>6. Permuted(s, [i \in I |-> (i - 1) % nbits]) \in Tiles
  BY <1>3, PermutedIsATile
<1>7. Permuted(s, [i \in I |-> CASE i = 0 -> nbits - 1 [] i = nbits - 1 -> 0 [] OTHER -> i]) \in Tiles
  BY <1>4, PermutedIsATile
<1> QED BY <1>5, <1>6, <1>7 DEF trafficBitReversal, trafficShuffle, trafficButterfly

(***************************************************************************)
(* Destinations of every distribution, and the packets made for them.      *)
(***************************************************************************)
BitsSuit == traffic_distributions \cap BitDistributions # {} => PowerOfTwo

Targets == IF traffic_distribution \in ToOthers THEN Tiles \ {local_id} ELSE Tiles

PacketFor(ds) == [dst_id : ds, vc_id : VCs, size : Sizes, flit_left : 1 .. max_packet_size]

Chosen ==
  /\ local_id \in Tiles
  /\ traffic_distribution \in traffic_distributions
  /\ traffic_cycle \in Nat

Addressed ==
  /\ Chosen
  /\ packet_queue \in Seq(PacketFor(Targets))

LEMMA LongDistances ==
  ASSUME NEW s \in Tiles
  PROVE  LongDistance(s) \subseteq Tiles \ {s} /\ trafficLongDistance(s) \subseteq Tiles \ {s}
BY DEF LongDistance, trafficLongDistance, trafficRandom

LEMMA DestinationsAreTargets ==
  ASSUME BitsSuit, Chosen, traffic_distribution \notin Broadcasts \cup {"HARDCODED"}
  PROVE  Destinations(local_id) \subseteq Targets
<1> DEFINE d == traffic_distribution
<1>1. d \in {"RANDOM", "TRANSPOSE1", "TRANSPOSE2", "LOCAL", "ULOCAL", "LONG_DISTANCE",
             "TABLE_BASED"} \cup BitDistributions
  BY BoundAssumption DEF Chosen, Distributions, Broadcasts
<1>2. local_id \in Tiles
  BY DEF Chosen
<1>3. X(local_id) \in Int /\ Y(local_id) \in Int
  BY <1>2, Coordinates
<1>4. CASE d = "RANDOM"
  BY <1>4 DEF Destinations, Targets, ToOthers, trafficRandom
<1>5. CASE d = "TRANSPOSE1"
  <2>1. mesh_dim_x - 1 - Y(local_id) \in Int /\ mesh_dim_y - 1 - X(local_id) \in Int
    BY <1>3, TilesAreNumbers
  <2>2. Destinations(local_id) = trafficTranspose1(local_id) /\ Targets = Tiles
    BY <1>5 DEF Destinations, Targets, ToOthers, Broadcasts
  <2> QED BY <2>1, <2>2, RangesAreFixed DEF trafficTranspose1
<1>6. CASE d = "TRANSPOSE2"
  <2>1. Destinations(local_id) = trafficTranspose2(local_id) /\ Targets = Tiles
    BY <1>6 DEF Destinations, Targets, ToOthers, Broadcasts
  <2> QED BY <1>3, <2>1, RangesAreFixed DEF trafficTranspose2
<1>7. CASE d = "LOCAL"
  <2>1. Destinations(local_id) = trafficLocal(local_id) /\ Targets = Tiles \ {local_id}
    BY <1>7 DEF Destinations, Targets, ToOthers
  <2> QED BY <2>1 DEF trafficLocal
<1>8. CASE d = "ULOCAL"
  <2>1. Destinations(local_id) = trafficULocal(local_id) /\ Targets = Tiles
    BY <1>8 DEF Destinations, Targets, ToOthers, Broadcasts
  <2>2. 1 .. slices \subseteq Nat
    OBVIOUS
  <2> QED BY <1>2, <2>1, <2>2, WalksEndAtTiles DEF trafficULocal
<1>9. CASE d = "LONG_DISTANCE"
  <2>1. Destinations(local_id) = trafficLongDistance(local_id) /\ Targets = Tiles \ {local_id}
    BY <1>9 DEF Destinations, Targets, ToOthers
  <2> QED BY <1>2, <2>1, LongDistances
<1>10. CASE d = "TABLE_BASED"
  <2>1. /\ Destinations(local_id) = {c.dst : c \in getCumulativePirPor(local_id)}
        /\ Targets = Tiles
    BY <1>10 DEF Destinations, Targets, ToOthers, Broadcasts
  <2>2. \A c \in getCumulativePirPor(local_id) : c.dst \in Tiles
    BY TableAssumption DEF getCumulativePirPor, Communication
  <2> QED BY <2>1, <2>2
<1>11. CASE d \in BitDistributions
  <2>1. PowerOfTwo
    BY <1>11 DEF BitsSuit, Chosen
  <2>2. /\ Destinations(local_id) \in {trafficBitReversal(local_id), trafficShuffle(local_id),
                                     trafficButterfly(local_id)}
        /\ Targets = Tiles
    BY <1>11 DEF BitDistributions, Destinations, Targets, ToOthers, Broadcasts
  <2> QED BY <1>2, <2>1, <2>2, BitsStay
<1> QED BY <1>1, <1>4, <1>5, <1>6, <1>7, <1>8, <1>9, <1>10, <1>11

LEMMA PacketsAreAddressed ==
  ASSUME NEW n \in Nat, NEW ds, DOMAIN ds = 1 .. n, NEW packets \in PacketsTo(ds), NEW D
  PROVE  (\A k \in 1 .. n : ds[k] \in D) => packets \in Seq(PacketFor(D))
<1>1. PICK v \in [1 .. n -> VCs], z \in [1 .. n -> Sizes] :
        packets = [i \in 1 .. n |->
                     [dst_id |-> ds[i], vc_id |-> v[i], size |-> z[i], flit_left |-> z[i]]]
  BY PacketsMade
<1> HAVE \A k \in 1 .. n : ds[k] \in D
<1>2. \A i \in 1 .. n : z[i] \in 1 .. max_packet_size
  BY SizeAssumption DEF Sizes
<1>3. \A i \in 1 .. n : packets[i] \in PacketFor(D)
  BY <1>1, <1>2 DEF PacketFor
<1>4. packets \in [1 .. n -> PacketFor(D)]
  BY <1>1, <1>3
<1> QED BY <1>4

LEMMA ShotsAreAddressed ==
  ASSUME BitsSuit, Chosen, traffic_distribution # "HARDCODED", NEW packets \in Shots
  PROVE  packets \in Seq(PacketFor(Targets))
<1>1. ASSUME NEW S \in SUBSET Tiles, S \subseteq Targets, packets \in PacketsTo(InOrder(S))
      PROVE  packets \in Seq(PacketFor(Targets))
  <2>1. S \in SUBSET Nat /\ IsFiniteSet(S)
    BY TilesFinite, TilesAreNumbers, FS_Subset
  <2>2. /\ Cardinality(S) \in Nat /\ DOMAIN InOrder(S) = 1 .. Cardinality(S)
        /\ \A k \in 1 .. Cardinality(S) : InOrder(S)[k] \in Targets
    BY <1>1, <2>1, InOrderMembers
  <2> QED BY <1>1, <2>2, PacketsAreAddressed
<1>2. CASE traffic_distribution = "BROADCAST"
  <2>1. Targets = Tiles \ {local_id} /\ packets \in PacketsTo(InOrder(Tiles \ {local_id}))
    BY <1>2 DEF Targets, ToOthers, Broadcasts, Shots
  <2> QED BY <1>1, <2>1
<1>3. CASE traffic_distribution = "BROADCAST_LONG_DISTANCE"
  <2>1. Targets = Tiles \ {local_id} /\ packets \in PacketsTo(InOrder(LongDistance(local_id)))
    BY <1>3 DEF Targets, ToOthers, Broadcasts, Shots
  <2>2. LongDistance(local_id) \subseteq Tiles \ {local_id}
    BY LongDistances DEF Chosen
  <2> QED BY <1>1, <2>1, <2>2
<1>4. CASE traffic_distribution \notin Broadcasts
  <2>1. PICK t \in Destinations(local_id) : packets \in PacketsTo(<<t>>)
    BY <1>4 DEF Shots, Broadcasts
  <2>2. t \in Targets
    BY <1>4, DestinationsAreTargets
  <2>3. DOMAIN <<t>> = 1 .. 1 /\ \A k \in 1 .. 1 : <<t>>[k] \in Targets
    BY <2>2
  <2> QED BY <2>1, <2>3, PacketsAreAddressed
<1> QED BY <1>2, <1>3, <1>4 DEF Broadcasts

LEMMA ListedAreAddressed ==
  ASSUME Chosen, traffic_distribution = "HARDCODED", traffic_cycle < num_cycles,
         NEW packets \in PacketsTo(Expected)
  PROVE  packets \in Seq(PacketFor(Targets))
<1> DEFINE entries == traffic_at_cycle(traffic_cycle)
           S == {i \in DOMAIN entries : entries[i][1] = local_id}
           n == Cardinality(S)
<1>1. entries \in Seq(Tiles \X Tiles)
  <2>1. traffic_list \in Seq(Seq(Tiles \X Tiles)) /\ traffic_cycle + 1 \in 1 .. Len(traffic_list)
    BY ListAssumption DEF num_cycles, Chosen
  <2> QED BY <2>1, ElementOfSeq DEF traffic_at_cycle
<1>2. S \in SUBSET Nat /\ IsFiniteSet(S) /\ \A i \in S : entries[i][2] \in Tiles
  <2>1. DOMAIN entries = 1 .. Len(entries) /\ Len(entries) \in Int
    BY <1>1, LenProperties
  <2>2. \A i \in 1 .. Len(entries) : entries[i] \in Tiles \X Tiles
    BY <1>1, ElementOfSeq
  <2>3. IsFiniteSet(DOMAIN entries)
    BY <2>1, FS_Interval
  <2> QED BY <2>1, <2>2, <2>3, FS_Subset
<1>3. /\ n \in Nat /\ DOMAIN InOrder(S) = 1 .. n
      /\ \A k \in 1 .. n : InOrder(S)[k] \in S
  BY <1>2, InOrderMembers
<1>4. DOMAIN Expected = 1 .. n /\ \A k \in 1 .. n : Expected[k] = entries[InOrder(S)[k]][2]
  BY <1>3 DEF Expected
<1>5. Targets = Tiles
  BY DEF Targets, ToOthers, Broadcasts
<1>6. \A k \in 1 .. n : Expected[k] \in Targets
  <2> HIDE DEF S, entries
  <2> QED BY <1>2, <1>3, <1>4, <1>5
<1> QED BY <1>3, <1>4, <1>6, PacketsAreAddressed

LEMMA EdgeAddressed ==
  ASSUME Addressed, NEW packets \in Seq(PacketFor(Targets)), Edge(packets)
  PROVE  packet_queue' \in Seq(PacketFor(Targets)) /\ Targets' = Targets
<1> DEFINE q == packet_queue \o packets
           P == PacketFor(Targets)
<1>1. q \in Seq(P)
  BY ConcatProperties DEF Addressed
<1>2. Targets' = Targets
  BY DEF Edge, fixed, Targets
<1>3. CASE ack_tx = current_level_tx /\ q # <<>>
  <2>1. packet_queue' = QueueAfter(q)
    BY <1>3 DEF Edge, txProcess, Queued
  <2>2. Head(q) = q[1] /\ Len(q) \in Nat \ {0} /\ q[1] \in P
    BY <1>1, <1>3, EmptySeq, LenProperties, ElementOfSeq
  <2>3. CASE q[1].flit_left = 1
    BY <1>1, <1>2, <1>3, <2>1, <2>2, <2>3, HeadTailProperties DEF QueueAfter
  <2>4. CASE q[1].flit_left # 1
    <3> DEFINE o == [q[1] EXCEPT !.flit_left = @ - 1]
    <3>1. packet_queue' = [q EXCEPT ![1] = o]
      BY <2>1, <2>2, <2>4 DEF QueueAfter
    <3>2. q[1].flit_left - 1 \in 1 .. max_packet_size
      BY <2>2, <2>4, SizesFacts DEF PacketFor, P
    <3>3. o \in P
      BY <2>2, <3>2 DEF PacketFor, P
    <3> HIDE DEF o, P
    <3> QED BY <1>1, <1>2, <2>2, <3>1, <3>3, ExceptSeq DEF P
  <2> QED BY <1>2, <2>3, <2>4
<1>4. CASE ~(ack_tx = current_level_tx /\ q # <<>>)
  <2>1. packet_queue' = q
    BY <1>4 DEF Edge, txProcess, Queued
  <2> QED BY <1>1, <1>2, <2>1
<1> QED BY <1>2, <1>3, <1>4

LEMMA AddressedNext ==
  ASSUME BitsSuit, Addressed, [Next]_vars
  PROVE  Addressed'
<1> USE DEF Addressed, Chosen, fixed
<1>1. <<>> \in Seq(PacketFor(Targets))
  OBVIOUS
<1>2. CASE Shoot
  <2>1. PICK packets \in Shots : Edge(packets)
    BY <1>2 DEF Shoot
  <2>2. packets \in Seq(PacketFor(Targets))
    BY <1>2, ShotsAreAddressed DEF Shoot, MayShoot
  <2> QED BY <1>2, <2>1, <2>2, EdgeAddressed DEF Shoot, Edge
<1>3. CASE DoNotShoot
  BY <1>1, <1>3, EdgeAddressed DEF DoNotShoot, Edge
<1>4. CASE ShootListed
  <2>1. PICK packets \in PacketsTo(Expected) : Edge(packets)
    BY <1>4 DEF ShootListed
  <2>2. packets \in Seq(PacketFor(Targets))
    BY <1>4, ListedAreAddressed DEF ShootListed
  <2> QED BY <1>4, <2>1, <2>2, EdgeAddressed DEF ShootListed, Edge
<1>5. CASE ListIsOver
  BY <1>1, <1>5, EdgeAddressed DEF ListIsOver, Edge, traffic
<1>6. CASE RouletteFails
  BY <1>6 DEF RouletteFails, traffic, Targets
<1>7. CASE UNCHANGED vars
  BY <1>7 DEF vars, traffic, Targets
<1> QED BY <1>2, <1>3, <1>4, <1>5, <1>6, <1>7 DEF Next

(* Every packet is for a tile of the network, and where its destination is *)
(* drawn among other tiles never for the sender: of any mesh, for every    *)
(* distribution; those that permute bits want a number of tiles that is a  *)
(* power of two and fits an int.                                           *)
THEOREM DestinationsExist ==
  ASSUME traffic_distributions \cap BitDistributions # {} =>
           \E k \in 1 .. 30 : mesh_dim_x * mesh_dim_y = 2 ^ k
  PROVE  Spec => []DestinationOK
<1>1. BitsSuit
  BY DEF BitsSuit, PowerOfTwo
<1>2. Init => Addressed
  BY DEF Init, Addressed, Chosen
<1>3. Addressed /\ [Next]_vars => Addressed'
  BY <1>1, AddressedNext
<1>4. Addressed => DestinationOK
  <2> SUFFICES ASSUME Addressed, NEW i \in DOMAIN packet_queue
               PROVE  /\ packet_queue[i] \in Packet
                      /\ traffic_distribution \in ToOthers => packet_queue[i].dst_id # local_id
    BY DEF DestinationOK
  <2>1. packet_queue[i] \in PacketFor(Targets)
    BY ElementOfSeq, LenProperties DEF Addressed
  <2>2. Targets \subseteq Tiles /\ (traffic_distribution \in ToOthers => local_id \notin Targets)
    BY DEF Targets
  <2> QED BY <2>1, <2>2 DEF PacketFor, Packet
<1> QED BY <1>2, <1>3, <1>4, PTL DEF Spec

=============================================================================
