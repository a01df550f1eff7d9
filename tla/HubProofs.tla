------------------------------ MODULE HubProofs ------------------------------
(***************************************************************************)
(* Theorems about Hub, for any number of tiles and radio channels, any     *)
(* buffer sizes, destinations, streams and packets.                        *)
(***************************************************************************)
EXTENDS Hub, FlitChains, WellFoundedInduction, Integers

TxP == INSTANCE ReservationTableProofs
         WITH Inputs <- Ports, Outputs <- Channels, AtTurn <- Channels,
              rtable <- tile2antenna_reservation_table
RxP == INSTANCE ReservationTableProofs
         WITH Inputs <- Channels, Outputs <- Ports, AtTurn <- Ports,
              rtable <- antenna2tile_reservation_table

-----------------------------------------------------------------------------
(***************************************************************************)
(* The inductive invariant, first part: what holds of any hub.             *)
(***************************************************************************)
FlitsTo(dsts) == {f \in Flit : f.dst \in dsts}

FromTile == FlitsTo(Dsts)
FromAir  == FlitsTo(Ports)

(* The loops stay within their bounds.                                     *)
InLoop ==
  /\ pc[2] \in Nat
  /\ pc[1] = "reserve_tx" => pc[2] < num_ports * n_virtual_channels
  /\ pc[1] \in {"forward_tx", "send", "tiles"} => pc[2] < num_ports
  /\ pc[1] \in {"reserve_rx", "forward_rx", "air"} => pc[2] < Len(channels)

TxTyped ==
  /\ buffer_from_tile \in [Ports -> [VCs -> Seq(FromTile)]]
  /\ buffer_tx \in [Channels -> Seq(FromTile)]
  /\ TxP!WellFormed(tile2antenna_reservation_table)
  /\ to_antenna \in [Channels -> FromTile \cup {NoFlit}]
  /\ flit_rx \in [Ports -> FromTile \cup {NoFlit}]
  /\ supplied \in [Ports -> [VCs -> FromTile \cup {NoFlit}]]

RxTyped ==
  /\ buffer_to_tile \in [Ports -> [VCs -> Seq(FromAir)]]
  /\ buffer_rx \in [Channels -> Seq(FromAir)]
  /\ RxP!WellFormed(antenna2tile_reservation_table)
  /\ to_tile \in [Ports -> [VCs -> FromAir \cup {NoFlit}]]
  /\ on_air \in [RxStreams -> FromAir \cup {NoFlit}]

Basics == InLoop /\ TxTyped /\ RxTyped /\ start_from_vc \in [Ports -> VCs]

-----------------------------------------------------------------------------
(***************************************************************************)
(* Lemmas: numbers, flits and tables.                                      *)
(***************************************************************************)
LEMMA Divides ==
  ASSUME NEW a \in Nat, NEW n \in Nat \ {0}
  PROVE  a = (a \div n) * n + (a % n) /\ a % n \in 0 .. n - 1 /\ a \div n \in Nat
BY SMT

LEMMA AtLeastOne ==
  /\ num_ports \in Nat \ {0} /\ n_virtual_channels \in Nat \ {0}
  /\ num_ports * n_virtual_channels \in Nat \ {0}
  /\ Len(channels) \in Nat \ {0}
  /\ \A n \in 0 .. Len(channels) - 1 : channels[n + 1] \in Channels
<1>1. \A a, b \in Nat \ {0} : a * b \in Nat \ {0}
  BY SMT
<1>2. channels \in Seq(Nat) /\ channels # <<>>
  BY ChannelAssumption
<1>3. Len(channels) \in Nat \ {0} /\ DOMAIN channels = 1 .. Len(channels)
  BY <1>2, EmptySeq, LenProperties
<1> QED BY <1>1, <1>3, PortsAssumption, VCsAssumption DEF Channels

LEMMA RotatesWithin ==
  ASSUME start_from_vc \in [Ports -> VCs], NEW i \in Ports, NEW k \in Nat
  PROVE  /\ (start_from_vc[i] + k) % n_virtual_channels \in VCs
         /\ RotateVc(i) => start_from_vc' \in [Ports -> VCs]
<1>1. \A n \in Nat : (start_from_vc[i] + n) % n_virtual_channels \in VCs
  <2> SUFFICES ASSUME NEW n \in Nat PROVE (start_from_vc[i] + n) % n_virtual_channels \in VCs
    OBVIOUS
  <2>1. start_from_vc[i] + n \in Nat
    BY DEF VCs
  <2> QED BY <2>1, AtLeastOne, Divides DEF VCs
<1>2. (start_from_vc[i] + 1) % n_virtual_channels \in VCs
  BY <1>1
<1> QED BY <1>1, <1>2 DEF RotateVc

(* The last iteration of a loop leads to the next one.                     *)
LEMMA Goes ==
  ASSUME InLoop, NEW loop, NEW n, n = pc[2], NEW length \in Nat \ {0}, NEW next,
         Go(loop, n, length, next), n < length
  PROVE  /\ pc'[2] \in Nat
         /\ (pc'[1] = next /\ pc'[2] = 0) \/ (pc'[1] = loop /\ pc'[2] < length)
BY DEF Go, InLoop

LEMMA NoFlitIsNone == NoFlit \notin Flit
BY SizesAssumption DEF NoFlit, Flit

LEMMA FlitsAreFlits == AreFlits(FromTile) /\ AreFlits(FromAir)
<1>1. ASSUME NEW f \in Flit, NEW g \in Flit, Follows(g, f)
      PROVE  f.dst = g.dst /\ ~IsHead(f)
  BY <1>1, NoFlitIsNone DEF Flit, Follows, IsHead
<1> QED BY <1>1, NoFlitIsNone DEF AreFlits, FromTile, FromAir, FlitsTo

LEMMA NextFlitsFollow ==
  ASSUME NEW dsts \in SUBSET (Dsts \cup Ports), NEW g \in FlitsTo(dsts) \cup {NoFlit},
         NEW from \in Ports \cup Hubs, NEW vc \in VCs,
         NEW f \in NextFlits(g, from, vc, dsts)
  PROVE  f \in FlitsTo(dsts) /\ Follows(g, f)
<1>1. CASE g = NoFlit
  <2>1. f \in [from : {from}, vc : {vc}, dst : dsts, sequence_no : {0}, sequence_length : Sizes]
    BY <1>1 DEF NextFlits
  <2>2. f \in FlitsTo(dsts) /\ f.sequence_no = 0
    BY <2>1 DEF Flit, FlitsTo
  <2> QED BY <1>1, <2>2 DEF Follows, IsHead
<1>2. CASE g # NoFlit
  BY <1>2 DEF NextFlits, FlitsTo, Flit, Follows
<1> QED BY <1>1, <1>2

(* The tables of the hub are those of ReservationTableProofs.              *)
LEMMA TxTables ==
  /\ \A t, r, c : /\ T2A!checkReservation(t, r, c) = TxP!checkReservation(t, r, c)
                  /\ T2A!reserve(t, r, c) = TxP!reserve(t, r, c)
                  /\ T2A!release(t, r, c) = TxP!release(t, r, c)
                  /\ T2A!Holds(t, r, c) <=> TxP!Holds(t, r, c)
  /\ \A t, i : T2A!getReservations(t, i) = TxP!getReservations(t, i)
  /\ T2A!setSize = TxP!setSize
  /\ \A i \in Ports, vc \in VCs : [input |-> i, vc |-> vc] \in TxP!TReservation
BY DEF T2A!checkReservation, TxP!checkReservation, T2A!reserve, TxP!reserve,
       T2A!release, TxP!release, T2A!removed_index, TxP!removed_index, T2A!IndexAfter,
       TxP!IndexAfter, T2A!RemoveAt, TxP!RemoveAt, T2A!Holds, TxP!Holds,
       T2A!getReservations, TxP!getReservations, T2A!IsCurrent, TxP!IsCurrent,
       T2A!setSize, TxP!setSize, TxP!TReservation

LEMMA RxTables ==
  /\ \A t, r, p : /\ A2T!checkReservation(t, r, p) = RxP!checkReservation(t, r, p)
                  /\ A2T!reserve(t, r, p) = RxP!reserve(t, r, p)
                  /\ A2T!release(t, r, p) = RxP!release(t, r, p)
                  /\ A2T!Holds(t, r, p) <=> RxP!Holds(t, r, p)
  /\ \A t, c : A2T!getReservations(t, c) = RxP!getReservations(t, c)
  /\ A2T!setSize = RxP!setSize
  /\ \A c \in Channels, vc \in VCs : [input |-> c, vc |-> vc] \in RxP!TReservation
BY DEF A2T!checkReservation, RxP!checkReservation, A2T!reserve, RxP!reserve,
       A2T!release, RxP!release, A2T!removed_index, RxP!removed_index, A2T!IndexAfter,
       RxP!IndexAfter, A2T!RemoveAt, RxP!RemoveAt, A2T!Holds, RxP!Holds,
       A2T!getReservations, RxP!getReservations, A2T!IsCurrent, RxP!IsCurrent,
       A2T!setSize, RxP!setSize, RxP!TReservation

-----------------------------------------------------------------------------
(***************************************************************************)
(* What the steps do to the tables and buffers: from the tiles to the      *)
(* antennas.                                                               *)
(***************************************************************************)

(* A head of port i, channel vc, gets radio channel c.                     *)
GetsChannel(i, vc, c) ==
  LET r == [input |-> i, vc |-> vc]
      t == tile2antenna_reservation_table
  IN  /\ HeadAtFront(buffer_from_tile[i][vc])
      /\ c \in ChannelsTo[Head(buffer_from_tile[i][vc]).dst]
      /\ TxP!checkReservation(t, r, c) = "RT_AVAILABLE"
      /\ t' = TxP!reserve(t, r, c)

LEMMA ReserveTxEffect ==
  ASSUME Basics, ReserveTx
  PROVE  /\ InLoop' /\ start_from_vc' \in [Ports -> VCs]
         /\ \/ UNCHANGED tile2antenna_reservation_table
            \/ \E i \in Ports, vc \in VCs, c \in Channels : GetsChannel(i, vc, c)
<1> USE DEF Basics
<1> DEFINE i == pc[2] \div n_virtual_channels
           k == pc[2] % n_virtual_channels
           vc == (start_from_vc[i] + k) % n_virtual_channels
           b == buffer_from_tile[i][vc]
<1>1. pc[2] \in Nat /\ pc[2] < num_ports * n_virtual_channels
  BY DEF InLoop, ReserveTx
<1>2. i \in Ports /\ k \in Nat
  <2>1. pc[2] = i * n_virtual_channels + k /\ k \in 0 .. n_virtual_channels - 1 /\ i \in Nat
    BY <1>1, AtLeastOne, Divides
  <2> HIDE DEF i, k
  <2>2. i < num_ports
    <3>1. \A p, n \in Nat \ {0}, q \in Nat : q >= p => q * n >= p * n
      BY SMT
    <3>2. i * n_virtual_channels < num_ports * n_virtual_channels
      <4>1. i * n_virtual_channels \in Nat /\ num_ports * n_virtual_channels \in Nat
        BY <2>1, AtLeastOne, SMT
      <4> QED BY <1>1, <2>1, <4>1, AtLeastOne
    <3>3. i * n_virtual_channels \in Nat /\ num_ports * n_virtual_channels \in Nat
      BY <2>1, AtLeastOne, SMT
    <3> QED BY <2>1, <3>1, <3>2, <3>3, AtLeastOne
  <2> QED BY <2>1, <2>2, AtLeastOne DEF Ports
<1>3. vc \in VCs
  BY <1>2, RotatesWithin
<1>4. start_from_vc' \in [Ports -> VCs]
  <2>1. RotateVc(i) \/ UNCHANGED start_from_vc
    BY DEF ReserveTx
  <2> QED BY <1>2, <2>1, RotatesWithin
<1>5. InLoop'
  <2>1. Go("reserve_tx", pc[2], num_ports * n_virtual_channels, "forward_tx")
    BY DEF ReserveTx
  <2>2. \/ pc'[1] = "forward_tx" /\ pc'[2] = 0
        \/ pc'[1] = "reserve_tx" /\ pc'[2] < num_ports * n_virtual_channels /\ pc'[2] \in Nat
    BY <1>1, <2>1, Goes, AtLeastOne
  <2> QED BY <2>2, AtLeastOne DEF InLoop
<1>6. ASSUME HeadAtFront(b), NEW c \in selectChannel(Head(b).dst),
             tile2antenna_reservation_table' = AskChannel([input |-> i, vc |-> vc], c)
      PROVE  \/ UNCHANGED tile2antenna_reservation_table
             \/ c \in Channels /\ GetsChannel(i, vc, c)
  <2>1. b \in Seq(FromTile) /\ b # <<>>
    BY <1>2, <1>3, <1>6 DEF TxTyped, HeadAtFront
  <2>2. Head(b) \in FromTile
    BY <2>1, HeadTailProperties
  <2>3. c \in ChannelsTo[Head(b).dst] /\ c \in Channels
    BY <2>2, ChannelsToAssumption DEF selectChannel, FromTile, FlitsTo
  <2> HIDE DEF b, vc, i
  <2> QED BY <1>6, <2>3, TxTables DEF AskChannel, GetsChannel, b
<1> HIDE DEF b, i, vc
<1>7. \/ UNCHANGED tile2antenna_reservation_table
      \/ \E c \in Channels : GetsChannel(i, vc, c)
  BY <1>6 DEF ReserveTx, b, i, vc
<1> QED BY <1>2, <1>3, <1>4, <1>5, <1>7

(* The first flit of port i, channel vc, goes to radio channel c.          *)
LeavesForAntenna(i, vc, c) ==
  LET f == Head(buffer_from_tile[i][vc])
      r == [input |-> i, vc |-> vc]
      t == tile2antenna_reservation_table
  IN  /\ buffer_from_tile[i][vc] # <<>>
      /\ buffer_from_tile' = [buffer_from_tile EXCEPT ![i][vc] = Tail(@)]
      /\ buffer_tx' = [buffer_tx EXCEPT ![c] = Append(@, f)]
      /\ to_antenna' = [to_antenna EXCEPT ![c] = InProgress(f)]
      /\ TxP!Holds(t, r, c) /\ T2A!IsCurrent(t, r, c)
      /\ t' = IF IsTail(f) THEN TxP!release(t, r, c) ELSE t

LEMMA ForwardTxEffect ==
  ASSUME Basics, ForwardTx
  PROVE  /\ InLoop'
         /\ \/ UNCHANGED txVars
            \/ \E i \in Ports, vc \in VCs, c \in Channels : LeavesForAntenna(i, vc, c)
<1> USE DEF Basics
<1>1. pc[2] \in Ports /\ pc[2] < num_ports
  BY AtLeastOne DEF InLoop, ForwardTx, Ports
<1>2. InLoop'
  <2>1. Go("forward_tx", pc[2], num_ports, "receive")
    BY DEF ForwardTx
  <2>2. \/ pc'[1] = "receive" /\ pc'[2] = 0
        \/ pc'[1] = "forward_tx" /\ pc'[2] < num_ports /\ pc'[2] \in Nat
    BY <1>1, <2>1, Goes, AtLeastOne
  <2> QED BY <2>2, AtLeastOne DEF InLoop
<1>3. ASSUME NEW d \in T2A!getReservations(tile2antenna_reservation_table, pc[2]),
             MoveToTx(pc[2], d[1], d[2])
      PROVE  d[1] \in Channels /\ d[2] \in VCs /\ LeavesForAntenna(pc[2], d[2], d[1])
  <2>1. d[1] \in Channels /\ d[2] \in VCs
        /\ TxP!Holds(tile2antenna_reservation_table, [input |-> pc[2], vc |-> d[2]], d[1])
        /\ T2A!IsCurrent(tile2antenna_reservation_table, [input |-> pc[2], vc |-> d[2]], d[1])
    BY <1>1, TxTables, TxP!TurnIsHeld DEF TxTyped, T2A!IsCurrent, TxP!IsCurrent
  <2> QED BY <1>3, <2>1, TxTables DEF MoveToTx, ChannelReleased, LeavesForAntenna
<1> QED BY <1>1, <1>2, <1>3 DEF ForwardTx

LEMMA ReceiveEffect ==
  ASSUME TxTyped, Receive, NEW i \in Ports
  PROVE  /\ Accepts(i) => flit_rx[i] \in FromTile /\ flit_rx[i].vc \in VCs
         /\ \A vc \in VCs : buffer_from_tile'[i][vc] =
              IF Accepts(i) /\ vc = flit_rx[i].vc THEN Append(buffer_from_tile[i][vc], flit_rx[i])
              ELSE buffer_from_tile[i][vc]
         /\ flit_rx'[i] = IF Accepts(i) THEN NoFlit ELSE flit_rx[i]
<1>1. Accepts(i) => flit_rx[i] \in FromTile /\ flit_rx[i].vc \in VCs
  BY DEF TxTyped, Accepts, FromTile, FlitsTo, Flit
<1>2. buffer_from_tile'[i] =
        IF Accepts(i) THEN [buffer_from_tile[i] EXCEPT ![flit_rx[i].vc] = Append(@, flit_rx[i])]
        ELSE buffer_from_tile[i]
  BY DEF Receive
<1>3. buffer_from_tile[i] \in [VCs -> Seq(FromTile)]
  BY DEF TxTyped
<1>4. flit_rx'[i] = IF Accepts(i) THEN NoFlit ELSE flit_rx[i]
  BY DEF Receive
<1> QED BY <1>1, <1>2, <1>3, <1>4

(* The tile at port i puts flit f of channel vc on the wires.              *)
Supplies(i, vc, f) ==
  /\ f \in NextFlits(supplied[i][vc], i, vc, Dsts)
  /\ flit_rx[i] = NoFlit
  /\ flit_rx' = [flit_rx EXCEPT ![i] = f]
  /\ supplied' = [supplied EXCEPT ![i][f.vc] = InProgress(f)]

LEMMA TilesEffect ==
  ASSUME Basics, Tiles
  PROVE  /\ InLoop'
         /\ \/ UNCHANGED <<flit_rx, supplied>>
            \/ \E i \in Ports, vc \in VCs, f \in FromTile : Supplies(i, vc, f)
<1> USE DEF Basics
<1>1. pc[2] \in Ports /\ pc[2] < num_ports
  BY AtLeastOne DEF InLoop, Tiles, Ports
<1>2. InLoop'
  <2>1. Go("tiles", pc[2], num_ports, "air")
    BY DEF Tiles
  <2>2. \/ pc'[1] = "air" /\ pc'[2] = 0
        \/ pc'[1] = "tiles" /\ pc'[2] < num_ports /\ pc'[2] \in Nat
    BY <1>1, <2>1, Goes, AtLeastOne
  <2> QED BY <2>2, AtLeastOne DEF InLoop
<1>3. CASE ~UNCHANGED <<flit_rx, supplied>>
  <2>1. PICK f \in Offers(pc[2]) :
          /\ flit_rx[pc[2]] = NoFlit
          /\ flit_rx' = [flit_rx EXCEPT ![pc[2]] = f]
          /\ supplied' = [supplied EXCEPT ![pc[2]][f.vc] = InProgress(f)]
    BY <1>3 DEF Tiles, Arrive
  <2>2. PICK vc \in VCs : f \in NextFlits(supplied[pc[2]][vc], pc[2], vc, Dsts)
    BY <2>1 DEF Offers
  <2>3. supplied[pc[2]][vc] \in FromTile \cup {NoFlit}
    BY <1>1 DEF TxTyped
  <2>4. f \in FromTile
    BY <1>1, <2>2, <2>3, NextFlitsFollow DEF FromTile
  <2>5. Supplies(pc[2], vc, f)
    BY <2>1, <2>2 DEF Supplies
  <2> QED BY <1>1, <1>2, <2>4, <2>5
<1> QED BY <1>2, <1>3

-----------------------------------------------------------------------------
(***************************************************************************)
(* From the antennas to the tiles.                                         *)
(***************************************************************************)

(* A set of natural numbers has a least one.                               *)
LEMMA LeastOne ==
  ASSUME NEW S \in SUBSET Nat, S # {}
  PROVE  Min(S) \in S
<1>1. PICK x \in S : \A y \in S : ~(<<y, x>> \in OpToRel(<, Nat))
  BY NatLessThanWellFounded, WFMin, Zenon
<1>2. \A y \in S : x <= y
  <2> SUFFICES ASSUME NEW y \in S, y < x PROVE FALSE
    OBVIOUS
  <2>1. <<y, x>> \in OpToRel(<, Nat)
    BY DEF OpToRel
  <2> QED BY <1>1, <2>1, Zenon
<1> QED BY <1>1, <1>2 DEF Min

LEMMA SendToTileEffect ==
  ASSUME Basics, SendToTile
  PROVE  /\ InLoop' /\ start_from_vc' \in [Ports -> VCs]
         /\ \/ UNCHANGED buffer_to_tile
            \/ \E i \in Ports, vc \in VCs :
                 /\ buffer_to_tile[i][vc] # <<>>
                 /\ buffer_to_tile' = [buffer_to_tile EXCEPT ![i][vc] = Tail(@)]
<1> USE DEF Basics
<1>1. PICK i \in Ports : i = pc[2] /\ i < num_ports
  BY AtLeastOne DEF InLoop, SendToTile, Ports
<1>2. InLoop'
  <2>1. Go("send", pc[2], num_ports, "reserve_rx")
    BY DEF SendToTile
  <2>2. \/ pc'[1] = "reserve_rx" /\ pc'[2] = 0
        \/ pc'[1] = "send" /\ pc'[2] < num_ports /\ pc'[2] \in Nat
    BY <1>1, <2>1, Goes, AtLeastOne
  <2> QED BY <2>2, AtLeastOne DEF InLoop
<1>3. start_from_vc' \in [Ports -> VCs]
  BY <1>1, RotatesWithin DEF SendToTile
<1>4. PICK permitted \in SUBSET VCs :
        LET ks == Sendable(i, permitted)
            vc == (start_from_vc[i] + Min(ks)) % n_virtual_channels
        IN  buffer_to_tile' = IF ks = {} THEN buffer_to_tile
                                         ELSE [buffer_to_tile EXCEPT ![i][vc] = Tail(@)]
  BY <1>1 DEF SendToTile
<1>5. CASE Sendable(i, permitted) # {}
  <2>1. Sendable(i, permitted) \in SUBSET Nat
    BY DEF Sendable, VCs
  <2>2. PICK k \in Sendable(i, permitted) : k = Min(Sendable(i, permitted))
    BY <1>5, <2>1, LeastOne
  <2>3. PICK vc \in VCs : vc = (start_from_vc[i] + k) % n_virtual_channels
    BY <1>1, <2>1, RotatesWithin
  <2>4. buffer_to_tile[i][vc] # <<>>
    BY <2>3 DEF Sendable
  <2>5. buffer_to_tile' = [buffer_to_tile EXCEPT ![i][vc] = Tail(@)]
    BY <1>4, <1>5, <2>2, <2>3
  <2> QED BY <1>2, <1>3, <2>4, <2>5
<1> QED BY <1>2, <1>3, <1>4, <1>5

(* The head at the front of radio channel c gets port p.                   *)
GetsPort(c, vc, p) ==
  LET f == Head(buffer_rx[c])
      r == [input |-> c, vc |-> vc]
      t == antenna2tile_reservation_table
  IN  /\ HeadAtFront(buffer_rx[c])
      /\ p = f.dst /\ vc = f.vc
      /\ RxP!checkReservation(t, r, p) = "RT_AVAILABLE"
      /\ t' = RxP!reserve(t, r, p)

LEMMA ReserveRxEffect ==
  ASSUME Basics, ReserveRx
  PROVE  /\ InLoop'
         /\ \/ UNCHANGED antenna2tile_reservation_table
            \/ \E c \in Channels, vc \in VCs, p \in Ports : GetsPort(c, vc, p)
<1> USE DEF Basics
<1>1. pc[2] \in 0 .. Len(channels) - 1 /\ pc[2] < Len(channels)
  BY AtLeastOne DEF InLoop, ReserveRx
<1>2. InLoop'
  <2>1. Go("reserve_rx", pc[2], Len(channels), "forward_rx")
    BY DEF ReserveRx
  <2>2. \/ pc'[1] = "forward_rx" /\ pc'[2] = 0
        \/ pc'[1] = "reserve_rx" /\ pc'[2] < Len(channels) /\ pc'[2] \in Nat
    BY <1>1, <2>1, Goes, AtLeastOne
  <2> QED BY <2>2, AtLeastOne DEF InLoop
<1>3. PICK c \in Channels : c = channels[pc[2] + 1]
  BY <1>1, AtLeastOne
<1>4. antenna2tile_reservation_table' =
        IF HeadAtFront(buffer_rx[c])
          THEN AskPort([input |-> c, vc |-> Head(buffer_rx[c]).vc], Head(buffer_rx[c]).dst)
          ELSE antenna2tile_reservation_table
  BY <1>3 DEF ReserveRx
<1>5. CASE HeadAtFront(buffer_rx[c])
  <2>1. buffer_rx[c] \in Seq(FromAir) /\ buffer_rx[c] # <<>>
    BY <1>5 DEF RxTyped, HeadAtFront
  <2>2. PICK f \in FromAir : f = Head(buffer_rx[c])
    BY <2>1, HeadTailProperties
  <2>3. f.vc \in VCs /\ f.dst \in Ports
    BY DEF FromAir, FlitsTo, Flit
  <2>4. \/ UNCHANGED antenna2tile_reservation_table
        \/ GetsPort(c, f.vc, f.dst)
    BY <1>4, <1>5, <2>2, RxTables DEF AskPort, GetsPort
  <2> QED BY <1>2, <2>3, <2>4
<1> QED BY <1>2, <1>4, <1>5

(* The first flit of radio channel c goes to port p, channel vc.           *)
LeavesForTile(c, vc, p) ==
  LET f == Head(buffer_rx[c])
      r == [input |-> c, vc |-> vc]
      t == antenna2tile_reservation_table
  IN  /\ buffer_rx[c] # <<>>
      /\ buffer_rx' = [buffer_rx EXCEPT ![c] = Tail(@)]
      /\ buffer_to_tile' = [buffer_to_tile EXCEPT ![p][vc] = Append(@, f)]
      /\ to_tile' = [to_tile EXCEPT ![p][vc] = InProgress(f)]
      /\ RxP!Holds(t, r, p) /\ A2T!IsCurrent(t, r, p)
      /\ t' = IF IsTail(f) THEN RxP!release(t, r, p) ELSE t

LEMMA ForwardRxEffect ==
  ASSUME Basics, ForwardRx
  PROVE  /\ InLoop'
         /\ \/ UNCHANGED rxVars
            \/ \E c \in Channels, vc \in VCs, p \in Ports : LeavesForTile(c, vc, p)
<1> USE DEF Basics
<1>1. pc[2] \in 0 .. Len(channels) - 1 /\ pc[2] < Len(channels)
  BY AtLeastOne DEF InLoop, ForwardRx
<1>2. InLoop'
  <2>1. Go("forward_rx", pc[2], Len(channels), "tiles")
    BY DEF ForwardRx
  <2>2. \/ pc'[1] = "tiles" /\ pc'[2] = 0
        \/ pc'[1] = "forward_rx" /\ pc'[2] < Len(channels) /\ pc'[2] \in Nat
    BY <1>1, <2>1, Goes, AtLeastOne
  <2> QED BY <2>2, AtLeastOne DEF InLoop
<1>3. PICK c \in Channels : c = channels[pc[2] + 1]
  BY <1>1, AtLeastOne
<1>4. ASSUME NEW d \in A2T!getReservations(antenna2tile_reservation_table, c),
             MoveToTile(c, d[1], d[2])
      PROVE  d[1] \in Ports /\ d[2] \in VCs /\ LeavesForTile(c, d[2], d[1])
  <2>1. d[1] \in Ports /\ d[2] \in VCs
        /\ RxP!Holds(antenna2tile_reservation_table, [input |-> c, vc |-> d[2]], d[1])
        /\ A2T!IsCurrent(antenna2tile_reservation_table, [input |-> c, vc |-> d[2]], d[1])
    BY RxTables, RxP!TurnIsHeld DEF RxTyped, A2T!IsCurrent, RxP!IsCurrent
  <2> QED BY <1>4, <2>1, RxTables DEF MoveToTile, PortReleased, LeavesForTile
<1> QED BY <1>2, <1>3, <1>4 DEF ForwardRx

LEMMA AirEffect ==
  ASSUME Basics, Air
  PROVE  /\ InLoop'
         /\ \/ UNCHANGED <<buffer_tx, buffer_rx, on_air>>
            \/ \E c \in Channels : Transmit(c)
            \/ \E s \in RxStreams : Hear(s)
<1> USE DEF Basics
<1>1. pc[2] \in 0 .. Len(channels) - 1 /\ pc[2] < Len(channels)
  BY AtLeastOne DEF InLoop, Air
<1>2. InLoop'
  <2>1. Go("air", pc[2], Len(channels), "reserve_tx")
    BY DEF Air
  <2>2. \/ pc'[1] = "reserve_tx" /\ pc'[2] = 0
        \/ pc'[1] = "air" /\ pc'[2] < Len(channels) /\ pc'[2] \in Nat
    BY <1>1, <2>1, Goes, AtLeastOne
  <2> QED BY <2>2, AtLeastOne DEF InLoop
<1>3. channels[pc[2] + 1] \in Channels
  BY <1>1, AtLeastOne
<1> QED BY <1>2, <1>3 DEF Air

LEMMA HearEffect ==
  ASSUME RxTyped, NEW s \in RxStreams, Hear(s)
  PROVE  /\ s[1] \in Channels
         /\ \E f \in FromAir : /\ Follows(on_air[s], f)
                               /\ buffer_rx' = [buffer_rx EXCEPT ![s[1]] = Append(@, f)]
                               /\ on_air' = [on_air EXCEPT ![s] = InProgress(f)]
<1>1. s[1] \in Channels /\ s[3] \in VCs /\ s[2] \in Hubs
  BY StreamsAssumption DEF Hubs
<1>2. PICK f \in NextFlits(on_air[s], s[2], s[3], Ports) :
        /\ buffer_rx' = [buffer_rx EXCEPT ![s[1]] = Append(@, f)]
        /\ on_air' = [on_air EXCEPT ![s] = InProgress(f)]
  BY DEF Hear
<1>3. on_air[s] \in FromAir \cup {NoFlit}
  BY DEF RxTyped
<1>4. f \in FromAir /\ Follows(on_air[s], f)
  BY <1>1, <1>2, <1>3, NextFlitsFollow DEF FromAir
<1> QED BY <1>1, <1>2, <1>4

-----------------------------------------------------------------------------
(***************************************************************************)
(* Basics is inductive.                                                    *)
(***************************************************************************)
LEMMA BasicsInit == Init => Basics
<1> SUFFICES ASSUME Init PROVE Basics
  OBVIOUS
<1> USE DEF Init
<1>1. \A S : <<>> \in Seq(S)
  OBVIOUS
<1>2. InLoop
  BY AtLeastOne DEF InLoop
<1>3. TxTyped
  BY <1>1, TxTables, TxP!SetSizeMakes DEF TxTyped, Empty
<1>4. RxTyped
  BY <1>1, RxTables, RxP!SetSizeMakes DEF RxTyped, Empty
<1>5. start_from_vc \in [Ports -> VCs]
  BY AtLeastOne DEF VCs
<1> QED BY <1>2, <1>3, <1>4, <1>5 DEF Basics

LEMMA BasicsReserveTx == Basics /\ ReserveTx => Basics'
<1> SUFFICES ASSUME Basics, ReserveTx PROVE Basics'
  OBVIOUS
<1>1. InLoop' /\ start_from_vc' \in [Ports -> VCs]
  BY ReserveTxEffect
<1>2. TxP!WellFormed(tile2antenna_reservation_table')
  <2>1. CASE UNCHANGED tile2antenna_reservation_table
    BY <2>1 DEF Basics, TxTyped
  <2>2. ASSUME NEW i \in Ports, NEW vc \in VCs, NEW c \in Channels, GetsChannel(i, vc, c)
        PROVE  TxP!WellFormed(tile2antenna_reservation_table')
    BY <2>2, TxTables, TxP!ReserveKeeps DEF Basics, TxTyped, GetsChannel
  <2> QED BY <2>1, <2>2, ReserveTxEffect
<1>3. TxTyped'
  BY <1>2 DEF Basics, TxTyped, ReserveTx, envVars
<1>4. RxTyped'
  BY DEF Basics, RxTyped, ReserveTx, rxVars, envVars
<1> QED BY <1>1, <1>3, <1>4 DEF Basics

LEMMA BasicsForwardTx == Basics /\ ForwardTx => Basics'
<1> SUFFICES ASSUME Basics, ForwardTx PROVE Basics'
  OBVIOUS
<1>1. InLoop'
  BY ForwardTxEffect
<1>2. ASSUME NEW i \in Ports, NEW vc \in VCs, NEW c \in Channels, LeavesForAntenna(i, vc, c)
      PROVE  /\ buffer_from_tile' \in [Ports -> [VCs -> Seq(FromTile)]]
             /\ buffer_tx' \in [Channels -> Seq(FromTile)]
             /\ TxP!WellFormed(tile2antenna_reservation_table')
             /\ to_antenna' \in [Channels -> FromTile \cup {NoFlit}]
  <2> USE DEF Basics, TxTyped
  <2>1. buffer_from_tile[i][vc] \in Seq(FromTile) /\ buffer_from_tile[i][vc] # <<>>
    BY <1>2 DEF LeavesForAntenna
  <2>2. PICK f \in FromTile : f = Head(buffer_from_tile[i][vc])
    BY <2>1, HeadTailProperties
  <2>3. Tail(buffer_from_tile[i][vc]) \in Seq(FromTile) /\ Append(buffer_tx[c], f) \in Seq(FromTile)
    BY <2>1, HeadTailProperties, AppendProperties
  <2>4. InProgress(f) \in FromTile \cup {NoFlit}
    BY DEF InProgress
  <2>5. TxP!WellFormed(tile2antenna_reservation_table')
    BY <1>2, TxTables, TxP!ReleaseKeeps DEF LeavesForAntenna
  <2>6. buffer_from_tile' \in [Ports -> [VCs -> Seq(FromTile)]]
    BY <1>2, <2>3 DEF LeavesForAntenna
  <2>7. buffer_tx' \in [Channels -> Seq(FromTile)] /\ to_antenna' \in [Channels -> FromTile \cup {NoFlit}]
    BY <1>2, <2>2, <2>3, <2>4 DEF LeavesForAntenna
  <2> QED BY <2>5, <2>6, <2>7
<1>3. UNCHANGED txVars => TxTyped'
  BY DEF Basics, TxTyped, ForwardTx, envVars, txVars
<1>4. TxTyped'
  BY <1>2, <1>3, ForwardTxEffect DEF Basics, TxTyped, ForwardTx, envVars
<1>5. RxTyped'
  BY DEF Basics, RxTyped, ForwardTx, rxVars, envVars
<1> QED BY <1>1, <1>4, <1>5 DEF Basics, ForwardTx

LEMMA BasicsReceive == Basics /\ Receive => Basics'
<1> SUFFICES ASSUME Basics, Receive PROVE Basics'
  OBVIOUS
<1>1. InLoop'
  BY AtLeastOne DEF InLoop, Receive
<1>2. TxTyped'
  <2> USE DEF Basics, TxTyped
  <2>1. ASSUME NEW i \in Ports
        PROVE  /\ buffer_from_tile'[i] \in [VCs -> Seq(FromTile)]
               /\ flit_rx'[i] \in FromTile \cup {NoFlit}
    <3>1. Accepts(i) => flit_rx[i] \in FromTile /\ flit_rx[i].vc \in VCs
      BY ReceiveEffect
    <3>2. Accepts(i) => Append(buffer_from_tile[i][flit_rx[i].vc], flit_rx[i]) \in Seq(FromTile)
      BY <3>1, AppendProperties
    <3>3. buffer_from_tile'[i] =
            IF Accepts(i) THEN [buffer_from_tile[i] EXCEPT ![flit_rx[i].vc] = Append(@, flit_rx[i])]
            ELSE buffer_from_tile[i]
      BY DEF Receive
    <3>4. flit_rx'[i] = IF Accepts(i) THEN NoFlit ELSE flit_rx[i]
      BY ReceiveEffect
    <3> QED BY <3>1, <3>2, <3>3, <3>4
  <2>2. /\ buffer_from_tile' \in [Ports -> [VCs -> Seq(FromTile)]]
        /\ flit_rx' \in [Ports -> FromTile \cup {NoFlit}]
    BY <2>1 DEF Receive
  <2> QED BY <2>2 DEF Receive
<1>3. RxTyped'
  BY DEF Basics, RxTyped, Receive, rxVars
<1> QED BY <1>1, <1>2, <1>3 DEF Basics, Receive

LEMMA BasicsSendToTile == Basics /\ SendToTile => Basics'
<1> SUFFICES ASSUME Basics, SendToTile PROVE Basics'
  OBVIOUS
<1>1. InLoop' /\ start_from_vc' \in [Ports -> VCs]
  BY SendToTileEffect
<1>2. buffer_to_tile' \in [Ports -> [VCs -> Seq(FromAir)]]
  <2> USE DEF Basics, RxTyped
  <2>1. ASSUME NEW i \in Ports, NEW vc \in VCs, buffer_to_tile[i][vc] # <<>>,
               buffer_to_tile' = [buffer_to_tile EXCEPT ![i][vc] = Tail(@)]
        PROVE  buffer_to_tile' \in [Ports -> [VCs -> Seq(FromAir)]]
    <3>1. Tail(buffer_to_tile[i][vc]) \in Seq(FromAir)
      BY <2>1, HeadTailProperties
    <3> QED BY <2>1, <3>1
  <2> QED BY <2>1, SendToTileEffect
<1>3. RxTyped'
  BY <1>2 DEF Basics, RxTyped, SendToTile, envVars
<1>4. TxTyped'
  BY DEF Basics, TxTyped, SendToTile, txVars, envVars
<1> QED BY <1>1, <1>3, <1>4 DEF Basics

LEMMA BasicsReserveRx == Basics /\ ReserveRx => Basics'
<1> SUFFICES ASSUME Basics, ReserveRx PROVE Basics'
  OBVIOUS
<1>1. InLoop'
  BY ReserveRxEffect
<1>2. RxP!WellFormed(antenna2tile_reservation_table')
  <2>1. CASE UNCHANGED antenna2tile_reservation_table
    BY <2>1 DEF Basics, RxTyped
  <2>2. ASSUME NEW c \in Channels, NEW vc \in VCs, NEW p \in Ports, GetsPort(c, vc, p)
        PROVE  RxP!WellFormed(antenna2tile_reservation_table')
    BY <2>2, RxTables, RxP!ReserveKeeps DEF Basics, RxTyped, GetsPort
  <2> QED BY <2>1, <2>2, ReserveRxEffect
<1>3. RxTyped'
  BY <1>2 DEF Basics, RxTyped, ReserveRx, envVars
<1>4. TxTyped'
  BY DEF Basics, TxTyped, ReserveRx, txVars, envVars
<1> QED BY <1>1, <1>3, <1>4 DEF Basics, ReserveRx

LEMMA BasicsForwardRx == Basics /\ ForwardRx => Basics'
<1> SUFFICES ASSUME Basics, ForwardRx PROVE Basics'
  OBVIOUS
<1>1. InLoop'
  BY ForwardRxEffect
<1>2. ASSUME NEW c \in Channels, NEW vc \in VCs, NEW p \in Ports, LeavesForTile(c, vc, p)
      PROVE  /\ buffer_to_tile' \in [Ports -> [VCs -> Seq(FromAir)]]
             /\ buffer_rx' \in [Channels -> Seq(FromAir)]
             /\ RxP!WellFormed(antenna2tile_reservation_table')
             /\ to_tile' \in [Ports -> [VCs -> FromAir \cup {NoFlit}]]
  <2> USE DEF Basics, RxTyped
  <2>1. buffer_rx[c] \in Seq(FromAir) /\ buffer_rx[c] # <<>>
    BY <1>2 DEF LeavesForTile
  <2>2. PICK f \in FromAir : f = Head(buffer_rx[c])
    BY <2>1, HeadTailProperties
  <2>3. Tail(buffer_rx[c]) \in Seq(FromAir) /\ Append(buffer_to_tile[p][vc], f) \in Seq(FromAir)
    BY <2>1, HeadTailProperties, AppendProperties
  <2>4. InProgress(f) \in FromAir \cup {NoFlit}
    BY DEF InProgress
  <2>5. RxP!WellFormed(antenna2tile_reservation_table')
    BY <1>2, RxTables, RxP!ReleaseKeeps DEF LeavesForTile
  <2>6. buffer_to_tile' \in [Ports -> [VCs -> Seq(FromAir)]]
    BY <1>2, <2>2, <2>3 DEF LeavesForTile
  <2>7. buffer_rx' \in [Channels -> Seq(FromAir)]
    BY <1>2, <2>3 DEF LeavesForTile
  <2>8. to_tile' \in [Ports -> [VCs -> FromAir \cup {NoFlit}]]
    BY <1>2, <2>2, <2>4 DEF LeavesForTile
  <2> QED BY <2>5, <2>6, <2>7, <2>8
<1>3. UNCHANGED rxVars => RxTyped'
  BY DEF Basics, RxTyped, ForwardRx, rxVars, envVars
<1>4. RxTyped'
  BY <1>2, <1>3, ForwardRxEffect DEF Basics, RxTyped, ForwardRx, envVars
<1>5. TxTyped'
  BY DEF Basics, TxTyped, ForwardRx, txVars, envVars
<1> QED BY <1>1, <1>4, <1>5 DEF Basics, ForwardRx

LEMMA BasicsTiles == Basics /\ Tiles => Basics'
<1> SUFFICES ASSUME Basics, Tiles PROVE Basics'
  OBVIOUS
<1>1. InLoop'
  BY TilesEffect
<1>2. /\ flit_rx' \in [Ports -> FromTile \cup {NoFlit}]
      /\ supplied' \in [Ports -> [VCs -> FromTile \cup {NoFlit}]]
  <2> USE DEF Basics, TxTyped
  <2>1. ASSUME NEW i \in Ports, NEW vc \in VCs, NEW f \in FromTile, Supplies(i, vc, f)
        PROVE  /\ flit_rx' \in [Ports -> FromTile \cup {NoFlit}]
               /\ supplied' \in [Ports -> [VCs -> FromTile \cup {NoFlit}]]
    <3>1. InProgress(f) \in FromTile \cup {NoFlit}
      BY DEF InProgress
    <3> QED BY <2>1, <3>1 DEF Supplies
  <2> QED BY <2>1, TilesEffect
<1>3. TxTyped'
  BY <1>2 DEF Basics, TxTyped, Tiles, txVars
<1>4. RxTyped'
  BY DEF Basics, RxTyped, Tiles, rxVars
<1> QED BY <1>1, <1>3, <1>4 DEF Basics, Tiles

LEMMA BasicsAir == Basics /\ Air => Basics'
<1> SUFFICES ASSUME Basics, Air PROVE Basics'
  OBVIOUS
<1>1. InLoop'
  BY AirEffect
<1>2. /\ buffer_tx' \in [Channels -> Seq(FromTile)]
      /\ buffer_rx' \in [Channels -> Seq(FromAir)]
      /\ on_air' \in [RxStreams -> FromAir \cup {NoFlit}]
  <2> USE DEF Basics, TxTyped, RxTyped
  <2>1. ASSUME NEW c \in Channels, Transmit(c) PROVE <1>2!:
    <3>1. Tail(buffer_tx[c]) \in Seq(FromTile)
      BY <2>1, HeadTailProperties DEF Transmit
    <3> QED BY <2>1, <3>1 DEF Transmit
  <2>2. ASSUME NEW s \in RxStreams, Hear(s) PROVE <1>2!:
    <3>1. PICK f \in FromAir : /\ buffer_rx' = [buffer_rx EXCEPT ![s[1]] = Append(@, f)]
                               /\ on_air' = [on_air EXCEPT ![s] = InProgress(f)]
      BY <2>2, HearEffect
    <3>2. s[1] \in Channels
      BY <2>2, HearEffect
    <3>3. InProgress(f) \in FromAir \cup {NoFlit} /\ Append(buffer_rx[s[1]], f) \in Seq(FromAir)
      BY <3>2, AppendProperties DEF InProgress
    <3> QED BY <2>2, <3>1, <3>3 DEF Hear
  <2> QED BY <2>1, <2>2, AirEffect
<1>3. TxTyped'
  BY <1>2 DEF Basics, TxTyped, Air
<1>4. RxTyped'
  BY <1>2 DEF Basics, RxTyped, Air
<1> QED BY <1>1, <1>3, <1>4 DEF Basics, Air

LEMMA BasicsAlways == Spec => []Basics
<1>1. Basics /\ [Next]_vars => Basics'
  <2>1. Basics /\ UNCHANGED vars => Basics'
    BY DEF Basics, InLoop, TxTyped, RxTyped, vars, txVars, rxVars, envVars
  <2> QED BY <2>1, BasicsReserveTx, BasicsForwardTx, BasicsReceive, BasicsSendToTile,
             BasicsReserveRx, BasicsForwardRx, BasicsTiles, BasicsAir DEF Next
<1> QED BY <1>1, BasicsInit, PTL DEF Spec

-----------------------------------------------------------------------------
LEMMA TypeInBasics == Basics => TypeOK
<1> SUFFICES ASSUME Basics PROVE TypeOK
  OBVIOUS
<1>1. FromTile \subseteq Flit /\ FromAir \subseteq Flit
  BY DEF FromTile, FromAir, FlitsTo
<1>2. Seq(FromTile) \subseteq Seq(Flit) /\ Seq(FromAir) \subseteq Seq(Flit)
  BY <1>1
<1>3. T2A!TypeOK /\ T2A!IndexInRange
  BY DEF Basics, TxTyped, TxP!WellFormed, TxP!Typed, TxP!InRange, T2A!TypeOK, T2A!IndexInRange,
         TxP!RTEntry, T2A!RTEntry, TxP!TReservation, T2A!TReservation
<1>4. A2T!TypeOK /\ A2T!IndexInRange
  BY DEF Basics, RxTyped, RxP!WellFormed, RxP!Typed, RxP!InRange, A2T!TypeOK, A2T!IndexInRange,
         RxP!RTEntry, A2T!RTEntry, RxP!TReservation, A2T!TReservation
<1>5. FromTile \cup {NoFlit} \subseteq FlitOrNone /\ FromAir \cup {NoFlit} \subseteq FlitOrNone
  BY <1>1 DEF FlitOrNone
<1>6. /\ buffer_from_tile \in [Ports -> [VCs -> Seq(Flit)]] /\ buffer_tx \in [Channels -> Seq(Flit)]
      /\ buffer_to_tile \in [Ports -> [VCs -> Seq(Flit)]] /\ buffer_rx \in [Channels -> Seq(Flit)]
  BY <1>2 DEF Basics, TxTyped, RxTyped
<1>7. /\ to_antenna \in [Channels -> FlitOrNone] /\ flit_rx \in [Ports -> FlitOrNone]
      /\ supplied \in [Ports -> [VCs -> FlitOrNone]]
      /\ to_tile \in [Ports -> [VCs -> FlitOrNone]] /\ on_air \in [RxStreams -> FlitOrNone]
  BY <1>5 DEF Basics, TxTyped, RxTyped
<1> QED BY <1>3, <1>4, <1>6, <1>7 DEF TypeOK, Basics

(* The flits in the hub, its two reservation tables and its indices have   *)
(* their types: no loop of tileToAntennaProcess and antennaToTileProcess   *)
(* leaves its vectors, and the turn of a table points at a reservation.    *)
THEOREM TypeCorrect == Spec => []TypeOK
<1> QED BY BasicsAlways, TypeInBasics, PTL

-----------------------------------------------------------------------------
(***************************************************************************)
(* The inductive invariant, from the tiles to the antennas, when there is  *)
(* one virtual channel: the ports are the inputs of a wormhole switch and  *)
(* the radio channels its outputs.                                         *)
(***************************************************************************)
WaitsAtPort == [i \in Ports |-> buffer_from_tile[i][0]]

(* last[i] is the last flit that came in from the tile at port i: what is  *)
(* on the wires comes behind it.                                           *)
OnTheWires(last) ==
  \A i \in Ports :
    IF flit_rx[i] = NoFlit
      THEN supplied[i][0] = last[i]
      ELSE Follows(last[i], flit_rx[i]) /\ supplied[i][0] = InProgress(flit_rx[i])

TxPackets ==
  \E last \in [Ports -> FromTile \cup {NoFlit}] :
    /\ OnTheWires(last)
    /\ Switched(Ports, Channels, FromTile, ChannelsTo,
                TxP!Ways(tile2antenna_reservation_table), WaitsAtPort, to_antenna, last)

LEMMA TxPacketsAfter ==
  ASSUME NEW last \in [Ports -> FromTile \cup {NoFlit}], NEW holds, NEW front, NEW open,
         holds = TxP!Ways(tile2antenna_reservation_table'), front = WaitsAtPort',
         open = to_antenna',
         OnTheWires(last)',
         Switched(Ports, Channels, FromTile, ChannelsTo, holds, front, open, last)
  PROVE  TxPackets'
BY DEF TxPackets

LEMMA OneVC ==
  ASSUME n_virtual_channels = 1
  PROVE  VCs = {0} /\ TxP!OneChannel /\ RxP!OneChannel
<1>1. 0 .. 1 - 1 = {0}
  OBVIOUS
<1> QED BY <1>1 DEF VCs, TxP!OneChannel, RxP!OneChannel

LEMMA TxPacketsInit == Init => TxPackets
<1> SUFFICES ASSUME Init PROVE TxPackets
  OBVIOUS
<1> DEFINE last == [i \in Ports |-> NoFlit]
<1>1. last \in [Ports -> FromTile \cup {NoFlit}] /\ OnTheWires(last)
  BY AtLeastOne DEF Init, OnTheWires, VCs
<1>2. TxP!Ways(tile2antenna_reservation_table) = {}
  BY TxTables, TxP!SetSizeMakes DEF Init, TxP!Ways
<1>3. \A i \in Ports : WaitsAtPort[i] = <<>> /\ last[i] = NoFlit
  BY AtLeastOne DEF Init, Empty, WaitsAtPort, VCs
<1>4. \A c \in Channels : to_antenna[c] = NoFlit
  BY DEF Init
<1> HIDE DEF last
<1>5. \A S : <<>> \in Seq(S)
  OBVIOUS
<1>6. Switched(Ports, Channels, FromTile, ChannelsTo, {}, WaitsAtPort, to_antenna, last)
  BY <1>1, <1>3, <1>4, <1>5 DEF Switched, OneToOne, HasOpen, Chained
<1> QED BY <1>1, <1>2, <1>6 DEF TxPackets

LEMMA TxPacketsReserve ==
  ASSUME n_virtual_channels = 1, Basics, TxPackets, ReserveTx
  PROVE  TxPackets'
<1>1. PICK last \in [Ports -> FromTile \cup {NoFlit}] :
        /\ OnTheWires(last)
        /\ Switched(Ports, Channels, FromTile, ChannelsTo,
                    TxP!Ways(tile2antenna_reservation_table), WaitsAtPort, to_antenna, last)
  BY DEF TxPackets
<1>2. OnTheWires(last)' /\ WaitsAtPort' = WaitsAtPort /\ to_antenna' = to_antenna
  BY <1>1 DEF OnTheWires, WaitsAtPort, ReserveTx, envVars
<1>3. CASE UNCHANGED tile2antenna_reservation_table
  BY <1>1, <1>2, <1>3, TxPacketsAfter
<1>4. ASSUME NEW i \in Ports, NEW vc \in VCs, NEW c \in Channels, GetsChannel(i, vc, c)
      PROVE  TxPackets'
  <2>1. vc = 0 /\ WaitsAtPort[i] = buffer_from_tile[i][vc]
    BY OneVC DEF WaitsAtPort
  <2>2. /\ WaitsAtPort[i] # <<>> /\ IsHead(Head(WaitsAtPort[i]))
        /\ c \in ChannelsTo[Head(WaitsAtPort[i]).dst]
    BY <1>4, <2>1 DEF GetsChannel, HeadAtFront
  <2>3. PICK r \in TxP!TReservation : r = [input |-> i, vc |-> vc] /\ r.input = i
    BY TxTables
  <2>4. /\ TxP!checkReservation(tile2antenna_reservation_table, r, c) = "RT_AVAILABLE"
        /\ tile2antenna_reservation_table' = TxP!reserve(tile2antenna_reservation_table, r, c)
        /\ TxP!WellFormed(tile2antenna_reservation_table)
    BY <1>4, <2>3 DEF GetsChannel, Basics, TxTyped
  <2>5. PICK holds : holds = TxP!Ways(tile2antenna_reservation_table)
    OBVIOUS
  <2>6. /\ TxP!Ways(tile2antenna_reservation_table') = holds \cup {<<i, c>>}
        /\ \A a \in holds : a[1] # i /\ a[2] # c
    BY <2>3, <2>4, <2>5, OneVC, TxP!ReserveWay
  <2>7. Switched(Ports, Channels, FromTile, ChannelsTo, holds \cup {<<i, c>>}, WaitsAtPort,
                 to_antenna, last)
    BY <1>1, <2>2, <2>5, <2>6, FlitsAreFlits, SwitchReserves
  <2> QED BY <1>2, <2>6, <2>7, TxPacketsAfter
<1> QED BY <1>3, <1>4, ReserveTxEffect

LEMMA TxPacketsForward ==
  ASSUME n_virtual_channels = 1, Basics, TxPackets, ForwardTx
  PROVE  TxPackets'
<1>1. PICK last \in [Ports -> FromTile \cup {NoFlit}] :
        /\ OnTheWires(last)
        /\ Switched(Ports, Channels, FromTile, ChannelsTo,
                    TxP!Ways(tile2antenna_reservation_table), WaitsAtPort, to_antenna, last)
  BY DEF TxPackets
<1>2. OnTheWires(last)'
  BY <1>1 DEF OnTheWires, ForwardTx, envVars
<1>3. CASE UNCHANGED txVars
  <2>1. /\ WaitsAtPort' = WaitsAtPort /\ to_antenna' = to_antenna
        /\ tile2antenna_reservation_table' = tile2antenna_reservation_table
    BY <1>3 DEF txVars, WaitsAtPort
  <2> QED BY <1>1, <1>2, <2>1, TxPacketsAfter
<1>4. ASSUME NEW i \in Ports, NEW vc \in VCs, NEW c \in Channels, LeavesForAntenna(i, vc, c)
      PROVE  TxPackets'
  <2>1. vc = 0 /\ WaitsAtPort[i] = buffer_from_tile[i][vc] /\ WaitsAtPort[i] # <<>>
    BY <1>4, OneVC DEF WaitsAtPort, LeavesForAntenna
  <2>2. PICK f : f = Head(WaitsAtPort[i])
    OBVIOUS
  <2>3. PICK r \in TxP!TReservation : r = [input |-> i, vc |-> vc] /\ r.input = i
    BY TxTables
  <2>4. /\ TxP!Holds(tile2antenna_reservation_table, r, c)
        /\ tile2antenna_reservation_table' =
             IF IsTail(f) THEN TxP!release(tile2antenna_reservation_table, r, c)
                          ELSE tile2antenna_reservation_table
        /\ TxP!WellFormed(tile2antenna_reservation_table)
    BY <1>4, <2>1, <2>2, <2>3 DEF LeavesForAntenna, Basics, TxTyped
  <2>5. PICK holds : holds = TxP!Ways(tile2antenna_reservation_table)
    OBVIOUS
  <2>6. PICK holds2 : holds2 = IF IsTail(f) THEN holds \ {<<i, c>>} ELSE holds
    OBVIOUS
  <2>7. TxP!Ways(tile2antenna_reservation_table') = holds2 /\ <<i, c>> \in holds
    <3>1. /\ TxP!Ways(TxP!release(tile2antenna_reservation_table, r, c)) = holds \ {<<i, c>>}
          /\ <<i, c>> \in holds
      BY <2>3, <2>4, <2>5, OneVC, TxP!ReleaseWay
    <3> QED BY <2>4, <2>5, <2>6, <3>1
  <2>8. \A j \in Ports : WaitsAtPort'[j] = IF j = i THEN Tail(WaitsAtPort[j]) ELSE WaitsAtPort[j]
    BY <1>4, <2>1 DEF WaitsAtPort, LeavesForAntenna, Basics, TxTyped
  <2>9. \A o \in Channels : to_antenna'[o] = IF o = c THEN InProgress(f) ELSE to_antenna[o]
    BY <1>4, <2>1, <2>2 DEF LeavesForAntenna, Basics, TxTyped
  <2>10. PICK front2, open2 : front2 = WaitsAtPort' /\ open2 = to_antenna'
    OBVIOUS
  <2>11. Switched(Ports, Channels, FromTile, ChannelsTo, holds2, front2, open2, last)
    BY <1>1, <2>1, <2>2, <2>5, <2>6, <2>7, <2>8, <2>9, <2>10, FlitsAreFlits, SwitchForwards
  <2> QED BY <1>2, <2>7, <2>10, <2>11, TxPacketsAfter
<1> QED BY <1>3, <1>4, ForwardTxEffect

LEMMA TxPacketsReceive ==
  ASSUME n_virtual_channels = 1, Basics, TxPackets, Receive
  PROVE  TxPackets'
<1>1. PICK last \in [Ports -> FromTile \cup {NoFlit}] :
        /\ OnTheWires(last)
        /\ Switched(Ports, Channels, FromTile, ChannelsTo,
                    TxP!Ways(tile2antenna_reservation_table), WaitsAtPort, to_antenna, last)
  BY DEF TxPackets
<1> DEFINE last2 == [i \in Ports |-> IF Accepts(i) THEN InProgress(flit_rx[i]) ELSE last[i]]
<1>2. ASSUME NEW i \in Ports
      PROVE  /\ last2[i] \in FromTile \cup {NoFlit}
             /\ \/ WaitsAtPort'[i] = WaitsAtPort[i] /\ last2[i] = last[i]
                \/ \E f \in FromTile : /\ Follows(last[i], f) /\ last2[i] = InProgress(f)
                                       /\ WaitsAtPort'[i] = Append(WaitsAtPort[i], f)
             /\ IF flit_rx'[i] = NoFlit
                  THEN supplied'[i][0] = last2[i]
                  ELSE /\ Follows(last2[i], flit_rx'[i])
                       /\ supplied'[i][0] = InProgress(flit_rx'[i])
  <2>1. /\ Accepts(i) => flit_rx[i] \in FromTile /\ flit_rx[i].vc \in VCs
        /\ \A vc \in VCs : buffer_from_tile'[i][vc] =
             IF Accepts(i) /\ vc = flit_rx[i].vc THEN Append(buffer_from_tile[i][vc], flit_rx[i])
             ELSE buffer_from_tile[i][vc]
        /\ flit_rx'[i] = IF Accepts(i) THEN NoFlit ELSE flit_rx[i]
    BY ReceiveEffect DEF Basics
  <2>2. Accepts(i) => flit_rx[i] # NoFlit
    BY DEF Accepts
  <2>3. supplied' = supplied
    BY DEF Receive
  <2>4. WaitsAtPort'[i] =
          IF Accepts(i) THEN Append(WaitsAtPort[i], flit_rx[i]) ELSE WaitsAtPort[i]
    BY <2>1, OneVC DEF WaitsAtPort
  <2>5. last2[i] = IF Accepts(i) THEN InProgress(flit_rx[i]) ELSE last[i]
    OBVIOUS
  <2> HIDE DEF last2
  <2>6. CASE Accepts(i)
    <3>1. Follows(last[i], flit_rx[i]) /\ supplied[i][0] = InProgress(flit_rx[i])
      BY <1>1, <2>2, <2>6 DEF OnTheWires
    <3>2. InProgress(flit_rx[i]) \in FromTile \cup {NoFlit}
      BY <2>1, <2>6 DEF InProgress
    <3> QED BY <2>1, <2>3, <2>4, <2>5, <2>6, <3>1, <3>2
  <2>7. CASE ~Accepts(i)
    BY <1>1, <2>1, <2>3, <2>4, <2>5, <2>7 DEF OnTheWires
  <2> QED BY <2>6, <2>7
<1>3. last2 \in [Ports -> FromTile \cup {NoFlit}]
  BY <1>2
<1> HIDE DEF last2
<1>4. PICK l2 \in [Ports -> FromTile \cup {NoFlit}] : l2 = last2
  BY <1>3
<1>5. OnTheWires(l2)'
  BY <1>2, <1>4 DEF OnTheWires
<1>6. PICK holds : holds = TxP!Ways(tile2antenna_reservation_table)
  OBVIOUS
<1>7. to_antenna' = to_antenna /\ tile2antenna_reservation_table' = tile2antenna_reservation_table
  BY DEF Receive
<1>8. PICK front2 : front2 = WaitsAtPort'
  OBVIOUS
<1>9. Switched(Ports, Channels, FromTile, ChannelsTo, holds, front2, to_antenna, l2)
  BY <1>1, <1>2, <1>4, <1>6, <1>8, FlitsAreFlits, SwitchReceives
<1> QED BY <1>5, <1>6, <1>7, <1>8, <1>9, TxPacketsAfter

LEMMA TxPacketsTiles ==
  ASSUME n_virtual_channels = 1, Basics, TxPackets, Tiles
  PROVE  TxPackets'
<1>1. PICK last \in [Ports -> FromTile \cup {NoFlit}] :
        /\ OnTheWires(last)
        /\ Switched(Ports, Channels, FromTile, ChannelsTo,
                    TxP!Ways(tile2antenna_reservation_table), WaitsAtPort, to_antenna, last)
  BY DEF TxPackets
<1>2. /\ WaitsAtPort' = WaitsAtPort /\ to_antenna' = to_antenna
      /\ tile2antenna_reservation_table' = tile2antenna_reservation_table
  BY DEF Tiles, txVars, WaitsAtPort
<1>3. OnTheWires(last)'
  <2>1. ASSUME NEW i \in Ports, NEW vc \in VCs, NEW f \in FromTile, Supplies(i, vc, f)
        PROVE  OnTheWires(last)'
    <3>1. vc = 0 /\ f.vc = 0 /\ f # NoFlit
      <4>1. f.vc \in VCs
        BY DEF FromTile, FlitsTo, Flit
      <4> QED BY <4>1, OneVC, NoFlitIsNone DEF FromTile, FlitsTo
    <3>2. supplied[i][0] \in FromTile \cup {NoFlit} /\ f \in NextFlits(supplied[i][0], i, 0, Dsts)
      BY <2>1, <3>1 DEF Supplies, Basics, TxTyped
    <3>3. Follows(supplied[i][0], f)
      BY <3>1, <3>2, NextFlitsFollow DEF FromTile
    <3>4. supplied[i][0] = last[i]
      BY <1>1, <2>1 DEF OnTheWires, Supplies
    <3>5. \A j \in Ports :
            /\ flit_rx'[j] = IF j = i THEN f ELSE flit_rx[j]
            /\ supplied'[j][0] = IF j = i THEN InProgress(f) ELSE supplied[j][0]
      BY <2>1, <3>1 DEF Supplies, Basics, TxTyped
    <3> QED BY <1>1, <3>1, <3>3, <3>4, <3>5 DEF OnTheWires
  <2>2. UNCHANGED <<flit_rx, supplied>> => OnTheWires(last)'
    BY <1>1 DEF OnTheWires
  <2> QED BY <2>1, <2>2, TilesEffect
<1> QED BY <1>1, <1>2, <1>3, TxPacketsAfter

LEMMA TxPacketsAlways ==
  ASSUME n_virtual_channels = 1
  PROVE  Spec => []TxPackets
<1>1. ASSUME TxPackets,
             UNCHANGED <<buffer_from_tile, tile2antenna_reservation_table, to_antenna,
                         flit_rx, supplied>>
      PROVE  TxPackets'
  BY <1>1 DEF TxPackets, OnTheWires, WaitsAtPort
<1>2. Basics /\ TxPackets /\ [Next]_vars => TxPackets'
  <2> SUFFICES ASSUME Basics, TxPackets, [Next]_vars PROVE TxPackets'
    OBVIOUS
  <2>1. CASE SendToTile \/ ReserveRx \/ ForwardRx \/ Air \/ UNCHANGED vars
    BY <1>1, <2>1 DEF SendToTile, ReserveRx, ForwardRx, Air, vars, txVars, rxVars, envVars
  <2> QED BY <2>1, TxPacketsReserve, TxPacketsForward, TxPacketsReceive, TxPacketsTiles DEF Next
<1> QED BY <1>2, BasicsAlways, TxPacketsInit, PTL DEF Spec

(* With one virtual channel, what the hub puts into the buffer of a radio  *)
(* channel are whole packets, each on a channel that its destination       *)
(* listens to, however the ports compete and whichever channel             *)
(* selectChannel picks each time for a head that waits.                    *)
THEOREM WholePacketsToAntenna ==
  ASSUME n_virtual_channels = 1
  PROVE  Spec => []WholeToAntenna
<1>1. TxPackets => WholeToAntenna
  <2> SUFFICES ASSUME TxPackets, NEW i \in Ports, NEW vc \in VCs, NEW c \in Channels,
                      SendsOn(i, vc, c), buffer_from_tile[i][vc] # <<>>
               PROVE  LET f == Head(buffer_from_tile[i][vc])
                      IN  Follows(to_antenna[c], f) /\ c \in ChannelsTo[f.dst]
    BY DEF WholeToAntenna
  <2>1. PICK holds : holds = TxP!Ways(tile2antenna_reservation_table)
    OBVIOUS
  <2>2. PICK last : Switched(Ports, Channels, FromTile, ChannelsTo, holds, WaitsAtPort,
                             to_antenna, last)
    BY <2>1 DEF TxPackets
  <2>3. PICK a \in holds : a[1] = i /\ a[2] = c
    <3>1. TxP!Holds(tile2antenna_reservation_table, [input |-> i, vc |-> vc], c)
      BY TxTables DEF SendsOn
    <3>2. <<i, c>> \in holds
      BY <2>1, <3>1 DEF TxP!Ways
    <3> QED BY <3>2
  <2>4. WaitsAtPort[a[1]] = buffer_from_tile[i][vc]
    BY <2>3, OneVC DEF WaitsAtPort
  <2>5. WaitsAtPort[a[1]] # <<>>
    BY <2>4
  <2>6. LET f == Head(WaitsAtPort[a[1]])
        IN  Follows(to_antenna[a[2]], f) /\ a[2] \in ChannelsTo[f.dst]
    BY <2>2, <2>5, FlitsAreFlits, SwitchedInOrder, Zenon
  <2> QED BY <2>3, <2>4, <2>6
<1> QED BY <1>1, TxPacketsAlways, PTL

-----------------------------------------------------------------------------
(***************************************************************************)
(* The inductive invariant, from the antennas to the tiles, when there is  *)
(* one virtual channel and packets are not mixed on the air: the radio     *)
(* channels are the inputs of a wormhole switch and the ports its outputs, *)
(* and a packet may leave by the port of its destination only.             *)
(***************************************************************************)
OpenAtPort == [p \in Ports |-> to_tile[p][0]]

ItsPort == [p \in Ports |-> {p}]

(* last[c] is the last flit that came in on radio channel c: the one that  *)
(* the only stream in the middle of a packet put there.                    *)
OnTheAir(last) ==
  /\ \A s \in RxStreams : on_air[s] # NoFlit => last[s[1]] = on_air[s]
  /\ \A c \in Channels :
       last[c] # NoFlit => \E s \in RxStreams : s[1] = c /\ on_air[s] = last[c]

RxPackets ==
  /\ \E last \in [Channels -> FromAir \cup {NoFlit}] :
       /\ OnTheAir(last)
       /\ Switched(Channels, Ports, FromAir, ItsPort,
                   RxP!Ways(antenna2tile_reservation_table), buffer_rx, OpenAtPort, last)
  /\ \A p \in Ports : buffer_to_tile[p][0] \in Seq(FlitsTo({p}))

LEMMA RxPacketsAfter ==
  ASSUME NEW last \in [Channels -> FromAir \cup {NoFlit}], NEW holds, NEW front, NEW open,
         holds = RxP!Ways(antenna2tile_reservation_table'), front = buffer_rx',
         open = OpenAtPort',
         OnTheAir(last)',
         Switched(Channels, Ports, FromAir, ItsPort, holds, front, open, last),
         \A p \in Ports : buffer_to_tile'[p][0] \in Seq(FlitsTo({p}))
  PROVE  RxPackets'
BY DEF RxPackets

LEMMA RxPacketsInit == Init => RxPackets
<1> SUFFICES ASSUME Init PROVE RxPackets
  OBVIOUS
<1> DEFINE last == [c \in Channels |-> NoFlit]
<1>1. last \in [Channels -> FromAir \cup {NoFlit}] /\ OnTheAir(last)
  BY StreamsAssumption DEF Init, OnTheAir
<1>2. RxP!Ways(antenna2tile_reservation_table) = {}
  BY RxTables, RxP!SetSizeMakes DEF Init, RxP!Ways
<1>3. \A c \in Channels : buffer_rx[c] = <<>> /\ last[c] = NoFlit
  BY DEF Init
<1>4. \A p \in Ports : OpenAtPort[p] = NoFlit /\ buffer_to_tile[p][0] = <<>>
  BY AtLeastOne DEF Init, Empty, OpenAtPort, VCs
<1> HIDE DEF last
<1>5. \A S : <<>> \in Seq(S)
  OBVIOUS
<1>6. Switched(Channels, Ports, FromAir, ItsPort, {}, buffer_rx, OpenAtPort, last)
  BY <1>1, <1>3, <1>4, <1>5 DEF Switched, OneToOne, HasOpen, Chained
<1> QED BY <1>1, <1>2, <1>4, <1>5, <1>6 DEF RxPackets

LEMMA RxPacketsReserve ==
  ASSUME n_virtual_channels = 1, Basics, RxPackets, ReserveRx
  PROVE  RxPackets'
<1>1. PICK last \in [Channels -> FromAir \cup {NoFlit}] :
        /\ OnTheAir(last)
        /\ Switched(Channels, Ports, FromAir, ItsPort,
                    RxP!Ways(antenna2tile_reservation_table), buffer_rx, OpenAtPort, last)
  BY DEF RxPackets
<1>2. /\ OnTheAir(last)' /\ buffer_rx' = buffer_rx /\ OpenAtPort' = OpenAtPort
      /\ \A p \in Ports : buffer_to_tile'[p][0] \in Seq(FlitsTo({p}))
  BY <1>1 DEF RxPackets, OnTheAir, OpenAtPort, ReserveRx, envVars
<1>3. CASE UNCHANGED antenna2tile_reservation_table
  BY <1>1, <1>2, <1>3, RxPacketsAfter
<1>4. ASSUME NEW c \in Channels, NEW vc \in VCs, NEW p \in Ports, GetsPort(c, vc, p)
      PROVE  RxPackets'
  <2>1. /\ buffer_rx[c] # <<>> /\ IsHead(Head(buffer_rx[c]))
        /\ p \in ItsPort[Head(buffer_rx[c]).dst]
    BY <1>4 DEF GetsPort, HeadAtFront, ItsPort
  <2>2. PICK r \in RxP!TReservation : r = [input |-> c, vc |-> vc] /\ r.input = c
    BY RxTables
  <2>3. /\ RxP!checkReservation(antenna2tile_reservation_table, r, p) = "RT_AVAILABLE"
        /\ antenna2tile_reservation_table' = RxP!reserve(antenna2tile_reservation_table, r, p)
        /\ RxP!WellFormed(antenna2tile_reservation_table)
    BY <1>4, <2>2 DEF GetsPort, Basics, RxTyped
  <2>4. PICK holds : holds = RxP!Ways(antenna2tile_reservation_table)
    OBVIOUS
  <2>5. /\ RxP!Ways(antenna2tile_reservation_table') = holds \cup {<<c, p>>}
        /\ \A a \in holds : a[1] # c /\ a[2] # p
    BY <2>2, <2>3, <2>4, OneVC, RxP!ReserveWay
  <2>6. Switched(Channels, Ports, FromAir, ItsPort, holds \cup {<<c, p>>}, buffer_rx,
                 OpenAtPort, last)
    BY <1>1, <2>1, <2>4, <2>5, FlitsAreFlits, SwitchReserves
  <2> QED BY <1>2, <2>5, <2>6, RxPacketsAfter
<1> QED BY <1>3, <1>4, ReserveRxEffect

LEMMA RxPacketsForward ==
  ASSUME n_virtual_channels = 1, Basics, RxPackets, ForwardRx
  PROVE  RxPackets'
<1>1. PICK last \in [Channels -> FromAir \cup {NoFlit}] :
        /\ OnTheAir(last)
        /\ Switched(Channels, Ports, FromAir, ItsPort,
                    RxP!Ways(antenna2tile_reservation_table), buffer_rx, OpenAtPort, last)
  BY DEF RxPackets
<1>2. OnTheAir(last)'
  BY <1>1 DEF OnTheAir, ForwardRx, envVars
<1>3. CASE UNCHANGED rxVars
  <2>1. /\ buffer_rx' = buffer_rx /\ OpenAtPort' = OpenAtPort
        /\ antenna2tile_reservation_table' = antenna2tile_reservation_table
        /\ \A p \in Ports : buffer_to_tile'[p][0] \in Seq(FlitsTo({p}))
    BY <1>3 DEF rxVars, OpenAtPort, RxPackets
  <2> QED BY <1>1, <1>2, <2>1, RxPacketsAfter
<1>4. ASSUME NEW c \in Channels, NEW vc \in VCs, NEW p \in Ports, LeavesForTile(c, vc, p)
      PROVE  RxPackets'
  <2>1. vc = 0 /\ buffer_rx[c] # <<>>
    BY <1>4, OneVC DEF LeavesForTile
  <2>2. PICK f : f = Head(buffer_rx[c])
    OBVIOUS
  <2>3. PICK r \in RxP!TReservation : r = [input |-> c, vc |-> vc] /\ r.input = c
    BY RxTables
  <2>4. /\ RxP!Holds(antenna2tile_reservation_table, r, p)
        /\ antenna2tile_reservation_table' =
             IF IsTail(f) THEN RxP!release(antenna2tile_reservation_table, r, p)
                          ELSE antenna2tile_reservation_table
        /\ RxP!WellFormed(antenna2tile_reservation_table)
    BY <1>4, <2>2, <2>3 DEF LeavesForTile, Basics, RxTyped
  <2>5. PICK holds : holds = RxP!Ways(antenna2tile_reservation_table)
    OBVIOUS
  <2>6. PICK holds2 : holds2 = IF IsTail(f) THEN holds \ {<<c, p>>} ELSE holds
    OBVIOUS
  <2>7. RxP!Ways(antenna2tile_reservation_table') = holds2 /\ <<c, p>> \in holds
    <3>1. /\ RxP!Ways(RxP!release(antenna2tile_reservation_table, r, p)) = holds \ {<<c, p>>}
          /\ <<c, p>> \in holds
      BY <2>3, <2>4, <2>5, OneVC, RxP!ReleaseWay
    <3> QED BY <2>4, <2>5, <2>6, <3>1
  <2>8. \A d \in Channels : buffer_rx'[d] = IF d = c THEN Tail(buffer_rx[d]) ELSE buffer_rx[d]
    BY <1>4 DEF LeavesForTile, Basics, RxTyped
  <2>9. \A q \in Ports : OpenAtPort'[q] = IF q = p THEN InProgress(f) ELSE OpenAtPort[q]
    BY <1>4, <2>1, <2>2 DEF OpenAtPort, LeavesForTile, Basics, RxTyped
  <2>10. PICK front2, open2 : front2 = buffer_rx' /\ open2 = OpenAtPort'
    OBVIOUS
  <2>11. Switched(Channels, Ports, FromAir, ItsPort, holds2, front2, open2, last)
    BY <1>1, <2>1, <2>2, <2>5, <2>6, <2>7, <2>8, <2>9, <2>10, FlitsAreFlits, SwitchForwards
  <2>12. f \in FromAir /\ f.dst = p
    <3>1. PICK a \in holds : a[1] = c /\ a[2] = p
      BY <2>7
    <3>2. LET h == Head(buffer_rx[a[1]])
          IN  h \in FromAir /\ a[2] \in ItsPort[h.dst]
      BY <1>1, <2>1, <2>5, <3>1, FlitsAreFlits, SwitchedInOrder, Zenon
    <3>3. f \in FromAir /\ p \in ItsPort[f.dst]
      BY <2>2, <3>1, <3>2
    <3>4. f.dst \in Ports
      BY <3>3 DEF FromAir, FlitsTo
    <3> QED BY <3>3, <3>4 DEF ItsPort
  <2>13. \A q \in Ports : buffer_to_tile'[q][0] \in Seq(FlitsTo({q}))
    <3>1. \A q \in Ports : buffer_to_tile[q][0] \in Seq(FlitsTo({q}))
      BY DEF RxPackets
    <3>2. f \in FlitsTo({p})
      BY <2>12 DEF FromAir, FlitsTo
    <3>3. Append(buffer_to_tile[p][0], f) \in Seq(FlitsTo({p}))
      BY <3>1, <3>2, AppendProperties
    <3>4. \A q \in Ports : buffer_to_tile'[q][0] =
            IF q = p THEN Append(buffer_to_tile[q][0], f) ELSE buffer_to_tile[q][0]
      BY <1>4, <2>1, <2>2 DEF LeavesForTile, Basics, RxTyped
    <3> QED BY <3>1, <3>3, <3>4
  <2> QED BY <1>2, <2>7, <2>10, <2>11, <2>13, RxPacketsAfter
<1> QED BY <1>3, <1>4, ForwardRxEffect

LEMMA RxPacketsSend ==
  ASSUME n_virtual_channels = 1, Basics, RxPackets, SendToTile
  PROVE  RxPackets'
<1>1. PICK last \in [Channels -> FromAir \cup {NoFlit}] :
        /\ OnTheAir(last)
        /\ Switched(Channels, Ports, FromAir, ItsPort,
                    RxP!Ways(antenna2tile_reservation_table), buffer_rx, OpenAtPort, last)
  BY DEF RxPackets
<1>2. /\ OnTheAir(last)' /\ buffer_rx' = buffer_rx /\ OpenAtPort' = OpenAtPort
      /\ antenna2tile_reservation_table' = antenna2tile_reservation_table
  BY <1>1 DEF RxPackets, OnTheAir, OpenAtPort, SendToTile, envVars
<1>3. \A p \in Ports : buffer_to_tile[p][0] \in Seq(FlitsTo({p}))
  BY DEF RxPackets
<1>4. ASSUME NEW i \in Ports, NEW vc \in VCs, buffer_to_tile[i][vc] # <<>>,
             buffer_to_tile' = [buffer_to_tile EXCEPT ![i][vc] = Tail(@)]
      PROVE  \A p \in Ports : buffer_to_tile'[p][0] \in Seq(FlitsTo({p}))
  <2>1. vc = 0
    BY OneVC
  <2>2. Tail(buffer_to_tile[i][0]) \in Seq(FlitsTo({i}))
    BY <1>3, <1>4, <2>1, HeadTailProperties
  <2>3. \A p \in Ports : buffer_to_tile'[p][0] =
          IF p = i THEN Tail(buffer_to_tile[p][0]) ELSE buffer_to_tile[p][0]
    BY <1>4, <2>1 DEF Basics, RxTyped
  <2> QED BY <1>3, <2>2, <2>3
<1>5. \A p \in Ports : buffer_to_tile'[p][0] \in Seq(FlitsTo({p}))
  BY <1>3, <1>4, SendToTileEffect
<1> QED BY <1>1, <1>2, <1>5, RxPacketsAfter

LEMMA RxPacketsAir ==
  ASSUME n_virtual_channels = 1, ~MayMix, Basics, RxPackets, Air
  PROVE  RxPackets'
<1>1. PICK last \in [Channels -> FromAir \cup {NoFlit}] :
        /\ OnTheAir(last)
        /\ Switched(Channels, Ports, FromAir, ItsPort,
                    RxP!Ways(antenna2tile_reservation_table), buffer_rx, OpenAtPort, last)
  BY DEF RxPackets
<1>2. /\ OpenAtPort' = OpenAtPort
      /\ antenna2tile_reservation_table' = antenna2tile_reservation_table
      /\ \A p \in Ports : buffer_to_tile'[p][0] \in Seq(FlitsTo({p}))
  BY DEF RxPackets, OpenAtPort, Air
<1>3. ASSUME UNCHANGED <<buffer_rx, on_air>>
      PROVE  RxPackets'
  <2>1. OnTheAir(last)'
    BY <1>1, <1>3 DEF OnTheAir
  <2> QED BY <1>1, <1>2, <1>3, <2>1, RxPacketsAfter
<1>4. ASSUME NEW s \in RxStreams, Hear(s)
      PROVE  RxPackets'
  <2>1. PICK c \in Channels : c = s[1]
    BY <1>4, HearEffect DEF Basics
  <2>2. PICK f \in FromAir : /\ Follows(on_air[s], f)
                             /\ buffer_rx' = [buffer_rx EXCEPT ![c] = Append(@, f)]
                             /\ on_air' = [on_air EXCEPT ![s] = InProgress(f)]
    BY <1>4, <2>1, HearEffect DEF Basics
  <2>3. \A t \in RxStreams : t[1] = c /\ t # s => on_air[t] = NoFlit
    BY <1>4, <2>1 DEF Hear, MayGoOn
  <2>4. last[c] = on_air[s]
    BY <1>1, <2>1, <2>3 DEF OnTheAir
  <2>5. PICK last2 \in [Channels -> FromAir \cup {NoFlit}] :
          \A d \in Channels : last2[d] = IF d = c THEN InProgress(f) ELSE last[d]
    <3>1. InProgress(f) \in FromAir \cup {NoFlit}
      BY DEF InProgress
    <3>2. [d \in Channels |-> IF d = c THEN InProgress(f) ELSE last[d]]
            \in [Channels -> FromAir \cup {NoFlit}]
      BY <3>1
    <3> QED BY <3>2
  <2>6. \A t \in RxStreams : on_air'[t] = IF t = s THEN InProgress(f) ELSE on_air[t]
    BY <2>2 DEF Basics, RxTyped
  <2>7. OnTheAir(last2)'
    <3>1. \A t \in RxStreams : t[1] \in Channels
      BY StreamsAssumption
    <3>2. \A t \in RxStreams : on_air'[t] # NoFlit => last2[t[1]] = on_air'[t]
      BY <1>1, <2>1, <2>3, <2>5, <2>6, <3>1 DEF OnTheAir
    <3>3. ASSUME NEW d \in Channels, last2[d] # NoFlit
          PROVE  \E t \in RxStreams : t[1] = d /\ on_air'[t] = last2[d]
      <4>1. CASE d = c
        BY <2>1, <2>5, <2>6, <4>1
      <4>2. CASE d # c
        <5>1. PICK t \in RxStreams : t[1] = d /\ on_air[t] = last[d]
          BY <1>1, <2>5, <3>3, <4>2 DEF OnTheAir
        <5> QED BY <2>1, <2>5, <2>6, <4>2, <5>1
      <4> QED BY <4>1, <4>2
    <3> QED BY <3>2, <3>3 DEF OnTheAir
  <2>8. \A d \in Channels :
          \/ buffer_rx'[d] = buffer_rx[d] /\ last2[d] = last[d]
          \/ \E g \in FromAir : /\ Follows(last[d], g) /\ last2[d] = InProgress(g)
                                /\ buffer_rx'[d] = Append(buffer_rx[d], g)
    BY <2>2, <2>4, <2>5 DEF Basics, RxTyped
  <2>9. PICK front2, holds : /\ front2 = buffer_rx'
                             /\ holds = RxP!Ways(antenna2tile_reservation_table)
    OBVIOUS
  <2>10. Switched(Channels, Ports, FromAir, ItsPort, holds, front2, OpenAtPort, last2)
    BY <1>1, <2>8, <2>9, FlitsAreFlits, SwitchReceives
  <2> QED BY <1>2, <2>7, <2>9, <2>10, RxPacketsAfter
<1>5. ASSUME NEW c \in Channels, Transmit(c)
      PROVE  UNCHANGED <<buffer_rx, on_air>>
  BY <1>5 DEF Transmit
<1> QED BY <1>3, <1>4, <1>5, AirEffect

LEMMA RxPacketsAlways ==
  ASSUME n_virtual_channels = 1, ~MayMix
  PROVE  Spec => []RxPackets
<1>1. ASSUME RxPackets,
             UNCHANGED <<buffer_rx, antenna2tile_reservation_table, to_tile, buffer_to_tile, on_air>>
      PROVE  RxPackets'
  BY <1>1 DEF RxPackets, OnTheAir, OpenAtPort
<1>2. Basics /\ RxPackets /\ [Next]_vars => RxPackets'
  <2> SUFFICES ASSUME Basics, RxPackets, [Next]_vars PROVE RxPackets'
    OBVIOUS
  <2>1. CASE ReserveTx \/ ForwardTx \/ Receive \/ Tiles \/ UNCHANGED vars
    BY <1>1, <2>1 DEF ReserveTx, ForwardTx, Receive, Tiles, vars, txVars, rxVars, envVars
  <2> QED BY <2>1, RxPacketsReserve, RxPacketsForward, RxPacketsSend, RxPacketsAir DEF Next
<1> QED BY <1>2, BasicsAlways, RxPacketsInit, PTL DEF Spec

(* With one virtual channel and packets that are not mixed on the air, the *)
(* hub moves every flit "from antenna buffer_rx to the appropriate         *)
(* buffer_to_tile" (Hub.cpp:318).                                          *)
THEOREM FlitsReachTheirPort ==
  ASSUME n_virtual_channels = 1, ~MayMix
  PROVE  Spec => []AppropriateBuffer
<1>1. RxPackets => AppropriateBuffer
  <2> SUFFICES ASSUME RxPackets, NEW p \in Ports, NEW vc \in VCs,
                      NEW k \in DOMAIN buffer_to_tile[p][vc]
               PROVE  /\ buffer_to_tile[p][vc][k].dst = p
                      /\ buffer_to_tile[p][vc][k].vc = vc
    BY DEF AppropriateBuffer
  <2>1. vc = 0 /\ buffer_to_tile[p][vc] \in Seq(FlitsTo({p}))
    BY OneVC DEF RxPackets
  <2>2. buffer_to_tile[p][vc][k] \in FlitsTo({p})
    BY <2>1, ElementOfSeq, LenProperties
  <2> QED BY <2>1, <2>2, OneVC DEF FlitsTo, Flit
<1> QED BY <1>1, RxPacketsAlways, PTL

(* Under the same conditions a port is given whole packets, one after the  *)
(* other, whatever comes in on the radio channels meanwhile.               *)
THEOREM WholePacketsToTile ==
  ASSUME n_virtual_channels = 1, ~MayMix
  PROVE  Spec => []WholeToTile
<1>1. RxPackets => WholeToTile
  <2> SUFFICES ASSUME RxPackets, NEW p \in Ports, NEW vc \in VCs, NEW c \in Channels,
                      GoesTo(c, vc, p), buffer_rx[c] # <<>>
               PROVE  Follows(to_tile[p][vc], Head(buffer_rx[c]))
    BY DEF WholeToTile
  <2>1. PICK holds : holds = RxP!Ways(antenna2tile_reservation_table)
    OBVIOUS
  <2>2. PICK last : Switched(Channels, Ports, FromAir, ItsPort, holds, buffer_rx,
                             OpenAtPort, last)
    BY <2>1 DEF RxPackets
  <2>3. PICK a \in holds : a[1] = c /\ a[2] = p
    <3>1. RxP!Holds(antenna2tile_reservation_table, [input |-> c, vc |-> vc], p)
      BY RxTables DEF GoesTo
    <3>2. <<c, p>> \in holds
      BY <2>1, <3>1 DEF RxP!Ways
    <3> QED BY <3>2
  <2>4. OpenAtPort[p] = to_tile[p][vc]
    BY OneVC DEF OpenAtPort
  <2>5. LET f == Head(buffer_rx[a[1]])
        IN  Follows(OpenAtPort[a[2]], f)
    BY <2>2, <2>3, FlitsAreFlits, SwitchedInOrder, Zenon
  <2> QED BY <2>3, <2>4, <2>5
<1> QED BY <1>1, RxPacketsAlways, PTL

(* And antennaToTileProcess never meets a reservation status that it holds *)
(* for meaningless: a head asks for a port only when its channel holds no  *)
(* other one ("else assert(false); // no meaningful status here",          *)
(* Hub.cpp:368).                                                           *)
THEOREM NoMeaninglessStatus ==
  ASSUME n_virtual_channels = 1, ~MayMix
  PROVE  Spec => []MeaningfulStatus
<1>1. Basics /\ RxPackets => MeaningfulStatus
  <2> SUFFICES ASSUME Basics, RxPackets, NEW c \in Channels, HeadAtFront(buffer_rx[c]),
                      NEW f, f = Head(buffer_rx[c])
               PROVE  RxP!checkReservation(antenna2tile_reservation_table,
                                           [input |-> c, vc |-> f.vc], f.dst)
                        # "RT_ALREADY_OTHER_OUT"
    BY RxTables DEF MeaningfulStatus
  <2>1. buffer_rx[c] # <<>> /\ IsHead(f)
    BY DEF HeadAtFront
  <2>2. f \in FromAir
    BY <2>1, HeadTailProperties DEF Basics, RxTyped
  <2>3. f.vc \in VCs /\ f.dst \in Ports
    BY <2>2 DEF FromAir, FlitsTo, Flit
  <2>4. PICK holds : holds = RxP!Ways(antenna2tile_reservation_table)
    OBVIOUS
  <2>5. PICK last : Switched(Channels, Ports, FromAir, ItsPort, holds, buffer_rx,
                             OpenAtPort, last)
    BY <2>4 DEF RxPackets
  <2>6. ASSUME NEW p \in Ports,
               RxP!Holds(antenna2tile_reservation_table, [input |-> c, vc |-> f.vc], p)
        PROVE  p = f.dst
    <3>1. PICK a \in holds : a[1] = c /\ a[2] = p
      <4>1. <<c, p>> \in holds
        BY <2>3, <2>4, <2>6 DEF RxP!Ways
      <4> QED BY <4>1
    <3>2. a[2] \in ItsPort[Head(buffer_rx[a[1]]).dst]
      BY <2>1, <2>5, <3>1, FlitsAreFlits, HeadHoldsItsWay, Zenon
    <3> QED BY <2>3, <3>1, <3>2 DEF ItsPort
  <2> QED BY <2>6 DEF RxP!checkReservation
<1> QED BY <1>1, BasicsAlways, RxPacketsAlways, PTL

-----------------------------------------------------------------------------
(* The hub uses its two tables as the class asks: it reserves only what    *)
(* checkReservation has found available (ReservationTable.cpp:108), and it *)
(* releases only what is reserved, when it has the turn.  Hence whatever   *)
(* ReservationTableProofs proves of a table is true of them.               *)
THEOREM TablesInGoodHands == Spec => T2A!Spec /\ A2T!Spec
<1>1. Init => T2A!Init /\ A2T!Init
  BY DEF Init, T2A!Init, A2T!Init
<1>2. Basics /\ [Next]_vars => [T2A!Next]_tile2antenna_reservation_table
  <2> SUFFICES ASSUME Basics, [Next]_vars,
                      ~UNCHANGED tile2antenna_reservation_table
               PROVE  T2A!Next
    OBVIOUS
  <2>1. ReserveTx \/ ForwardTx
    BY DEF Next, Receive, SendToTile, ReserveRx, ForwardRx, Tiles, Air, vars, txVars
  <2>2. ASSUME NEW i \in Ports, NEW vc \in VCs, NEW c \in Channels, GetsChannel(i, vc, c)
        PROVE  T2A!Next
    <3>1. [input |-> i, vc |-> vc] \in T2A!TReservation
      BY DEF T2A!TReservation
    <3>2. T2A!Reserve([input |-> i, vc |-> vc], c)
      BY <2>2, TxTables DEF GetsChannel, T2A!Reserve
    <3> QED BY <3>1, <3>2 DEF T2A!Next
  <2>3. ASSUME NEW i \in Ports, NEW vc \in VCs, NEW c \in Channels, LeavesForAntenna(i, vc, c)
        PROVE  T2A!Next
    <3>1. [input |-> i, vc |-> vc] \in T2A!TReservation
      BY DEF T2A!TReservation
    <3>2. T2A!Release([input |-> i, vc |-> vc], c)
      BY <2>3, TxTables DEF LeavesForAntenna, T2A!Release
    <3> QED BY <3>1, <3>2 DEF T2A!Next
  <2> QED BY <2>1, <2>2, <2>3, ReserveTxEffect, ForwardTxEffect DEF txVars
<1>3. Basics /\ [Next]_vars => [A2T!Next]_antenna2tile_reservation_table
  <2> SUFFICES ASSUME Basics, [Next]_vars,
                      ~UNCHANGED antenna2tile_reservation_table
               PROVE  A2T!Next
    OBVIOUS
  <2>1. ReserveRx \/ ForwardRx
    BY DEF Next, ReserveTx, ForwardTx, Receive, SendToTile, Tiles, Air, vars, rxVars
  <2>2. ASSUME NEW c \in Channels, NEW vc \in VCs, NEW p \in Ports, GetsPort(c, vc, p)
        PROVE  A2T!Next
    <3>1. [input |-> c, vc |-> vc] \in A2T!TReservation
      BY DEF A2T!TReservation
    <3>2. A2T!Reserve([input |-> c, vc |-> vc], p)
      BY <2>2, RxTables DEF GetsPort, A2T!Reserve
    <3> QED BY <3>1, <3>2 DEF A2T!Next
  <2>3. ASSUME NEW c \in Channels, NEW vc \in VCs, NEW p \in Ports, LeavesForTile(c, vc, p)
        PROVE  A2T!Next
    <3>1. [input |-> c, vc |-> vc] \in A2T!TReservation
      BY DEF A2T!TReservation
    <3>2. A2T!Release([input |-> c, vc |-> vc], p)
      BY <2>3, RxTables DEF LeavesForTile, A2T!Release
    <3> QED BY <3>1, <3>2 DEF A2T!Next
  <2> QED BY <2>1, <2>2, <2>3, ReserveRxEffect, ForwardRxEffect DEF rxVars
<1> QED BY <1>1, <1>2, <1>3, BasicsAlways, PTL DEF Spec, T2A!Spec, A2T!Spec

=============================================================================
