-------------------------------- MODULE Hub --------------------------------
(***************************************************************************)
(* A hub (src/src/Hub.cpp) between the tiles at its ports and its radio    *)
(* channels.  At every clock edge tileToAntennaProcess takes flits from    *)
(* the ports to the buffer_tx of the channels, and antennaToTileProcess    *)
(* takes flits from the buffer_rx of the channels to the ports, each with  *)
(* a reservation table of its own.  As in Router, the steps of the module  *)
(* are the iterations of their loops, pc is the place in them, and the     *)
(* rest of the world moves at the "clock".                                 *)
(*                                                                         *)
(* When the hub may transmit is RadioChannel's; here a buffer_tx loses its *)
(* first flit at any time, and a buffer_rx gets flits as they are on the   *)
(* air: whole packets one after the other, or mixed with those of other    *)
(* streams when MayMix (the token goes round in the middle of packets, or  *)
(* the sending hub mixes its virtual channels).                            *)
(***************************************************************************)
EXTENDS Flits, FiniteSetsExt

CONSTANTS
  num_ports,
  n_virtual_channels,
  channels,             (* the radio channels, numbers in a sequence       *)
  fromTileBufferSize, toTileBufferSize, txBufferSize, rxBufferSize,
  Dsts,                 (* destinations behind other hubs                  *)
  ChannelsTo,           (* ChannelsTo[d]: channels this hub sends on and   *)
                        (* the hub of d listens to                         *)
  RxStreams,            (* <<channel, sending hub, vc>> of what is on air  *)
  MayMix,
  Sizes,                (* packet sizes                                    *)
  Traffic               (* the directions to look at, one at a time: they  *)
                        (* share nothing but start_from_vc                 *)

Ports    == 0 .. num_ports - 1
VCs      == 0 .. n_virtual_channels - 1
Channels == {channels[k] : k \in DOMAIN channels}

ASSUME PortsAssumption   == num_ports \in Nat \ {0}
ASSUME VCsAssumption     == n_virtual_channels \in Nat \ {0}
ASSUME ChannelAssumption == channels \in Seq(Nat) /\ channels # <<>>
ASSUME BufferAssumption  ==
  {fromTileBufferSize, toTileBufferSize, txBufferSize, rxBufferSize} \subseteq Nat \ {0}
(* Router::routingFunction sends a packet to the hub only when there is a  *)
(* channel to the hub of its destination.                                  *)
ASSUME ChannelsToAssumption == ChannelsTo \in [Dsts -> SUBSET Channels \ {{}}]
ASSUME StreamsAssumption    == \A s \in RxStreams : s[1] \in Channels /\ s[3] \in VCs
ASSUME SizesAssumption      == Sizes \subseteq Nat \ {0, 1}
ASSUME TrafficAssumption    == Traffic \subseteq {"to_antenna", "to_tile"} /\ MayMix \in BOOLEAN

VARIABLES
  pc,
  traffic,
  buffer_from_tile, buffer_to_tile,    (* [port][vc]: sequences of flits   *)
  buffer_tx, buffer_rx,                (* [channel]                        *)
  tile2antenna_reservation_table,      (* outputs are channels             *)
  antenna2tile_reservation_table,      (* inputs are channels              *)
  start_from_vc,                       (* start_from_port is always 0:     *)
                                       (* last_reserved is never assigned  *)
  flit_rx,           (* [port]: the flit on the wires from the tile        *)
  supplied,          (* [port][vc]: last flit of the tile, NoFlit after a  *)
                     (* tail; the same for the three below                 *)
  on_air,            (* [stream]: last flit put into a buffer_rx           *)
  to_antenna,        (* [channel]: last flit put into buffer_tx            *)
  to_tile            (* [port][vc]: last flit put into buffer_to_tile      *)

txVars  == <<buffer_from_tile, buffer_tx, tile2antenna_reservation_table, to_antenna>>
rxVars  == <<buffer_to_tile, buffer_rx, antenna2tile_reservation_table, to_tile>>
envVars == <<traffic, flit_rx, supplied, on_air>>
vars == <<pc, txVars, rxVars, envVars, start_from_vc>>

T2A == INSTANCE ReservationTable
         WITH Inputs <- Ports, Outputs <- Channels, AtTurn <- Channels,
              rtable <- tile2antenna_reservation_table
A2T == INSTANCE ReservationTable
         WITH Inputs <- Channels, Outputs <- Ports, AtTurn <- Ports,
              rtable <- antenna2tile_reservation_table

(***************************************************************************)
(* Flits.  The destination of an incoming flit is the port of its tile, or *)
(* of the tile that relays it (tile2Port).                                 *)
(***************************************************************************)
Hubs == {s[2] : s \in RxStreams}

Flit == [from : Ports \cup Hubs, vc : VCs, dst : Dsts \cup Ports,
         sequence_no : Nat, sequence_length : Sizes]

NextFlits(g, from, vc, dsts) ==
  IF g = NoFlit
    THEN [from : {from}, vc : {vc}, dst : dsts, sequence_no : {0}, sequence_length : Sizes]
    ELSE {[g EXCEPT !.sequence_no = @ + 1]}

Empty == [i \in Ports |-> [vc \in VCs |-> <<>>]]

Init ==
  /\ pc = <<"reserve_tx", 0>>
  /\ traffic \in Traffic
  /\ buffer_from_tile = Empty /\ buffer_to_tile = Empty
  /\ buffer_tx = [c \in Channels |-> <<>>]
  /\ buffer_rx = [c \in Channels |-> <<>>]
  /\ tile2antenna_reservation_table = T2A!setSize
  /\ antenna2tile_reservation_table = A2T!setSize
  /\ start_from_vc = [i \in Ports |-> 0]
  /\ flit_rx = [i \in Ports |-> NoFlit]
  /\ supplied = [i \in Ports |-> [vc \in VCs |-> NoFlit]]
  /\ on_air = [s \in RxStreams |-> NoFlit]
  /\ to_antenna = [c \in Channels |-> NoFlit]
  /\ to_tile = [i \in Ports |-> [vc \in VCs |-> NoFlit]]

(* The next place after iteration n of a loop of the given length.         *)
Go(loop, n, length, next) == pc' = IF n = length - 1 THEN <<next, 0>> ELSE <<loop, n + 1>>

RotateVcUnwrapped(i) == start_from_vc' = [start_from_vc EXCEPT ![i] = @ + 1]   (* mutant *)
RotateVc(i) == start_from_vc' = [start_from_vc EXCEPT ![i] = (@ + 1) % n_virtual_channels]

HeadAtFront(b) == b # <<>> /\ IsHead(Head(b))

(***************************************************************************)
(* tileToAntennaProcess.  First, every head at the front of a              *)
(* buffer_from_tile asks for a channel to its destination.                 *)
(***************************************************************************)

(* At random each time, or the first that nobody sends on, beginning with  *)
(* one drawn at random: any of them, since others may send.                *)
selectChannel(d) == ChannelsTo[d]

AskChannelUnchecked(r, c) ==   (* mutant *)
  T2A!reserve(tile2antenna_reservation_table, r, c)
AskChannel(r, c) ==
  IF T2A!checkReservation(tile2antenna_reservation_table, r, c) = "RT_AVAILABLE"
    THEN T2A!reserve(tile2antenna_reservation_table, r, c)
    ELSE tile2antenna_reservation_table

ReserveTx ==
  /\ pc[1] = "reserve_tx"
  /\ LET i  == pc[2] \div n_virtual_channels
         k  == pc[2] % n_virtual_channels
         vc == (start_from_vc[i] + k) % n_virtual_channels
         b  == buffer_from_tile[i][vc]
     IN  /\ \/ /\ HeadAtFront(b)
               /\ \E c \in selectChannel(Head(b).dst) :
                    tile2antenna_reservation_table' = AskChannel([input |-> i, vc |-> vc], c)
            \/ ~HeadAtFront(b) /\ UNCHANGED tile2antenna_reservation_table
         /\ IF k = n_virtual_channels - 1 THEN RotateVc(i) ELSE UNCHANGED start_from_vc
  /\ Go("reserve_tx", pc[2], num_ports * n_virtual_channels, "forward_tx")
  /\ UNCHANGED <<buffer_from_tile, buffer_tx, to_antenna, rxVars, envVars>>

(* Then a flit of each port goes to the channel it has reserved; updateIndex *)
(* is not called for this table, nor for the other one.                      *)
ChannelKept(r, c) == tile2antenna_reservation_table   (* mutant *)
ChannelReleased(r, c) == T2A!release(tile2antenna_reservation_table, r, c)

MoveToTx(i, c, vc) ==
  LET f == Head(buffer_from_tile[i][vc])
  IN  /\ buffer_from_tile[i][vc] # <<>>
      /\ Len(buffer_tx[c]) < txBufferSize
      /\ buffer_from_tile' = [buffer_from_tile EXCEPT ![i][vc] = Tail(@)]
      /\ buffer_tx' = [buffer_tx EXCEPT ![c] = Append(@, f)]
      /\ to_antenna' = [to_antenna EXCEPT ![c] = InProgress(f)]
      /\ tile2antenna_reservation_table' =
           IF IsTail(f) THEN ChannelReleased([input |-> i, vc |-> vc], c)
                        ELSE tile2antenna_reservation_table

ForwardTx ==
  /\ pc[1] = "forward_tx"
  /\ LET drawn == T2A!getReservations(tile2antenna_reservation_table, pc[2])
     IN  \/ \E d \in drawn : MoveToTx(pc[2], d[1], d[2])
         \/ /\ drawn = {} \/ \E d \in drawn : \/ buffer_from_tile[pc[2]][d[2]] = <<>>
                                              \/ Len(buffer_tx[d[1]]) = txBufferSize
            /\ UNCHANGED txVars
  /\ Go("forward_tx", pc[2], num_ports, "receive")
  /\ UNCHANGED <<rxVars, envVars, start_from_vc>>

(* Last, the flits on the wires of the ports are taken.                    *)
Accepts(i) ==
  flit_rx[i] # NoFlit /\ Len(buffer_from_tile[i][flit_rx[i].vc]) < fromTileBufferSize

Receive ==
  /\ pc[1] = "receive"
  /\ buffer_from_tile' =
       [i \in Ports |->
          IF Accepts(i) THEN [buffer_from_tile[i] EXCEPT ![flit_rx[i].vc] = Append(@, flit_rx[i])]
                        ELSE buffer_from_tile[i]]
  /\ flit_rx' = [i \in Ports |-> IF Accepts(i) THEN NoFlit ELSE flit_rx[i]]
  /\ pc' = <<"send", 0>>
  /\ UNCHANGED <<traffic, buffer_tx, tile2antenna_reservation_table, to_antenna, rxVars,
                 supplied, on_air, start_from_vc>>

(***************************************************************************)
(* antennaToTileProcess.  First, each port sends the flit of the first     *)
(* channel that has one and is not masked, if the tile has acknowledged.   *)
(* Which channels the tile permits, if any, is up to it.  The rotation of  *)
(* start_from_vc is the one ReserveTx has advanced too.                    *)
(***************************************************************************)
Sendable(i, permitted) ==
  {k \in VCs : LET vc == (start_from_vc[i] + k) % n_virtual_channels
               IN  vc \in permitted /\ buffer_to_tile[i][vc] # <<>>}

SendToTile ==
  /\ pc[1] = "send"
  /\ \E permitted \in SUBSET VCs :
       LET i  == pc[2]
           ks == Sendable(i, permitted)
           vc == (start_from_vc[i] + Min(ks)) % n_virtual_channels
       IN  buffer_to_tile' = IF ks = {} THEN buffer_to_tile
                                        ELSE [buffer_to_tile EXCEPT ![i][vc] = Tail(@)]
  /\ RotateVc(pc[2])
  /\ Go("send", pc[2], num_ports, "reserve_rx")
  /\ UNCHANGED <<txVars, buffer_rx, antenna2tile_reservation_table, to_tile, envVars>>

(* Then every channel with a head at the front asks for its port.          *)
AskPortUnchecked(r, p) ==   (* mutant *)
  A2T!reserve(antenna2tile_reservation_table, r, p)
AskPort(r, p) ==
  IF A2T!checkReservation(antenna2tile_reservation_table, r, p) = "RT_AVAILABLE"
    THEN A2T!reserve(antenna2tile_reservation_table, r, p)
    ELSE antenna2tile_reservation_table

ReserveRx ==
  /\ pc[1] = "reserve_rx"
  /\ LET c == channels[pc[2] + 1]
         f == Head(buffer_rx[c])
     IN  antenna2tile_reservation_table' =
           IF HeadAtFront(buffer_rx[c])
             THEN AskPort([input |-> c, vc |-> f.vc], f.dst)
             ELSE antenna2tile_reservation_table
  /\ Go("reserve_rx", pc[2], Len(channels), "forward_rx")
  /\ UNCHANGED <<txVars, buffer_to_tile, buffer_rx, to_tile, envVars, start_from_vc>>

(* Then the first flit of each channel goes where a reservation that is    *)
(* drawn for the channel leads, whatever the virtual channel of the flit.  *)
PortKept(r, p) == antenna2tile_reservation_table   (* mutant *)
PortReleased(r, p) == A2T!release(antenna2tile_reservation_table, r, p)

MoveToTile(c, p, vc) ==
  LET f == Head(buffer_rx[c])
  IN  /\ buffer_rx[c] # <<>>
      /\ Len(buffer_to_tile[p][vc]) < toTileBufferSize
      /\ buffer_rx' = [buffer_rx EXCEPT ![c] = Tail(@)]
      /\ buffer_to_tile' = [buffer_to_tile EXCEPT ![p][vc] = Append(@, f)]
      /\ to_tile' = [to_tile EXCEPT ![p][vc] = InProgress(f)]
      /\ antenna2tile_reservation_table' =
           IF IsTail(f) THEN PortReleased([input |-> c, vc |-> vc], p)
                        ELSE antenna2tile_reservation_table

ForwardRx ==
  /\ pc[1] = "forward_rx"
  /\ LET c     == channels[pc[2] + 1]
         drawn == A2T!getReservations(antenna2tile_reservation_table, c)
     IN  \/ \E d \in drawn : MoveToTile(c, d[1], d[2])
         \/ /\ \/ drawn = {} \/ buffer_rx[c] = <<>>
               \/ \E d \in drawn : Len(buffer_to_tile[d[1]][d[2]]) = toTileBufferSize
            /\ UNCHANGED rxVars
  /\ Go("forward_rx", pc[2], Len(channels), "tiles")
  /\ UNCHANGED <<txVars, envVars, start_from_vc>>

(***************************************************************************)
(* The rest of the world.  A tile puts the next flit of one of its packets *)
(* on idle wires, if the buffer is not masked.                             *)
(***************************************************************************)
Offers(i) ==
  UNION {NextFlits(supplied[i][vc], i, vc, Dsts) :
           vc \in {v \in VCs : Len(buffer_from_tile[i][v]) < fromTileBufferSize}}

Arrive(i) ==
  \/ UNCHANGED <<flit_rx, supplied>>
  \/ /\ traffic = "to_antenna"
     /\ flit_rx[i] = NoFlit
     /\ \E f \in Offers(i) :
          /\ flit_rx' = [flit_rx EXCEPT ![i] = f]
          /\ supplied' = [supplied EXCEPT ![i][f.vc] = InProgress(f)]

Tiles ==
  /\ pc[1] = "tiles"
  /\ Arrive(pc[2])
  /\ Go("tiles", pc[2], num_ports, "air")
  /\ UNCHANGED <<traffic, on_air, txVars, rxVars, start_from_vc>>

(* An Initiator takes the first flit of its buffer_tx.                     *)
Transmit(c) ==
  /\ buffer_tx[c] # <<>>
  /\ buffer_tx' = [buffer_tx EXCEPT ![c] = Tail(@)]
  /\ UNCHANGED <<buffer_rx, on_air>>

(* A stream that may go on: it is in the middle of a packet, or every      *)
(* other one of its channel is not.                                        *)
MayGoOn(s) ==
  \/ MayMix
  \/ \A t \in RxStreams : t[1] = s[1] /\ t # s => on_air[t] = NoFlit

(* A Target puts a flit for a tile of this hub into its buffer_rx.         *)
Hear(s) ==
  /\ traffic = "to_tile"
  /\ Len(buffer_rx[s[1]]) < rxBufferSize
  /\ MayGoOn(s)
  /\ \E f \in NextFlits(on_air[s], s[2], s[3], Ports) :
       /\ buffer_rx' = [buffer_rx EXCEPT ![s[1]] = Append(@, f)]
       /\ on_air' = [on_air EXCEPT ![s] = InProgress(f)]
  /\ UNCHANGED buffer_tx

Air ==
  /\ pc[1] = "air"
  /\ LET c == channels[pc[2] + 1]
     IN  \/ Transmit(c)
         \/ \E s \in RxStreams : s[1] = c /\ Hear(s)
         \/ UNCHANGED <<buffer_tx, buffer_rx, on_air>>
  /\ Go("air", pc[2], Len(channels), "reserve_tx")
  /\ UNCHANGED <<traffic, buffer_from_tile, tile2antenna_reservation_table, to_antenna,
                 buffer_to_tile, antenna2tile_reservation_table, to_tile,
                 flit_rx, supplied, start_from_vc>>

Next ==
  \/ ReserveTx \/ ForwardTx \/ Receive
  \/ SendToTile \/ ReserveRx \/ ForwardRx
  \/ Tiles \/ Air

Spec == Init /\ [][Next]_vars

(***************************************************************************)
(* Time passes, and the neighbours do their part again and again: a tile   *)
(* goes on with a packet it has begun, or takes a flit that is for it; an  *)
(* Initiator empties its buffer (EveryoneTransmits of RadioChannel), or a  *)
(* packet on the air goes on.  Nothing makes anybody begin a packet.       *)
(***************************************************************************)
TileDoesItsPart(i, vc) ==
  \/ Tiles /\ supplied[i][vc] # NoFlit /\ supplied'[i][vc] # supplied[i][vc]
  \/ SendToTile /\ Len(buffer_to_tile'[i][vc]) < Len(buffer_to_tile[i][vc])

ChannelDoesItsPart(c) ==
  \/ Air /\ Len(buffer_tx'[c]) < Len(buffer_tx[c])
  \/ Air /\ \E s \in RxStreams : s[1] = c /\ on_air[s] # NoFlit /\ on_air'[s] # on_air[s]

FairSpec ==
  /\ Spec
  /\ WF_vars(Next)
  /\ \A i \in Ports, vc \in VCs : SF_vars(TileDoesItsPart(i, vc))
  /\ \A c \in Channels : SF_vars(ChannelDoesItsPart(c))

-----------------------------------------------------------------------------
(***************************************************************************)
(* Properties.                                                             *)
(***************************************************************************)
FlitOrNone == Flit \cup {NoFlit}

TypeOK ==
  /\ buffer_from_tile \in [Ports -> [VCs -> Seq(Flit)]]
  /\ buffer_to_tile \in [Ports -> [VCs -> Seq(Flit)]]
  /\ buffer_tx \in [Channels -> Seq(Flit)] /\ buffer_rx \in [Channels -> Seq(Flit)]
  /\ T2A!TypeOK /\ T2A!IndexInRange
  /\ A2T!TypeOK /\ A2T!IndexInRange
  /\ start_from_vc \in [Ports -> VCs]
  /\ flit_rx \in [Ports -> FlitOrNone]
  /\ supplied \in [Ports -> [VCs -> FlitOrNone]]
  /\ on_air \in [RxStreams -> FlitOrNone]
  /\ to_antenna \in [Channels -> FlitOrNone]
  /\ to_tile \in [Ports -> [VCs -> FlitOrNone]]

SendsOn(i, vc, c) ==
  T2A!Holds(tile2antenna_reservation_table, [input |-> i, vc |-> vc], c)

GoesTo(c, vc, p) ==
  A2T!Holds(antenna2tile_reservation_table, [input |-> c, vc |-> vc], p)

(* What a hub puts into the buffer of a channel are whole packets, one     *)
(* after the other, each on a channel its destination listens to, however  *)
(* the ports compete and whichever channels selectChannel picks for a head *)
(* that waits.  RadioChannel relies on it.                                 *)
WholeToAntenna ==
  \A i \in Ports, vc \in VCs, c \in Channels :
    SendsOn(i, vc, c) /\ buffer_from_tile[i][vc] # <<>> =>
      LET f == Head(buffer_from_tile[i][vc])
      IN  Follows(to_antenna[c], f) /\ c \in ChannelsTo[f.dst]

(* "Move a flit from antenna buffer_rx to the appropriate buffer_to_tile." *)
(* (Hub.cpp:318) Every flit waits at the port of its destination, on its  *)
(* own virtual channel.                                                    *)
AppropriateBuffer ==
  \A p \in Ports, vc \in VCs :
    \A k \in DOMAIN buffer_to_tile[p][vc] :
      LET f == buffer_to_tile[p][vc][k] IN f.dst = p /\ f.vc = vc

(* What a channel sends to a port continues the packet that is open there. *)
WholeToTile ==
  \A p \in Ports, vc \in VCs, c \in Channels :
    GoesTo(c, vc, p) /\ buffer_rx[c] # <<>> => Follows(to_tile[p][vc], Head(buffer_rx[c]))

(* A head in a buffer_rx never asks for a port while its channel holds     *)
(* another one: "else assert(false); // no meaningful status here"         *)
(* (Hub.cpp:368).                                                          *)
MeaningfulStatus ==
  \A c \in Channels :
    HeadAtFront(buffer_rx[c]) =>
      LET f == Head(buffer_rx[c])
      IN  A2T!checkReservation(antenna2tile_reservation_table, [input |-> c, vc |-> f.vc], f.dst)
            # "RT_ALREADY_OTHER_OUT"

(* With tiles and channels that take what they are given, every packet     *)
(* that has reserved a channel or a port gets through and lets it go.      *)
EveryPacketThrough ==
  /\ \A i \in Ports, vc \in VCs, c \in Channels : SendsOn(i, vc, c) ~> ~SendsOn(i, vc, c)
  /\ \A p \in Ports, vc \in VCs, c \in Channels : GoesTo(c, vc, p) ~> ~GoesTo(c, vc, p)

=============================================================================
