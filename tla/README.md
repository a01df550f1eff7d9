# Noxim in TLA+

This directory is a verification project for [Noxim](../src/README.md), a
cycle-accurate simulator of wired and wireless networks on chip written in C++
on top of SystemC.  It models the program's own core logic: the network of
routers, links, hubs and radio channels that the simulator executes.  TLC checks
small instances; TLAPS proves selected properties for all values of the
constants.

All source positions below are relative to the repository root.

## 1. Inventory

A simulation is a set of SystemC modules bound by signals.  Every clocked
process reads the values its input signals had before the edge and writes
values that become visible after it (delta cycle); the two processes of a
router, of a processing element and of a hub run one after the other in one
`SC_METHOD`-like `process`, or share their module's memory.

| Part | State | Operations | Interacts with |
|---|---|---|---|
| Reservation table (`src/src/ReservationTable.*`) | per output: vector of (input, vc), and an index | `checkReservation`, `reserve`, `release`, `getReservations`, `updateIndex`, `isNotReserved`, `setSize` | owned by a router; two in every hub |
| Link (`Router.cpp` `rxProcess`, `txProcess`; `Buffer.*`) | `req`, `ack`, `flit`, full-mask signals; `current_level_tx/rx`; a FIFO per (port, vc) | send, receive, acknowledge | router-router, PE-router, router-hub |
| Router (`Router.*`) | buffers, table, round-robin positions | `txProcess` (reservation loop, forwarding loop, index update), `rxProcess`, `route` | links, routing algorithm, selection strategy |
| Routing algorithms (`routingAlgorithms/*`, `GlobalRoutingTable.*`, `LocalRoutingTable.*`) | none, or a table | `route` | asked by the router for every waiting head, in every cycle |
| Wireless routing (`Router::routingFunction`, `connectedHubs`, `nextDeltaHops`, `Hub::route`, `Hub::selectChannel`) | `hub_relay_node` in the flits | to the hub, to the hub with a relay, or by wire | routers, hubs, initiators |
| Topologies (`NoC.cpp`) | wiring | `buildMesh`, `buildTorus`, `buildFoldedTorus`, `buildOctagon`, `buildButterfly`, `buildBaseline`, `buildOmega` | binds all the others |
| Hub (`Hub.*`) | buffers from and to tiles, antenna buffers, two tables | `antennaToTileProcess`, `tileToAntennaProcess`, `selectChannel`, token policies | routers by links, hubs by radio channels, token ring by signals |
| Radio channel (`Initiator.*`, `Channel.*`, `Target.*`) | the flit being sent | `thread_process`, two `b_transport` | a thread beside the clocked processes; takes several cycles |
| Token ring (`TokenRing.*`) | per channel: position, cycles left, flags | `updateTokens` and one update per policy | hubs, by signals in both directions |
| Processing element (`ProcessingElement.*`) | packet queue, handshake levels | `txProcess`, `rxProcess`, `canShot`, `nextFlit`, traffic functions | router's local port |
| Selection strategies and NoP (`selectionStrategies/*`, `Router::perCycleUpdate`, `NoPScore`) | neighbours' free slots and scores | `apply`, `perCycleUpdate` | router, neighbours |
| Power, statistics, configuration, traffic tables, `Main.cpp` | counters, parameters | accounting, parsing, construction | read by all the others |

What makes the program hard:

* **Two loops per cycle over shared state.** `txProcess` reserves outputs for
  all inputs, then forwards and releases in the middle of a second loop that
  still reads the table; `release` must move the index inside the vector it
  erases from.
* **Decisions repeated on stale ground.** A waiting head is routed again in
  every cycle, and an adaptive algorithm may answer differently from what has
  been reserved.
* **Signals are a cycle old.** The mask of full buffers, the acknowledge and
  the token holder that a process reads are those of the previous edge.
* **A thread among clocked processes.** A radio transmission lasts several
  cycles during which the token may move.
* **Wormhole blocking.** A packet holds channels while it waits for others, so
  freedom from deadlock depends on the turns of the routing algorithm.
* **Two decisions that must agree.** A router decides that a packet goes by
  radio, and the hub decides it again from the flit; with relays the flits carry
  the decision of an earlier router.
* **Looking ahead.** A router evaluates the routing function for its neighbours,
  with its own hub and table.
* **Random choice** (`rand()`) among the reservations of an input.

The properties that make each part correct are listed with the runs below; the
hazards, each at its source line, are in `PROJECT.json`.

What would make each part wrong, and therefore the properties to check:

* **Table, router**: two packets on one channel of an output; a reservation that
  outlives its packet or is bypassed; a flit sent where its packet does not go;
  an index outside the vector; a holder that never gets its turn.
* **Link**: a flit lost, repeated, reordered or refused; a handshake stuck.
* **Routing and topologies**: no direction, or one without a router behind it; a
  packet that never arrives; a way longer than announced; a circle of channels
  waiting for each other; a packet sent to a hub that cannot send it on; a
  question about a neighbour that has no answer.
* **Selection**: a head queueing for an output while another is free; a neighbour
  told something stale.
* **Radio channel**: two hubs in the air at once; packets mixed at the receiver;
  a token taken away too early or never given away; a hub asleep when its packet
  comes.
* **Hub**: packets mixed on a channel or at a port, flits in the wrong buffer, an
  assertion reached, packets left behind.
* **Processing element**: a destination outside the network; packets cut into
  flits in the wrong order.

## 2. Modules

| Module | Models | Properties |
|---|---|---|
| `ReservationTable` | the table: one entry (`reservations`, `index`) per output; an action for `reserve`, `release` and `updateIndex`; queries as operators | `TypeOK IndexInRange VcExclusive OneOutput TurnKept EveryoneGetsATurn` |
| `ReservationTableProofs` | proofs about it, for a table by itself and as a switch of packets | |
| `FlitPipe` | what a link promises: a bounded queue per virtual channel | |
| `Link` | both ends of a link and the buffers behind it, one step per clock edge (`Edge`); `IsPipe` is its refinement of `FlitPipe` | `TypeOK NoOverflow InOrder IsPipe HandshakeCompletes`; `DepthRespected` and `TakenAtNextEdge` are proved only |
| `LinkProofs` | proofs, among them that `Link` implements `FlitPipe` | |
| `Flits` | heads, tails, and which flit may follow which on a channel (EXTENDed by `Router`, `Hub` and `RadioChannel`) | |
| `FlitChains` | lemmas on sequences of flits that keep packets together, and on what taking, adding and switching does to them | |
| `Router` | `Router::process`, iteration by iteration (`Reserve`, `Forward`, `Receive`), then the neighbours (`Clock`), with random or buffer-level selection and `perCycleUpdate`; INSTANCEs `ReservationTable` | `TypeOK Contiguous RightOutput HeldExactly EveryReservationEnds NoIdleOutput StatusAccurate` |
| `RouterProofs` | proofs about it | |
| `Routing` | the nine table-free routing algorithms and TABLE_BASED, `getNeighborId`, the wiring of mesh, tori, octagon, butterfly (BFT and SPIN are built by the same function), baseline and omega, and `Router::nextDeltaHops`, as operators | |
| `ChannelWaits` | which channel a packet that holds one may wait for (EXTENDS `Routing`) | |
| `HubRouting` | networks with hubs: who is attached where, the wireless part of `routingFunction`, `Hub::route` and the channels between hubs (EXTENDS `Routing`) | |
| `Walk` | the way of a head through a network, by wire (`Hop`), to a hub (`ToHub`), to a hub with a relay (`ToRelay`) and by radio (`Radio`), with `hub_relay_node` as the head and the flits behind it carry it (EXTENDS `ChannelWaits`, `HubRouting`) | `AlwaysAWay Shortest LooksAhead HubsAgree AsForetold NoCircle Arrives TurnsRespected` |
| `WalkProofs` | proofs about it, for networks of any size | |
| `RadioChannel` | one radio channel: token ring, the hubs' policies, the initiator's thread, channel, its power manager and antenna buffers | `TypeOK Exclusive WholePackets Awake HeldThroughPacket EveryoneTransmits KeptWhileNeeded` |
| `RadioChannelProofs` | proofs about it | |
| `Hub` | both processes of a hub, iteration by iteration; INSTANCEs `ReservationTable` twice; tiles and radio channels are its environment | `TypeOK WholeToAntenna AppropriateBuffer WholeToTile MeaningfulStatus EveryPacketThrough` |
| `HubProofs` | proofs about it, among them that its tables are used as `ReservationTable` says | |
| `ProcessingElement` | `txProcess` of an element with all traffic distributions, and the local port of its router (`rxProcess` only acknowledges) | `DestinationOK WholePackets` |
| `ProcessingElementProofs` | proofs about it | |

`MC...` modules give the constants their values, `.cfg` files name the
properties.  Operators marked *mutant* are plausible mistakes, kept beside the
definition they replace: each property is known to fail when its mutant is put
in.

How state and actions correspond to the code:

* A module keeps the source's names: variables are member variables and
  signals, operators are functions.  `PROJECT.json` gives the lines each
  definition stands for.
* A clocked process that only exchanges signals (`Link`, `RadioChannel`,
  `ProcessingElement`) is one action per edge in which every module reads
  unprimed values, as SystemC's evaluate/update phases do.  A process whose inner
  loop order matters (`Router`, `Hub`) is one action per iteration, with `pc` for
  the position in the loops; nothing else happens between them, and the
  environment moves once per cycle.
* A flit carries its packet's identity (source, destination, channel, number)
  instead of a payload.  History variables (`open`, `supplied`, `to_tile`,
  `received`, ...) hold the last flit that passed a point, and nothing after a
  tail, so "whole packets" is a relation (`Follows`) between it and the next one.
* `rand()` is a choice among what it can give; rates say only whether a packet
  may be made.

## 3. Composition and assumptions

The models meet at the code's own interfaces, and what one takes for granted of
its environment another one shows:

| Taken for granted | by | shown by |
|---|---|---|
| neighbours deliver whole packets in order and respect the mask | `Router`, `Hub` | `Router!Contiguous`, `Link!InOrder`, `Link!NoOverflow` |
| the local port gets whole packets, one flit at a time | `Router` | `ProcessingElement!WholePackets`, `Link!HandshakeCompletes` |
| rules of the table | `Router`, `Hub` | the theorems of `ReservationTableProofs`; that its users keep to them is `HubProofs!TablesInGoodHands` for the hub, and for the router the well-formed table in `RouterProofs!Basics` |
| a channel leads to the hub of every destination a tile sends to its hub | `Hub` | `Walk!HubsAgree`, for the layouts of the run |
| `route` answers one or two directions with a router behind them | `Router` | `Walk!AlwaysAWay` |
| a hub fills `buffer_tx` with whole packets | `RadioChannel` | `Hub!WholeToAntenna` with one virtual channel |
| what is heard on a channel is whole packets (`MayMix = FALSE`) | `Hub` | `RadioChannel!WholePackets` under TOKEN_PACKET |
| the initiator empties `buffer_tx` | `Hub` fairness | `RadioChannel!EveryoneTransmits` |

Most of the properties in the last column are theorems (section 6), so that the
assumption holds for every size and not only for the instance of a run; those of
`Hub` and `RadioChannel` under the conditions named there.  The
composition is by these assumptions, not one large state space: a network of
even two routers and a hub is out of reach of exhaustive checking.

Assumptions on constants are the checks that `ConfigurationManager.cpp` makes
(packet sizes of at least two flits, rates in their intervals, ...), and where it
makes none the comment at the ASSUME says what the code would do otherwise: a
delta network of fewer than four cores divides by zero in `buildBaseline`; LOCAL
traffic divides by zero without a second tile at a hub; a packet routed to a hub
without a channel to its destination meets an assertion (`Hub.cpp:516`), hence
`HubsConfigured` in `Walk`: a channel leads back wherever one leads, and with
relays one leads to every hub; `winoc_dst_hops` beyond the number of stages
would read before the first element of a vector (`Router.cpp:437`).

## 4. Runs

| Run | Instance | Shows |
|---|---|---|
| `table` | 2 inputs, 2 outputs, 3 channels | under any sequence of legal operations: index in range, exclusive channels, one output per holder, no holder's turn lost by another's release, everybody's turn comes |
| `link` | 2 channels, buffers of 2, 4 flits each | the handshake with the one-edge-old mask is a bounded queue per channel |
| `router` | 2 ports, 2 channels, random selection; port 0 sends on one channel, port 1 on both, and on one of them also to a destination with two ways | no mixing, no wrong output, an output is held exactly as long as its packet needs it, every reservation ends |
| `router_level` | 2 ports, 1 channel, buffers of 2, buffer-level selection; packets with a choice of outputs and without at both inputs | no head waits beside a free output it could take, neighbours are told the room in the buffers to within a flit |
| `router_relay` (violation) | a relay hub, buffers of 2 | finding 1 |
| `walk` | 5x4 mesh and tori, octagon, delta networks of 8 cores; every source and destination; a routing table with the ways of WEST_FIRST; ten layouts of hubs, those of `testdelta*.yaml` and a chain of hubs among them | a direction always, with a router behind it; arrival; shortest ways, and by hub no longer ones; hubs can send on what routers send them; NOP's questions have answers; excluded turns; no circle of waiting packets on mesh and delta networks; `nextDeltaHops` tells the way |
| `walk_relay` (violation) | butterfly of 16 cores, the hubs of `testdelta_hops_16.yaml`, `winoc_dst_hops` = 2 | finding 2 |
| `radio` | 3 hubs, of which two send and two listen, three policies, power manager under TOKEN_PACKET | exclusive use, whole packets, token kept through a packet, everybody transmits, sleepers awake in time |
| `radio_max_hold` (violation) | 3 hubs, of which one sends, TOKEN_MAX_HOLD, the token for 5 cycles and flits of 4 | finding 4 |
| `hub` | 2 ports, 2 radio channels, 1 virtual channel | whole packets both ways, right buffers, assertion of Hub.cpp:368 not reached, packets get through |
| `hub_vcs` (violation) | the same with 2 virtual channels | finding 3 |
| `element` | 4x2 mesh, 2 hubs, 13 distributions, packets of 2 and 3 flits | destinations exist; packets are cut in order |

Why the bounds are enough: every conflict in these algorithms is between two
parties (two inputs for an output, two packets on a channel, two hubs for the
air), so two of each party, and buffers that are full with one or two flits,
give each conflict, each full and each empty case.  The table has three
channels so that the released position can be before, at and behind the index.
Packets have two flits where a body flit behaves like a tail that does not
release (`router`, `hub`, `radio`) and three where it matters (`element`).  The
5x4 mesh has odd and even columns, an odd and an even ring for the torus and
both dimensions different; three stages are the fewest with a delta stage of
each kind.  `MaxHops`, `MaxFlits` and `MaxQueue` bound counters and queues that
the code does not bound; flits beyond them would be in the same positions again.
The sender of `link` respects the mask; for the processing element, which does not,
order and the bounded queue are proved only (`LinkProofs`, for both values of
`uses_mask`).  `LooksAhead` is about adaptive routing on meshes: on delta networks there
is one direction and nothing to ask.  Relays exist on the butterfly family
only (`ConfigurationManager.cpp:344-350`), so `nextDeltaRow` has no branch for the
first switch of an omega network (`Router.cpp:339-344`).
Deadlock is checked except in `walk`, which stops at the destination, and in
`element`, where a failed assertion stops the program.

## 5. Fairness

Weak fairness of the next step means that simulated time goes on.  What is
added is strong fairness of the environment, stated per stream: a packet that
has begun to come is continued, a buffer that is read is emptied (`Continues`,
`Empties`, `TileDoesItsPart`, `ChannelDoesItsPart`); nobody is made to begin a
packet.  One assumption is about the code: `Drawn` says that a random draw
(`rand()`) among the reservations of an input, repeated for ever, takes each of
them again and again when it can; a pseudo-random generator that never did so would be no
draw.  In `Router`, where a neighbour may mask any channel at any time, it also says
that a channel is not masked at every draw.  "When it can" leaves the question of
`EveryReservationEnds` open.  In `router` an output has up to two holders, on different channels, of one input or of two, and
an input holds up to two outputs.  For a draw to be possible at all, the turn of the
holder, the acknowledge of the output and a flit at the front must meet, again and
again.  They do because the turn passes in every second cycle (`PassTurns`), while an
output sends in every second cycle at most: were it passed on in each cycle
(`PassTurnsEveryCycle`), one of two holders could send whenever the output can, and
the other never.  With one virtual channel an output has one holder, and nothing of
this happens.  In `Walk` the packet's hop comes: that other packets do not block it for
ever is a separate question, answered by `NoCircle` for meshes and delta
networks.

## 6. Proofs

Proved by TLAPS, for every value of the constants that satisfies the named
assumptions:

* **Reservation table** (`ReservationTableProofs`): `TypeCorrect`, `IndexSafe`,
  `ChannelExclusive`, `SingleOutput`, `TurnIsKept`.  The inductive invariant is the
  conjunction of the four state properties: exclusiveness of a channel alone is not
  inductive, since `checkReservation` answers "available" only on the ground of all
  entries, and the index can be followed through `release` only when no holder occurs
  twice.  `ReleaseEffect` says what removing a position does to the sequence and the
  index; `AvailableMeans` what the answer of `checkReservation` excludes.
* **Link** (`LinkProofs`): `TypeCorrect`, `DepthIsRespected`, `OverflowFree`,
  `OrderKept`, `NeverWaits`, and `LinkImplementsPipe`, the refinement.  `NoOverflow`
  is not inductive by itself: the sender decides on a mask, and the mask must be known
  to say what the buffer is at that edge.  `IInv` adds `SignalsFresh`: between two
  edges the signals show the levels of both sides and the mask the buffers.  The
  sender's flit then meets the buffer it saw, from which the router can only have
  taken. For order, `PendingStep` reduces an edge to "append what was sent, drop what
  was taken" on each channel, from which both `InOrder` and the refinement follow.
* **Radio channel** (`RadioChannelProofs`): `TypeCorrect`, `OneOnAir`,
  `PacketsArriveWhole`, `AwakeToReceive`, `TokenHeldThroughPacket`, for any ring,
  depths, transmission and holding times.  `Exclusive` is not inductive: a hub that is
  not on the air may start whenever it believes that it has the token.  Under
  TOKEN_PACKET, `PacketKeeps` says that whoever is on the air, or in the middle of a
  packet, has the token and has told the ring to leave it there; under TOKEN_HOLD,
  `HoldKeeps` bounds the cycles a flit is still on the air by the cycles the ring
  still counts.  `Chains` follows the packet in progress from the antenna buffer back
  into the sender's `buffer_tx`, which gives both `WholePackets` and
  `HeldThroughPacket`.  `Sleeping` bounds every hub's sleep by the cycles the rest of
  the holder's packet takes; a head that was refused makes it worth one cycle more,
  since the same head is sent again at the next edge.
* **Router** (`RouterProofs`): `TypeCorrect` and `StatusNear` for every router;
  `PacketsStayTogether`, `NobodyGoesAstray`, `OutputsHeldExactly` and
  `NobodyIsSkipped` for every router that is never answered with a relay (`Relays =
  {}`; with relays the first of them is false, finding 1).  `Basics` has the types,
  the table as `ReservationTableProofs` wants it (`WellFormed`), the positions in the
  loops and the depths of the buffers.  `Packets` adds what wormhole switching rests
  on: for each input channel there is a packet in progress (`Flows`), whose last flit
  is the one that left by the output reserved for that input, or none, and the flits
  in the buffer, and those the neighbour has still to send, continue it without a gap.
  None of its parts can do without the others: that a body flit follows its head
  through an output depends on the reservation being this packet's, and that the
  reservation is this packet's depends on its tail not having gone by.
  `NobodyIsSkipped` needs `ServedSoFar`, an invariant of the reservation loop: each
  input and channel that the loop has passed has no head that could still take a free
  output; and it needs the arithmetic of the rotation, that starting from
  `start_from_port` and `start_from_vc` the loop passes everyone (`GoesRound`).  The
  table of a router is not an implementation of `ReservationTable` step by step,
  because the last iteration of the forwarding loop releases a reservation and then
  updates all indices in one step of the model; its invariant is therefore carried
  over by the lemmas instead of by refinement.
* **Hub** (`HubProofs`): `TypeCorrect`, and `TablesInGoodHands`: both tables of a hub
  implement `ReservationTable`, so its theorems hold of them.  With one virtual
  channel (with several, packets mix: finding 3) `WholePacketsToAntenna`; if in
  addition packets are not mixed on the air (`MayMix = FALSE`, which
  `RadioChannelProofs!PacketsArriveWhole` proves under TOKEN_PACKET),
  `FlitsReachTheirPort`, `WholePacketsToTile` and `NoMeaninglessStatus`.  Both
  directions are the same argument, made once in `FlitChains` and
  `ReservationTableProofs`: streams of packets that are switched through one-to-one
  ways (`Switched`, `SwitchedInOrder`), with a lemma for a reservation
  (`SwitchReserves`), for a flit that passes (`SwitchForwards`) and for one that
  arrives (`SwitchReceives`).
* **Processing element** (`ProcessingElementProofs`): `PacketsAreCutInOrder`, on the
  invariant that the flit on the wires continues the one before and the packet at the
  head of the queue goes on where it ends (`GoesOn`), whatever is queued behind; and
  `DestinationsExist`, for every distribution; for the three that permute bits on
  condition that the number of tiles is a power of two (else they leave the network,
  section 7), up to 2^30, since tiles are numbered by an `int`.  For ULOCAL this includes
  that the random walk never crosses a border (`WalksStay`); for the bits, that a sum
  taken in any order splits at each summand (`SumsSplit`), so that n bits make a
  number below 2^n (`BitsFit`).
* **Ways** (`WalkProofs`), on networks of any size: `ExcludedTurnsAreNotMade` and
  `NeighboursAreForeseen` without hypotheses; `ThereIsAlwaysAWay` for every topology,
  hubs and relays included, and `WaysAreShortest` for meshes, tori and delta networks,
  both with every algorithm but TABLE_BASED; `TheWayIsForetold` for butterflies;
  `NobodyWaitsInACircle` for meshes and delta networks; `HubsAgreeWithoutRelays` for
  layouts without relays (`winoc_dst_hops` = 0; with relays it is false, finding 2).
  + What each algorithm answers on a mesh is productive (`AllProductive`, lemma
    `MeshOffers`); the turn properties add to it which columns, or which directions,
    the packet can have behind it (`Turned`).  Off the grids the packet must also be
    where its destination can still be reached: on a delta network at its source, at
    its destination or in the right rows of a stage (`OnItsWay`), on the octagon at
    one of the eight nodes (`AtAnEnd`).
  + `AsForetold` rests on `WhereForetold`: after k hops a packet is at the switch of
    stage k - 1 that `nextDeltaHops` computes from its source.  Both put the same bit
    of the destination into the row (`RowStep`, `Foretold`); that the recursive
    function of the model is what it says is `RowExists`.
  + `Shortest` compares hops with distances that the model measures by a
    search (`HopsIn`, a recursive function): `HopsAreDistances` shows by induction on
    sets of naturals that such a search finds any function that is zero at the start
    only, grows by one per hop at most and can be descended, and that the Manhattan and
    ring distances are such functions, as is, on a delta network, the number of
    stages a packet has left.  `Measured` then says that the hops behind and
    the distance ahead add up, or come to less over a hub.
  + For `NoCircle` the channels get numbers that every wait strictly lowers: on a
    delta network the stage; on a mesh two digits, different for each algorithm
    (`Major`, `Minor`).  With WEST_FIRST, for one, all channels to the west come before
    the others, and those column by column, the vertical ones of a column before the
    ones that leave it.  So the search of `Endless`, which takes away channels that wait for
    none of the others, does not stop before none is left (`Iterates`, `WaitsEnd`);
    `VisitedStay` bounds what a packet may reach and hold.  A mesh with TABLE_BASED may
    have circles, depending on its table: the theorem asks that it has none.

  Two of the hypotheses of `WaysAreShortest` are about the model only: distances are
  tabulated for the topologies of `Networks`, and `MaxHops` must not cut a way short.

Hypotheses on constants say where a theorem stops to be true or where its proof stops,
and all are met by ordinary configurations of the simulator: `Relays = {}` by the runs
`router` and `router_level`, one virtual channel and `MayMix = FALSE` by `hub`; those
of `WalkProofs` and `DestinationsExist` by the parts of `walk` and `element` with
these networks and distributions.

Only model-checked:

* liveness (`EveryoneGetsATurn`, `HandshakeCompletes`, `EveryReservationEnds`,
  `EveryoneTransmits`, `EveryPacketThrough`, `Arrives`): the prover has no rule for
  fairness, which needs ENABLED;
* `AlwaysAWay`, `Shortest` and `NoCircle` on meshes with TABLE_BASED, whose table is
  read from a file;
* `Shortest` with relays;
* `HubsAgree` with relays on the layouts where it holds.

## 7. Findings

1. `Router.cpp:142`: the head of a packet for a relay hub is popped and pushed back to mark it;
   with other flits behind it in the buffer it ends up behind them (`router_relay`).
2. `Router.cpp:434`: `routingFunction` looks for a relay also when the destination
   is at the sender's own hub; the hub then routes the packet to its tile and the
   assertion at `Hub.cpp:506` ends the simulation (`walk_relay`).
3. `Hub.cpp:394`: with several virtual channels the hub moves the first flit of
   an antenna buffer along any reservation of the channel (`hub_vcs`).
4. `Hub.cpp:231`: under TOKEN_MAX_HOLD a hub releases the token in the middle of a
   transmission because the cycles left are too few for another one
   (`radio_max_hold`).  With flits of 4 cycles and the token for 5, the hub starts its
   flit when it sees 5 cycles left, holds at 4 and releases at 3; the ring takes the
   token at the next edge, with the flit in the air and the time not up.
   `KeptWhileNeeded` asks this of the holder only, and only if it was on the air
   already when it wrote the flag, so that nothing but line 231 can break it.

Met while modelling, without a run of their own:

* Under TOKEN_HOLD and TOKEN_MAX_HOLD the token moves inside packets, so packets
  of two hubs mix in an antenna buffer; `WholePackets` therefore speaks of
  TOKEN_PACKET only.
* Under TOKEN_MAX_HOLD a release written for an empty `buffer_tx` (`Hub.cpp:246`) is
  read by the ring an edge later, when the hub may be starting a flit that has come
  since; the token goes on, and the next hub may be on the air at the same time.
  `Exclusive` therefore leaves TOKEN_MAX_HOLD out.
* `ReservationTable.cpp:62` says that a holder asking for another output "should
  never happen"; with adaptive routing a waiting head does so, and the router
  ignores the answer and keeps the first output.
* `Routing_OCTAGON.cpp:44`: its table of neighbours has the chords 1-5 and 2-6, where
  `buildOctagon` wires 1-6 and 2-5 (`NoC.cpp:3045-3046`), so "shortest-path" routing
  (`ConfigurationManager.cpp:234`) takes longer ways; every packet still arrives.
  `Shortest` therefore leaves the octagon out.
* Tori with a ring of five or more, and the octagon, have circles of waiting
  channels (`CircularNetworks`), since the virtual channel of a packet never changes.
* `Router.cpp:417` and `698` ask for channels with source and destination exchanged,
  which matters when a channel is used in one direction only.
* Relays are searched for whether or not the packet has passed them.  On
  `testdelta_hops_2.yaml` with `winoc_dst_hops` = 3 a packet relayed from switch 10 to
  switch 17 is relayed back to 10, and its body flits, which still carry the first
  relay, meet the assertion at `Hub.cpp:567`; `hub_relay_node` is never reset.
* NOP selection evaluates `routingFunction` for a neighbour with the hub of the
  router that asks (`Router.cpp:411-417`): in a layout with two hubs that share no
  channel (`Chain` in `MCWalk`), it looks up the hub of a neighbour that has none.
  With TABLE_BASED it looks the neighbour's port up in its own table.
* Under RANDOM selection nobody writes the free slots (`Selection_RANDOM.cpp:22`), so
  DyAD never sees congestion.
* `roulette` (`ProcessingElement.cpp:339`) reaches `assert(false)` with probability
  2^-(slices+1) per packet of ULOCAL traffic (action `RouletteFails`).
* Bit-permutation traffic leaves the network unless its size is a power of two.
* `last_reserved` in `Hub.cpp` is never set, and `start_from_vc` is advanced twice per edge.

## 8. Not modelled, and why

Statistics and power are floating-point accounting, but for the sleep of the
listeners, which is in `RadioChannel`.  Configuration, traffic and routing tables
are parsed from files; what is read is a constant of a model.  Reset is the
initial state: the simulator resets once, before anything else.  The ports
between tiles and hubs are part of `Hub`.  Of NOP's scores, products of a bit and a
signal added up, `Walk` has which neighbours and channels they are about, not the
numbers, which only rank directions that are all allowed.  A hub that listens on
several channels has one `sleep_end_cycle` for all: `RadioChannel` is one channel, and
`Awake` says nothing about two.  `Buffer`'s deadlock heuristics only print.  The DMI
functions of the radio channel are never called.

The repository is 258,000 lines, most of which are not Noxim's: SystemC and yaml-cpp
are vendored under `src/bin/libs` and are taken as given (of the kernel, the models use
that the processes of an edge read the values before it).  Of Noxim itself
(`src/src`, some 12,800 lines of code and headers, of which `NoC.cpp` alone repeats the same binding of
signals for each topology), the map covers just under a third; the rest is the
configuration's parsing and printing, statistics, power tables, construction and
comments.

## 9. Plan

Done: the core (table, link, router, routing, radio channel, hub, processing
element), the ways over hubs and relays, selection and look-ahead, table-based
routing and the sleep of listeners; proofs of every safety property that the
runs check, but for the parts listed at the end of section 6.  Left:

1. Proofs: `HubsAgree` with relays for layouts in which it holds.
2. A circle of waiting through wired routers and a radio channel: `ChannelWaits`
   with the hubs of `HubRouting`.
3. Two radio channels with hubs that listen on both (`Awake`, `updateTokenMaxHold` by
   position).
