------------------------------- MODULE Router -------------------------------
(***************************************************************************)
(* One router (src/src/Router.cpp): Router::process at every clock edge,   *)
(* txProcess and then rxProcess.  txProcess first reserves an output for   *)
(* every head flit at the front of a buffer, ports and channels in round   *)
(* robin, and then forwards at most one flit per input port; rxProcess     *)
(* takes one flit per input port off the wires.  The steps of this module  *)
(* are the iterations of those three loops, in the order of the code; pc   *)
(* is the place in it.  The clock edge that ends a cycle is the step in    *)
(* which the neighbours move.                                              *)
(*                                                                         *)
(* The handshake of a port is Link's.  Here an input port has a flit on    *)
(* its wires or not, and an output port has the set of channels it may     *)
(* send on: those not masked when the level equals the acknowledge, none   *)
(* when it does not.  The neighbours are any neighbours: they send legal   *)
(* packets, respect the mask (the processing element does not), and        *)
(* acknowledge and mask as they like.                                      *)
(***************************************************************************)
EXTENDS Flits, FiniteSets

CONSTANTS
  n_ports,             (* DIRECTIONS + 2                                 *)
  n_virtual_channels,
  max_buffer_size,
  DIRECTION_LOCAL,     (* the port of the processing element             *)
  Dsts,                (* destinations, as far as routing tells them     *)
  Routes,              (* Routes[d]: outputs route may return for d      *)
  Relays,              (* destinations route answers with a relay hub    *)
  Streams,             (* <<input, channel, destination>>: what packets  *)
                       (* come in where                                  *)
  Sizes,               (* packet sizes                                   *)
  selection_strategy   (* "RANDOM", "BUFFER_LEVEL" or "NOP"              *)

Ports == 0 .. n_ports - 1
VCs   == 0 .. n_virtual_channels - 1

ASSUME PortsAssumption  == n_ports \in Nat \ {0} /\ DIRECTION_LOCAL \in Ports
ASSUME VCsAssumption    == n_virtual_channels \in Nat \ {0}
ASSUME DepthAssumption  == max_buffer_size \in Nat \ {0}
ASSUME RoutesAssumption == Routes \in [Dsts -> SUBSET Ports \ {{}}]
ASSUME RelaysAssumption == Relays \subseteq Dsts
ASSUME StreamAssumption == Streams \subseteq Ports \X VCs \X Dsts
(* checkConfiguration (ConfigurationManager.cpp:367-371) refuses packets   *)
(* of fewer than two flits: a single flit would be a head and no tail.     *)
ASSUME SizesAssumption  == Sizes \subseteq Nat \ {0, 1}
(* checkConfiguration (ConfigurationManager.cpp:449-459) refuses the       *)
(* strategies that look at the neighbours with several virtual channels.   *)
ASSUME StrategyAssumption ==
  /\ selection_strategy \in {"RANDOM", "BUFFER_LEVEL", "NOP"}
  /\ selection_strategy # "RANDOM" => n_virtual_channels = 1

VARIABLES
  pc,               (* <<loop, iteration>>                               *)
  buffer,           (* buffer[i][vc]: sequence of flits                  *)
  rtable,           (* the reservation table                             *)
  start_from_port,
  start_from_vc,
  even,             (* the cycle number is even                          *)
  free_slots,       (* signals: the room in the buffer of each input, as *)
                    (* the neighbours are told                           *)
  flit_rx,          (* flit_rx[i]: the flit on the wires, or NoFlit      *)
  ack_delay,        (* ack_delay[o]: edges until the acknowledge equals  *)
                    (* current_level_tx[o] again                         *)
  supplied,         (* supplied[i][vc]: last flit put on the wires, and  *)
                    (* NoFlit after a tail                               *)
  open              (* open[o][vc]: last flit forwarded, NoFlit after a  *)
                    (* tail                                              *)

cycleVars == <<start_from_port, start_from_vc, even>>
portVars  == <<flit_rx, ack_delay, supplied>>
vars == <<pc, buffer, rtable, cycleVars, free_slots, portVars, open>>

RT == INSTANCE ReservationTable WITH Inputs <- Ports, Outputs <- Ports, AtTurn <- Ports

Flit == [from : Ports, vc : VCs, dst : Dsts,
         sequence_no : Nat, sequence_length : Sizes]

(* The flits that may come behind g on channel vc of input i.              *)
NextFlits(g, i, vc) ==
  IF g = NoFlit
    THEN [from : {i}, vc : {vc}, dst : {d \in Dsts : <<i, vc, d>> \in Streams},
          sequence_no : {0}, sequence_length : Sizes]
    ELSE {[g EXCEPT !.sequence_no = @ + 1]}

IsFull(b) == Len(b) = max_buffer_size

DEFAULT_VC == 0

(* The strategy's perCycleUpdate, b being the buffers: what free_slots     *)
(* becomes (that of the hub's port, which has none, is as good as any).    *)
(* Random selection never tells the neighbours anything.                   *)
FreeAsUsed(b) ==   (* mutant *)
  [i \in Ports |-> Len(b[i][DEFAULT_VC])]
CurrentFreeSlots(b) == [i \in Ports |-> max_buffer_size - Len(b[i][DEFAULT_VC])]

perCycleUpdate(b) ==
  IF selection_strategy = "RANDOM" THEN free_slots ELSE CurrentFreeSlots(b)

(***************************************************************************)
(* configure, and the reset branches of both processes.                    *)
(***************************************************************************)
Init ==
  /\ pc = <<"reserve", 0>>
  /\ buffer = [i \in Ports |-> [vc \in VCs |-> <<>>]]
  /\ rtable = RT!setSize
  /\ start_from_port = DIRECTION_LOCAL
  /\ start_from_vc = [i \in Ports |-> 0]
  /\ even \in BOOLEAN
  /\ free_slots = [i \in Ports |-> max_buffer_size]
  /\ flit_rx = [i \in Ports |-> NoFlit]
  /\ ack_delay = [o \in Ports |-> 0]
  /\ supplied = [i \in Ports |-> [vc \in VCs |-> NoFlit]]
  /\ open = [o \in Ports |-> [vc \in VCs |-> NoFlit]]

(***************************************************************************)
(* txProcess, first phase.  Iteration n looks at channel k of port j in    *)
(* the rotated order; the rotations advance when their loop ends.          *)
(***************************************************************************)
NextPortUnwrapped(i) == i + 1   (* mutant *)
NextPort(i) == (i + 1) % n_ports

EndReserve(n, i) ==
  LET lastVc   == n % n_virtual_channels = n_virtual_channels - 1
      lastPort == n = n_ports * n_virtual_channels - 1
  IN  /\ start_from_vc' = IF lastVc
                            THEN [start_from_vc EXCEPT ![i] = (@ + 1) % n_virtual_channels]
                            ELSE start_from_vc
      /\ start_from_port' = IF lastPort THEN NextPort(start_from_port) ELSE start_from_port
      /\ pc' = IF lastPort THEN <<"forward", 0>> ELSE <<"reserve", n + 1>>

HeadAtFront(i, vc) == buffer[i][vc] # <<>> /\ IsHead(Head(buffer[i][vc]))

(* The input and the channel that iteration n examines.                    *)
ExaminedInput(n) == (start_from_port + n \div n_virtual_channels) % n_ports
ExaminedVc(n)    == (start_from_vc[ExaminedInput(n)] + n) % n_virtual_channels

(* route may return o for the flit f.                                      *)
CanRoute(f, o) == o \in Routes[f.dst]

(* selectionFunction, of several directions.  BUFFER_LEVEL takes, among    *)
(* those nobody has reserved, one with the most room behind it, and any    *)
(* when all are reserved; what room the neighbours show, and what NOP      *)
(* hears from them, may be anything.                                       *)
SelectAny(dirs) == dirs   (* mutant *)
Select(dirs) ==
  LET unreserved == {o \in dirs : RT!isNotReserved(rtable, o)}
  IN  IF selection_strategy = "BUFFER_LEVEL" /\ unreserved # {} THEN unreserved ELSE dirs

(* A head for a relay hub is popped, marked and pushed back.               *)
MarkRelay(b) ==
  IF Head(b).dst \in Relays THEN Append(Tail(b), Head(b)) ELSE b

(* The table after r asked for output o: unchanged unless it is available. *)
AskUnchecked(r, o) ==   (* mutant *)
  IF RT!Holds(rtable, r, o) THEN rtable ELSE RT!reserve(rtable, r, o)
Ask(r, o) ==
  IF RT!checkReservation(rtable, r, o) = "RT_AVAILABLE"
    THEN RT!reserve(rtable, r, o)
    ELSE rtable

(* The head at the front asks for an output that routing allows.           *)
ReserveFor(i, vc) ==
  \E o \in Select(Routes[Head(buffer[i][vc]).dst]) :
    /\ buffer' = [buffer EXCEPT ![i][vc] = MarkRelay(@)]
    /\ rtable' = Ask([input |-> i, vc |-> vc], o)

Reserve ==
  /\ pc[1] = "reserve"
  /\ LET i  == ExaminedInput(pc[2])
         vc == ExaminedVc(pc[2])
     IN  /\ \/ HeadAtFront(i, vc) /\ ReserveFor(i, vc)
            \/ ~HeadAtFront(i, vc) /\ UNCHANGED <<buffer, rtable>>
         /\ EndReserve(pc[2], i)
  /\ UNCHANGED <<even, free_slots, portVars, open>>

(***************************************************************************)
(* txProcess, second phase: one of the outputs whose turn is a channel of  *)
(* input i, chosen at random; its flit goes if the output may send it, and *)
(* a tail releases the output.  The last iteration passes the turns on in  *)
(* even cycles.                                                            *)
(***************************************************************************)
PassTurnsEveryCycle(t) == RT!updateIndex(t)   (* mutant *)
PassTurns(t) == IF even THEN RT!updateIndex(t) ELSE t

EndForward(i, t) ==
  /\ pc' = IF i = n_ports - 1 THEN <<"receive", 0>> ELSE <<"forward", i + 1>>
  /\ rtable' = IF i = n_ports - 1 THEN PassTurns(t) ELSE t

(* What the neighbour of an output may report as full.                     *)
Masks == SUBSET VCs

CanForward(i, o, vc, mask) ==
  /\ buffer[i][vc] # <<>>
  /\ ack_delay[o] = 0
  /\ vc \notin mask

(* The table after a flit of r was sent to o.                              *)
NeverReleased(f, r, o)  == rtable                            (* mutant *)
ReleasedByHead(f, r, o) ==                                   (* mutant *)
  IF IsHead(f) THEN RT!release(rtable, r, o) ELSE rtable
Sent(f, r, o) == IF IsTail(f) THEN RT!release(rtable, r, o) ELSE rtable

ForwardFlit(i, o, vc) ==
  LET f == Head(buffer[i][vc])
  IN  /\ <<o, vc>> \in RT!getReservations(rtable, i)
      /\ \E mask \in Masks : CanForward(i, o, vc, mask)
      /\ buffer' = [buffer EXCEPT ![i][vc] = Tail(@)]
      /\ ack_delay' = [ack_delay EXCEPT ![o] = 2]
      /\ open' = [open EXCEPT ![o][vc] = InProgress(f)]
      /\ EndForward(i, Sent(f, [input |-> i, vc |-> vc], o))

(* No output for this input, or the one that was drawn has to wait.        *)
ForwardNothing(i) ==
  /\ \/ RT!getReservations(rtable, i) = {}
     \/ \E c \in RT!getReservations(rtable, i), mask \in Masks :
          ~CanForward(i, c[1], c[2], mask)
  /\ UNCHANGED <<buffer, ack_delay, open>>
  /\ EndForward(i, rtable)

Forward ==
  /\ pc[1] = "forward"
  /\ \/ \E o \in Ports, vc \in VCs : ForwardFlit(pc[2], o, vc)
     \/ ForwardNothing(pc[2])
  /\ UNCHANGED <<cycleVars, free_slots, flit_rx, supplied>>

(***************************************************************************)
(* rxProcess: the flit on the wires of each input enters the buffer of its *)
(* channel unless that is full; then the wires keep it.  perCycleUpdate    *)
(* runs at the same edge, after process or before it; the values it        *)
(* writes in the latter case are those of Clock.                           *)
(***************************************************************************)
Accepts(i) == flit_rx[i] # NoFlit /\ ~IsFull(buffer[i][flit_rx[i].vc])

Receive ==
  /\ pc = <<"receive", 0>>
  /\ buffer' = [i \in Ports |-> IF Accepts(i)
                                  THEN [buffer[i] EXCEPT ![flit_rx[i].vc] = Append(@, flit_rx[i])]
                                  ELSE buffer[i]]
  /\ flit_rx' = [i \in Ports |-> IF Accepts(i) THEN NoFlit ELSE flit_rx[i]]
  /\ free_slots' \in {free_slots, perCycleUpdate(buffer')}
  /\ pc' = <<"clock", 0>>
  /\ UNCHANGED <<rtable, cycleVars, ack_delay, supplied, open>>

(***************************************************************************)
(* The clock edge, port by port.  The neighbour on the input side may put  *)
(* the next flit of one of its packets on idle wires, if the mask (or, for *)
(* the processing element, the acknowledge alone) permits it.  The one on  *)
(* the output side acknowledges a flit in the cycle after it was sent, so  *)
(* that an output sends in every other cycle at most.                      *)
(***************************************************************************)
Offers(i) ==
  UNION {NextFlits(supplied[i][vc], i, vc) :
           vc \in {v \in VCs : i # DIRECTION_LOCAL => ~IsFull(buffer[i][v])}}

Arrive(i) ==
  \/ UNCHANGED <<flit_rx, supplied>>
  \/ /\ flit_rx[i] = NoFlit
     /\ \E f \in Offers(i) :
          /\ flit_rx' = [flit_rx EXCEPT ![i] = f]
          /\ supplied' = [supplied EXCEPT ![i][f.vc] = InProgress(f)]

Clock ==
  /\ pc[1] = "clock"
  /\ Arrive(pc[2])
  /\ IF pc[2] = n_ports - 1
       THEN /\ pc' = <<"reserve", 0>>
            /\ even' = ~even
            /\ free_slots' = perCycleUpdate(buffer)
            /\ ack_delay' = [o \in Ports |-> IF ack_delay[o] = 0 THEN 0 ELSE ack_delay[o] - 1]
       ELSE /\ pc' = <<"clock", pc[2] + 1>>
            /\ UNCHANGED <<even, free_slots, ack_delay>>
  /\ UNCHANGED <<buffer, rtable, start_from_port, start_from_vc, open>>

Next == Reserve \/ Forward \/ Receive \/ Clock

Spec == Init /\ [][Next]_vars

(***************************************************************************)
(* The clock never stops, a neighbour that began a packet goes on with it, *)
(* and a channel of an input that could send again and again is drawn by   *)
(* rand(), and not masked by the neighbour behind the output, again and    *)
(* again.  (One fairness condition for both: a buffer is finite and a      *)
(* packet has two flits or more, so neither happens for ever without the   *)
(* other.)  Not assumed is that the turn of a reservation and the          *)
(* acknowledge of its output meet again and again, nor that a neighbour    *)
(* ever begins a packet.                                                   *)
(***************************************************************************)
Continues(i, vc) ==
  /\ Clock
  /\ supplied[i][vc] # NoFlit
  /\ supplied'[i][vc] # supplied[i][vc]

Drawn(i, vc) ==
  /\ pc = <<"forward", i>>
  /\ \E o \in Ports : ForwardFlit(i, o, vc)
  /\ UNCHANGED <<cycleVars, free_slots, flit_rx, supplied>>

InputChannels == {<<s[1], s[2]>> : s \in Streams}

FairSpec ==
  /\ Spec
  /\ WF_vars(Next)
  /\ \A c \in InputChannels : SF_vars(Continues(c[1], c[2]) \/ Drawn(c[1], c[2]))

-----------------------------------------------------------------------------
(***************************************************************************)
(* Properties.                                                             *)
(***************************************************************************)

FlitOrNone == Flit \cup {NoFlit}

TypeOK ==
  /\ pc \in {"reserve", "forward", "receive", "clock"} \X Nat
  /\ buffer \in [Ports -> [VCs -> Seq(Flit)]]
  /\ RT!TypeOK
  /\ start_from_port \in Ports
  /\ start_from_vc \in [Ports -> VCs]
  /\ even \in BOOLEAN
  /\ free_slots \in [Ports -> 0 .. max_buffer_size]
  /\ flit_rx \in [Ports -> FlitOrNone]
  /\ ack_delay \in [Ports -> 0 .. 2]
  /\ supplied \in [Ports -> [VCs -> FlitOrNone]]
  /\ open \in [Ports -> [VCs -> FlitOrNone]]

Reserved(i, vc, o) == RT!Holds(rtable, [input |-> i, vc |-> vc], o)

(* Wormhole switching: whatever a reservation lets through on a channel of *)
(* an output continues the packet that is open there, or opens one when    *)
(* none is.  Two packets never mix on a channel of a link, however the     *)
(* inputs, the turns and the random choices fall out.                      *)
Contiguous ==
  \A i, o \in Ports, vc \in VCs :
    Reserved(i, vc, o) /\ buffer[i][vc] # <<>>
      => Follows(open[o][vc], Head(buffer[i][vc]))

(* No flit leaves along a reservation that a packet to elsewhere left      *)
(* behind: a reservation is for an output route allows for the flit.       *)
RightOutput ==
  \A i, o \in Ports, vc \in VCs :
    Reserved(i, vc, o) /\ buffer[i][vc] # <<>>
      => CanRoute(Head(buffer[i][vc]), o)

(* A packet that has begun to leave holds its output until its tail goes,  *)
(* and no reservation outlives its packet: it is held for a packet that is *)
(* leaving or for a head that waits at the front of its buffer.            *)
HeldExactly ==
  \A i, o \in Ports, vc \in VCs :
    /\ open[o][vc] # NoFlit => Reserved(open[o][vc].from, vc, o)
    /\ Reserved(i, vc, o) => open[o][vc] # NoFlit \/ HeadAtFront(i, vc)

(* Every reservation ends, however many channels of an output are held and *)
(* however many outputs an input holds.  An output sends in every other    *)
(* cycle and passes its turn on in every other cycle: the two must not     *)
(* fall into a step in which it can send in the turns of the same holder   *)
(* only.  (To be free again and again is, for each reservation, to end     *)
(* whenever it is made.)                                                   *)
EveryReservationEnds ==
  \A s \in Streams : \A o \in Routes[s[3]] : []<>~Reserved(s[1], s[2], o)

(* When all inputs have been asked, no head is left waiting while nobody   *)
(* has an output it could take: the rotation has skipped nobody, and a     *)
(* head with a choice does not queue for an output when another is free.   *)
(* Random selection promises that only to a head without a choice.         *)
HasNoChoiceToMake(dirs) == selection_strategy = "BUFFER_LEVEL" \/ Cardinality(dirs) = 1

NoIdleOutput ==
  pc = <<"forward", 0>> =>
    \A s \in Streams :
      LET dirs == Routes[Head(buffer[s[1]][s[2]]).dst]
      IN  HeadAtFront(s[1], s[2]) /\ HasNoChoiceToMake(dirs)
            => \/ \A o \in dirs : ~RT!isNotReserved(rtable, o)
               \/ \E o \in dirs : Reserved(s[1], s[2], o)

(* Between two edges, what the neighbours read of a buffer, and choose a   *)
(* direction by, is off by one flit at most, in whatever order the two     *)
(* processes of the router run.                                            *)
StatusAccurate ==
  pc[1] = "clock" /\ selection_strategy # "RANDOM" =>
    \A i \in Ports :
      CurrentFreeSlots(buffer)[i] \in free_slots[i] - 1 .. free_slots[i] + 1

=============================================================================
