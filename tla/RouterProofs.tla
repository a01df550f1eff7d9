---------------------------- MODULE RouterProofs ----------------------------
(***************************************************************************)
(* Theorems about Router, for any number of ports and channels, any buffer *)
(* depth, routes, packets and selection strategy.                          *)
(***************************************************************************)
EXTENDS Router, FlitChains, FiniteSetTheorems, Integers

RTP == INSTANCE ReservationTableProofs WITH Inputs <- Ports, Outputs <- Ports, AtTurn <- Ports

-----------------------------------------------------------------------------
(***************************************************************************)
(* The inductive invariant, first part: what holds of any router.          *)
(***************************************************************************)
InTable == RTP!WellFormed(rtable)

(* The three loops stay within their bounds.                               *)
InLoop ==
  /\ pc[1] = "reserve" => pc[2] < n_ports * n_virtual_channels
  /\ pc[1] = "receive" => pc[2] = 0
  /\ pc[1] \in {"forward", "clock"} => pc[2] < n_ports

InBuffer == \A i \in Ports, vc \in VCs : Len(buffer[i][vc]) <= max_buffer_size

(* How far the room in the buffer of input i is above what the neighbour   *)
(* reads: a flit more when it has forwarded, a flit less when it has       *)
(* received, and as it is after the next edge.                             *)
RoomGained(i) == CurrentFreeSlots(buffer)[i] - free_slots[i]

StatusInLoop ==
  selection_strategy # "RANDOM" =>
    \A i \in Ports :
      CASE pc[1] = "reserve" -> RoomGained(i) = 0
        [] pc[1] = "forward" -> RoomGained(i) \in IF i < pc[2] THEN 0 .. 1 ELSE {0}
        [] pc[1] = "receive" -> RoomGained(i) \in 0 .. 1
        [] pc[1] = "clock"   -> RoomGained(i) \in -1 .. 1

Basics == TypeOK /\ InTable /\ InLoop /\ InBuffer /\ StatusInLoop

(***************************************************************************)
(* Second part: the packets, of a router without relay destinations.       *)
(***************************************************************************)

(* The flits that input i may have on channel vc.                          *)
FlitsOf(i, vc) == {f \in Flit : f.from = i /\ f.vc = vc /\ f.sequence_no < f.sequence_length}

Unfinished(i, vc) == {f \in FlitsOf(i, vc) : ~IsTail(f)}

OwnFlits ==
  /\ \A i \in Ports, vc \in VCs :
       /\ buffer[i][vc] \in Seq(FlitsOf(i, vc))
       /\ supplied[i][vc] \in Unfinished(i, vc) \cup {NoFlit}
       /\ flit_rx[i] # NoFlit /\ flit_rx[i].vc = vc => flit_rx[i] \in FlitsOf(i, vc)
  /\ \A o \in Ports, vc \in VCs :
       open[o][vc] # NoFlit => open[o][vc] \in Unfinished(open[o][vc].from, vc)

(* g is the flit by which input i, on channel vc, has left a packet open   *)
(* behind the router, or NoFlit when it has none open.                     *)
LeftOpen(i, vc, g) ==
  IF g = NoFlit
    THEN \A o \in Ports : open[o][vc] # NoFlit => open[o][vc].from # i
    ELSE g.from = i /\ \E o \in Ports : open[o][vc] = g

(* From the flit that left last, through the buffer and over the wires, to *)
(* the one that was supplied last, the packets of a channel are whole.     *)
FlowsFrom(i, vc, g, last) ==
  /\ LeftOpen(i, vc, g)
  /\ Chained(g, buffer[i][vc], last)
  /\ IF flit_rx[i] # NoFlit /\ flit_rx[i].vc = vc
       THEN Follows(last, flit_rx[i]) /\ supplied[i][vc] = InProgress(flit_rx[i])
       ELSE supplied[i][vc] = last

Flows == \A i \in Ports, vc \in VCs : \E g, last \in FlitOrNone : FlowsFrom(i, vc, g, last)

(* A reservation is for an output allowed for its packet: the one that is  *)
(* open there, or the one whose head waits.                                *)
Routed ==
  \A i, o \in Ports, vc \in VCs :
    Reserved(i, vc, o) =>
      CanRoute(IF open[o][vc] # NoFlit THEN open[o][vc] ELSE Head(buffer[i][vc]), o)

Packets == OwnFlits /\ HeldExactly /\ Flows /\ Routed

-----------------------------------------------------------------------------
(***************************************************************************)
(* Lemmas: what the steps of a router do to its reservation table.         *)
(***************************************************************************)
LEMMA TableAtStart ==
  /\ RTP!WellFormed(RT!setSize)
  /\ \A i, o \in Ports, vc \in VCs : ~RT!Holds(RT!setSize, [input |-> i, vc |-> vc], o)
<1>1. RT!setSize = RTP!setSize
  BY DEF RT!setSize, RTP!setSize
<1>2. \A i \in Ports, vc \in VCs : [input |-> i, vc |-> vc] \in RTP!TReservation
  BY DEF RTP!TReservation
<1> QED BY <1>1, <1>2, RTP!SetSizeMakes DEF RT!Holds, RTP!Holds

(* An output is got when nobody has that channel of it.                    *)
LEMMA AskKeeps ==
  ASSUME InTable, NEW i \in Ports, NEW vc \in VCs, NEW o \in Ports
  PROVE  LET r == [input |-> i, vc |-> vc]
             t == Ask(r, o)
             got == RT!checkReservation(rtable, r, o) = "RT_AVAILABLE"
         IN  /\ RTP!WellFormed(t)
             /\ \A j, p \in Ports, w \in VCs :
                  RT!Holds(t, [input |-> j, vc |-> w], p) <=>
                    Reserved(j, w, p) \/ (got /\ j = i /\ w = vc /\ p = o)
             /\ got => \A j \in Ports : ~Reserved(j, vc, o)
<1> DEFINE r == [input |-> i, vc |-> vc]
<1>1. \A j \in Ports, w \in VCs : [input |-> j, vc |-> w] \in RTP!TReservation
  BY DEF RTP!TReservation
<1>2. /\ RT!checkReservation(rtable, r, o) = RTP!checkReservation(rtable, r, o)
      /\ RT!reserve(rtable, r, o) = RTP!reserve(rtable, r, o)
      /\ \A t, q, p : RT!Holds(t, q, p) <=> RTP!Holds(t, q, p)
  BY DEF RT!checkReservation, RTP!checkReservation, RT!reserve, RTP!reserve, RT!Holds, RTP!Holds
<1>3. CASE RT!checkReservation(rtable, r, o) = "RT_AVAILABLE"
  <2>1. RTP!checkReservation(rtable, r, o) = "RT_AVAILABLE" /\ Ask(r, o) = RTP!reserve(rtable, r, o)
    BY <1>2, <1>3 DEF Ask
  <2>2. /\ RTP!WellFormed(RTP!reserve(rtable, r, o))
        /\ \A q \in RTP!TReservation, p \in Ports :
             RTP!Holds(RTP!reserve(rtable, r, o), q, p) <=> RTP!Holds(rtable, q, p) \/ (q = r /\ p = o)
    BY <1>1, <2>1, RTP!ReserveKeeps DEF InTable
  <2>3. \A k \in 1 .. Len(rtable[o].reservations) : rtable[o].reservations[k].vc # vc
    BY <2>1, RTP!AvailableMeans
  <2>4. \A j \in Ports : ~Reserved(j, vc, o)
    BY <2>3 DEF Reserved, RT!Holds
  <2>5. \A j, p \in Ports, w \in VCs :
          RT!Holds(RTP!reserve(rtable, r, o), [input |-> j, vc |-> w], p) <=>
            Reserved(j, w, p) \/ (j = i /\ w = vc /\ p = o)
    BY <1>1, <1>2, <2>2 DEF Reserved
  <2> QED BY <1>3, <2>1, <2>2, <2>4, <2>5
<1>4. CASE RT!checkReservation(rtable, r, o) # "RT_AVAILABLE"
  BY <1>4 DEF Ask, InTable, Reserved
<1> QED BY <1>3, <1>4

(* A tail gives its output back, and only that.                            *)
LEMMA SentKeeps ==
  ASSUME InTable, NEW f, NEW i \in Ports, NEW vc \in VCs, NEW o \in Ports, Reserved(i, vc, o)
  PROVE  LET t == Sent(f, [input |-> i, vc |-> vc], o)
         IN  /\ RTP!WellFormed(t)
             /\ \A j, p \in Ports, w \in VCs :
                  RT!Holds(t, [input |-> j, vc |-> w], p) <=>
                    Reserved(j, w, p) /\ ~(IsTail(f) /\ j = i /\ w = vc /\ p = o)
<1> DEFINE r == [input |-> i, vc |-> vc]
<1>1. \A j \in Ports, w \in VCs : [input |-> j, vc |-> w] \in RTP!TReservation
  BY DEF RTP!TReservation
<1>2. /\ RT!release(rtable, r, o) = RTP!release(rtable, r, o)
      /\ \A t, q, p : RT!Holds(t, q, p) <=> RTP!Holds(t, q, p)
  BY DEF RT!release, RTP!release, RT!removed_index, RTP!removed_index, RT!IndexAfter,
         RTP!IndexAfter, RT!RemoveAt, RTP!RemoveAt, RT!Holds, RTP!Holds
<1>3. CASE IsTail(f)
  <2>1. RTP!Holds(rtable, r, o) /\ Sent(f, r, o) = RTP!release(rtable, r, o)
    BY <1>2, <1>3 DEF Sent, Reserved
  <2>2. /\ RTP!WellFormed(RTP!release(rtable, r, o))
        /\ \A q \in RTP!TReservation, p \in Ports :
             RTP!Holds(RTP!release(rtable, r, o), q, p) <=>
               RTP!Holds(rtable, q, p) /\ ~(q = r /\ p = o)
    BY <1>1, <2>1, RTP!ReleaseKeeps DEF InTable
  <2>3. \A j, p \in Ports, w \in VCs :
          RT!Holds(RTP!release(rtable, r, o), [input |-> j, vc |-> w], p) <=>
            Reserved(j, w, p) /\ ~(j = i /\ w = vc /\ p = o)
    BY <1>1, <1>2, <2>2 DEF Reserved
  <2> QED BY <1>3, <2>1, <2>2, <2>3
<1>4. CASE ~IsTail(f)
  BY <1>4 DEF Sent, InTable, Reserved
<1> QED BY <1>3, <1>4

(* The turns change nobody's reservations.                                 *)
LEMMA PassTurnsKeeps ==
  ASSUME NEW t, RTP!WellFormed(t)
  PROVE  /\ RTP!WellFormed(PassTurns(t))
         /\ \A r, o : o \in Ports => (RT!Holds(PassTurns(t), r, o) <=> RT!Holds(t, r, o))
<1>1. RT!updateIndex(t) = RTP!updateIndex(t)
  BY DEF RT!updateIndex, RTP!updateIndex
<1>2. /\ RTP!WellFormed(RTP!updateIndex(t))
      /\ \A p \in Ports : RTP!updateIndex(t)[p].reservations = t[p].reservations
  BY RTP!UpdateIndexKeeps
<1> QED BY <1>1, <1>2 DEF PassTurns, RT!Holds

(* Whoever has the turn has a reservation.                                 *)
LEMMA TurnIsReserved ==
  ASSUME InTable, NEW i \in Ports, NEW vc \in VCs, NEW o \in Ports,
         <<o, vc>> \in RT!getReservations(rtable, i)
  PROVE  Reserved(i, vc, o)
<1> DEFINE e == rtable[o]
<1>1. e.reservations # <<>> /\ e.reservations[e.index + 1] = [input |-> i, vc |-> vc]
  BY DEF RT!getReservations, RT!IsCurrent
<1>2. /\ e.reservations \in Seq(RTP!TReservation) /\ Len(e.reservations) \in Nat
      /\ e.index \in Nat /\ e.index < Len(e.reservations)
  BY <1>1 DEF InTable, RTP!WellFormed, RTP!Typed, RTP!InRange, RTP!RTEntry
<1>3. e.index + 1 \in 1 .. Len(e.reservations)
  BY <1>2
<1> QED BY <1>1, <1>3 DEF Reserved, RT!Holds

(* One holder of a channel of an output, one output of a holder.           *)
LEMMA OneHolder ==
  ASSUME InTable, NEW i \in Ports, NEW j \in Ports, NEW o \in Ports, NEW vc \in VCs,
         Reserved(i, vc, o), Reserved(j, vc, o)
  PROVE  i = j
<1>1. PICK k \in 1 .. Len(rtable[o].reservations) :
        rtable[o].reservations[k] = [input |-> i, vc |-> vc]
  BY DEF Reserved, RT!Holds
<1>2. PICK l \in 1 .. Len(rtable[o].reservations) :
        rtable[o].reservations[l] = [input |-> j, vc |-> vc]
  BY DEF Reserved, RT!Holds
<1>3. k = l
  BY <1>1, <1>2 DEF InTable, RTP!WellFormed, RTP!Exclusive
<1> QED BY <1>1, <1>2, <1>3

LEMMA OneOutput ==
  ASSUME InTable, NEW i \in Ports, NEW vc \in VCs, NEW o \in Ports, NEW p \in Ports,
         Reserved(i, vc, o), Reserved(i, vc, p)
  PROVE  o = p
<1>1. [input |-> i, vc |-> vc] \in RTP!TReservation
  BY DEF RTP!TReservation
<1> QED BY <1>1 DEF Reserved, RT!Holds, RTP!Holds, InTable, RTP!WellFormed, RTP!Single

-----------------------------------------------------------------------------
(***************************************************************************)
(* Any router: types, bounds and the status that the neighbours read.      *)
(***************************************************************************)
LEMMA WellFormedTyped ==
  ASSUME NEW t, RTP!WellFormed(t)
  PROVE  t \in [Ports -> RT!RTEntry]
BY DEF RTP!WellFormed, RTP!Typed, RTP!RTEntry, RT!RTEntry, RTP!TReservation, RT!TReservation

LEMMA Modulo ==
  ASSUME NEW a \in Nat, NEW n \in Nat \ {0}
  PROVE  a % n \in 0 .. n - 1 /\ a \div n \in Nat
BY SMT

LEMMA ExaminedOK ==
  ASSUME TypeOK
  PROVE  ExaminedInput(pc[2]) \in Ports /\ ExaminedVc(pc[2]) \in VCs
<1>1. pc[2] \in Nat /\ start_from_port \in Nat /\ n_ports \in Nat \ {0}
      /\ n_virtual_channels \in Nat \ {0}
  BY PortsAssumption, VCsAssumption DEF TypeOK, Ports
<1>2. pc[2] \div n_virtual_channels \in Nat
  BY <1>1, Modulo
<1>3. ExaminedInput(pc[2]) \in Ports
  <2>1. start_from_port + pc[2] \div n_virtual_channels \in Nat
    BY <1>1, <1>2
  <2> QED BY <1>1, <2>1, Modulo DEF ExaminedInput, Ports
<1>4. start_from_vc[ExaminedInput(pc[2])] \in Nat
  BY <1>3 DEF TypeOK, VCs
<1>5. start_from_vc[ExaminedInput(pc[2])] + pc[2] \in Nat
  BY <1>1, <1>4
<1> QED BY <1>1, <1>3, <1>5, Modulo DEF ExaminedVc, VCs

(* Putting s for the buffer of channel vc of input i.                      *)
LEMMA OneBuffer ==
  ASSUME TypeOK, NEW i \in Ports, NEW vc \in VCs, NEW s, buffer' = [buffer EXCEPT ![i][vc] = s]
  PROVE  /\ \A j \in Ports, w \in VCs :
              buffer'[j][w] = IF j = i /\ w = vc THEN s ELSE buffer[j][w]
         /\ s \in Seq(Flit) => buffer' \in [Ports -> [VCs -> Seq(Flit)]]
BY DEF TypeOK

LEMMA MarkRelayKeeps ==
  ASSUME NEW b \in Seq(Flit), b # <<>>
  PROVE  MarkRelay(b) \in Seq(Flit) /\ Len(MarkRelay(b)) = Len(b)
<1>1. Head(b) \in Flit /\ Tail(b) \in Seq(Flit) /\ Len(Tail(b)) = Len(b) - 1 /\ Len(b) \in Nat
  BY HeadTailProperties, LenProperties
<1>2. Append(Tail(b), Head(b)) \in Seq(Flit) /\ Len(Append(Tail(b), Head(b))) = Len(b)
  BY <1>1, AppendProperties
<1> QED BY <1>2 DEF MarkRelay

LEMMA ReserveBasics == Basics /\ Reserve => Basics'
<1> SUFFICES ASSUME Basics, Reserve PROVE Basics'
  OBVIOUS
<1> USE DEF Basics
<1> DEFINE n == pc[2]
<1>0. PICK i \in Ports, vc \in VCs :
        /\ i = ExaminedInput(n) /\ vc = ExaminedVc(n)
        /\ \/ HeadAtFront(i, vc) /\ ReserveFor(i, vc)
           \/ UNCHANGED <<buffer, rtable>>
        /\ EndReserve(n, i)
  BY ExaminedOK DEF Reserve
<1>1. /\ pc[1] = "reserve" /\ n \in Nat /\ n < n_ports * n_virtual_channels
      /\ n_ports \in Nat \ {0} /\ n_virtual_channels \in Nat \ {0}
      /\ n_ports * n_virtual_channels \in Nat
  <2>1. \A a, b \in Nat : a * b \in Nat
    BY SMT
  <2> QED BY <2>1, PortsAssumption, VCsAssumption DEF Reserve, TypeOK, InLoop
<1>2. /\ pc' = IF n = n_ports * n_virtual_channels - 1
                 THEN <<"forward", 0>> ELSE <<"reserve", n + 1>>
      /\ pc' \in {"reserve", "forward", "receive", "clock"} \X Nat
  BY <1>0, <1>1 DEF EndReserve
<1>3. InLoop'
  BY <1>1, <1>2 DEF InLoop
<1>4. start_from_port' \in Ports
  <2>1. start_from_port + 1 \in Nat
    BY DEF TypeOK, Ports
  <2>2. NextPort(start_from_port) \in Ports
    BY <1>1, <2>1, Modulo DEF NextPort, Ports
  <2> QED BY <1>0, <2>2 DEF EndReserve, TypeOK
<1>5. start_from_vc' \in [Ports -> VCs]
  <2>1. start_from_vc \in [Ports -> VCs] /\ start_from_vc[i] + 1 \in Nat
    BY DEF TypeOK, VCs
  <2>2. (start_from_vc[i] + 1) % n_virtual_channels \in VCs
    BY <1>1, <2>1, Modulo DEF VCs
  <2> QED BY <1>0, <2>1, <2>2 DEF EndReserve
<1>6. /\ buffer' \in [Ports -> [VCs -> Seq(Flit)]]
      /\ \A j \in Ports, w \in VCs : Len(buffer'[j][w]) = Len(buffer[j][w])
  <2>1. CASE HeadAtFront(i, vc) /\ ReserveFor(i, vc)
    <3>1. buffer' = [buffer EXCEPT ![i][vc] = MarkRelay(buffer[i][vc])]
      BY <2>1 DEF ReserveFor, TypeOK
    <3>2. buffer[i][vc] \in Seq(Flit) /\ buffer[i][vc] # <<>>
      BY <2>1 DEF HeadAtFront, TypeOK
    <3>3. MarkRelay(buffer[i][vc]) \in Seq(Flit) /\ Len(MarkRelay(buffer[i][vc])) = Len(buffer[i][vc])
      BY <3>2, MarkRelayKeeps
    <3>4. PICK s : s = MarkRelay(buffer[i][vc])
      OBVIOUS
    <3>5. /\ buffer' \in [Ports -> [VCs -> Seq(Flit)]]
          /\ \A j \in Ports, w \in VCs :
               buffer'[j][w] = IF j = i /\ w = vc THEN s ELSE buffer[j][w]
      BY <3>1, <3>3, <3>4, OneBuffer
    <3> HIDE DEF Basics
    <3> QED BY <3>3, <3>4, <3>5
  <2>2. CASE UNCHANGED <<buffer, rtable>>
    BY <2>2 DEF TypeOK
  <2> QED BY <1>0, <2>1, <2>2
<1>7. InTable'
  <2>1. CASE HeadAtFront(i, vc) /\ ReserveFor(i, vc)
    <3>1. Head(buffer[i][vc]).dst \in Dsts
      <4>1. buffer[i][vc] \in Seq(Flit) /\ buffer[i][vc] # <<>>
        BY <2>1 DEF HeadAtFront, TypeOK
      <4>2. Head(buffer[i][vc]) \in Flit
        BY <4>1, HeadTailProperties
      <4> QED BY <4>2 DEF Flit
    <3>2. PICK o \in Ports : rtable' = Ask([input |-> i, vc |-> vc], o)
      BY <2>1, <3>1, RoutesAssumption DEF ReserveFor, Select
    <3> QED BY <3>2, AskKeeps DEF InTable
  <2>2. CASE UNCHANGED <<buffer, rtable>>
    BY <2>2 DEF InTable
  <2> QED BY <1>0, <2>1, <2>2
<1>8. RT!TypeOK'
  BY <1>7, WellFormedTyped DEF InTable, RT!TypeOK
<1>9. UNCHANGED <<even, free_slots, flit_rx, ack_delay, supplied, open>>
  BY DEF Reserve, portVars
<1>10. TypeOK'
  BY <1>2, <1>4, <1>5, <1>6, <1>8, <1>9 DEF TypeOK
<1>11. InBuffer'
  BY <1>6 DEF InBuffer
<1>12. StatusInLoop'
  <2> SUFFICES ASSUME selection_strategy # "RANDOM", NEW j \in Ports
               PROVE  RoomGained(j)' = 0
    <3>1. /\ pc'[1] \in {"reserve", "forward"}
          /\ pc'[1] = "forward" => \A j \in Ports : ~(j < pc'[2])
      BY <1>2 DEF Ports
    <3> QED BY <3>1 DEF StatusInLoop
  <2>1. DEFAULT_VC \in VCs
    BY VCsAssumption DEF DEFAULT_VC, VCs
  <2>2. RoomGained(j) = 0
    BY <1>1 DEF StatusInLoop
  <2> QED BY <1>6, <1>9, <2>1, <2>2 DEF RoomGained, CurrentFreeSlots
<1> QED BY <1>3, <1>7, <1>10, <1>11, <1>12

(* What an iteration of the second phase does: it forwards the flit at the *)
(* front of a buffer that holds an output, and a tail gives it back; or it *)
(* forwards nothing.                                                       *)
Forwards(i, o, vc) ==
  LET f == Head(buffer[i][vc])
  IN  /\ Reserved(i, vc, o) /\ buffer[i][vc] # <<>>
      /\ buffer' = [buffer EXCEPT ![i][vc] = Tail(@)]
      /\ ack_delay' = [ack_delay EXCEPT ![o] = 2]
      /\ open' = [open EXCEPT ![o][vc] = InProgress(f)]
      /\ \A j, p \in Ports, w \in VCs :
           Reserved(j, w, p)' <=> Reserved(j, w, p) /\ ~(IsTail(f) /\ j = i /\ w = vc /\ p = o)

ForwardsNone ==
  /\ UNCHANGED <<buffer, ack_delay, open>>
  /\ \A j, p \in Ports, w \in VCs : Reserved(j, w, p)' <=> Reserved(j, w, p)

LEMMA ForwardEffect ==
  ASSUME TypeOK, InTable, InLoop, Forward
  PROVE  /\ pc[2] \in Ports /\ InTable'
         /\ ForwardsNone \/ \E o \in Ports, vc \in VCs : Forwards(pc[2], o, vc)
         /\ pc' = IF pc[2] = n_ports - 1 THEN <<"receive", 0>> ELSE <<"forward", pc[2] + 1>>
<1> DEFINE i == pc[2]
<1>1. i \in Ports
  <2>1. pc[1] = "forward"
    BY DEF Forward
  <2>2. pc[2] \in Nat
    BY DEF TypeOK
  <2> QED BY <2>1, <2>2, PortsAssumption DEF InLoop, Ports
<1>2. ASSUME NEW t, EndForward(i, t), RTP!WellFormed(t)
      PROVE  /\ InTable'
             /\ \A j, p \in Ports, w \in VCs :
                  Reserved(j, w, p)' <=> RT!Holds(t, [input |-> j, vc |-> w], p)
  <2>1. rtable' = t \/ rtable' = PassTurns(t)
    BY <1>2 DEF EndForward
  <2>2. RTP!WellFormed(rtable')
    BY <1>2, <2>1, PassTurnsKeeps
  <2>3. \A r, p : p \in Ports => (RT!Holds(rtable', r, p) <=> RT!Holds(t, r, p))
    BY <1>2, <2>1, PassTurnsKeeps
  <2>4. InTable'
    BY <2>2 DEF InTable
  <2>5. \A j, p \in Ports, w \in VCs :
          Reserved(j, w, p)' <=> RT!Holds(rtable', [input |-> j, vc |-> w], p)
    BY DEF Reserved, RT!Holds
  <2> QED BY <2>3, <2>4, <2>5
<1>3. ASSUME NEW o \in Ports, NEW vc \in VCs, ForwardFlit(i, o, vc)
      PROVE  Forwards(i, o, vc) /\ InTable'
  <2> DEFINE f == Head(buffer[i][vc])
             t == Sent(f, [input |-> i, vc |-> vc], o)
  <2>1. Reserved(i, vc, o)
    BY <1>1, <1>3, TurnIsReserved DEF ForwardFlit
  <2>2. buffer[i][vc] # <<>> /\ EndForward(i, t)
    BY <1>3 DEF ForwardFlit, CanForward
  <2>3. /\ RTP!WellFormed(t)
        /\ \A j, p \in Ports, w \in VCs :
             RT!Holds(t, [input |-> j, vc |-> w], p) <=>
               Reserved(j, w, p) /\ ~(IsTail(f) /\ j = i /\ w = vc /\ p = o)
    BY <1>1, <2>1, SentKeeps
  <2> HIDE DEF t
  <2>4. /\ InTable'
        /\ \A j, p \in Ports, w \in VCs :
             Reserved(j, w, p)' <=> RT!Holds(t, [input |-> j, vc |-> w], p)
    BY <1>2, <2>2, <2>3
  <2> QED BY <1>3, <2>1, <2>2, <2>3, <2>4 DEF Forwards, ForwardFlit
<1>4. ASSUME ForwardNothing(i) PROVE ForwardsNone /\ InTable'
  <2>1. EndForward(i, rtable) /\ RTP!WellFormed(rtable)
    BY <1>4 DEF ForwardNothing, InTable
  <2> QED BY <1>2, <1>4, <2>1 DEF ForwardNothing, ForwardsNone, Reserved
<1>5. pc' = IF i = n_ports - 1 THEN <<"receive", 0>> ELSE <<"forward", i + 1>>
  BY DEF Forward, ForwardFlit, ForwardNothing, EndForward
<1> QED BY <1>1, <1>3, <1>4, <1>5 DEF Forward

LEMMA ForwardBasics == Basics /\ Forward => Basics'
<1> SUFFICES ASSUME Basics, Forward PROVE Basics'
  OBVIOUS
<1> USE DEF Basics
<1> DEFINE i == pc[2]
<1>1. /\ i \in Ports /\ i \in Nat /\ pc[1] = "forward"
      /\ InTable' /\ RT!TypeOK'
  BY ForwardEffect, WellFormedTyped DEF Forward, InTable, RT!TypeOK, Ports
<1>2. pc' = IF i = n_ports - 1 THEN <<"receive", 0>> ELSE <<"forward", i + 1>>
  BY ForwardEffect
<1>3. InLoop' /\ pc' \in {"reserve", "forward", "receive", "clock"} \X Nat
  BY <1>1, <1>2, PortsAssumption DEF InLoop, Ports
<1>4. UNCHANGED <<start_from_port, start_from_vc, even, free_slots, flit_rx, supplied>>
  BY DEF Forward, cycleVars
<1>5. ASSUME \/ UNCHANGED buffer
             \/ \E vc \in VCs : /\ buffer[i][vc] # <<>>
                                /\ \A j \in Ports, w \in VCs : buffer'[j][w] =
                                     IF j = i /\ w = vc THEN Tail(buffer[i][vc]) ELSE buffer[j][w]
      PROVE  InBuffer' /\ StatusInLoop'
  <2>1. \A j \in Ports, w \in VCs : Len(buffer[j][w]) \in Nat /\ Len(buffer[j][w]) <= max_buffer_size
    BY LenProperties DEF TypeOK, InBuffer
  <2>2. \A j \in Ports, w \in VCs : /\ Len(buffer'[j][w]) \in Len(buffer[j][w]) - 1 .. Len(buffer[j][w])
                                    /\ j # i => Len(buffer'[j][w]) = Len(buffer[j][w])
    <3> SUFFICES ASSUME NEW j \in Ports, NEW w \in VCs
                 PROVE  /\ Len(buffer'[j][w]) \in Len(buffer[j][w]) - 1 .. Len(buffer[j][w])
                        /\ j # i => Len(buffer'[j][w]) = Len(buffer[j][w])
      OBVIOUS
    <3>1. buffer[i][w] # <<>> => Len(Tail(buffer[i][w])) = Len(buffer[i][w]) - 1
      BY <1>1, HeadTailProperties DEF TypeOK
    <3>2. \/ buffer'[j][w] = buffer[j][w]
          \/ j = i /\ buffer[i][w] # <<>> /\ buffer'[j][w] = Tail(buffer[i][w])
      BY <1>5
    <3>3. Len(buffer[j][w]) \in Nat
      BY <2>1
    <3>4. CASE buffer'[j][w] = buffer[j][w]
      BY <3>3, <3>4
    <3>5. CASE j = i /\ buffer[i][w] # <<>> /\ buffer'[j][w] = Tail(buffer[i][w])
      BY <3>1, <3>3, <3>5
    <3> QED BY <3>2, <3>4, <3>5
  <2>3. InBuffer'
    BY <2>1, <2>2, DepthAssumption DEF InBuffer
  <2>4. StatusInLoop'
    <3> SUFFICES ASSUME selection_strategy # "RANDOM", NEW j \in Ports
                 PROVE  /\ RoomGained(j)' \in 0 .. 1
                        /\ j > i => RoomGained(j)' = 0
      <4>1. \A k \in Ports : k \in Nat
        BY DEF Ports
      <4>2. CASE i = n_ports - 1
        BY <1>2, <4>2 DEF StatusInLoop
      <4>3. CASE i # n_ports - 1
        <5>1. pc'[1] = "forward" /\ pc'[2] = i + 1
          BY <1>2, <4>3
        <5> QED BY <1>1, <4>1, <5>1 DEF StatusInLoop
      <4> QED BY <4>2, <4>3
    <3>1. DEFAULT_VC \in VCs
      BY VCsAssumption DEF DEFAULT_VC, VCs
    <3>2. /\ RoomGained(j) \in IF j < i THEN 0 .. 1 ELSE {0}
          /\ j \in Nat
      BY <1>1 DEF StatusInLoop, Ports
    <3>3. free_slots[j] \in Nat /\ max_buffer_size \in Nat
      BY DepthAssumption DEF TypeOK
    <3>4. /\ RoomGained(j) = max_buffer_size - Len(buffer[j][DEFAULT_VC]) - free_slots[j]
          /\ RoomGained(j)' = max_buffer_size - Len(buffer'[j][DEFAULT_VC]) - free_slots[j]
      BY <1>4 DEF RoomGained, CurrentFreeSlots
    <3>5. CASE j = i
      <4>1. RoomGained(j) = 0
        BY <1>1, <3>2, <3>5
      <4>2. Len(buffer[j][DEFAULT_VC]) \in Nat
        BY <2>1, <3>1
      <4>3. Len(buffer'[j][DEFAULT_VC]) \in Len(buffer[j][DEFAULT_VC]) - 1 .. Len(buffer[j][DEFAULT_VC])
        BY <2>2, <3>1
      <4>4. \A m, k, l, s \in Nat : m - k - s = 0 /\ l \in k - 1 .. k => m - l - s \in 0 .. 1
        OBVIOUS
      <4>5. Len(buffer'[j][DEFAULT_VC]) \in Nat
        BY <2>1, <2>2, <3>1, <4>2, LenProperties
      <4>6. RoomGained(j)' \in 0 .. 1
        BY <3>3, <3>4, <4>1, <4>2, <4>3, <4>4, <4>5
      <4> QED BY <1>1, <3>5, <4>6
    <3>6. CASE j # i
      <4>1. RoomGained(j)' = RoomGained(j)
        BY <2>2, <3>1, <3>4, <3>6
      <4>2. RoomGained(j) \in 0 .. 1 /\ (j > i => RoomGained(j) = 0)
        BY <1>1, <3>2
      <4> QED BY <4>1, <4>2
    <3> QED BY <3>5, <3>6
  <2> QED BY <2>3, <2>4
<1>6. ASSUME NEW o \in Ports, NEW vc \in VCs, Forwards(i, o, vc) PROVE Basics'
  <2> DEFINE b == buffer[i][vc]
  <2>1. b \in Seq(Flit) /\ b # <<>> /\ buffer' = [buffer EXCEPT ![i][vc] = Tail(b)]
    BY <1>1, <1>6 DEF Forwards, TypeOK
  <2>2. Head(b) \in Flit /\ Tail(b) \in Seq(Flit)
    BY <2>1, HeadTailProperties
  <2>3. /\ buffer' \in [Ports -> [VCs -> Seq(Flit)]]
        /\ \A j \in Ports, w \in VCs : buffer'[j][w] = IF j = i /\ w = vc THEN Tail(b) ELSE buffer[j][w]
    <3>1. PICK s : s = Tail(b)
      OBVIOUS
    <3>2. TypeOK /\ s \in Seq(Flit) /\ buffer' = [buffer EXCEPT ![i][vc] = s]
      BY <2>1, <2>2, <3>1
    <3> HIDE DEF b, Basics
    <3>3. /\ buffer' \in [Ports -> [VCs -> Seq(Flit)]]
          /\ \A j \in Ports, w \in VCs : buffer'[j][w] = IF j = i /\ w = vc THEN s ELSE buffer[j][w]
      BY <1>1, <3>2, OneBuffer
    <3> QED BY <3>1, <3>3
  <2>4. PICK f \in FlitOrNone : f = InProgress(Head(b))
    BY <2>2 DEF InProgress, FlitOrNone
  <2>5. open' \in [Ports -> [VCs -> FlitOrNone]] /\ ack_delay' \in [Ports -> 0 .. 2]
    <3>1. open' = [open EXCEPT ![o][vc] = f] /\ ack_delay' = [ack_delay EXCEPT ![o] = 2]
      BY <1>6, <2>4 DEF Forwards
    <3>2. open \in [Ports -> [VCs -> FlitOrNone]] /\ ack_delay \in [Ports -> 0 .. 2]
      BY DEF TypeOK
    <3>3. open[o] \in [VCs -> FlitOrNone]
      BY <3>2
    <3>4. [open[o] EXCEPT ![vc] = f] \in [VCs -> FlitOrNone]
      BY <3>3
    <3>5. open' \in [Ports -> [VCs -> FlitOrNone]]
      BY <3>1, <3>2, <3>4
    <3> QED BY <3>1, <3>2, <3>5
  <2>6. InBuffer' /\ StatusInLoop'
    BY <1>5, <2>1, <2>3
  <2> QED BY <1>1, <1>3, <1>4, <2>3, <2>5, <2>6 DEF TypeOK
<1>7. CASE ForwardsNone
  <2>1. UNCHANGED <<buffer, ack_delay, open>>
    BY <1>7 DEF ForwardsNone
  <2>2. InBuffer' /\ StatusInLoop'
    BY <1>5, <2>1
  <2> QED BY <1>1, <1>3, <1>4, <2>1, <2>2 DEF TypeOK
<1> QED BY <1>6, <1>7, ForwardEffect

LEMMA NoFlitIsNone == NoFlit \notin Flit
BY SizesAssumption DEF NoFlit, Flit

(* What the neighbours are told fits a buffer.                             *)
LEMMA StatusTyped ==
  ASSUME NEW b, \A i \in Ports, vc \in VCs : Len(b[i][vc]) \in 0 .. max_buffer_size,
         free_slots \in [Ports -> 0 .. max_buffer_size]
  PROVE  perCycleUpdate(b) \in [Ports -> 0 .. max_buffer_size]
<1>1. DEFAULT_VC \in VCs
  BY VCsAssumption DEF DEFAULT_VC, VCs
<1> QED BY <1>1, DepthAssumption DEF perCycleUpdate, CurrentFreeSlots

LEMMA ReceiveEffect ==
  ASSUME TypeOK, Receive, NEW i \in Ports
  PROVE  /\ Accepts(i) => flit_rx[i] \in Flit /\ flit_rx[i].vc \in VCs
         /\ \A vc \in VCs : buffer'[i][vc] =
              IF Accepts(i) /\ vc = flit_rx[i].vc THEN Append(buffer[i][vc], flit_rx[i])
              ELSE buffer[i][vc]
         /\ flit_rx'[i] = IF Accepts(i) THEN NoFlit ELSE flit_rx[i]
<1>1. Accepts(i) => flit_rx[i] \in Flit /\ flit_rx[i].vc \in VCs
  BY DEF TypeOK, Accepts, FlitOrNone, Flit
<1>2. buffer'[i] = IF Accepts(i) THEN [buffer[i] EXCEPT ![flit_rx[i].vc] = Append(@, flit_rx[i])]
                   ELSE buffer[i]
  BY DEF Receive
<1>3. buffer[i] \in [VCs -> Seq(Flit)]
  BY DEF TypeOK
<1>4. flit_rx'[i] = IF Accepts(i) THEN NoFlit ELSE flit_rx[i]
  BY DEF Receive
<1> QED BY <1>1, <1>2, <1>3, <1>4

LEMMA ReceiveBasics == Basics /\ Receive => Basics'
<1> SUFFICES ASSUME Basics, Receive PROVE Basics'
  OBVIOUS
<1> USE DEF Basics
<1>1. pc[1] = "receive" /\ pc' = <<"clock", 0>> /\ free_slots' \in {free_slots, perCycleUpdate(buffer')}
  BY DEF Receive
<1>2. UNCHANGED <<rtable, start_from_port, start_from_vc, even, ack_delay, supplied, open>>
  BY DEF Receive, cycleVars
<1>3. InTable' /\ RT!TypeOK'
  BY <1>2, WellFormedTyped DEF InTable, RT!TypeOK
<1>4. InLoop'
  BY <1>1, PortsAssumption DEF InLoop
<1>5. ASSUME NEW i \in Ports, NEW vc \in VCs
      PROVE  /\ buffer'[i][vc] \in Seq(Flit)
             /\ Len(buffer[i][vc]) \in Nat /\ Len(buffer'[i][vc]) \in Nat
             /\ Len(buffer'[i][vc]) \in Len(buffer[i][vc]) .. Len(buffer[i][vc]) + 1
             /\ Len(buffer'[i][vc]) <= max_buffer_size
  <2>1. buffer[i][vc] \in Seq(Flit) /\ Len(buffer[i][vc]) \in Nat /\ Len(buffer[i][vc]) <= max_buffer_size
    BY LenProperties DEF TypeOK, InBuffer
  <2>2. CASE Accepts(i) /\ vc = flit_rx[i].vc
    <3>1. buffer'[i][vc] = Append(buffer[i][vc], flit_rx[i]) /\ flit_rx[i] \in Flit
      BY <2>2, ReceiveEffect
    <3>2. buffer'[i][vc] \in Seq(Flit) /\ Len(buffer'[i][vc]) = Len(buffer[i][vc]) + 1
      BY <2>1, <3>1, AppendProperties
    <3>3. Len(buffer[i][vc]) # max_buffer_size
      BY <2>2 DEF Accepts, IsFull
    <3> QED BY <2>1, <3>2, <3>3, DepthAssumption
  <2>3. CASE ~(Accepts(i) /\ vc = flit_rx[i].vc)
    BY <2>1, <2>3, ReceiveEffect
  <2> QED BY <2>2, <2>3
<1>6. InBuffer'
  BY <1>5 DEF InBuffer
<1>7. buffer' \in [Ports -> [VCs -> Seq(Flit)]]
  <2>1. \A i \in Ports : buffer'[i] = [vc \in VCs |-> buffer'[i][vc]]
    <3> SUFFICES ASSUME NEW i \in Ports PROVE buffer'[i] = [vc \in VCs |-> buffer'[i][vc]]
      OBVIOUS
    <3>1. buffer[i] \in [VCs -> Seq(Flit)]
      BY DEF TypeOK
    <3>2. \/ buffer'[i] = [buffer[i] EXCEPT ![flit_rx[i].vc] = Append(@, flit_rx[i])]
          \/ buffer'[i] = buffer[i]
      BY DEF Receive
    <3> QED BY <3>1, <3>2
  <2>2. buffer' = [i \in Ports |-> buffer'[i]]
    BY DEF Receive
  <2>3. \A i \in Ports : buffer'[i] \in [VCs -> Seq(Flit)]
    BY <1>5, <2>1
  <2> QED BY <2>2, <2>3
<1>8. free_slots' \in [Ports -> 0 .. max_buffer_size]
  <2>1. \A i \in Ports, vc \in VCs : Len(buffer'[i][vc]) \in 0 .. max_buffer_size
    BY <1>5, DepthAssumption
  <2>2. free_slots \in [Ports -> 0 .. max_buffer_size]
    BY DEF TypeOK
  <2>3. perCycleUpdate(buffer') \in [Ports -> 0 .. max_buffer_size]
    BY <2>1, <2>2, StatusTyped
  <2> QED BY <1>1, <2>2, <2>3
<1>9. flit_rx' \in [Ports -> FlitOrNone]
  BY DEF TypeOK, Receive, FlitOrNone
<1>10. TypeOK'
  BY <1>1, <1>2, <1>3, <1>7, <1>8, <1>9 DEF TypeOK
<1>11. StatusInLoop'
  <2> SUFFICES ASSUME selection_strategy # "RANDOM", NEW i \in Ports
               PROVE  RoomGained(i)' \in -1 .. 1
    BY <1>1 DEF StatusInLoop
  <2> DEFINE l == Len(buffer[i][DEFAULT_VC])
             k == Len(buffer'[i][DEFAULT_VC])
  <2>1. DEFAULT_VC \in VCs
    BY VCsAssumption DEF DEFAULT_VC, VCs
  <2>2. l \in Nat /\ k \in Nat /\ k \in l .. l + 1 /\ max_buffer_size \in Nat /\ free_slots[i] \in Nat
    BY <1>5, <2>1, DepthAssumption DEF TypeOK
  <2>3. max_buffer_size - l - free_slots[i] \in 0 .. 1
    BY <1>1 DEF StatusInLoop, RoomGained, CurrentFreeSlots
  <2>4. RoomGained(i)' = max_buffer_size - k - free_slots'[i]
    BY DEF RoomGained, CurrentFreeSlots
  <2>5. CASE free_slots' = free_slots
    <3>1. \A m, a, b, s \in Nat : m - a - s \in 0 .. 1 /\ b \in a .. a + 1 => m - b - s \in -1 .. 1
      OBVIOUS
    <3>2. RoomGained(i)' = max_buffer_size - k - free_slots[i]
      BY <2>4, <2>5
    <3> HIDE DEF l, k
    <3> QED BY <2>2, <2>3, <3>1, <3>2
  <2>6. CASE free_slots' = perCycleUpdate(buffer')
    <3>1. free_slots'[i] = max_buffer_size - k
      BY <2>6 DEF perCycleUpdate, CurrentFreeSlots
    <3> QED BY <2>2, <2>4, <3>1
  <2> QED BY <1>1, <2>5, <2>6
<1> QED BY <1>3, <1>4, <1>6, <1>10, <1>11

(* What the neighbour of input i may put on its wires.                     *)
LEMMA NextFlitsFollow ==
  ASSUME NEW i \in Ports, NEW vc \in VCs, NEW g \in Unfinished(i, vc) \cup {NoFlit},
         NEW f \in NextFlits(g, i, vc)
  PROVE  /\ f \in FlitsOf(i, vc) /\ f # NoFlit
         /\ Follows(g, f)
         /\ InProgress(f) \in Unfinished(i, vc) \cup {NoFlit}
<1>1. CASE g = NoFlit
  <2>1. f \in [from : {i}, vc : {vc}, dst : {d \in Dsts : <<i, vc, d>> \in Streams},
               sequence_no : {0}, sequence_length : Sizes]
    BY <1>1 DEF NextFlits
  <2>2. f.sequence_length \in Sizes /\ f.sequence_length \in Nat \ {0, 1}
    BY <2>1, SizesAssumption
  <2>3. f \in Flit
    BY <2>1 DEF Flit
  <2>4. f.from = i /\ f.vc = vc /\ f.sequence_no = 0 /\ f.sequence_no < f.sequence_length
    BY <2>1, <2>2
  <2> QED BY <1>1, <2>3, <2>4, NoFlitIsNone DEF FlitsOf, Follows, IsHead, InProgress, Unfinished
<1>2. CASE g # NoFlit
  <2>1. /\ g \in Flit /\ g.from = i /\ g.vc = vc /\ g.sequence_no < g.sequence_length
        /\ g.sequence_no # g.sequence_length - 1
    BY <1>2 DEF FlitsOf, IsTail, Unfinished
  <2>2. f = [g EXCEPT !.sequence_no = @ + 1]
    BY <1>2 DEF NextFlits
  <2>3. f \in Flit /\ f.from = i /\ f.vc = vc /\ f.sequence_no < f.sequence_length
    BY <2>1, <2>2, SizesAssumption DEF Flit
  <2> QED BY <1>2, <2>2, <2>3, NoFlitIsNone DEF FlitsOf, Follows, InProgress, Unfinished
<1> QED BY <1>1, <1>2

(* The clock edge, of one port.                                            *)
Supplies(i, vc, f) ==
  /\ f \in NextFlits(supplied[i][vc], i, vc)
  /\ flit_rx[i] = NoFlit
  /\ flit_rx' = [flit_rx EXCEPT ![i] = f]
  /\ supplied' = [supplied EXCEPT ![i][f.vc] = InProgress(f)]

LEMMA ClockEffect ==
  ASSUME TypeOK, InLoop, Clock
  PROVE  /\ pc[2] \in Ports
         /\ \/ UNCHANGED <<flit_rx, supplied>>
            \/ \E vc \in VCs, f \in Flit : Supplies(pc[2], vc, f)
<1>1. pc[2] \in Ports
  <2>1. pc[1] = "clock"
    BY DEF Clock
  <2>2. pc[2] \in Nat
    BY DEF TypeOK
  <2> QED BY <2>1, <2>2, PortsAssumption DEF InLoop, Ports
<1>2. ASSUME NEW vc \in VCs, NEW f \in NextFlits(supplied[pc[2]][vc], pc[2], vc)
      PROVE  f \in Flit
  <2>1. supplied[pc[2]][vc] \in Flit \cup {NoFlit}
    BY <1>1 DEF TypeOK, FlitOrNone
  <2>2. CASE supplied[pc[2]][vc] = NoFlit
    BY <1>1, <1>2, <2>2 DEF NextFlits, Flit
  <2>3. CASE supplied[pc[2]][vc] # NoFlit
    BY <1>2, <2>1, <2>3 DEF NextFlits, Flit
  <2> QED BY <2>2, <2>3
<1>3. CASE UNCHANGED <<flit_rx, supplied>>
  BY <1>1, <1>3
<1>4. CASE ~UNCHANGED <<flit_rx, supplied>>
  <2>1. PICK f \in Offers(pc[2]) :
          /\ flit_rx[pc[2]] = NoFlit
          /\ flit_rx' = [flit_rx EXCEPT ![pc[2]] = f]
          /\ supplied' = [supplied EXCEPT ![pc[2]][f.vc] = InProgress(f)]
    BY <1>4 DEF Clock, Arrive
  <2>2. PICK vc \in VCs : f \in NextFlits(supplied[pc[2]][vc], pc[2], vc)
    BY <2>1 DEF Offers
  <2> QED BY <1>1, <1>2, <2>1, <2>2 DEF Supplies
<1> QED BY <1>3, <1>4

LEMMA ClockBasics == Basics /\ Clock => Basics'
<1> SUFFICES ASSUME Basics, Clock PROVE Basics'
  OBVIOUS
<1> USE DEF Basics
<1> DEFINE i == pc[2]
<1>1. pc[1] = "clock" /\ i \in Ports /\ i \in Nat
  BY ClockEffect DEF Clock, Ports
<1>2. \/ /\ i = n_ports - 1 /\ pc' = <<"reserve", 0>> /\ even' = ~even
         /\ free_slots' = perCycleUpdate(buffer)
         /\ ack_delay' = [o \in Ports |-> IF ack_delay[o] = 0 THEN 0 ELSE ack_delay[o] - 1]
      \/ /\ i # n_ports - 1 /\ pc' = <<"clock", i + 1>>
         /\ UNCHANGED <<even, free_slots, ack_delay>>
  BY DEF Clock
<1>3. UNCHANGED <<buffer, rtable, start_from_port, start_from_vc, open>>
  BY DEF Clock
<1>4. InTable' /\ RT!TypeOK'
  BY <1>3, WellFormedTyped DEF InTable, RT!TypeOK
<1>5. InLoop' /\ pc' \in {"reserve", "forward", "receive", "clock"} \X Nat
  <2>1. n_ports * n_virtual_channels > 0
    <3>1. \A a, b \in Nat \ {0} : a * b > 0
      BY SMT
    <3> QED BY <3>1, PortsAssumption, VCsAssumption
  <2> QED BY <1>1, <1>2, <2>1, PortsAssumption DEF InLoop, Ports
<1>6. InBuffer' /\ \A j \in Ports, vc \in VCs : Len(buffer[j][vc]) \in 0 .. max_buffer_size
  BY <1>3, DepthAssumption, LenProperties DEF InBuffer, TypeOK
<1>7. free_slots' \in [Ports -> 0 .. max_buffer_size]
  <2>1. free_slots \in [Ports -> 0 .. max_buffer_size]
    BY DEF TypeOK
  <2>2. perCycleUpdate(buffer) \in [Ports -> 0 .. max_buffer_size]
    BY <1>6, <2>1, StatusTyped
  <2> QED BY <1>2, <2>1, <2>2
<1>8. ack_delay' \in [Ports -> 0 .. 2] /\ even' \in BOOLEAN
  <2>1. ack_delay \in [Ports -> 0 .. 2] /\ even \in BOOLEAN
    BY DEF TypeOK
  <2>2. [o \in Ports |-> IF ack_delay[o] = 0 THEN 0 ELSE ack_delay[o] - 1] \in [Ports -> 0 .. 2]
    BY <2>1
  <2> QED BY <1>2, <2>1, <2>2
<1>9. flit_rx' \in [Ports -> FlitOrNone] /\ supplied' \in [Ports -> [VCs -> FlitOrNone]]
  <2>1. CASE UNCHANGED <<flit_rx, supplied>>
    BY <2>1 DEF TypeOK
  <2>2. ASSUME NEW vc \in VCs, NEW f \in Flit, Supplies(i, vc, f)
        PROVE  flit_rx' \in [Ports -> FlitOrNone] /\ supplied' \in [Ports -> [VCs -> FlitOrNone]]
    <3>1. f \in FlitOrNone /\ InProgress(f) \in FlitOrNone /\ f.vc \in VCs
      BY DEF FlitOrNone, InProgress, Flit
    <3> QED BY <1>1, <2>2, <3>1 DEF TypeOK, Supplies
  <2> QED BY <2>1, <2>2, ClockEffect
<1>10. TypeOK'
  BY <1>3, <1>4, <1>5, <1>7, <1>8, <1>9 DEF TypeOK
<1>11. StatusInLoop'
  <2> SUFFICES ASSUME selection_strategy # "RANDOM", NEW j \in Ports
               PROVE  /\ RoomGained(j)' \in -1 .. 1
                      /\ i = n_ports - 1 => RoomGained(j)' = 0
    <3>1. CASE i = n_ports - 1
      <4>1. pc'[1] = "reserve"
        BY <1>2, <3>1
      <4> QED BY <3>1, <4>1 DEF StatusInLoop
    <3>2. CASE i # n_ports - 1
      <4>1. pc'[1] = "clock"
        BY <1>2, <3>2
      <4> QED BY <4>1 DEF StatusInLoop
    <3> QED BY <3>1, <3>2
  <2>1. DEFAULT_VC \in VCs
    BY VCsAssumption DEF DEFAULT_VC, VCs
  <2>2. CASE i = n_ports - 1
    <3>1. free_slots'[j] = max_buffer_size - Len(buffer[j][DEFAULT_VC])
      BY <1>2, <2>2 DEF perCycleUpdate, CurrentFreeSlots
    <3>2. max_buffer_size - Len(buffer[j][DEFAULT_VC]) \in Int
      BY <1>6, <2>1, DepthAssumption
    <3>3. RoomGained(j)' = 0
      BY <1>3, <3>1, <3>2 DEF RoomGained, CurrentFreeSlots
    <3> QED BY <3>3
  <2>3. CASE i # n_ports - 1
    <3>1. RoomGained(j)' = RoomGained(j)
      BY <1>2, <1>3, <2>3 DEF RoomGained, CurrentFreeSlots
    <3> QED BY <1>1, <2>3, <3>1 DEF StatusInLoop
  <2> QED BY <2>2, <2>3
<1> QED BY <1>4, <1>5, <1>6, <1>10, <1>11

LEMMA BasicsInit == Init => Basics
<1> SUFFICES ASSUME Init PROVE Basics
  OBVIOUS
<1> USE DEF Init
<1>1. InTable /\ RT!TypeOK
  BY TableAtStart, WellFormedTyped DEF InTable, RT!TypeOK
<1>2. n_ports * n_virtual_channels > 0
  <2>1. \A a, b \in Nat \ {0} : a * b > 0
    BY SMT
  <2> QED BY <2>1, PortsAssumption, VCsAssumption
<1>3. InLoop
  BY <1>2 DEF InLoop
<1>4. \A i \in Ports, vc \in VCs : buffer[i][vc] = <<>>
  OBVIOUS
<1>5. \A S : <<>> \in Seq(S) /\ Len(<<>>) = 0
  OBVIOUS
<1>6. InBuffer
  BY <1>4, <1>5, DepthAssumption DEF InBuffer
<1>7. StatusInLoop
  <2>1. DEFAULT_VC \in VCs
    BY VCsAssumption DEF DEFAULT_VC, VCs
  <2> QED BY <1>4, <1>5, <2>1, DepthAssumption DEF StatusInLoop, RoomGained, CurrentFreeSlots
<1>8. buffer \in [Ports -> [VCs -> Seq(Flit)]]
  BY <1>5
<1>9. start_from_vc \in [Ports -> VCs] /\ start_from_port \in Ports
  BY PortsAssumption, VCsAssumption DEF VCs
<1>10. TypeOK
  BY <1>1, <1>8, <1>9, DepthAssumption DEF TypeOK, FlitOrNone
<1> QED BY <1>1, <1>3, <1>6, <1>7, <1>10 DEF Basics

LEMMA BasicsNext == Basics /\ [Next]_vars => Basics'
<1> SUFFICES ASSUME Basics, UNCHANGED vars PROVE Basics'
  BY ReserveBasics, ForwardBasics, ReceiveBasics, ClockBasics DEF Next
<1>1. TypeOK'
  BY DEF Basics, vars, cycleVars, portVars, TypeOK, RT!TypeOK
<1> QED BY <1>1 DEF Basics, vars, cycleVars, portVars, InTable, InLoop, InBuffer, StatusInLoop,
                RoomGained, CurrentFreeSlots

LEMMA BasicsAlways == Spec => []Basics
BY BasicsInit, BasicsNext, PTL DEF Spec

-----------------------------------------------------------------------------
(***************************************************************************)
(* A router without relay destinations: packets.                           *)
(***************************************************************************)

(* Who holds a channel of an output has the packet that is open there.     *)
LEMMA OpenIsHolders ==
  ASSUME TypeOK, InTable, HeldExactly, NEW i \in Ports, NEW o \in Ports, NEW vc \in VCs,
         Reserved(i, vc, o), open[o][vc] # NoFlit
  PROVE  open[o][vc].from = i
<1>1. open[o][vc] \in Flit
  BY DEF TypeOK, FlitOrNone
<1>2. open[o][vc].from \in Ports /\ Reserved(open[o][vc].from, vc, o)
  BY <1>1 DEF HeldExactly, Flit
<1> QED BY <1>2, OneHolder

(* What an input holds an output for: the packet it has open, and that     *)
(* behind one output only; no packet, when it holds none there.            *)
LEMMA HeldForOpen ==
  ASSUME TypeOK, InTable, HeldExactly, NEW i \in Ports, NEW o \in Ports, NEW vc \in VCs,
         Reserved(i, vc, o), NEW g, LeftOpen(i, vc, g)
  PROVE  open[o][vc] = g
<1>1. \A p \in Ports : open[p][vc] # NoFlit /\ open[p][vc].from = i => p = o
  <2> SUFFICES ASSUME NEW p \in Ports, open[p][vc] # NoFlit, open[p][vc].from = i
               PROVE  p = o
    OBVIOUS
  <2>1. Reserved(i, vc, p)
    BY DEF HeldExactly
  <2> QED BY <2>1, OneOutput
<1>2. open[o][vc] # NoFlit => open[o][vc].from = i
  BY OpenIsHolders
<1>3. CASE g = NoFlit
  BY <1>2, <1>3 DEF LeftOpen
<1>4. CASE g # NoFlit
  BY <1>1, <1>4 DEF LeftOpen
<1> QED BY <1>3, <1>4

(* The flit at the front of a buffer with a reservation continues the      *)
(* packet that is open at the output, and may go there.                    *)
LEMMA NextToLeave ==
  ASSUME TypeOK, InTable, Packets, NEW i \in Ports, NEW o \in Ports, NEW vc \in VCs,
         Reserved(i, vc, o), buffer[i][vc] # <<>>
  PROVE  LET f == Head(buffer[i][vc])
         IN  /\ f \in FlitsOf(i, vc) /\ f \in Flit /\ f # NoFlit
             /\ Follows(open[o][vc], f)
             /\ CanRoute(f, o)
<1> USE DEF Packets
<1> DEFINE f == Head(buffer[i][vc])
<1>1. buffer[i][vc] \in Seq(FlitsOf(i, vc))
  BY DEF OwnFlits
<1>2. f \in FlitsOf(i, vc) /\ f \in Flit /\ f # NoFlit
  BY <1>1, HeadTailProperties, NoFlitIsNone DEF FlitsOf
<1>3. PICK g, last \in FlitOrNone : FlowsFrom(i, vc, g, last)
  BY DEF Flows
<1>4. open[o][vc] = g
  BY <1>3, HeldForOpen DEF FlowsFrom
<1>5. Follows(g, f)
  BY <1>1, <1>3, ChainedTail DEF FlowsFrom
<1>6. CanRoute(f, o)
  <2>1. CASE open[o][vc] = NoFlit
    BY <2>1 DEF Routed
  <2>2. CASE open[o][vc] # NoFlit
    <3>1. CanRoute(open[o][vc], o) /\ open[o][vc] \in Flit
      BY <2>2 DEF Routed, TypeOK, FlitOrNone
    <3>2. f = [open[o][vc] EXCEPT !.sequence_no = @ + 1]
      BY <1>4, <1>5, <2>2 DEF Follows
    <3>3. f.dst = open[o][vc].dst
      BY <3>1, <3>2 DEF Flit
    <3> QED BY <3>1, <3>3 DEF CanRoute
  <2> QED BY <2>1, <2>2
<1> QED BY <1>2, <1>4, <1>5, <1>6

LEMMA PacketsInit == Init => Packets
<1> SUFFICES ASSUME Init PROVE Packets
  OBVIOUS
<1> USE DEF Init
<1>1. \A i \in Ports, vc \in VCs : /\ buffer[i][vc] = <<>> /\ supplied[i][vc] = NoFlit
                                   /\ open[i][vc] = NoFlit /\ flit_rx[i] = NoFlit
  OBVIOUS
<1>2. \A i, o \in Ports, vc \in VCs : ~Reserved(i, vc, o)
  BY TableAtStart DEF Reserved
<1>3. OwnFlits
  BY <1>1 DEF OwnFlits
<1>4. HeldExactly /\ Routed
  BY <1>1, <1>2 DEF HeldExactly, Routed
<1>5. Flows
  <2>1. \A i \in Ports, vc \in VCs : FlowsFrom(i, vc, NoFlit, NoFlit)
    BY <1>1 DEF FlowsFrom, LeftOpen, Chained
  <2> QED BY <2>1 DEF Flows, FlitOrNone
<1> QED BY <1>3, <1>4, <1>5 DEF Packets

LEMMA ReservePackets ==
  ASSUME Relays = {}, Basics, Packets, Reserve
  PROVE  Packets'
<1> USE DEF Basics, Packets
<1> DEFINE n == pc[2]
<1>0. PICK i \in Ports, vc \in VCs :
        \/ HeadAtFront(i, vc) /\ ReserveFor(i, vc)
        \/ UNCHANGED <<buffer, rtable>>
  BY ExaminedOK DEF Reserve
<1>1. UNCHANGED <<flit_rx, supplied, open>>
  BY DEF Reserve, portVars
<1>2. CASE UNCHANGED <<buffer, rtable>>
  BY <1>1, <1>2 DEF OwnFlits, HeldExactly, Flows, FlowsFrom, LeftOpen, Routed, Reserved, HeadAtFront
<1>3. CASE HeadAtFront(i, vc) /\ ReserveFor(i, vc)
  <2> DEFINE f == Head(buffer[i][vc])
  <2>1. PICK o \in Select(Routes[f.dst]) :
          /\ buffer' = [buffer EXCEPT ![i][vc] = MarkRelay(@)]
          /\ rtable' = Ask([input |-> i, vc |-> vc], o)
    BY <1>3 DEF ReserveFor
  <2>2. buffer' = buffer
    BY <2>1 DEF MarkRelay, TypeOK
  <2>3. f \in Flit
    BY <1>3, HeadTailProperties DEF HeadAtFront, TypeOK
  <2>4. o \in Ports /\ CanRoute(f, o)
    BY <2>1, <2>3, RoutesAssumption DEF Select, CanRoute, Flit
  <2> DEFINE got == RT!checkReservation(rtable, [input |-> i, vc |-> vc], o) = "RT_AVAILABLE"
  <2> DEFINE t == Ask([input |-> i, vc |-> vc], o)
  <2>5. /\ \A j, p \in Ports, w \in VCs :
             Reserved(j, w, p)' <=> Reserved(j, w, p) \/ (got /\ j = i /\ w = vc /\ p = o)
        /\ got => \A j \in Ports : ~Reserved(j, vc, o)
    <3>1. /\ \A j, p \in Ports, w \in VCs :
               RT!Holds(t, [input |-> j, vc |-> w], p) <=>
                 Reserved(j, w, p) \/ (got /\ j = i /\ w = vc /\ p = o)
          /\ got => \A j \in Ports : ~Reserved(j, vc, o)
      BY <2>4, AskKeeps
    <3>2. rtable' = t
      BY <2>1
    <3> HIDE DEF t
    <3>3. \A j, p \in Ports, w \in VCs :
            Reserved(j, w, p)' <=> RT!Holds(t, [input |-> j, vc |-> w], p)
      BY <3>2 DEF Reserved, RT!Holds
    <3> QED BY <3>1, <3>3
  <2>6. got => open[o][vc] = NoFlit
    <3>1. open[o][vc] # NoFlit => open[o][vc].from \in Ports
      BY <2>4 DEF TypeOK, FlitOrNone, Flit
    <3> QED BY <2>4, <2>5, <3>1 DEF HeldExactly
  <2> HIDE DEF got
  <2>7. OwnFlits' /\ Flows'
    BY <1>1, <2>2 DEF OwnFlits, Flows, FlowsFrom, LeftOpen
  <2>8. HeldExactly'
    <3>1. ASSUME NEW p \in Ports, NEW w \in VCs, open'[p][w] # NoFlit
          PROVE  Reserved(open[p][w].from, w, p)'
      <4>1. PICK k \in Ports : k = open[p][w].from /\ Reserved(k, w, p)
        <5>1. open[p][w] \in Flit /\ open[p][w] # NoFlit
          BY <1>1, <3>1 DEF TypeOK, FlitOrNone
        <5>2. Reserved(open[p][w].from, w, p)
          BY <5>1 DEF HeldExactly
        <5> QED BY <5>1, <5>2 DEF Flit
      <4>2. Reserved(k, w, p)'
        BY <2>5, <4>1
      <4> QED BY <1>1, <4>1, <4>2 DEF Reserved, RT!Holds
    <3>2. ASSUME NEW j \in Ports, NEW p \in Ports, NEW w \in VCs, Reserved(j, w, p)'
          PROVE  open'[p][w] # NoFlit \/ HeadAtFront(j, w)'
      <4>1. open[p][w] # NoFlit \/ HeadAtFront(j, w)
        BY <1>3, <2>5, <3>2 DEF HeldExactly
      <4> QED BY <1>1, <2>2, <4>1 DEF HeadAtFront
    <3> QED BY <3>1, <3>2 DEF HeldExactly
  <2>9. Routed'
    <3> SUFFICES ASSUME NEW j \in Ports, NEW p \in Ports, NEW w \in VCs, Reserved(j, w, p)'
                 PROVE  CanRoute(IF open[p][w] # NoFlit THEN open[p][w] ELSE Head(buffer[j][w]), p)
      BY <1>1, <2>2 DEF Routed, CanRoute
    <3>1. CASE Reserved(j, w, p)
      BY <3>1 DEF Routed
    <3>2. CASE j = i /\ w = vc /\ p = o /\ got
      BY <2>4, <2>6, <3>2
    <3> QED BY <2>5, <3>1, <3>2
  <2> QED BY <2>7, <2>8, <2>9
<1> QED BY <1>0, <1>2, <1>3

(* A step that changes no output and no reservation, and adds flits behind *)
(* the ones in the buffers at most, leaves the reservations right.         *)
LEMMA BehindTheFront ==
  ASSUME HeldExactly, Routed, UNCHANGED <<rtable, open>>,
         \A i \in Ports, vc \in VCs : buffer[i][vc] # <<>> =>
           buffer'[i][vc] # <<>> /\ Head(buffer'[i][vc]) = Head(buffer[i][vc])
  PROVE  HeldExactly' /\ Routed'
<1>1. \A i, o \in Ports, vc \in VCs : Reserved(i, vc, o)' <=> Reserved(i, vc, o)
  BY DEF Reserved, RT!Holds
<1>2. \A i \in Ports, vc \in VCs : HeadAtFront(i, vc) => HeadAtFront(i, vc)'
  BY DEF HeadAtFront
<1>3. HeldExactly'
  BY <1>1, <1>2 DEF HeldExactly, Reserved, RT!Holds
<1>4. Routed'
  <2> SUFFICES ASSUME NEW i \in Ports, NEW o \in Ports, NEW vc \in VCs, Reserved(i, vc, o)
               PROVE  CanRoute(IF open[o][vc] # NoFlit THEN open[o][vc] ELSE Head(buffer'[i][vc]), o)
    BY <1>1 DEF Routed, CanRoute
  <2>1. open[o][vc] # NoFlit \/ buffer[i][vc] # <<>>
    BY DEF HeldExactly, HeadAtFront
  <2> QED BY <2>1 DEF Routed
<1> QED BY <1>3, <1>4

LEMMA ForwardPackets ==
  ASSUME Basics, Packets, Forward
  PROVE  Packets'
<1> USE DEF Basics
<1>0. PICK i \in Ports : i = pc[2]
  BY ForwardEffect
<1>1. UNCHANGED <<flit_rx, supplied>>
  BY DEF Forward
<1>2. CASE ForwardsNone
  <2>1. UNCHANGED <<buffer, open>>
    BY <1>2 DEF ForwardsNone
  <2>2. OwnFlits' /\ Flows'
    BY <1>1, <2>1 DEF Packets, OwnFlits, Flows, FlowsFrom, LeftOpen
  <2>3. HeldExactly'
    <3>1. \A p \in Ports, w \in VCs : open[p][w] # NoFlit => Reserved(open[p][w].from, w, p)'
      <4> SUFFICES ASSUME NEW p \in Ports, NEW w \in VCs, open[p][w] # NoFlit
                   PROVE  Reserved(open[p][w].from, w, p)'
        OBVIOUS
      <4>1. open[p][w] \in Flit /\ Reserved(open[p][w].from, w, p)
        BY DEF Packets, HeldExactly, TypeOK, FlitOrNone
      <4>2. PICK k \in Ports : k = open[p][w].from
        BY <4>1 DEF Flit
      <4>3. Reserved(k, w, p)'
        BY <1>2, <4>1, <4>2 DEF ForwardsNone
      <4> QED BY <2>1, <4>2, <4>3 DEF Reserved, RT!Holds
    <3>2. \A j, p \in Ports, w \in VCs : Reserved(j, w, p)' => open[p][w] # NoFlit \/ HeadAtFront(j, w)'
      BY <1>2, <2>1 DEF Packets, ForwardsNone, HeldExactly, HeadAtFront
    <3> QED BY <2>1, <3>1, <3>2 DEF HeldExactly, Reserved, RT!Holds
  <2>4. Routed'
    BY <1>2, <2>1 DEF Packets, ForwardsNone, Routed, CanRoute
  <2> QED BY <2>2, <2>3, <2>4 DEF Packets
<1>3. ASSUME NEW o \in Ports, NEW vc \in VCs, Forwards(i, o, vc) PROVE Packets'
  <2>1. Reserved(i, vc, o) /\ buffer[i][vc] # <<>>
    BY <1>3 DEF Forwards
  <2>0. PICK f \in Flit : f = Head(buffer[i][vc])
    BY <2>1, NextToLeave
  <2>2. /\ f \in FlitsOf(i, vc) /\ f \in Flit /\ f # NoFlit
        /\ Follows(open[o][vc], f) /\ CanRoute(f, o)
    BY <2>0, <2>1, NextToLeave
  <2>13. PICK ip \in FlitOrNone : ip = InProgress(f)
    BY <2>2 DEF InProgress, FlitOrNone
  <2>3. f.from = i /\ f.vc = vc
    BY <2>2 DEF FlitsOf
  <2>4. buffer[i][vc] \in Seq(FlitsOf(i, vc)) /\ Tail(buffer[i][vc]) \in Seq(FlitsOf(i, vc))
    BY <2>1, HeadTailProperties DEF Packets, OwnFlits
  <2>5. \A j \in Ports, w \in VCs :
          buffer'[j][w] = IF j = i /\ w = vc THEN Tail(buffer[i][vc]) ELSE buffer[j][w]
    <3>1. TypeOK /\ buffer' = [buffer EXCEPT ![i][vc] = Tail(buffer[i][vc])]
      BY <1>3 DEF Forwards, TypeOK
    <3>2. buffer \in [Ports -> [VCs -> Seq(Flit)]]
      BY DEF TypeOK
    <3> QED BY <3>1, <3>2
  <2>6. \A p \in Ports, w \in VCs :
          open'[p][w] = IF p = o /\ w = vc THEN ip ELSE open[p][w]
    BY <1>3, <2>0, <2>13 DEF Forwards, TypeOK
  <2>7. \A j, p \in Ports, w \in VCs :
          Reserved(j, w, p)' <=> Reserved(j, w, p) /\ ~(IsTail(f) /\ j = i /\ w = vc /\ p = o)
    BY <1>3, <2>0 DEF Forwards
  (* Who else could hold this channel of o, or another output for it.      *)
  <2>8. /\ \A j \in Ports : Reserved(j, vc, o) => j = i
        /\ \A p \in Ports : Reserved(i, vc, p) => p = o
        /\ \A p \in Ports : open[p][vc] # NoFlit /\ open[p][vc].from = i => p = o
        /\ open[o][vc] # NoFlit => open[o][vc].from = i
    <3>1. \A p \in Ports : open[p][vc] # NoFlit /\ open[p][vc].from = i => Reserved(i, vc, p)
      BY DEF Packets, HeldExactly
    <3> QED BY <2>1, <3>1, OneHolder, OneOutput, OpenIsHolders DEF Packets
  <2>9. OwnFlits'
    <3>1. ip # NoFlit => ip \in Unfinished(i, vc) /\ ip.from = i
      BY <2>2, <2>3, <2>13 DEF InProgress, Unfinished
    <3>2. \A p \in Ports, w \in VCs :
            open'[p][w] # NoFlit => open'[p][w] \in Unfinished(open'[p][w].from, w)
      BY <2>6, <3>1 DEF Packets, OwnFlits
    <3>3. \A j \in Ports, w \in VCs : buffer'[j][w] \in Seq(FlitsOf(j, w))
      BY <2>4, <2>5 DEF Packets, OwnFlits
    <3> QED BY <1>1, <3>2, <3>3 DEF Packets, OwnFlits
  <2>10. HeldExactly'
    <3>1. ASSUME NEW p \in Ports, NEW w \in VCs, open'[p][w] # NoFlit
          PROVE  Reserved(open[p][w].from, w, p)'
      <4>1. CASE p = o /\ w = vc
        <5>1. ~IsTail(f) /\ open'[p][w].from = i
          BY <2>3, <2>6, <2>13, <3>1, <4>1 DEF InProgress
        <5>2. Reserved(i, w, p)'
          BY <2>1, <2>7, <4>1, <5>1
        <5> QED BY <5>1, <5>2 DEF Reserved, RT!Holds
      <4>2. CASE ~(p = o /\ w = vc)
        <5>0. open'[p][w] = open[p][w] /\ open[p][w] # NoFlit
          BY <2>6, <3>1, <4>2
        <5>1. open'[p][w] = open[p][w] /\ open[p][w] \in Flit
          BY <5>0 DEF TypeOK, FlitOrNone
        <5>2. PICK k \in Ports : k = open[p][w].from
          BY <5>1 DEF Flit
        <5>3. Reserved(k, w, p)
          BY <3>1, <5>1, <5>2 DEF Packets, HeldExactly
        <5>4. Reserved(k, w, p)'
          BY <2>7, <4>2, <5>3
        <5> QED BY <5>1, <5>2, <5>4 DEF Reserved, RT!Holds
      <4> QED BY <4>1, <4>2
    <3>2. ASSUME NEW j \in Ports, NEW p \in Ports, NEW w \in VCs, Reserved(j, w, p)'
          PROVE  open'[p][w] # NoFlit \/ HeadAtFront(j, w)'
      <4>1. Reserved(j, w, p) /\ ~(IsTail(f) /\ j = i /\ w = vc /\ p = o)
        BY <2>7, <3>2
      <4>2. CASE p = o /\ w = vc
        BY <2>2, <2>6, <2>8, <2>13, <4>1, <4>2 DEF InProgress
      <4>3. CASE ~(p = o /\ w = vc)
        <5>1. ~(j = i /\ w = vc)
          BY <2>8, <4>1, <4>3
        <5>2. open[p][w] # NoFlit \/ HeadAtFront(j, w)
          BY <4>1 DEF Packets, HeldExactly
        <5> QED BY <2>5, <2>6, <4>3, <5>1, <5>2 DEF HeadAtFront
      <4> QED BY <4>2, <4>3
    <3> QED BY <3>1, <3>2 DEF HeldExactly
  <2>11. Routed'
    <3> SUFFICES ASSUME NEW j \in Ports, NEW p \in Ports, NEW w \in VCs, Reserved(j, w, p)'
                 PROVE  CanRoute(IF open'[p][w] # NoFlit THEN open'[p][w] ELSE Head(buffer'[j][w]), p)
      BY DEF Routed, CanRoute
    <3>1. Reserved(j, w, p) /\ ~(IsTail(f) /\ j = i /\ w = vc /\ p = o)
      BY <2>7
    <3>2. CASE p = o /\ w = vc
      BY <2>2, <2>6, <2>8, <2>13, <3>1, <3>2 DEF InProgress
    <3>3. CASE ~(p = o /\ w = vc)
      <4>1. ~(j = i /\ w = vc)
        BY <2>8, <3>1, <3>3
      <4> QED BY <2>5, <2>6, <3>1, <3>3, <4>1 DEF Packets, Routed
    <3> QED BY <3>2, <3>3
  <2>12. Flows'
    <3> SUFFICES ASSUME NEW j \in Ports, NEW w \in VCs
                 PROVE  \E g, last \in FlitOrNone : FlowsFrom(j, w, g, last)'
      BY DEF Flows
    <3>1. PICK g \in FlitOrNone, last \in FlitOrNone : FlowsFrom(j, w, g, last)
      BY DEF Packets, Flows
    <3>2. CASE j = i /\ w = vc
      <4>1. Chained(ip, Tail(buffer[i][vc]), last)
        BY <2>1, <2>4, <3>1, <3>2, ChainedTail, <2>0, <2>13 DEF FlowsFrom
      <4>2. LeftOpen(i, vc, ip)'
        <5>1. CASE IsTail(f)
          <6>1. \A p \in Ports : open'[p][vc] # NoFlit => open'[p][vc].from # i
            BY <2>6, <2>8, <2>13, <5>1 DEF InProgress
          <6> QED BY <2>13, <5>1, <6>1 DEF LeftOpen, InProgress
        <5>2. CASE ~IsTail(f)
          <6>1. open'[o][vc] = f
            BY <2>6, <2>13, <5>2 DEF InProgress
          <6> QED BY <2>2, <2>3, <2>13, <5>2, <6>1 DEF LeftOpen, InProgress
        <5> QED BY <5>1, <5>2
      <4>4. FlowsFrom(i, vc, ip, last)'
        BY <1>1, <2>5, <3>1, <3>2, <4>1, <4>2 DEF FlowsFrom
      <4> QED BY <3>2, <4>4
    <3>3. CASE ~(j = i /\ w = vc)
      <4>1. LeftOpen(j, w, g)'
        <5>1. CASE w # vc
          BY <2>6, <3>1, <5>1 DEF FlowsFrom, LeftOpen
        <5>2. CASE w = vc
          <6>1. j # i /\ LeftOpen(j, vc, g)
            BY <3>1, <3>3, <5>2 DEF FlowsFrom
          <6>2. ip # NoFlit => ip.from # j
            BY <2>3, <2>13, <6>1 DEF InProgress
          <6> QED BY <2>6, <2>8, <5>2, <6>1, <6>2 DEF LeftOpen
        <5> QED BY <5>1, <5>2
      <4>2. FlowsFrom(j, w, g, last)'
        BY <1>1, <2>5, <3>1, <3>3, <4>1 DEF FlowsFrom
      <4> QED BY <4>2
    <3> QED BY <3>2, <3>3
  <2> QED BY <2>9, <2>10, <2>11, <2>12 DEF Packets
<1> QED BY <1>0, <1>2, <1>3, ForwardEffect

LEMMA ReceivePackets ==
  ASSUME Basics, Packets, Receive
  PROVE  Packets'
<1> USE DEF Basics, Packets
<1>1. UNCHANGED <<rtable, supplied, open>>
  BY DEF Receive
<1>2. ASSUME NEW i \in Ports, NEW vc \in VCs
      PROVE  /\ buffer'[i][vc] \in Seq(FlitsOf(i, vc))
             /\ buffer[i][vc] # <<>> =>
                  buffer'[i][vc] # <<>> /\ Head(buffer'[i][vc]) = Head(buffer[i][vc])
             /\ \E g, last \in FlitOrNone : FlowsFrom(i, vc, g, last)'
  <2> DEFINE f == flit_rx[i]
             b == buffer[i][vc]
  <2>1. b \in Seq(FlitsOf(i, vc))
    BY DEF OwnFlits
  <2>2. PICK g \in FlitOrNone, last \in FlitOrNone : FlowsFrom(i, vc, g, last)
    BY DEF Flows
  <2>3. LeftOpen(i, vc, g)'
    BY <1>1, <2>2 DEF FlowsFrom, LeftOpen
  <2>4. CASE Accepts(i) /\ vc = f.vc
    <3>1. f \in FlitsOf(i, vc) /\ f \in Flit /\ f # NoFlit
      BY <2>4 DEF OwnFlits, Accepts, FlitsOf
    <3>2. buffer'[i][vc] = Append(b, f) /\ flit_rx'[i] = NoFlit
      BY <2>4, ReceiveEffect
    <3>3. /\ Append(b, f) \in Seq(FlitsOf(i, vc)) /\ Append(b, f) # <<>>
          /\ b # <<>> => Head(Append(b, f)) = Head(b)
      BY <2>1, <3>1, AppendProperties, HeadTailAppend
    <3>4. Chained(g, b, last) /\ Follows(last, f) /\ supplied[i][vc] = InProgress(f)
      BY <2>2, <2>4, <3>1 DEF FlowsFrom
    <3>5. Chained(g, Append(b, f), InProgress(f))
      BY <2>1, <3>1, <3>4, ChainedAppend
    <3>6. PICK ip \in FlitOrNone : ip = InProgress(f)
      BY <3>1 DEF InProgress, FlitOrNone
    <3>7. FlowsFrom(i, vc, g, ip)'
      BY <1>1, <2>3, <3>2, <3>4, <3>5, <3>6 DEF FlowsFrom
    <3> QED BY <3>2, <3>3, <3>7
  <2>5. CASE ~(Accepts(i) /\ vc = f.vc)
    <3>1. buffer'[i][vc] = b /\ flit_rx'[i] = IF Accepts(i) THEN NoFlit ELSE f
      BY <2>5, ReceiveEffect
    <3>2. FlowsFrom(i, vc, g, last)'
      BY <1>1, <2>2, <2>3, <2>5, <3>1 DEF FlowsFrom, Accepts
    <3> QED BY <2>1, <3>1, <3>2
  <2> QED BY <2>4, <2>5
<1>3. \A i \in Ports : flit_rx'[i] # NoFlit => flit_rx'[i] = flit_rx[i]
  BY ReceiveEffect
<1>4. OwnFlits'
  BY <1>1, <1>2, <1>3 DEF OwnFlits
<1>5. HeldExactly' /\ Routed'
  BY <1>1, <1>2, BehindTheFront
<1>6. Flows'
  BY <1>2 DEF Flows
<1> QED BY <1>4, <1>5, <1>6

LEMMA ClockPackets ==
  ASSUME Basics, Packets, Clock
  PROVE  Packets'
<1> USE DEF Basics, Packets
<1>1. UNCHANGED <<buffer, rtable, open>>
  BY DEF Clock
<1>2. HeldExactly' /\ Routed'
  BY <1>1, BehindTheFront
<1>3. CASE UNCHANGED <<flit_rx, supplied>>
  <2>1. OwnFlits' /\ Flows'
    BY <1>1, <1>3 DEF OwnFlits, Flows, FlowsFrom, LeftOpen
  <2> QED BY <1>2, <2>1
<1>4. ASSUME NEW k \in Ports, NEW w \in VCs, NEW f \in Flit, Supplies(k, w, f)
      PROVE  OwnFlits' /\ Flows'
  <2>1. PICK s \in FlitOrNone : s = supplied[k][w] /\ s \in Unfinished(k, w) \cup {NoFlit}
    BY DEF OwnFlits, TypeOK
  <2>2. /\ f \in FlitsOf(k, w) /\ f # NoFlit /\ f.vc = w
        /\ Follows(s, f)
        /\ InProgress(f) \in Unfinished(k, w) \cup {NoFlit}
    BY <1>4, <2>1, NextFlitsFollow DEF Supplies, FlitsOf
  <2>3. \A i \in Ports : flit_rx'[i] = IF i = k THEN f ELSE flit_rx[i]
    BY <1>4 DEF Supplies, TypeOK
  <2>4. \A i \in Ports, vc \in VCs :
          supplied'[i][vc] = IF i = k /\ vc = w THEN InProgress(f) ELSE supplied[i][vc]
    BY <1>4, <2>2 DEF Supplies, TypeOK
  <2>5. flit_rx[k] = NoFlit
    BY <1>4 DEF Supplies
  <2>6. OwnFlits'
    BY <1>1, <2>2, <2>3, <2>4 DEF OwnFlits
  <2>7. Flows'
    <3> SUFFICES ASSUME NEW i \in Ports, NEW vc \in VCs
                 PROVE  \E g, last \in FlitOrNone : FlowsFrom(i, vc, g, last)'
      BY DEF Flows
    <3>1. PICK g \in FlitOrNone, last \in FlitOrNone : FlowsFrom(i, vc, g, last)
      BY DEF Flows
    <3>2. LeftOpen(i, vc, g)' /\ Chained(g, buffer'[i][vc], last)
      BY <1>1, <3>1 DEF FlowsFrom, LeftOpen
    <3>3. CASE i = k /\ vc = w
      <4>1. last = s
        BY <2>1, <2>5, <3>1, <3>3 DEF FlowsFrom
      <4>2. FlowsFrom(i, vc, g, last)'
        BY <2>2, <2>3, <2>4, <3>2, <3>3, <4>1 DEF FlowsFrom
      <4> QED BY <4>2
    <3>4. CASE i = k /\ vc # w
      <4>1. supplied[i][vc] = last
        BY <2>5, <3>1, <3>4 DEF FlowsFrom
      <4>2. FlowsFrom(i, vc, g, last)'
        BY <2>2, <2>3, <2>4, <3>2, <3>4, <4>1 DEF FlowsFrom
      <4> QED BY <4>2
    <3>5. CASE i # k
      <4>1. FlowsFrom(i, vc, g, last)'
        BY <2>3, <2>4, <3>1, <3>2, <3>5 DEF FlowsFrom
      <4> QED BY <4>1
    <3> QED BY <3>3, <3>4, <3>5
  <2> QED BY <2>6, <2>7
<1> QED BY <1>2, <1>3, <1>4, ClockEffect

LEMMA PacketsNext ==
  ASSUME Relays = {}, Basics, Packets, [Next]_vars
  PROVE  Packets'
<1>1. CASE UNCHANGED vars
  BY <1>1 DEF Packets, vars, cycleVars, portVars, OwnFlits, HeldExactly, Flows, FlowsFrom,
              LeftOpen, Routed, Reserved, HeadAtFront
<1> QED BY <1>1, ReservePackets, ForwardPackets, ReceivePackets, ClockPackets DEF Next

LEMMA PacketsAlways == ASSUME Relays = {} PROVE Spec => [](Basics /\ Packets)
<1>1. Init => Basics /\ Packets
  BY BasicsInit, PacketsInit
<1>2. Basics /\ Packets /\ [Next]_vars => (Basics /\ Packets)'
  BY BasicsNext, PacketsNext
<1> QED BY <1>1, <1>2, PTL DEF Spec

-----------------------------------------------------------------------------
(***************************************************************************)
(* The theorems.                                                           *)
(***************************************************************************)

(* In every reachable state of every router the variables have their       *)
(* types: no buffer, table, index or counter leaves its range.             *)
THEOREM TypeCorrect == Spec => []TypeOK
<1>1. Basics => TypeOK
  BY DEF Basics
<1> QED BY <1>1, BasicsAlways, PTL

(* The free slots that the neighbours read of a buffer are never more than *)
(* one flit off between two edges, for any depth of the buffers and        *)
(* whichever process of the router runs first.                             *)
THEOREM StatusNear == Spec => []StatusAccurate
<1>1. Basics => StatusAccurate
  <2> SUFFICES ASSUME Basics, pc[1] = "clock", selection_strategy # "RANDOM", NEW i \in Ports
               PROVE  CurrentFreeSlots(buffer)[i] \in free_slots[i] - 1 .. free_slots[i] + 1
    BY DEF StatusAccurate
  <2>1. RoomGained(i) \in -1 .. 1
    BY DEF Basics, StatusInLoop
  <2>2. free_slots[i] \in Int
    BY DEF Basics, TypeOK
  <2>3. CurrentFreeSlots(buffer)[i] \in Int
    <3>1. DEFAULT_VC \in VCs
      BY VCsAssumption DEF DEFAULT_VC, VCs
    <3>2. Len(buffer[i][DEFAULT_VC]) \in Nat
      BY <3>1, LenProperties DEF Basics, TypeOK
    <3> QED BY <3>2, DepthAssumption DEF CurrentFreeSlots
  <2> QED BY <2>1, <2>2, <2>3 DEF RoomGained
<1> QED BY <1>1, BasicsAlways, PTL

(* Wormhole switching: packets never mix on a channel of an output, in any *)
(* router whose routing never answers with a relay hub.  With relays the   *)
(* head is put behind its own body, and this is false.                     *)
THEOREM PacketsStayTogether == ASSUME Relays = {} PROVE Spec => []Contiguous
<1>1. Basics /\ Packets => Contiguous
  BY NextToLeave DEF Contiguous, Basics
<1> QED BY <1>1, PacketsAlways, PTL

(* A flit leaves by an output that routing allows for its destination: no  *)
(* packet is carried away by the reservation of another one.               *)
THEOREM NobodyGoesAstray == ASSUME Relays = {} PROVE Spec => []RightOutput
<1>1. Basics /\ Packets => RightOutput
  BY NextToLeave DEF RightOutput, Basics
<1> QED BY <1>1, PacketsAlways, PTL

(* A packet holds its output from the moment its head leaves until its     *)
(* tail has left, and a reservation is never left behind.                  *)
THEOREM OutputsHeldExactly == ASSUME Relays = {} PROVE Spec => []HeldExactly
<1>1. Basics /\ Packets => HeldExactly
  BY DEF Packets
<1> QED BY <1>1, PacketsAlways, PTL

-----------------------------------------------------------------------------
(***************************************************************************)
(* No output stays idle: the rotation of the ports and channels skips      *)
(* nobody, and whoever asked has an output or met no free one.             *)
(***************************************************************************)
LEMMA Divides ==
  ASSUME NEW a \in Nat, NEW n \in Nat \ {0}
  PROVE  a = (a \div n) * n + (a % n) /\ a % n \in 0 .. n - 1 /\ a \div n \in Nat
BY SMT

LEMMA DivMod ==
  ASSUME NEW a \in Nat, NEW n \in Nat \ {0}, NEW q \in Nat, NEW r \in 0 .. n - 1, a = q * n + r
  PROVE  a \div n = q /\ a % n = r
<1>2. PICK d, m \in Nat : d = a \div n /\ m = a % n /\ m <= n - 1 /\ a = d * n + m
  BY Divides
<1>3. n * (q - d) = m - r
  BY <1>2
<1>4. \A x \in Int : (x >= 1 => n * x >= n) /\ (x <= -1 => n * x <= -n)
  BY SMT
<1>5. q = d
  BY <1>2, <1>3, <1>4
<1> QED BY <1>2, <1>5

(* Counting n steps on from a meets every residue.                         *)
LEMMA GoesRound ==
  ASSUME NEW a \in Nat, NEW n \in Nat \ {0}, NEW r \in 0 .. n - 1
  PROVE  \E e \in 0 .. n - 1 : (a + e) % n = r
<1>1. PICK q \in Nat, m \in 0 .. n - 1 : a = q * n + m
  BY Divides
<1>2. CASE m <= r
  <2>1. PICK e \in 0 .. n - 1 : e = r - m
    BY <1>2
  <2>2. a + e = q * n + r /\ a + e \in Nat
    BY <1>1, <2>1
  <2> QED BY <2>2, DivMod
<1>3. CASE m > r
  <2>1. PICK e \in 0 .. n - 1 : e = n + r - m
    BY <1>3
  <2>2. PICK p \in Nat : p = q + 1
    OBVIOUS
  <2>3. p * n = q * n + n
    BY <2>2, SMT
  <2>4. a + e = p * n + r /\ a + e \in Nat
    BY <1>1, <2>1, <2>3
  <2> QED BY <2>4, DivMod
<1> QED BY <1>2, <1>3

(* The head at the front of a buffer, if there is one, has one of the      *)
(* outputs it may take, or somebody has every one of them.                 *)
Served(i, vc) ==
  LET dirs == Routes[Head(buffer[i][vc]).dst]
  IN  HeadAtFront(i, vc) /\ HasNoChoiceToMake(dirs)
        => \/ \A o \in dirs : ~RT!isNotReserved(rtable, o)
           \/ \E o \in dirs : Reserved(i, vc, o)

(* The port that the d-th round of the loop looks at, and the channel that *)
(* its e-th iteration does when j rounds are over.                         *)
PortAfter(d) == (start_from_port + d) % n_ports
VcAfter(j, e) == (start_from_vc[PortAfter(j)] + (j * n_virtual_channels + e)) % n_virtual_channels

(* What the first phase has looked at: all channels of the ports that it   *)
(* is done with, and some of the port that it is at.                       *)
LookedAt(i, vc) ==
  LET j == pc[2] \div n_virtual_channels
      k == pc[2] % n_virtual_channels
  IN  \/ \E d \in 0 .. j - 1 : i = PortAfter(d)
      \/ i = PortAfter(j) /\ \E e \in 0 .. k - 1 : vc = VcAfter(j, e)

ServedSoFar ==
  \A i \in Ports, vc \in VCs :
    \/ pc[1] = "reserve" /\ LookedAt(i, vc)
    \/ pc = <<"forward", 0>>
    => Served(i, vc)

LEMMA NotReservedMeans ==
  ASSUME NEW t, RTP!WellFormed(t), NEW o \in Ports
  PROVE  RT!isNotReserved(t, o) <=>
           \A i \in Ports, vc \in VCs : ~RT!Holds(t, [input |-> i, vc |-> vc], o)
<1>1. t[o].reservations \in Seq(RTP!TReservation)
  BY DEF RTP!WellFormed, RTP!Typed, RTP!RTEntry
<1>2. CASE t[o].reservations = <<>>
  BY <1>2 DEF RT!isNotReserved, RT!Holds
<1>3. CASE t[o].reservations # <<>>
  <2>1. 1 \in 1 .. Len(t[o].reservations) /\ t[o].reservations[1] \in RTP!TReservation
    BY <1>1, <1>3, EmptySeq, LenProperties
  <2>2. PICK i \in Ports, vc \in VCs : t[o].reservations[1] = [input |-> i, vc |-> vc]
    BY <2>1 DEF RTP!TReservation
  <2> QED BY <1>3, <2>1, <2>2 DEF RT!isNotReserved, RT!Holds
<1> QED BY <1>2, <1>3

(* Whoever asks is served.                                                 *)
LEMMA AskServes ==
  ASSUME Basics, Packets, NEW i \in Ports, NEW vc \in VCs, HeadAtFront(i, vc),
         NEW o \in Select(Routes[Head(buffer[i][vc]).dst]),
         rtable' = Ask([input |-> i, vc |-> vc], o), buffer' = buffer
  PROVE  /\ Served(i, vc)'
         /\ \A j \in Ports, w \in VCs : Served(j, w) => Served(j, w)'
<1> USE DEF Basics, Packets
<1> DEFINE r == [input |-> i, vc |-> vc]
           f == Head(buffer[i][vc])
<1>0. PICK answer : answer = RT!checkReservation(rtable, r, o)
  OBVIOUS
<1>1. PICK dirs \in SUBSET Ports : dirs = Routes[f.dst] /\ o \in dirs
  <2>1. f \in Flit
    BY HeadTailProperties DEF HeadAtFront, TypeOK
  <2> QED BY <2>1, RoutesAssumption DEF Flit, Select
<1>2. /\ RTP!WellFormed(rtable')
      /\ \A j, p \in Ports, w \in VCs :
           Reserved(j, w, p)' <=> Reserved(j, w, p) \/ (answer = "RT_AVAILABLE" /\ j = i /\ w = vc /\ p = o)
  <2>1. PICK t : t = Ask(r, o)
    OBVIOUS
  <2>2. /\ RTP!WellFormed(t)
        /\ \A j, p \in Ports, w \in VCs :
             RT!Holds(t, [input |-> j, vc |-> w], p) <=>
               Reserved(j, w, p) \/ (answer = "RT_AVAILABLE" /\ j = i /\ w = vc /\ p = o)
    BY <1>0, <1>1, <2>1, AskKeeps
  <2>3. \A j, p \in Ports, w \in VCs :
          Reserved(j, w, p)' <=> RT!Holds(t, [input |-> j, vc |-> w], p)
    BY <2>1 DEF Reserved, RT!Holds
  <2> QED BY <2>1, <2>2, <2>3
<1>3. /\ \A p \in Ports : RT!isNotReserved(rtable, p) <=> \A j \in Ports, w \in VCs : ~Reserved(j, w, p)
      /\ \A p \in Ports : RT!isNotReserved(rtable', p) <=> \A j \in Ports, w \in VCs : ~Reserved(j, w, p)'
  <2>1. PICK t : t = rtable' /\ RTP!WellFormed(t)
    BY <1>2
  <2>2. \A j, p \in Ports, w \in VCs :
          Reserved(j, w, p)' <=> RT!Holds(t, [input |-> j, vc |-> w], p)
    BY <2>1 DEF Reserved, RT!Holds
  <2>3. \A p \in Ports : RT!isNotReserved(t, p) <=> \A j \in Ports, w \in VCs : ~Reserved(j, w, p)'
    BY <2>1, <2>2, NotReservedMeans
  <2>4. \A p \in Ports : RT!isNotReserved(rtable, p) <=> \A j \in Ports, w \in VCs : ~Reserved(j, w, p)
    BY NotReservedMeans DEF InTable, Reserved
  <2> QED BY <2>1, <2>3, <2>4
<1>4. \A p \in Ports : RT!isNotReserved(rtable', p) => RT!isNotReserved(rtable, p)
  BY <1>2, <1>3
<1>5. ASSUME NEW j \in Ports, NEW w \in VCs, Served(j, w) PROVE Served(j, w)'
  <2> SUFFICES ASSUME HeadAtFront(j, w), HasNoChoiceToMake(Routes[Head(buffer[j][w]).dst])
               PROVE  \/ \A p \in Routes[Head(buffer[j][w]).dst] : ~RT!isNotReserved(rtable', p)
                      \/ \E p \in Routes[Head(buffer[j][w]).dst] : Reserved(j, w, p)'
    BY DEF Served, HeadAtFront, HasNoChoiceToMake
  <2>1. Routes[Head(buffer[j][w]).dst] \subseteq Ports
    <3>1. Head(buffer[j][w]) \in Flit
      BY HeadTailProperties DEF HeadAtFront, TypeOK
    <3> QED BY <3>1, RoutesAssumption DEF Flit
  <2> QED BY <1>2, <1>4, <1>5, <2>1 DEF Served
<1>6. ASSUME HasNoChoiceToMake(dirs)
      PROVE  \/ \A p \in dirs : ~RT!isNotReserved(rtable', p)
             \/ \E p \in dirs : Reserved(i, vc, p)'
  <2>1. CASE answer = "RT_AVAILABLE"
    BY <1>1, <1>2, <2>1
  <2>2. CASE \E p \in Ports : Reserved(i, vc, p)
    <3>1. PICK p \in Ports : Reserved(i, vc, p)
      BY <2>2
    <3>2. p \in dirs
      BY <1>1, <3>1, NextToLeave DEF HeadAtFront, CanRoute
    <3> QED BY <1>2, <3>1, <3>2
  <2>3. CASE answer # "RT_AVAILABLE" /\ \A p \in Ports : ~Reserved(i, vc, p)
    <3>1. ~RT!isNotReserved(rtable, o)
      <4>1. \E k \in 1 .. Len(rtable[o].reservations) : TRUE
        BY <1>0, <1>1, <2>3 DEF RT!checkReservation, Reserved
      <4>2. rtable[o].reservations # <<>>
        BY <4>1
      <4> QED BY <4>2 DEF RT!isNotReserved
    <3>2. CASE selection_strategy = "BUFFER_LEVEL"
      <4>1. {p \in dirs : RT!isNotReserved(rtable, p)} = {}
        BY <1>1, <3>1, <3>2 DEF Select
      <4> QED BY <1>4, <4>1
    <3>3. CASE Cardinality(dirs) = 1
      <4>1. IsFiniteSet(Ports)
        BY PortsAssumption, FS_Interval DEF Ports
      <4>2. IsFiniteSet(dirs)
        BY <4>1, FS_Subset
      <4>3. dirs = {o}
        BY <1>1, <3>3, <4>2, FS_Singleton
      <4> QED BY <1>1, <1>4, <3>1, <4>3
    <3> QED BY <1>6, <3>2, <3>3 DEF HasNoChoiceToMake
  <2> QED BY <2>1, <2>2, <2>3
<1>7. Served(i, vc)'
  BY <1>1, <1>6 DEF Served
<1> QED BY <1>5, <1>7

(* Every iteration looks at one input and channel more, and the last one   *)
(* at the last that is left.                                               *)
LEMMA LooksOn ==
  ASSUME TypeOK, pc[1] = "reserve", NEW i \in Ports, NEW vc \in VCs,
         i = ExaminedInput(pc[2]), vc = ExaminedVc(pc[2]), EndReserve(pc[2], i),
         NEW h \in Ports, NEW w \in VCs,
         (pc'[1] = "reserve" /\ LookedAt(h, w)') \/ pc' = <<"forward", 0>>
  PROVE  LookedAt(h, w) \/ (h = i /\ w = vc)
<1> DEFINE P == n_ports
           V == n_virtual_channels
<1>1. PICK n \in Nat : n = pc[2]
  BY DEF TypeOK
<1>2. /\ V \in Nat \ {0} /\ P \in Nat \ {0}
      /\ start_from_port \in Nat /\ start_from_vc[i] \in Nat
  BY PortsAssumption, VCsAssumption DEF TypeOK, Ports, VCs
<1>3. PICK j \in Nat, k \in 0 .. V - 1 : n = j * V + k /\ j = n \div V /\ k = n % V
  BY <1>2, Divides
<1>4. j * V \in Nat /\ k \in Nat
  BY <1>2, <1>3, SMT
<1>5. \A m \in Nat : \A d \in 0 .. m : d \in 0 .. m - 1 \/ d = m
  OBVIOUS
<1>6. i = PortAfter(j) /\ vc = VcAfter(j, k)
  BY <1>1, <1>3 DEF ExaminedInput, ExaminedVc, PortAfter, VcAfter
<1>7. LookedAt(h, w) <=> \/ \E d \in 0 .. j - 1 : h = PortAfter(d)
                         \/ h = i /\ \E e \in 0 .. k - 1 : w = VcAfter(j, e)
  BY <1>1, <1>3, <1>6 DEF LookedAt
(* When this is the last channel of the port, there is none left of it.    *)
<1>8. k = V - 1 /\ h = i => LookedAt(h, w) \/ w = vc
  <2> SUFFICES ASSUME k = V - 1, h = i PROVE \E e \in 0 .. k : w = VcAfter(j, e)
    BY <1>4, <1>6, <1>7, <1>5
  <2>1. PICK a \in Nat : a = start_from_vc[i] + j * V
    BY <1>2, <1>4
  <2>2. PICK e \in 0 .. V - 1 : (a + e) % V = w
    BY <1>2, GoesRound DEF VCs
  <2>3. a + e = start_from_vc[i] + (j * V + e)
    BY <1>2, <1>4, <2>1
  <2> QED BY <1>3, <1>6, <2>2, <2>3 DEF VcAfter
<1>9. CASE n # P * V - 1
  <2>1. pc' = <<"reserve", n + 1>> /\ start_from_port' = start_from_port
    BY <1>1, <1>9 DEF EndReserve
  <2>2. LookedAt(h, w)'
    BY <2>1
  <2>3. CASE k # V - 1
    <3>1. n + 1 = j * V + (k + 1) /\ k + 1 \in 0 .. V - 1 /\ n + 1 \in Nat
      BY <1>2, <1>3, <1>4, <2>3
    <3>2. (n + 1) \div V = j /\ (n + 1) % V = k + 1
      BY <1>2, <3>1, DivMod
    <3>3. start_from_vc' = start_from_vc
      BY <1>1, <1>3, <2>3 DEF EndReserve
    <3>4. \/ \E d \in 0 .. j - 1 : h = PortAfter(d)
          \/ h = i /\ \E e \in 0 .. k : w = VcAfter(j, e)
      BY <1>6, <2>1, <2>2, <3>2, <3>3 DEF LookedAt, PortAfter, VcAfter
    <3> QED BY <1>3, <1>6, <1>7, <3>4
  <2>4. CASE k = V - 1
    <3>1. PICK l \in Nat : l = j + 1
      OBVIOUS
    <3>2. l * V = j * V + V
      BY <1>2, <3>1, SMT
    <3>3. n + 1 = l * V + 0 /\ n + 1 \in Nat /\ 0 \in 0 .. V - 1
      BY <1>2, <1>3, <1>4, <2>4, <3>2
    <3>4. (n + 1) \div V = l /\ (n + 1) % V = 0
      BY <1>2, <3>3, DivMod
    <3>5. \E d \in 0 .. j : h = PortAfter(d)
      BY <2>1, <2>2, <3>1, <3>4 DEF LookedAt, PortAfter
    <3> QED BY <1>6, <1>7, <1>8, <1>5, <2>4, <3>5
  <2> QED BY <2>3, <2>4
<1>10. CASE n = P * V - 1
  <2>1. PICK l \in Nat : l = P - 1
    BY <1>2
  <2>2. l * V = P * V - V /\ P * V \in Nat
    BY <1>2, <2>1, SMT
  <2>3. PICK m \in 0 .. V - 1 : m = V - 1 /\ n = l * V + m
    BY <1>2, <1>10, <2>2
  <2>4. j = l /\ k = V - 1
    <3>1. n \div V = l /\ n % V = m
      BY <1>2, <2>3, DivMod
    <3> QED BY <1>3, <2>3, <3>1
  <2>5. PICK d \in 0 .. P - 1 : (start_from_port + d) % P = h
    <3>1. start_from_port \in Nat /\ P \in Nat \ {0} /\ h \in 0 .. P - 1
      BY <1>2 DEF Ports
    <3> HIDE DEF P
    <3> QED BY <3>1, GoesRound
  <2>6. d \in 0 .. j /\ h = PortAfter(d)
    BY <2>1, <2>4, <2>5 DEF PortAfter
  <2> QED BY <1>6, <1>7, <1>8, <1>5, <2>4, <2>6
<1> QED BY <1>9, <1>10

LEMMA ReserveServes ==
  ASSUME Relays = {}, Basics, Packets, ServedSoFar, Reserve
  PROVE  ServedSoFar'
<1> USE DEF Basics
<1>1. PICK i \in Ports, vc \in VCs :
        /\ i = ExaminedInput(pc[2]) /\ vc = ExaminedVc(pc[2])
        /\ \/ HeadAtFront(i, vc) /\ ReserveFor(i, vc)
           \/ ~HeadAtFront(i, vc) /\ UNCHANGED <<buffer, rtable>>
        /\ EndReserve(pc[2], i)
  BY ExaminedOK DEF Reserve
<1>2. /\ Served(i, vc)'
      /\ \A h \in Ports, w \in VCs : Served(h, w) => Served(h, w)'
  <2>1. CASE HeadAtFront(i, vc) /\ ReserveFor(i, vc)
    <3>1. PICK o \in Select(Routes[Head(buffer[i][vc]).dst]) :
            /\ buffer' = [buffer EXCEPT ![i][vc] = MarkRelay(@)]
            /\ rtable' = Ask([input |-> i, vc |-> vc], o)
      BY <2>1 DEF ReserveFor
    <3>2. buffer' = buffer
      BY <3>1 DEF MarkRelay, TypeOK
    <3> QED BY <2>1, <3>1, <3>2, AskServes
  <2>2. CASE ~HeadAtFront(i, vc) /\ UNCHANGED <<buffer, rtable>>
    BY <2>2 DEF Served, HeadAtFront, Reserved, HasNoChoiceToMake
  <2> QED BY <1>1, <2>1, <2>2
<1>3. pc[1] = "reserve"
  BY DEF Reserve
<1>4. ASSUME NEW h \in Ports, NEW w \in VCs,
             (pc'[1] = "reserve" /\ LookedAt(h, w)') \/ pc' = <<"forward", 0>>
      PROVE  Served(h, w)'
  <2>1. LookedAt(h, w) \/ (h = i /\ w = vc)
    BY <1>1, <1>3, <1>4, LooksOn
  <2> QED BY <1>2, <1>3, <2>1 DEF ServedSoFar
<1> QED BY <1>4 DEF ServedSoFar

LEMMA ServedInit == Init => ServedSoFar
<1>1. 0 \div n_virtual_channels = 0 /\ 0 % n_virtual_channels = 0
  BY VCsAssumption, SMT
<1> SUFFICES ASSUME Init PROVE ServedSoFar
  OBVIOUS
<1>2. pc[1] = "reserve" /\ pc[2] = 0 /\ pc # <<"forward", 0>>
  BY DEF Init
<1>3. \A i \in Ports, vc \in VCs : ~LookedAt(i, vc)
  BY <1>1, <1>2 DEF LookedAt
<1> QED BY <1>2, <1>3 DEF ServedSoFar

LEMMA ServedNext ==
  ASSUME Relays = {}, Basics, Packets, ServedSoFar, [Next]_vars
  PROVE  ServedSoFar'
<1>1. CASE UNCHANGED vars
  BY <1>1 DEF vars, cycleVars, portVars, ServedSoFar, LookedAt, PortAfter, VcAfter,
              Served, HeadAtFront, Reserved, HasNoChoiceToMake
<1>2. 0 \div n_virtual_channels = 0 /\ 0 % n_virtual_channels = 0
  BY VCsAssumption, SMT
<1>3. CASE Forward
  <2>1. pc' = IF pc[2] = n_ports - 1 THEN <<"receive", 0>> ELSE <<"forward", pc[2] + 1>>
    BY <1>3, ForwardEffect DEF Basics
  <2>2. pc[2] \in Nat
    BY DEF Basics, TypeOK
  <2>3. pc'[1] # "reserve" /\ pc' # <<"forward", 0>>
    BY <2>1, <2>2
  <2> QED BY <2>3 DEF ServedSoFar
<1>4. CASE Receive
  BY <1>4 DEF Receive, ServedSoFar
<1>5. CASE Clock
  <2>1. pc' = <<"reserve", 0>> \/ (pc'[1] = "clock" /\ pc' # <<"forward", 0>>)
    BY <1>5 DEF Clock
  <2> QED BY <1>2, <2>1 DEF ServedSoFar, LookedAt
<1> QED BY <1>1, <1>3, <1>4, <1>5, ReserveServes DEF Next

(* When all inputs have been asked, no head waits while nobody has an      *)
(* output it could take, for any number of ports and channels and from     *)
(* wherever the rotations start.                                           *)
THEOREM NobodyIsSkipped == ASSUME Relays = {} PROVE Spec => []NoIdleOutput
<1>1. Init => Basics /\ Packets /\ ServedSoFar
  BY BasicsInit, PacketsInit, ServedInit
<1>2. Basics /\ Packets /\ ServedSoFar /\ [Next]_vars => (Basics /\ Packets /\ ServedSoFar)'
  BY BasicsNext, PacketsNext, ServedNext
<1>3. ServedSoFar => NoIdleOutput
  <2>1. \A s \in Streams : s[1] \in Ports /\ s[2] \in VCs
    BY StreamAssumption
  <2> QED BY <2>1 DEF ServedSoFar, NoIdleOutput, Served
<1> QED BY <1>1, <1>2, <1>3, PTL DEF Spec

=============================================================================
