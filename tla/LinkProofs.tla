----------------------------- MODULE LinkProofs -----------------------------
(***************************************************************************)
(* Theorems about Link, for any set of channels, any buffer depth and any  *)
(* number of flits, on links with and without the mask.                    *)
(***************************************************************************)
EXTENDS Link, TLAPS, SequenceTheorems

(* Between two edges the signals show the levels of the two sides, and the *)
(* mask the buffers.                                                       *)
SignalsFresh ==
  /\ req = current_level_tx
  /\ ack = current_level_rx
  /\ \A v \in VCs : mask[v] = IsFull(buffer[v])

IInv == TypeOK /\ SignalsFresh /\ DepthRespected /\ NoOverflow /\ InOrder

(* The flit of channel v on the wires, if there is one.                    *)
Wires(v) == IF InFlight /\ flit.vc = v THEN <<flit.no>> ELSE <<>>

(* The step in which the sender puts a flit on the channels in put and the *)
(* receiver's router takes one from the channels in get.                   *)
Moves(put, get) ==
  /\ \/ put = {} /\ Hold
     \/ \E v \in VCs : put = {v} /\ Forward(v)
  /\ \A v \in get : buffer[v] # <<>>
  /\ Receive([v \in VCs |-> IF v \in get THEN Tail(buffer[v]) ELSE buffer[v]])

LEMMA EdgeMoves ==
  ASSUME TypeOK, Edge
  PROVE  \E put, get \in Pipe!AtMostOne : Moves(put, get)
<1>1. PICK put \in Pipe!AtMostOne : \/ put = {} /\ Hold
                                    \/ \E v \in VCs : put = {v} /\ Forward(v)
  BY DEF Edge, Pipe!AtMostOne
<1>2. PICK b \in Drained : Receive(b)
  BY DEF Edge
<1>3. CASE b = buffer
  <2>1. b = [v \in VCs |-> IF v \in {} THEN Tail(buffer[v]) ELSE buffer[v]]
    BY <1>3 DEF TypeOK
  <2>2. Moves(put, {})
    BY <1>1, <1>2, <2>1 DEF Moves
  <2>3. {} \in Pipe!AtMostOne
    BY DEF Pipe!AtMostOne
  <2> QED BY <2>2, <2>3
<1>4. ASSUME NEW w \in VCs, buffer[w] # <<>>, b = [buffer EXCEPT ![w] = Tail(@)]
      PROVE  \E x, get \in Pipe!AtMostOne : Moves(x, get)
  <2>1. b = [v \in VCs |-> IF v \in {w} THEN Tail(buffer[v]) ELSE buffer[v]]
    BY <1>4 DEF TypeOK
  <2>2. {w} \in Pipe!AtMostOne
    BY DEF Pipe!AtMostOne
  <2> QED BY <1>1, <1>2, <1>4, <2>1, <2>2 DEF Moves
<1> QED BY <1>2, <1>3, <1>4 DEF Drained

LEMMA TailOfConcat ==
  ASSUME NEW S, NEW s \in Seq(S), NEW t \in Seq(S), s # <<>>
  PROVE  Tail(s \o t) = Tail(s) \o t
<1>1. /\ s \o t \in Seq(S)
      /\ Len(s \o t) = Len(s) + Len(t)
      /\ \A i \in 1 .. Len(s) + Len(t) :
           (s \o t)[i] = IF i <= Len(s) THEN s[i] ELSE t[i - Len(s)]
  BY ConcatProperties
<1>2. Len(s) \in Nat /\ Len(t) \in Nat /\ Len(s) >= 1
  BY EmptySeq
<1>3. s \o t # <<>>
  BY ConcatEqualIffEmpty
<1>4. /\ Tail(s \o t) \in Seq(S)
      /\ Len(Tail(s \o t)) = Len(s) + Len(t) - 1
      /\ \A i \in 1 .. Len(s) + Len(t) - 1 : Tail(s \o t)[i] = (s \o t)[i + 1]
  BY <1>1, <1>2, <1>3, HeadTailProperties
<1>5. /\ Tail(s) \in Seq(S) /\ Len(Tail(s)) = Len(s) - 1
      /\ \A i \in 1 .. Len(s) - 1 : Tail(s)[i] = s[i + 1]
  BY <1>2, HeadTailProperties
<1>6. /\ Tail(s) \o t \in Seq(S)
      /\ Len(Tail(s) \o t) = Len(s) - 1 + Len(t)
      /\ \A i \in 1 .. Len(s) - 1 + Len(t) :
           (Tail(s) \o t)[i] = IF i <= Len(s) - 1 THEN Tail(s)[i] ELSE t[i - (Len(s) - 1)]
  BY <1>5, ConcatProperties
<1>7. ASSUME NEW i \in 1 .. Len(s) + Len(t) - 1
      PROVE  Tail(s \o t)[i] = (Tail(s) \o t)[i]
  <2>1. Tail(s \o t)[i] = IF i + 1 <= Len(s) THEN s[i + 1] ELSE t[i + 1 - Len(s)]
    BY <1>1, <1>2, <1>4
  <2>2. (Tail(s) \o t)[i] = IF i <= Len(s) - 1 THEN s[i + 1] ELSE t[i - (Len(s) - 1)]
    BY <1>2, <1>5, <1>6
  <2>3. i + 1 - Len(s) = i - (Len(s) - 1)
    BY <1>2
  <2> QED BY <1>2, <2>1, <2>2, <2>3
<1>8. Len(Tail(s \o t)) = Len(Tail(s) \o t)
  BY <1>2, <1>4, <1>6
<1> QED BY <1>4, <1>6, <1>7, <1>8, SeqEqual

(* What is pending after a step: the front flits in get are gone, the ones *)
(* in put are appended, and nothing else has changed.                      *)
LEMMA PendingStep ==
  ASSUME IInv, NEW put \in Pipe!AtMostOne, NEW get \in Pipe!AtMostOne,
         Moves(put, get), NEW v \in VCs
  PROVE  LET left == IF v \in get THEN Tail(Pending(v)) ELSE Pending(v)
         IN  /\ v \in get => Pending(v) # <<>>
             /\ Pending(v)' = IF v \in put THEN Append(left, sent[v]) ELSE left
<1> USE DEF IInv
<1> DEFINE b == [w \in VCs |-> IF w \in get THEN Tail(buffer[w]) ELSE buffer[w]]
           left == IF v \in get THEN Tail(Pending(v)) ELSE Pending(v)
<1>1. /\ buffer[v] \in Seq(Nat) /\ flit \in Flit /\ flit.vc \in VCs /\ flit.no \in Nat
      /\ sent[v] \in Nat
  BY DEF TypeOK, Flit
<1>2. Wires(v) \in Seq(Nat)
  BY <1>1 DEF Wires
<1>3. Pending(v) = buffer[v] \o Wires(v)
  BY DEF Pending, Wires
<1>4. b[v] \in Seq(Nat) /\ left = b[v] \o Wires(v) /\ (v \in get => Pending(v) # <<>>)
  <2>1. CASE v \notin get
    BY <1>1, <1>3, <2>1
  <2>2. CASE v \in get
    <3>1. buffer[v] # <<>>
      BY <2>2 DEF Moves
    <3>2. Tail(buffer[v]) \in Seq(Nat)
      BY <1>1, <3>1, HeadTailProperties
    <3>3. Tail(buffer[v] \o Wires(v)) = Tail(buffer[v]) \o Wires(v)
      BY <1>1, <1>2, <3>1, TailOfConcat
    <3>4. buffer[v] \o Wires(v) # <<>>
      BY <1>1, <1>2, <3>1, ConcatEqualIffEmpty
    <3> QED BY <1>3, <2>2, <3>2, <3>3, <3>4
  <2> QED BY <2>1, <2>2
<1> HIDE DEF b, left
<1>5. Receive(b)
  BY DEF Moves, b
<1>6. /\ req \in Level /\ current_level_rx \in Level /\ current_level_tx \in Level
      /\ req = current_level_tx /\ ack = current_level_rx
  BY DEF TypeOK, SignalsFresh
<1>7. Pending(v)' = buffer'[v] \o Wires(v)'
  BY DEF Pending, Wires
<1>8. CASE InFlight
  <2>1. put = {} /\ Hold
    BY <1>6, <1>8 DEF Moves, Forward, Send, InFlight, Level
  <2>2. CASE IsFull(b[flit.vc])
    <3>1. buffer' = b /\ current_level_rx' = current_level_rx
      BY <1>5, <2>2 DEF Receive, Accepts
    <3>2. Wires(v)' = Wires(v)
      BY <2>1, <3>1 DEF Wires, InFlight, Hold, txVars
    <3> QED BY <1>4, <1>7, <2>1, <3>1, <3>2 DEF left
  <2>3. CASE ~IsFull(b[flit.vc])
    <3>1. /\ buffer' = [b EXCEPT ![flit.vc] = Append(@, flit.no)]
          /\ current_level_rx' = 1 - current_level_rx
      BY <1>5, <1>8, <2>3 DEF Receive, Accepts, InFlight
    <3>2. ~InFlight'
      BY <1>6, <1>8, <2>1, <3>1 DEF InFlight, Hold, txVars, Level
    <3>3. Wires(v)' = <<>>
      BY <3>2 DEF Wires
    <3>4. buffer'[v] \in Seq(Nat) /\ buffer'[v] = b[v] \o Wires(v)
      <4>1. CASE v # flit.vc
        <5>1. buffer'[v] = b[v] /\ Wires(v) = <<>>
          BY <3>1, <4>1 DEF b, Wires
        <5> QED BY <1>4, <5>1, ConcatEmptySeq
      <4>2. CASE v = flit.vc
        <5>1. buffer'[v] = Append(b[v], flit.no) /\ Wires(v) = <<flit.no>>
          BY <1>8, <3>1, <4>2 DEF b, Wires
        <5>2. Append(b[v], flit.no) = b[v] \o <<flit.no>>
          BY <1>1, <1>4, AppendIsConcat
        <5> QED BY <1>1, <1>4, <5>1, <5>2, AppendProperties
      <4> QED BY <4>1, <4>2
    <3>5. Pending(v)' = buffer'[v]
      BY <1>7, <3>3, <3>4, ConcatEmptySeq
    <3> QED BY <1>4, <2>1, <3>4, <3>5 DEF left
  <2> QED BY <2>2, <2>3
<1>9. CASE ~InFlight
  <2>1. buffer' = b /\ current_level_rx' = current_level_rx /\ Wires(v) = <<>>
    BY <1>5, <1>9 DEF Receive, Accepts, InFlight, Wires
  <2>2. left = b[v]
    BY <1>4, <2>1, ConcatEmptySeq
  <2>3. CASE v \notin put
    <3>1. Wires(v)' = <<>>
      <4>1. CASE Hold
        BY <1>9, <2>1, <4>1 DEF Hold, txVars, Wires, InFlight
      <4>2. ASSUME NEW w \in VCs, put = {w}, Forward(w) PROVE Wires(v)' = <<>>
        BY <2>3, <4>2 DEF Forward, Send, Wires
      <4> QED BY <4>1, <4>2 DEF Moves
    <3> QED BY <1>4, <1>7, <2>1, <2>2, <2>3, <3>1, ConcatEmptySeq DEF left
  <2>4. CASE v \in put
    <3>1. Forward(v)
      BY <2>4 DEF Moves
    <3>2. InFlight'
      BY <1>6, <2>1, <3>1 DEF Forward, Send, InFlight, Level
    <3>3. Wires(v)' = <<sent[v]>>
      BY <3>1, <3>2 DEF Forward, Send, Wires
    <3>4. Append(b[v], sent[v]) = b[v] \o <<sent[v]>>
      BY <1>1, <1>4, AppendIsConcat
    <3> QED BY <1>4, <1>7, <2>1, <2>2, <2>4, <3>3, <3>4 DEF left
  <2> QED BY <2>3, <2>4
<1> QED BY <1>8, <1>9

-----------------------------------------------------------------------------
(* s is the last flits of n numbered 0 .. n - 1.                           *)
LastOf(s, n) ==
  /\ Len(s) <= n
  /\ \A k \in 1 .. Len(s) : s[k] = n - Len(s) + (k - 1)

LEMMA LastOfTail ==
  ASSUME NEW s \in Seq(Nat), NEW n \in Nat, LastOf(s, n), s # <<>>
  PROVE  LastOf(Tail(s), n)
<1>1. /\ Len(s) \in Nat /\ Len(Tail(s)) = Len(s) - 1
      /\ \A i \in 1 .. Len(Tail(s)) : Tail(s)[i] = s[i + 1]
  BY HeadTailProperties
<1> QED BY <1>1 DEF LastOf

LEMMA LastOfAppend ==
  ASSUME NEW s \in Seq(Nat), NEW n \in Nat, LastOf(s, n)
  PROVE  LastOf(Append(s, n), n + 1)
<1>1. /\ Len(s) \in Nat /\ Len(Append(s, n)) = Len(s) + 1
      /\ \A i \in 1 .. Len(s) : Append(s, n)[i] = s[i]
      /\ Append(s, n)[Len(s) + 1] = n
  BY AppendProperties
<1> QED BY <1>1 DEF LastOf

LEMMA SentStep ==
  ASSUME TypeOK, NEW put \in Pipe!AtMostOne, NEW get \in Pipe!AtMostOne, Moves(put, get)
  PROVE  sent' = [v \in VCs |-> IF v \in put THEN sent[v] + 1 ELSE sent[v]]
<1>1. CASE put = {} /\ Hold
  BY <1>1 DEF Hold, txVars, TypeOK
<1>2. ASSUME NEW v \in VCs, put = {v}, Forward(v)
      PROVE  sent' = [w \in VCs |-> IF w \in put THEN sent[w] + 1 ELSE sent[w]]
  BY <1>2 DEF Forward, Send, TypeOK
<1> QED BY <1>1, <1>2 DEF Moves

(* The buffers after a step, and the permission behind the flit on the     *)
(* wires.                                                                  *)
LEMMA RoomStep ==
  ASSUME IInv, NEW put \in Pipe!AtMostOne, NEW get \in Pipe!AtMostOne, Moves(put, get)
  PROVE  /\ TypeOK' /\ SignalsFresh' /\ DepthRespected' /\ NoOverflow'
         /\ uses_mask /\ InFlight => current_level_rx' # current_level_rx
<1> USE DepthAssumption, MaskAssumption DEF IInv
<1> DEFINE b == [w \in VCs |-> IF w \in get THEN Tail(buffer[w]) ELSE buffer[w]]
<1>1. /\ flit \in Flit /\ flit.vc \in VCs /\ flit.no \in Nat
      /\ req \in Level /\ current_level_rx \in Level /\ current_level_tx \in Level
      /\ req = current_level_tx /\ ack = current_level_rx
  BY DEF TypeOK, Flit, SignalsFresh
<1>2. ASSUME NEW v \in VCs
      PROVE  /\ b[v] \in Seq(Nat) /\ Len(b[v]) \in Nat
             /\ Len(buffer[v]) \in Nat /\ Len(b[v]) <= Len(buffer[v])
  <2>1. buffer[v] \in Seq(Nat) /\ Len(buffer[v]) \in Nat
    BY DEF TypeOK
  <2>2. CASE v \in get
    <3>1. buffer[v] # <<>>
      BY <2>2 DEF Moves
    <3> QED BY <2>1, <2>2, <3>1, HeadTailProperties
  <2>3. CASE v \notin get
    BY <2>1, <2>3
  <2> QED BY <2>2, <2>3
<1>3. b = [v \in VCs |-> b[v]]
  OBVIOUS
<1>4. Receive(b)
  BY DEF Moves
<1> HIDE DEF b
<1> DEFINE accepts == InFlight /\ ~IsFull(b[flit.vc])
<1>5. /\ accepts => /\ buffer' = [b EXCEPT ![flit.vc] = Append(@, flit.no)]
                    /\ current_level_rx' = 1 - current_level_rx
      /\ ~accepts => buffer' = b /\ current_level_rx' = current_level_rx
      /\ ack' = current_level_rx'
      /\ mask' = [v \in VCs |-> IsFull(buffer'[v])]
  BY <1>4 DEF Receive, Accepts, InFlight
<1>6. ASSUME NEW v \in VCs
      PROVE  /\ buffer'[v] \in Seq(Nat)
             /\ Len(buffer'[v]) <= max_buffer_size
  <2>1. Len(b[v]) <= max_buffer_size
    BY <1>2 DEF DepthRespected
  <2>2. CASE accepts /\ v = flit.vc
    <3>1. buffer'[v] = Append(b[v], flit.no)
      BY <1>3, <1>5, <2>2
    <3>2. Append(b[v], flit.no) \in Seq(Nat) /\ Len(Append(b[v], flit.no)) = Len(b[v]) + 1
      BY <1>1, <1>2, AppendProperties
    <3> QED BY <1>2, <2>1, <2>2, <3>1, <3>2 DEF IsFull
  <2>3. CASE ~(accepts /\ v = flit.vc)
    <3>1. buffer'[v] = b[v]
      BY <1>3, <1>5, <2>3
    <3> QED BY <1>2, <2>1, <3>1
  <2> QED BY <2>2, <2>3
<1>7. buffer' = [v \in VCs |-> buffer'[v]]
  BY <1>3, <1>5
<1>8. current_level_rx' \in Level
  BY <1>1, <1>5 DEF Level
<1>9. /\ req' \in Level /\ current_level_tx' = req' /\ flit' \in Flit
      /\ sent' \in [VCs -> Nat]
  <2>1. CASE Hold
    BY <1>1, <2>1 DEF Hold, txVars, TypeOK
  <2>2. ASSUME NEW v \in VCs, Forward(v)
        PROVE  /\ req' \in Level /\ current_level_tx' = req' /\ flit' \in Flit
               /\ sent' \in [VCs -> Nat]
    BY <1>1, <2>2 DEF Forward, Send, Level, Flit, TypeOK
  <2> QED BY <2>1, <2>2 DEF Moves
<1>10. TypeOK'
  BY <1>5, <1>6, <1>7, <1>8, <1>9 DEF TypeOK, IsFull
<1>11. SignalsFresh'
  BY <1>5, <1>9 DEF SignalsFresh, IsFull
<1>12. DepthRespected'
  BY <1>6 DEF DepthRespected
<1>13. ASSUME uses_mask, InFlight PROVE accepts
  <2>1. ~IsFull(buffer[flit.vc]) /\ Len(buffer[flit.vc]) <= max_buffer_size
    BY <1>1, <1>13 DEF NoOverflow, DepthRespected
  <2> QED BY <1>1, <1>2, <1>13, <2>1 DEF IsFull
<1>14. NoOverflow'
  <2> SUFFICES ASSUME uses_mask, InFlight' PROVE ~IsFull(buffer'[flit'.vc])
    BY DEF NoOverflow, IsFull
  <2>1. CASE InFlight
    <3>1. current_level_rx' = 1 - current_level_rx
      BY <1>5, <1>13, <2>1
    <3>2. Hold
      BY <1>1, <2>1 DEF Moves, Forward, Send, InFlight, Level
    <3> QED BY <1>1, <2>1, <3>1, <3>2 DEF InFlight, Hold, txVars, Level
  <2>2. CASE ~InFlight
    <3>1. buffer' = b /\ current_level_rx' = current_level_rx
      BY <1>5, <2>2
    <3>2. ~Hold
      BY <2>2, <3>1 DEF InFlight, Hold, txVars
    <3>3. PICK v \in VCs : Forward(v)
      BY <3>2 DEF Moves
    <3>4. flit'.vc = v /\ ~IsFull(buffer[v]) /\ Len(buffer[v]) <= max_buffer_size
      BY <3>3 DEF Forward, Send, SignalsFresh, DepthRespected
    <3> QED BY <1>2, <3>1, <3>4 DEF IsFull
  <2> QED BY <2>1, <2>2
<1>15. uses_mask /\ InFlight => current_level_rx' # current_level_rx
  BY <1>1, <1>5, <1>13 DEF Level
<1> QED BY <1>10, <1>11, <1>12, <1>14, <1>15

LEMMA OrderStep ==
  ASSUME IInv, NEW put \in Pipe!AtMostOne, NEW get \in Pipe!AtMostOne, Moves(put, get)
  PROVE  InOrder'
<1> SUFFICES ASSUME NEW v \in VCs PROVE LastOf(Pending(v)', sent'[v])
  BY DEF InOrder, LastOf
<1> DEFINE left == IF v \in get THEN Tail(Pending(v)) ELSE Pending(v)
<1>1. /\ v \in get => Pending(v) # <<>>
      /\ Pending(v)' = IF v \in put THEN Append(left, sent[v]) ELSE left
  BY PendingStep
<1>2. sent[v] \in Nat /\ sent'[v] = IF v \in put THEN sent[v] + 1 ELSE sent[v]
  BY SentStep DEF IInv, TypeOK
<1>3. Pending(v) \in Seq(Nat)
  <2>1. buffer[v] \in Seq(Nat) /\ Wires(v) \in Seq(Nat)
    BY DEF IInv, TypeOK, Flit, Wires
  <2>2. Pending(v) = buffer[v] \o Wires(v)
    BY DEF Pending, Wires
  <2> QED BY <2>1, <2>2, ConcatProperties
<1>4. LastOf(Pending(v), sent[v])
  BY DEF IInv, InOrder, LastOf
<1>5. left \in Seq(Nat) /\ LastOf(left, sent[v])
  BY <1>1, <1>2, <1>3, <1>4, LastOfTail, HeadTailProperties
<1> HIDE DEF left
<1> QED BY <1>1, <1>2, <1>5, LastOfAppend

(* The strengthened invariant holds: a flit is sent only when the signals  *)
(* agree with the two sides and the mask with the buffers.                 *)
LEMMA Inductive == Spec => []IInv
<1>1. Init => IInv
  <2> SUFFICES ASSUME Init PROVE IInv
    OBVIOUS
  <2>1. flit \in Flit /\ ~InFlight
    BY DEF Init, Flit, InFlight
  <2>2. TypeOK
    BY <2>1, EmptySeq DEF Init, TypeOK, Level
  <2>3. ASSUME NEW v \in VCs PROVE Pending(v) = <<>> /\ Len(Pending(v)) = 0
    BY <2>1, ConcatEmptySeq, EmptySeq DEF Pending, Init
  <2>4. InOrder
    <3>1. \A v \in VCs : Len(Pending(v)) = 0 /\ sent[v] = 0
      BY <2>3 DEF Init
    <3>2. \A v \in VCs : 1 .. Len(Pending(v)) = {} /\ Len(Pending(v)) <= sent[v]
      <4>1. 1 .. 0 = {} /\ 0 <= 0
        OBVIOUS
      <4> QED BY <3>1, <4>1, Zenon
    <3> QED BY <3>2, Zenon DEF InOrder
  <2>5. \A v \in VCs : Len(buffer[v]) = 0
    BY EmptySeq DEF Init
  <2>6. \A v \in VCs : ~IsFull(buffer[v]) /\ mask[v] = FALSE
    BY <2>5, DepthAssumption DEF IsFull, Init
  <2>7. SignalsFresh
    <3>1. \A v \in VCs : mask[v] = IsFull(buffer[v])
      BY <2>6 DEF IsFull
    <3> QED BY <3>1 DEF SignalsFresh, Init
  <2>8. DepthRespected /\ NoOverflow
    BY <2>1, <2>5, DepthAssumption DEF DepthRespected, NoOverflow
  <2> QED BY <2>2, <2>4, <2>7, <2>8 DEF IInv
<1>2. IInv /\ [Edge]_vars => IInv'
  <2> SUFFICES ASSUME IInv, [Edge]_vars PROVE IInv'
    OBVIOUS
  <2>1. CASE Edge
    <3>1. PICK put, get \in Pipe!AtMostOne : Moves(put, get)
      BY <2>1, EdgeMoves DEF IInv
    <3> QED BY <3>1, RoomStep, OrderStep DEF IInv
  <2>2. CASE UNCHANGED vars
    BY <2>2 DEF vars, IInv, TypeOK, SignalsFresh, DepthRespected, NoOverflow, InOrder,
                Pending, InFlight, IsFull
  <2> QED BY <2>1, <2>2
<1> QED BY <1>1, <1>2, PTL DEF Spec

(* The levels, signals and buffers keep their types.                       *)
THEOREM TypeCorrect == Spec => []TypeOK
BY Inductive, PTL DEF IInv

(* Buffer::Push never meets a full buffer.                                 *)
THEOREM DepthIsRespected == Spec => []DepthRespected
BY Inductive, PTL DEF IInv

(* The assertion in Router::rxProcess holds on every link with the mask.   *)
THEOREM OverflowFree == Spec => []NoOverflow
BY Inductive, PTL DEF IInv

(* The handshake loses, duplicates and reorders nothing.                   *)
THEOREM OrderKept == Spec => []InOrder
BY Inductive, PTL DEF IInv

(* A flit sent under the mask leaves the wires at the next edge.           *)
THEOREM NeverWaits == Spec => TakenAtNextEdge
<1>1. ASSUME IInv, Edge
      PROVE  uses_mask /\ InFlight => current_level_rx' # current_level_rx
  <2>1. PICK put, get \in Pipe!AtMostOne : Moves(put, get)
    BY <1>1, EdgeMoves DEF IInv
  <2> QED BY <1>1, <2>1, RoomStep
<1>2. IInv /\ [Edge]_vars
        => [uses_mask /\ InFlight => current_level_rx' # current_level_rx]_vars
  BY <1>1
<1> QED BY <1>2, Inductive, PTL DEF Spec, TakenAtNextEdge

(* What a link keeps on a channel never exceeds the buffer behind it, by   *)
(* more than the flit on the wires of a link without the mask.             *)
PendingFits ==
  \A v \in VCs :
    Len(Pending(v)) <= IF uses_mask THEN max_buffer_size ELSE max_buffer_size + 1

LEMMA PendingBounded == IInv => PendingFits
<1> SUFFICES ASSUME IInv, NEW v \in VCs
             PROVE  Len(Pending(v)) <= IF uses_mask THEN max_buffer_size
                                       ELSE max_buffer_size + 1
  BY DEF PendingFits
<1> USE DepthAssumption, MaskAssumption DEF IInv
<1>1. /\ buffer[v] \in Seq(Nat) /\ Wires(v) \in Seq(Nat)
      /\ Len(buffer[v]) \in Nat /\ Len(buffer[v]) <= max_buffer_size
  BY DEF TypeOK, Flit, Wires, DepthRespected
<1>2. Pending(v) = buffer[v] \o Wires(v)
  BY DEF Pending, Wires
<1>3. Len(Pending(v)) = Len(buffer[v]) + Len(Wires(v))
  BY <1>1, <1>2, ConcatProperties
<1>4. CASE InFlight /\ flit.vc = v
  <2>1. Len(Wires(v)) = 1
    BY <1>4 DEF Wires
  <2>2. uses_mask => Len(buffer[v]) < max_buffer_size
    BY <1>1, <1>4 DEF NoOverflow, IsFull
  <2> QED BY <1>1, <1>3, <2>1, <2>2
<1>5. CASE ~(InFlight /\ flit.vc = v)
  <2>1. Len(Wires(v)) = 0
    BY <1>5 DEF Wires
  <2> QED BY <1>1, <1>3, <2>1
<1> QED BY <1>4, <1>5

(* The two sides of a link implement a bounded first-in first-out queue    *)
(* per channel: no flit is lost, duplicated or overtaken between the       *)
(* output of a router and the input buffer of the next.                    *)
THEOREM LinkImplementsPipe == Spec => IsPipe
<1>1. Init => Pipe!Init
  <2> SUFFICES ASSUME Init PROVE Pipe!Init
    OBVIOUS
  <2>1. ~InFlight
    BY DEF Init, InFlight
  <2>2. ASSUME NEW v \in VCs PROVE Pending(v) = <<>>
    BY <2>1, ConcatEmptySeq, EmptySeq DEF Pending, Init
  <2> QED BY <2>2 DEF Init, Pipe!Init
<1>2. ASSUME IInv, PendingFits', Edge PROVE Pipe!Next
  <2>1. PICK put, get \in Pipe!AtMostOne : Moves(put, get)
    BY <1>2, EdgeMoves DEF IInv
  <2> DEFINE Q == [v \in VCs |-> Pending(v)]
             cap == IF uses_mask THEN max_buffer_size ELSE max_buffer_size + 1
  <2>2. \A v \in get : v \in VCs /\ Q[v] # <<>>
    <3>1. \A v \in get : v \in VCs
      <4>1. get = {} \/ \E w \in VCs : get = {w}
        BY DEF Pipe!AtMostOne
      <4> QED BY <4>1
    <3> QED BY <1>2, <2>1, <3>1, PendingStep
  <2>3. sent' = [v \in VCs |-> IF v \in put THEN sent[v] + 1 ELSE sent[v]]
    BY <1>2, <2>1, SentStep DEF IInv
  <2>4. Q' = [v \in VCs |->
                LET left == IF v \in get THEN Tail(Q[v]) ELSE Q[v]
                IN  IF v \in put THEN Append(left, sent[v]) ELSE left]
    <3>1. \A v \in VCs :
            Pending(v)' = LET left == IF v \in get THEN Tail(Pending(v)) ELSE Pending(v)
                          IN  IF v \in put THEN Append(left, sent[v]) ELSE left
      BY <1>2, <2>1, PendingStep
    <3> QED BY <3>1
  <2>5. \A v \in VCs : Len(Q'[v]) <= cap
    BY <1>2 DEF PendingFits
  <2>6. Pipe!Edge(put, get)
    BY <2>2, <2>3, <2>4, <2>5 DEF Pipe!Edge
  <2> QED BY <2>6 DEF Pipe!Next
<1>3. UNCHANGED vars => UNCHANGED Pipe!vars
  BY DEF vars, Pipe!vars, Pending, InFlight
<1>4. IInv /\ PendingFits' /\ [Edge]_vars => [Pipe!Next]_(Pipe!vars)
  BY <1>2, <1>3
<1> QED BY <1>1, <1>4, Inductive, PendingBounded, PTL DEF Spec, IsPipe, Pipe!Spec

=============================================================================
