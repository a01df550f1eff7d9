------------------------- MODULE RadioChannelProofs -------------------------
(***************************************************************************)
(* Theorems about RadioChannel, for any ring of hubs, any buffer depths,   *)
(* transmission times, holding times and packet sizes.                     *)
(***************************************************************************)
EXTENDS RadioChannel, FlitChains

(***************************************************************************)
(* The inductive invariant.                                                *)
(***************************************************************************)

(* A buffer_tx holds flits of its own hub, numbered within their packets.  *)
FlitsOf(h) == {f \in Flit : f.from = h /\ f.sequence_no < f.sequence_length}

Unfinished(h) == {f \in FlitsOf(h) : ~IsTail(f)}

OwnFlits ==
  \A h \in Hubs : /\ buffer_tx[h] \in Seq(FlitsOf(h))
                  /\ queued[h] \in Unfinished(h) \cup {NoFlit}

(* TOKEN_PACKET: who is on the air, or has sent part of a packet, has the  *)
(* token and will not let it go at the next edge.                          *)
PacketKeeps ==
  macPolicy = "TOKEN_PACKET" =>
    \A h \in Hubs :
      OnAir(h) \/ transmission_in_progress[h] => HasToken(h) /\ flag[h] = "HOLD_CHANNEL"

(* The other policies: the ring acts when the count gets to 1, so that it  *)
(* does not get to 0.                                                      *)
Counting == macPolicy # "TOKEN_PACKET" => token_hold_count >= 1

(* TOKEN_HOLD: a flit that is longer on the air than the next cycle is the *)
(* holder's, and gets there a cycle after the token has gone at the        *)
(* latest, when the next holder has not seen it yet.                       *)
HoldKeeps ==
  macPolicy = "TOKEN_HOLD" =>
    /\ current_token_expiration <= token_hold_count
    /\ \A h \in Hubs :
         cycles_left[h] > 1 => HasToken(h) /\ cycles_left[h] <= token_hold_count + 1

(* TOKEN_PACKET: at most one antenna buffer has part of a packet, of the   *)
(* hub that is in the middle of sending one, whose buffer_tx goes on with  *)
(* it; the other ones begin with a head.                                   *)
Chains ==
  macPolicy = "TOKEN_PACKET" =>
    /\ \A l \in Hubs : received[l] # NoFlit =>
         received[l].to = l /\ transmission_in_progress[received[l].from]
    /\ \A l, m \in Hubs : received[l] # NoFlit /\ received[m] # NoFlit => l = m
    /\ \A h \in Hubs :
         IF transmission_in_progress[h]
           THEN \E l \in Hubs : /\ received[l] # NoFlit /\ received[l].from = h
                                /\ Chained(received[l], buffer_tx[h], queued[h])
           ELSE Chained(NoFlit, buffer_tx[h], queued[h])

(* The cycles that the flits behind f take.                                *)
Behind(f) == flit_transmission_cycles * (f.sequence_length - f.sequence_no - 1)

SleepAtMost(n) == \A h \in Hubs : sleep_left[h] <= n

(* TOKEN_PACKET: nobody sleeps longer than the packet of the holder lasts, *)
(* and the one it is for does not sleep.  A head that was refused is sent  *)
(* again at the next edge.                                                 *)
Sleeping ==
  macPolicy = "TOKEN_PACKET" =>
    LET h == current_token_holder
        f == Head(buffer_tx[h])
    IN  IF OnAir(h) THEN sleep_left[f.to] = 0 /\ SleepAtMost(Behind(f) + cycles_left[h])
        ELSE IF transmission_in_progress[h]
          THEN \A l \in Hubs : received[l] # NoFlit =>
                 sleep_left[l] = 0 /\ SleepAtMost(Behind(received[l]) + 1)
        ELSE \/ SleepAtMost(0)
             \/ flag[h] = "RELEASE_CHANNEL" /\ SleepAtMost(1)
             \/ /\ flag[h] = "HOLD_CHANNEL" /\ buffer_tx[h] # <<>>
                /\ sleep_left[f.to] = 0 /\ SleepAtMost(Behind(f) + 1)

IInv ==
  /\ TypeOK /\ OwnFlits /\ Counting
  /\ PacketKeeps /\ HoldKeeps /\ Exclusive /\ Chains /\ Sleeping

-----------------------------------------------------------------------------
(***************************************************************************)
(* Lemmas: the ring, flits, and what an edge does.                         *)
(***************************************************************************)
LEMMA RingFacts ==
  /\ num_hubs \in Nat \ {0}
  /\ \A p \in 0 .. num_hubs - 1 : HubAt(p) \in Hubs
  /\ HubAt(0) = Ring[1]
<1>1. Ring \in Seq(Nat) /\ Ring # <<>>
  BY RingAssumption
<1>2. Len(Ring) \in Nat \ {0} /\ DOMAIN Ring = 1 .. Len(Ring)
  BY <1>1, EmptySeq, LenProperties
<1> QED BY <1>2 DEF num_hubs, HubAt, Hubs, ToSet

LEMMA NextPositionOK ==
  ASSUME token_position \in 0 .. num_hubs - 1
  PROVE  NextPosition \in 0 .. num_hubs - 1
<1>1. \A a, b \in Nat : b # 0 => a % b \in 0 .. b - 1
  BY SMT
<1> QED BY <1>1, RingFacts DEF NextPosition

LEMMA NoFlitIsNone == NoFlit \notin Flit
BY SizesAssumption DEF NoFlit, Flit

(* What continues the packet of one's own flit is one's own flit.          *)
LEMMA NextFlitsFollow ==
  ASSUME NEW h \in Hubs, NEW g \in Unfinished(h) \cup {NoFlit}, NEW f \in NextFlits(g, h)
  PROVE  /\ f \in FlitsOf(h) /\ f # NoFlit
         /\ Follows(g, f)
         /\ InProgress(f) \in Unfinished(h) \cup {NoFlit}
<1>1. CASE g = NoFlit
  <2>1. f \in [from : {h}, to : Destinations[h], sequence_no : {0}, sequence_length : Sizes]
    BY <1>1 DEF NextFlits
  <2>2. f.sequence_length \in Sizes /\ f.sequence_length \in Nat \ {0, 1}
    BY <2>1, SizesAssumption
  <2>3. Destinations[h] \subseteq Hubs
    BY DestinationsAssumption
  <2>4. f \in Flit
    BY <2>1, <2>3 DEF Flit
  <2>5. f.from = h /\ f.sequence_no = 0 /\ f.sequence_no < f.sequence_length
    BY <2>1, <2>2
  <2> QED BY <1>1, <2>4, <2>5, NoFlitIsNone DEF FlitsOf, Follows, IsHead, InProgress, Unfinished
<1>2. CASE g # NoFlit
  <2>1. /\ g \in Flit /\ g.from = h /\ g.sequence_no < g.sequence_length
        /\ g.sequence_no # g.sequence_length - 1
    BY <1>2 DEF FlitsOf, IsTail, Unfinished
  <2>2. f = [g EXCEPT !.sequence_no = @ + 1]
    BY <1>2 DEF NextFlits
  <2>3. f \in Flit /\ f.from = h /\ f.sequence_no < f.sequence_length
    BY <2>1, <2>2, SizesAssumption DEF Flit
  <2> QED BY <1>2, <2>2, <2>3, NoFlitIsNone DEF FlitsOf, Follows, InProgress, Unfinished
<1> QED BY <1>1, <1>2

(* What an edge does to a buffer_tx: nothing, or it puts the next flit of  *)
(* the packet in progress, or the head of a new one, behind the others.    *)
LEMMA EdgeFills ==
  ASSUME TypeOK, OwnFlits, Edge, NEW h \in Hubs
  PROVE  \/ buffer_tx'[h] = buffer_tx[h] /\ queued'[h] = queued[h]
         \/ \E f \in FlitsOf(h) :
              /\ Len(buffer_tx[h]) < txBufferSize /\ Follows(queued[h], f)
              /\ buffer_tx'[h] = Append(buffer_tx[h], f) /\ queued'[h] = InProgress(f)
              /\ queued'[h] \in Unfinished(h) \cup {NoFlit}
<1>1. PICK put \in Puts, taken \in SUBSET {l \in Hubs : buffer_rx[l] # <<>>} :
        Forward(put, taken)
  BY DEF Edge
<1>2. \A g \in DOMAIN put : put[g] \in MayPut(g)
  BY DEF Puts
<1>3. CASE h \notin DOMAIN put
  BY <1>1, <1>3 DEF Forward
<1>4. CASE h \in DOMAIN put
  <2>1. put[h] \in NextFlits(queued[h], h) /\ Len(buffer_tx[h]) < txBufferSize
    BY <1>2, <1>4 DEF MayPut
  <2>2. queued[h] \in Unfinished(h) \cup {NoFlit}
    BY DEF OwnFlits
  <2>3. /\ put[h] \in FlitsOf(h) /\ Follows(queued[h], put[h])
        /\ InProgress(put[h]) \in Unfinished(h) \cup {NoFlit}
    BY <2>1, <2>2, NextFlitsFollow
  <2>4. buffer_tx'[h] = Append(buffer_tx[h], put[h]) /\ queued'[h] = InProgress(put[h])
    BY <1>1, <1>4 DEF Forward
  <2> QED BY <2>1, <2>3, <2>4
<1> QED BY <1>3, <1>4

(* The flit that is the next one to be sent stays the next one.            *)
LEMMA EdgeKeepsHead ==
  ASSUME TypeOK, OwnFlits, Edge, NEW h \in Hubs, buffer_tx[h] # <<>>
  PROVE  buffer_tx'[h] # <<>> /\ Head(buffer_tx'[h]) = Head(buffer_tx[h])
<1>1. CASE buffer_tx'[h] = buffer_tx[h]
  BY <1>1
<1>2. ASSUME NEW f \in FlitsOf(h), buffer_tx'[h] = Append(buffer_tx[h], f)
      PROVE  buffer_tx'[h] # <<>> /\ Head(buffer_tx'[h]) = Head(buffer_tx[h])
  <2>1. buffer_tx[h] \in Seq(FlitsOf(h))
    BY DEF OwnFlits
  <2> QED BY <1>2, <2>1, AppendProperties, HeadTailAppend
<1> QED BY <1>1, <1>2, EdgeFills

(* A hub's first flit is its own.                                          *)
LEMMA HeadIsOwn ==
  ASSUME TypeOK, OwnFlits, NEW h \in Hubs, buffer_tx[h] # <<>>
  PROVE  Head(buffer_tx[h]) \in FlitsOf(h)
<1>1. buffer_tx[h] \in Seq(FlitsOf(h))
  BY DEF OwnFlits
<1> QED BY <1>1, HeadTailProperties

-----------------------------------------------------------------------------
(***************************************************************************)
(* Types.                                                                  *)
(***************************************************************************)
LEMMA InitTypes == Init => TypeOK /\ OwnFlits
<1> SUFFICES ASSUME Init PROVE TypeOK /\ OwnFlits
  OBVIOUS
<1>1. token_position \in 0 .. num_hubs - 1 /\ current_token_holder = HubAt(token_position)
  BY RingFacts DEF Init
<1>2. token_hold_count \in 0 .. max_hold_cycles /\ current_token_expiration \in 0 .. max_hold_cycles
  BY CyclesAssumption DEF Init
<1>3. \A h \in Hubs : /\ buffer_tx[h] = <<>> /\ buffer_rx[h] = <<>> /\ cycles_left[h] = 0
                      /\ queued[h] = NoFlit
  BY DEF Init
<1>4. \A S : <<>> \in Seq(S) /\ Len(<<>>) = 0
  OBVIOUS
<1>5. /\ buffer_tx \in [Hubs -> Seq(Flit)] /\ buffer_rx \in [Hubs -> Seq(Flit)]
      /\ sleep_left \in [Hubs -> Nat] /\ cycles_left \in [Hubs -> 0 .. flit_transmission_cycles]
  BY <1>4, CyclesAssumption DEF Init
<1>6. TypeOK
  BY <1>1, <1>2, <1>3, <1>4, <1>5, BuffersAssumption DEF TypeOK, Init, OnAir
<1>7. OwnFlits
  BY <1>3, <1>4 DEF OwnFlits
<1> QED BY <1>6, <1>7

LEMMA EdgeTypes == TypeOK /\ OwnFlits /\ Counting /\ Edge => TypeOK' /\ OwnFlits'
<1> SUFFICES ASSUME TypeOK, OwnFlits, Counting, Edge PROVE TypeOK' /\ OwnFlits'
  OBVIOUS
<1>1. /\ token_position' \in 0 .. num_hubs - 1
      /\ current_token_holder' = HubAt(token_position')
  BY NextPositionOK DEF TypeOK, Edge, UpdateToken, HubAt
<1>2. /\ token_hold_count' \in 0 .. max_hold_cycles
      /\ current_token_expiration' \in 0 .. max_hold_cycles
  <2>1. CASE macPolicy = "TOKEN_PACKET"
    BY <2>1 DEF TypeOK, Edge, UpdateToken
  <2>2. CASE macPolicy # "TOKEN_PACKET"
    BY <2>2, CyclesAssumption DEF TypeOK, Edge, UpdateToken, Counting
  <2> QED BY <2>1, <2>2
<1>3. flag' \in [Hubs -> {"HOLD_CHANNEL", "RELEASE_CHANNEL"}]
  <2>1. macPolicy \in {"TOKEN_PACKET", "TOKEN_HOLD", "TOKEN_MAX_HOLD"}
    BY PolicyAssumption DEF TypeOK
  <2>2. ASSUME NEW h \in Hubs PROVE FlagAfter(h) \in {"HOLD_CHANNEL", "RELEASE_CHANNEL"}
    BY <2>1 DEF TypeOK, FlagAfter, HubFlag
  <2> QED BY <2>2 DEF Edge
<1>4. sleep_left' \in [Hubs -> Nat]
  <2> DEFINE heads == {Head(buffer_tx[h]) : h \in {g \in Hubs : Starts(g) /\ IsHead(Head(buffer_tx[g]))}}
  <2>1. \A f \in heads : SleepCycles(f) \in Nat
    <3> SUFFICES ASSUME NEW h \in Hubs, Starts(h) PROVE SleepCycles(Head(buffer_tx[h])) \in Nat
      OBVIOUS
    <3>1. Head(buffer_tx[h]) \in Flit
      BY HeadIsOwn DEF Starts, Requests, FlitsOf
    <3>2. Head(buffer_tx[h]).sequence_length \in Nat
      BY <3>1, SizesAssumption DEF Flit
    <3> QED BY <3>2, CyclesAssumption DEF SleepCycles
  <2>2. \A f \in heads : SleepCycles(CHOOSE g \in heads : TRUE) \in Nat
    BY <2>1
  <2>3. sleep_left' = [h \in Hubs |->
           IF macPolicy \in PowerManaged /\ h \in Listeners /\ \E f \in heads : f.to # h
             THEN SleepCycles(CHOOSE g \in heads : TRUE)
           ELSE IF sleep_left[h] > 0 THEN sleep_left[h] - 1 ELSE 0]
    BY DEF Edge, powerManager
  <2> HIDE DEF heads
  <2>4. \A h \in Hubs : sleep_left[h] \in Nat
    BY DEF TypeOK
  <2> QED BY <2>2, <2>3, <2>4
<1>5. cycles_left' \in [Hubs -> 0 .. flit_transmission_cycles]
  <2>1. \A h \in Hubs : cycles_left[h] \in 0 .. flit_transmission_cycles
    BY DEF TypeOK
  <2> QED BY <2>1, CyclesAssumption DEF Edge, Transmit, OnAir
<1>6. OwnFlits'
  <2> SUFFICES ASSUME NEW h \in Hubs
               PROVE  buffer_tx'[h] \in Seq(FlitsOf(h)) /\ queued'[h] \in Unfinished(h) \cup {NoFlit}
    BY DEF OwnFlits
  <2>1. buffer_tx[h] \in Seq(FlitsOf(h)) /\ queued[h] \in Unfinished(h) \cup {NoFlit}
    BY DEF OwnFlits
  <2>2. \A f \in FlitsOf(h) : Append(buffer_tx[h], f) \in Seq(FlitsOf(h))
    BY <2>1, AppendProperties
  <2> QED BY <2>1, <2>2, EdgeFills
<1>7. /\ buffer_tx' \in [Hubs -> Seq(Flit)] /\ queued' \in [Hubs -> Flit \cup {NoFlit}]
      /\ buffer_rx' \in [Hubs -> Seq(Flit)]
      /\ \A h \in Hubs : Len(buffer_rx'[h]) <= rxBufferSize
  <2>1. PICK put \in Puts, taken \in SUBSET {l \in Hubs : buffer_rx[l] # <<>>} :
          Forward(put, taken)
    BY DEF Edge
  <2>2. DOMAIN buffer_tx' = Hubs /\ DOMAIN queued' = Hubs /\ DOMAIN buffer_rx' = Hubs
    BY <2>1 DEF Forward
  <2>3. ASSUME NEW h \in Hubs
        PROVE  buffer_tx'[h] \in Seq(Flit) /\ queued'[h] \in Flit \cup {NoFlit}
    <3>1. FlitsOf(h) \subseteq Flit /\ Unfinished(h) \subseteq Flit
      BY DEF FlitsOf, Unfinished
    <3>2. buffer_tx[h] \in Seq(Flit) /\ queued[h] \in Flit \cup {NoFlit}
      BY DEF TypeOK
    <3>3. \A f \in Flit : Append(buffer_tx[h], f) \in Seq(Flit)
      BY <3>2, AppendProperties
    <3> QED BY <3>1, <3>2, <3>3, EdgeFills
  <2>4. ASSUME NEW h \in Hubs
        PROVE  buffer_rx'[h] \in Seq(Flit) /\ Len(buffer_rx'[h]) <= rxBufferSize
    <3>1. buffer_rx[h] \in Seq(Flit) /\ Len(buffer_rx[h]) <= rxBufferSize
      BY DEF TypeOK
    <3>2. CASE h \in taken
      <4>1. buffer_rx'[h] = Tail(buffer_rx[h]) /\ buffer_rx[h] # <<>>
        BY <2>1, <3>2 DEF Forward
      <4> QED BY <3>1, <4>1, HeadTailProperties, BuffersAssumption
    <3>3. CASE h \notin taken
      BY <2>1, <3>1, <3>3 DEF Forward
    <3> QED BY <3>2, <3>3
  <2>6. /\ buffer_tx' = [h \in Hubs |-> buffer_tx'[h]] /\ queued' = [h \in Hubs |-> queued'[h]]
        /\ buffer_rx' = [h \in Hubs |-> buffer_rx'[h]]
    BY <2>1 DEF Forward
  <2> QED BY <2>3, <2>4, <2>6
<1>8. \A h \in Hubs : /\ Len(buffer_tx'[h]) <= txBufferSize
                      /\ OnAir(h)' => buffer_tx'[h] # <<>>
  <2> SUFFICES ASSUME NEW h \in Hubs
               PROVE  Len(buffer_tx'[h]) <= txBufferSize /\ (OnAir(h)' => buffer_tx'[h] # <<>>)
    OBVIOUS
  <2>1. buffer_tx[h] \in Seq(FlitsOf(h)) /\ Len(buffer_tx[h]) <= txBufferSize
    BY DEF TypeOK, OwnFlits
  <2>2. OnAir(h)' => OnAir(h) \/ Starts(h)
    BY DEF Edge, Transmit, OnAir
  <2>3. OnAir(h)' => buffer_tx[h] # <<>>
    BY <2>2 DEF TypeOK, Starts, Requests
  <2>4. ASSUME NEW f \in FlitsOf(h), Len(buffer_tx[h]) < txBufferSize
        PROVE  Len(Append(buffer_tx[h], f)) <= txBufferSize
    BY <2>1, <2>4, AppendProperties, LenProperties, BuffersAssumption
  <2> QED BY <2>1, <2>3, <2>4, EdgeFills, EdgeKeepsHead
<1>9. macPolicy' \in Policies /\ transmission_in_progress' \in [Hubs -> BOOLEAN]
      /\ received' \in [Hubs -> Flit \cup {NoFlit}]
  BY DEF TypeOK, Edge
<1> QED BY <1>1, <1>2, <1>3, <1>4, <1>5, <1>6, <1>7, <1>8, <1>9 DEF TypeOK

(* The end of a transmission, seen by the hub h whose flit f it was.       *)
LEMMA DeliverEffect ==
  ASSUME TypeOK, OwnFlits, NEW h \in Hubs, Deliver(h)
  PROVE  LET f == Head(buffer_tx[h])
         IN  /\ f \in FlitsOf(h) /\ f.to \in Hubs
             /\ \/ Accepted(h, f)
                \/ UNCHANGED <<buffer_rx, buffer_tx, received, transmission_in_progress, flag>>
<1>1. buffer_tx[h] # <<>>
  BY DEF TypeOK, Deliver, Due, OnAir
<1>2. Head(buffer_tx[h]) \in FlitsOf(h)
  BY <1>1, HeadIsOwn
<1> QED BY <1>2 DEF Deliver, FlitsOf, Flit

LEMMA DeliverTypes ==
  ASSUME TypeOK, OwnFlits, NEW h \in Hubs, Deliver(h)
  PROVE  TypeOK' /\ OwnFlits'
<1> DEFINE f == Head(buffer_tx[h])
<1>1. /\ macPolicy' \in Policies /\ token_position' \in 0 .. num_hubs - 1
      /\ token_hold_count' \in 0 .. max_hold_cycles
      /\ current_token_holder' = HubAt(token_position')
      /\ current_token_expiration' \in 0 .. max_hold_cycles
      /\ sleep_left' \in [Hubs -> Nat]
      /\ queued' \in [Hubs -> Flit \cup {NoFlit}]
  BY DEF TypeOK, Deliver, ringVars, HubAt
<1>2. cycles_left' \in [Hubs -> 0 .. flit_transmission_cycles]
      /\ \A g \in Hubs : cycles_left'[g] = IF g = h THEN 0 ELSE cycles_left[g]
  BY CyclesAssumption DEF TypeOK, Deliver
<1>3. CASE Accepted(h, f)
  <2>1. f \in FlitsOf(h) /\ f \in Flit /\ f.to \in Hubs /\ Len(buffer_rx[f.to]) < rxBufferSize
    <3>1. f \in FlitsOf(h) /\ f.to \in Hubs
      BY DeliverEffect
    <3>2. CASE Len(buffer_rx[f.to]) < rxBufferSize
      BY <3>1, <3>2 DEF FlitsOf
    <3>3. CASE UNCHANGED <<buffer_rx, buffer_tx, received, transmission_in_progress, flag>>
      <4>1. buffer_rx[f.to] \in Seq(Flit) /\ f \in Flit
        BY <3>1 DEF TypeOK, FlitsOf
      <4>2. buffer_rx'[f.to] = Append(buffer_rx[f.to], f)
        BY <1>3, <3>1 DEF Accepted, TypeOK
      <4>3. Len(buffer_rx'[f.to]) = Len(buffer_rx[f.to]) + 1
        BY <4>1, <4>2, AppendProperties
      <4>4. Len(buffer_rx[f.to]) \in Nat
        BY <4>1, LenProperties
      <4>5. buffer_rx' = buffer_rx
        BY <3>3
      <4>6. Len(buffer_rx'[f.to]) = Len(buffer_rx[f.to])
        BY <4>5
      <4>7. FALSE
        <5> HIDE DEF f
        <5> QED BY <4>3, <4>4, <4>6
      <4> QED BY <4>7
    <3> QED BY <3>2, <3>3 DEF Deliver
  <2>2. /\ flag' \in [Hubs -> {"HOLD_CHANNEL", "RELEASE_CHANNEL"}]
        /\ transmission_in_progress' \in [Hubs -> BOOLEAN]
    BY <1>3 DEF Accepted, TypeOK
  <2>3. received' \in [Hubs -> Flit \cup {NoFlit}]
    BY <1>3, <2>1 DEF Accepted, TypeOK, InProgress
  <2>4. /\ buffer_tx[h] \in Seq(FlitsOf(h)) /\ buffer_tx[h] \in Seq(Flit)
        /\ buffer_tx[h] # <<>> /\ Len(buffer_tx[h]) <= txBufferSize
    BY DEF TypeOK, OwnFlits, Deliver, Due, OnAir
  <2>5. /\ Tail(buffer_tx[h]) \in Seq(FlitsOf(h)) /\ Tail(buffer_tx[h]) \in Seq(Flit)
        /\ Len(Tail(buffer_tx[h])) <= txBufferSize
    BY <2>4, HeadTailProperties, LenProperties, BuffersAssumption
  <2>6. /\ buffer_tx' \in [Hubs -> Seq(Flit)]
        /\ \A g \in Hubs : buffer_tx'[g] = IF g = h THEN Tail(buffer_tx[h]) ELSE buffer_tx[g]
    BY <1>3, <2>5 DEF Accepted, TypeOK
  <2>7. /\ Append(buffer_rx[f.to], f) \in Seq(Flit)
        /\ Len(Append(buffer_rx[f.to], f)) <= rxBufferSize
    <3>1. buffer_rx[f.to] \in Seq(Flit)
      BY <2>1 DEF TypeOK
    <3> QED BY <2>1, <3>1, AppendProperties, LenProperties, BuffersAssumption
  <2>8. /\ buffer_rx' \in [Hubs -> Seq(Flit)]
        /\ \A g \in Hubs : Len(buffer_rx'[g]) <= rxBufferSize
    BY <1>3, <2>7 DEF Accepted, TypeOK
  <2>9. OwnFlits'
    BY <2>5, <2>6 DEF OwnFlits, Deliver
  <2>10. \A g \in Hubs : /\ Len(buffer_tx'[g]) <= txBufferSize
                         /\ OnAir(g)' => buffer_tx'[g] # <<>>
    <3> SUFFICES ASSUME NEW g \in Hubs
                 PROVE  /\ Len(buffer_tx'[g]) <= txBufferSize
                        /\ OnAir(g)' => buffer_tx'[g] # <<>>
      OBVIOUS
    <3>1. CASE g = h
      <4>1. buffer_tx'[g] = Tail(buffer_tx[h]) /\ cycles_left'[g] = 0
        BY <1>2, <2>6, <3>1
      <4> QED BY <2>5, <4>1 DEF OnAir
    <3>2. CASE g # h
      <4>1. Len(buffer_tx[g]) <= txBufferSize /\ (OnAir(g) => buffer_tx[g] # <<>>)
        BY DEF TypeOK
      <4> QED BY <1>2, <2>6, <3>2, <4>1 DEF OnAir
    <3> QED BY <3>1, <3>2
  <2> QED BY <1>1, <1>2, <2>2, <2>3, <2>6, <2>8, <2>9, <2>10 DEF TypeOK
<1>4. CASE UNCHANGED <<buffer_rx, buffer_tx, received, transmission_in_progress, flag>>
  <2>1. \A g \in Hubs : OnAir(g)' => OnAir(g)
    BY <1>2 DEF OnAir
  <2>2. OwnFlits'
    BY <1>4 DEF OwnFlits, Deliver
  <2> QED BY <1>1, <1>2, <1>4, <2>1, <2>2 DEF TypeOK
<1> QED BY <1>3, <1>4, DeliverEffect

-----------------------------------------------------------------------------
(***************************************************************************)
(* Who is on the air.                                                      *)
(***************************************************************************)

(* After an edge the hubs on the air are those that go on and those that   *)
(* started at it, having the token.                                        *)
LEMMA EdgeAir ==
  ASSUME TypeOK, Edge, NEW h \in Hubs, OnAir(h)'
  PROVE  \/ cycles_left[h] > 1 /\ cycles_left'[h] = cycles_left[h] - 1
         \/ Starts(h) /\ cycles_left'[h] = flit_transmission_cycles
<1>1. cycles_left'[h] = IF OnAir(h) THEN cycles_left[h] - 1
                        ELSE IF Starts(h) THEN flit_transmission_cycles ELSE 0
  BY DEF Edge, Transmit
<1>2. cycles_left[h] \in Nat /\ cycles_left[h] # 1
  BY DEF TypeOK, Edge, Due
<1> QED BY <1>1, <1>2 DEF OnAir

LEMMA DeliverAir ==
  ASSUME TypeOK, NEW h \in Hubs, Deliver(h)
  PROVE  \A g \in Hubs : cycles_left'[g] = IF g = h THEN 0 ELSE cycles_left[g]
BY DEF TypeOK, Deliver

LEMMA EdgeCounting == TypeOK /\ Counting /\ Edge => Counting'
<1> SUFFICES ASSUME TypeOK, Counting, Edge, macPolicy # "TOKEN_PACKET"
             PROVE  token_hold_count' >= 1
  BY DEF Counting, Edge
<1>1. token_hold_count \in Nat /\ token_hold_count >= 1 /\ max_hold_cycles \in Nat
  BY CyclesAssumption DEF TypeOK, Counting
<1>2. max_hold_cycles >= 1
  BY CyclesAssumption DEF TypeOK
<1>3. macPolicy \in {"TOKEN_HOLD", "TOKEN_MAX_HOLD"}
  BY PolicyAssumption DEF TypeOK
<1>4. token_hold_count = 1 => TokenMoves
  BY <1>3 DEF TokenMoves
<1>5. token_hold_count' = IF TokenMoves THEN max_hold_cycles ELSE token_hold_count - 1
  BY <1>3 DEF Edge, UpdateToken
<1> QED BY <1>1, <1>2, <1>4, <1>5

LEMMA EdgePacketKeeps == TypeOK /\ OwnFlits /\ PacketKeeps /\ Edge => PacketKeeps'
<1> SUFFICES ASSUME TypeOK, OwnFlits, PacketKeeps, Edge, macPolicy = "TOKEN_PACKET",
                    NEW h \in Hubs, OnAir(h)' \/ transmission_in_progress'[h]
             PROVE  current_token_holder' = h /\ flag'[h] = "HOLD_CHANNEL"
  BY DEF PacketKeeps, Edge, HasToken
<1>1. HasToken(h) /\ flag[h] = "HOLD_CHANNEL" /\ ~NothingToSend(h)
  <2>1. CASE transmission_in_progress[h]
    BY <2>1 DEF PacketKeeps, NothingToSend
  <2>2. CASE OnAir(h)
    BY <2>2 DEF PacketKeeps, NothingToSend, TypeOK
  <2>3. CASE Starts(h)
    BY <2>3 DEF Starts, Requests, TypeOK, NothingToSend
  <2>4. transmission_in_progress[h] \/ OnAir(h) \/ Starts(h)
    <3>1. CASE OnAir(h)'
      BY <3>1, EdgeAir DEF TypeOK, OnAir
    <3>2. CASE transmission_in_progress'[h]
      BY <3>2 DEF Edge
    <3> QED BY <3>1, <3>2
  <2> QED BY <2>1, <2>2, <2>3, <2>4
<1>2. ~TokenMoves
  BY <1>1 DEF TypeOK, TokenMoves, HasToken
<1>3. current_token_holder' = h
  BY <1>1, <1>2 DEF Edge, UpdateToken, HasToken
<1>4. flag'[h] = "HOLD_CHANNEL"
  BY <1>1, <1>2 DEF Edge, FlagAfter, HubFlag
<1> QED BY <1>3, <1>4

LEMMA DeliverPacketKeeps ==
  ASSUME TypeOK, OwnFlits, PacketKeeps, NEW h \in Hubs, Deliver(h)
  PROVE  PacketKeeps'
<1> DEFINE f == Head(buffer_tx[h])
<1> SUFFICES ASSUME macPolicy = "TOKEN_PACKET", NEW g \in Hubs,
                    OnAir(g)' \/ transmission_in_progress'[g]
             PROVE  current_token_holder' = g /\ flag'[g] = "HOLD_CHANNEL"
  BY DEF PacketKeeps, Deliver, HasToken
<1>1. current_token_holder' = current_token_holder
  BY DEF Deliver, ringVars
<1>2. HasToken(h) /\ flag[h] = "HOLD_CHANNEL"
  BY DEF PacketKeeps, Deliver, Due, OnAir
<1>3. OnAir(g)' => g # h /\ OnAir(g)
  BY DeliverAir DEF OnAir
<1>4. CASE Accepted(h, f)
  <2>1. /\ transmission_in_progress'[g] =
             IF g = h THEN (transmission_in_progress[h] \/ IsHead(f)) /\ ~IsTail(f)
             ELSE transmission_in_progress[g]
        /\ flag'[g] = IF g = h /\ IsTail(f) THEN "RELEASE_CHANNEL" ELSE flag[g]
    BY <1>4 DEF Accepted, TypeOK
  <2>2. CASE g = h
    BY <1>1, <1>2, <1>3, <2>1, <2>2 DEF HasToken
  <2>3. CASE g # h
    BY <1>1, <1>3, <2>1, <2>3 DEF PacketKeeps, HasToken
  <2> QED BY <2>2, <2>3
<1>5. CASE UNCHANGED <<buffer_rx, buffer_tx, received, transmission_in_progress, flag>>
  BY <1>1, <1>3, <1>5 DEF PacketKeeps, HasToken
<1> QED BY <1>4, <1>5, DeliverEffect

LEMMA EdgeHoldKeeps == TypeOK /\ Counting /\ HoldKeeps /\ Edge => HoldKeeps'
<1> SUFFICES ASSUME TypeOK, Counting, HoldKeeps, Edge, macPolicy = "TOKEN_HOLD"
             PROVE  /\ current_token_expiration' <= token_hold_count'
                    /\ \A h \in Hubs : cycles_left'[h] > 1 =>
                         /\ current_token_holder' = h
                         /\ cycles_left'[h] <= token_hold_count' + 1
  BY DEF HoldKeeps, Edge, HasToken
<1>1. /\ token_hold_count \in Nat /\ token_hold_count >= 1
      /\ current_token_expiration \in Nat /\ current_token_expiration <= token_hold_count
  BY CyclesAssumption DEF TypeOK, Counting, HoldKeeps
<1>2. /\ token_hold_count' = IF token_hold_count = 1 THEN max_hold_cycles
                             ELSE token_hold_count - 1
      /\ current_token_expiration' = token_hold_count'
      /\ token_hold_count # 1 => current_token_holder' = current_token_holder
  BY DEF Edge, UpdateToken, TokenMoves
<1>3. ASSUME NEW h \in Hubs, cycles_left'[h] > 1
      PROVE  current_token_holder' = h /\ cycles_left'[h] <= token_hold_count' + 1
  <2>1. cycles_left[h] \in Nat /\ OnAir(h)'
    <3>1. cycles_left[h] \in Nat
      BY DEF TypeOK
    <3>2. cycles_left'[h] \in Nat
      BY <3>1, CyclesAssumption DEF Edge, Transmit, OnAir
    <3> QED BY <1>3, <3>1, <3>2 DEF OnAir
  <2>2. CASE cycles_left[h] > 1 /\ cycles_left'[h] = cycles_left[h] - 1
    <3>1. HasToken(h) /\ cycles_left[h] <= token_hold_count + 1
      BY <2>2 DEF HoldKeeps
    <3> QED BY <1>1, <1>2, <1>3, <2>1, <2>2, <3>1 DEF HasToken
  <2>3. CASE Starts(h) /\ cycles_left'[h] = flit_transmission_cycles
    <3>1. HasToken(h) /\ flit_transmission_cycles <= current_token_expiration
      BY <2>3, CyclesAssumption DEF Starts, Requests, Enough, TypeOK
    <3> QED BY <1>1, <1>2, <1>3, <2>3, <3>1, CyclesAssumption DEF HasToken
  <2> QED BY <2>1, <2>2, <2>3, EdgeAir
<1>4. current_token_expiration' <= token_hold_count'
  BY <1>1, <1>2, CyclesAssumption
<1> QED BY <1>3, <1>4

LEMMA DeliverHoldKeeps ==
  ASSUME TypeOK, HoldKeeps, NEW h \in Hubs, Deliver(h)
  PROVE  HoldKeeps'
<1>1. UNCHANGED <<macPolicy, token_hold_count, current_token_holder, current_token_expiration>>
  BY DEF Deliver, ringVars
<1>2. \A g \in Hubs : cycles_left'[g] > 1 => cycles_left'[g] = cycles_left[g]
  BY DeliverAir
<1> QED BY <1>1, <1>2 DEF HoldKeeps, HasToken

LEMMA EdgeExclusive ==
  TypeOK /\ OwnFlits /\ PacketKeeps /\ HoldKeeps /\ Edge => Exclusive'
<1> SUFFICES ASSUME TypeOK, OwnFlits, PacketKeeps, HoldKeeps, Edge,
                    macPolicy # "TOKEN_MAX_HOLD", NEW h \in Hubs, OnAir(h)'
             PROVE  HasToken(h)
  BY DEF Exclusive, Edge, HasToken
<1>1. CASE Starts(h)
  BY <1>1 DEF Starts, Requests
<1>2. CASE cycles_left[h] > 1
  <2>1. OnAir(h)
    BY <1>2 DEF TypeOK, OnAir
  <2>2. macPolicy \in {"TOKEN_PACKET", "TOKEN_HOLD"}
    BY PolicyAssumption DEF TypeOK
  <2> QED BY <1>2, <2>1, <2>2 DEF PacketKeeps, HoldKeeps
<1> QED BY <1>1, <1>2, EdgeAir

LEMMA DeliverExclusive ==
  ASSUME TypeOK, Exclusive, NEW h \in Hubs, Deliver(h)
  PROVE  Exclusive'
<1>1. \A g \in Hubs : OnAir(g)' => OnAir(g)
  BY DeliverAir DEF OnAir
<1> QED BY <1>1 DEF Exclusive, Deliver

-----------------------------------------------------------------------------
(***************************************************************************)
(* TOKEN_PACKET: whole packets.                                            *)
(***************************************************************************)

(* Only the holder sends packets, so that only it has part of one sent.    *)
LEMMA OnlyHolder ==
  ASSUME TypeOK, PacketKeeps, Chains, macPolicy = "TOKEN_PACKET", NEW l \in Hubs,
         received[l] # NoFlit
  PROVE  /\ received[l].to = l /\ received[l].from = current_token_holder
         /\ transmission_in_progress[current_token_holder]
         /\ flag[current_token_holder] = "HOLD_CHANNEL"
<1>1. received[l] \in Flit
  BY DEF TypeOK
<1>2. /\ received[l].to = l /\ received[l].from \in Hubs
      /\ transmission_in_progress[received[l].from]
  BY <1>1 DEF Chains, Flit
<1> QED BY <1>2 DEF PacketKeeps, HasToken

(* The first flit of the holder continues what the antenna buffer it goes  *)
(* to has of its packet, and no other one has part of a packet.            *)
LEMMA NextToSend ==
  ASSUME TypeOK, OwnFlits, PacketKeeps, Chains, macPolicy = "TOKEN_PACKET",
         NEW h \in Hubs, HasToken(h), buffer_tx[h] # <<>>
  PROVE  LET f == Head(buffer_tx[h])
         IN  /\ f \in FlitsOf(h) /\ f \in Flit /\ f # NoFlit /\ f.to \in Hubs
             /\ Follows(received[f.to], f)
             /\ \A l \in Hubs : received[l] # NoFlit => l = f.to
             /\ transmission_in_progress[h] <=> received[f.to] # NoFlit
             /\ Chained(InProgress(f), Tail(buffer_tx[h]), queued[h])
<1> DEFINE f == Head(buffer_tx[h])
<1>1. f \in FlitsOf(h) /\ f \in Flit /\ f # NoFlit /\ f.to \in Hubs
  BY HeadIsOwn, NoFlitIsNone DEF FlitsOf, Flit
<1>2. buffer_tx[h] \in Seq(FlitsOf(h))
  BY DEF OwnFlits
<1> HIDE DEF f
<1>3. CASE transmission_in_progress[h]
  <2>1. PICK l \in Hubs : /\ received[l] # NoFlit
                          /\ Chained(received[l], buffer_tx[h], queued[h])
    BY <1>3 DEF Chains
  <2>2. /\ Follows(received[l], f)
        /\ Chained(InProgress(f), Tail(buffer_tx[h]), queued[h])
    BY <1>2, <2>1, ChainedTail DEF f
  <2>3. f.to = l
    <3>1. received[l] \in Flit /\ received[l].to = l
      BY <2>1, OnlyHolder DEF TypeOK
    <3>2. f = [received[l] EXCEPT !.sequence_no = @ + 1]
      BY <2>1, <2>2 DEF Follows
    <3> QED BY <3>1, <3>2 DEF Flit
  <2> QED BY <1>1, <1>3, <2>1, <2>2, <2>3 DEF Chains, f
<1>4. CASE ~transmission_in_progress[h]
  <2>1. \A l \in Hubs : received[l] = NoFlit
    BY <1>4, OnlyHolder DEF HasToken
  <2>2. Chained(NoFlit, buffer_tx[h], queued[h])
    BY <1>4 DEF Chains
  <2>3. Follows(NoFlit, f) /\ Chained(InProgress(f), Tail(buffer_tx[h]), queued[h])
    BY <1>2, <2>2, ChainedTail DEF f
  <2> QED BY <1>1, <1>4, <2>1, <2>3 DEF f
<1> QED BY <1>3, <1>4

LEMMA EdgeChains == TypeOK /\ OwnFlits /\ Chains /\ Edge => Chains'
<1> SUFFICES ASSUME TypeOK, OwnFlits, Chains, Edge, macPolicy = "TOKEN_PACKET"
             PROVE  Chains'
  BY DEF Chains, Edge
<1>1. UNCHANGED <<transmission_in_progress, received>>
  BY DEF Edge
<1>2. ASSUME NEW h \in Hubs, NEW g, Chained(g, buffer_tx[h], queued[h])
      PROVE  Chained(g, buffer_tx'[h], queued'[h])
  <2>1. buffer_tx[h] \in Seq(FlitsOf(h))
    BY DEF OwnFlits
  <2>2. ASSUME NEW f \in FlitsOf(h), Follows(queued[h], f)
        PROVE  Chained(g, Append(buffer_tx[h], f), InProgress(f))
    BY <1>2, <2>1, <2>2, ChainedAppend
  <2> QED BY <1>2, <2>2, EdgeFills
<1> QED BY <1>1, <1>2 DEF Chains

LEMMA DeliverChains ==
  ASSUME TypeOK, OwnFlits, PacketKeeps, Chains, NEW h \in Hubs, Deliver(h)
  PROVE  Chains'
<1> SUFFICES ASSUME macPolicy = "TOKEN_PACKET"
             PROVE  Chains'
  BY DEF Chains, Deliver
<1> DEFINE f == Head(buffer_tx[h])
<1>1. HasToken(h) /\ buffer_tx[h] # <<>>
  BY DEF PacketKeeps, Deliver, Due, OnAir, TypeOK
<1>2. /\ f \in FlitsOf(h) /\ f \in Flit /\ f # NoFlit /\ f.to \in Hubs /\ f.from = h
      /\ Follows(received[f.to], f)
      /\ \A l \in Hubs : received[l] # NoFlit => l = f.to
      /\ transmission_in_progress[h] <=> received[f.to] # NoFlit
      /\ Chained(InProgress(f), Tail(buffer_tx[h]), queued[h])
  BY <1>1, NextToSend DEF FlitsOf
<1>3. queued' = queued
  BY DEF Deliver
<1>4. CASE Accepted(h, f)
  <2>1. /\ \A l \in Hubs : received'[l] = IF l = f.to THEN InProgress(f) ELSE received[l]
        /\ \A g \in Hubs : /\ buffer_tx'[g] = IF g = h THEN Tail(buffer_tx[h]) ELSE buffer_tx[g]
                           /\ g # h => transmission_in_progress'[g] = transmission_in_progress[g]
        /\ transmission_in_progress'[h] <=> ~IsTail(f)
    <3>1. transmission_in_progress'[h] = ((transmission_in_progress[h] \/ IsHead(f)) /\ ~IsTail(f))
      BY <1>4 DEF Accepted, TypeOK
    <3>2. transmission_in_progress[h] \/ IsHead(f)
      BY <1>2 DEF Follows
    <3>3. transmission_in_progress'[h] <=> ~IsTail(f)
      BY <3>1, <3>2
    <3> QED BY <1>4, <3>3 DEF Accepted, TypeOK
  <2>2. \A l \in Hubs : received'[l] # NoFlit => l = f.to /\ received'[l] = f /\ ~IsTail(f)
    BY <1>2, <2>1 DEF InProgress
  <2>3. \A l \in Hubs : received'[l] # NoFlit =>
           received'[l].to = l /\ transmission_in_progress'[received'[l].from]
    BY <1>2, <2>1, <2>2
  <2>4. ASSUME NEW g \in Hubs
        PROVE  IF transmission_in_progress'[g]
                 THEN \E l \in Hubs : /\ received'[l] # NoFlit /\ received'[l].from = g
                                      /\ Chained(received'[l], buffer_tx'[g], queued'[g])
                 ELSE Chained(NoFlit, buffer_tx'[g], queued'[g])
    <3>1. CASE g # h
      <4>1. ~transmission_in_progress[g]
        BY <1>1, <3>1 DEF PacketKeeps, HasToken
      <4> QED BY <1>3, <2>1, <3>1, <4>1 DEF Chains
    <3>2. CASE g = h /\ IsTail(f)
      <4>1. Chained(NoFlit, buffer_tx'[h], queued'[h])
        BY <1>2, <1>3, <2>1, <3>2 DEF InProgress
      <4> QED BY <2>1, <3>2, <4>1
    <3>3. CASE g = h /\ ~IsTail(f)
      <4>1. received'[f.to] = f
        BY <1>2, <2>1, <3>3 DEF InProgress
      <4>2. Chained(f, buffer_tx'[h], queued'[h])
        BY <1>2, <1>3, <2>1, <3>3 DEF InProgress
      <4> QED BY <1>2, <2>1, <3>3, <4>1, <4>2
    <3> QED BY <3>1, <3>2, <3>3
  <2> QED BY <2>2, <2>3, <2>4 DEF Chains
<1>5. CASE UNCHANGED <<buffer_rx, buffer_tx, received, transmission_in_progress, flag>>
  BY <1>3, <1>5 DEF Chains
<1> QED BY <1>4, <1>5, DeliverEffect

-----------------------------------------------------------------------------
(***************************************************************************)
(* TOKEN_PACKET: who sleeps, and for how long.                             *)
(***************************************************************************)

(* The cycles of a packet, as its flits go by.                             *)
LEMMA BehindFacts ==
  ASSUME NEW f \in Flit, f.sequence_no < f.sequence_length
  PROVE  /\ Behind(f) \in Nat
         /\ IsTail(f) => Behind(f) = 0
         /\ IsHead(f) => SleepCycles(f) = Behind(f) + flit_transmission_cycles
<1>1. f.sequence_no \in Nat /\ f.sequence_length \in Nat
  BY SizesAssumption DEF Flit
<1>2. flit_transmission_cycles \in Nat
  BY CyclesAssumption
<1>3. \A n, m \in Nat : n * m \in Nat /\ n * (m + 1) = n * m + n /\ n * 0 = 0
  BY SMT
<1>4. PICK m \in Nat : f.sequence_length = f.sequence_no + m + 1
  <2>1. f.sequence_length - f.sequence_no - 1 \in Nat
    BY <1>1
  <2> QED BY <1>1, <2>1
<1>5. f.sequence_length - f.sequence_no - 1 = m
  BY <1>1, <1>4
<1>6. Behind(f) = flit_transmission_cycles * m
  BY <1>5 DEF Behind
<1>7. IsTail(f) => m = 0
  BY <1>1, <1>4 DEF IsTail
<1>8. IsHead(f) => f.sequence_length = m + 1
  BY <1>1, <1>4 DEF IsHead
<1> QED BY <1>2, <1>3, <1>6, <1>7, <1>8 DEF SleepCycles

LEMMA BehindNext ==
  ASSUME NEW g \in Flit, NEW f, f = [g EXCEPT !.sequence_no = @ + 1],
         f.sequence_no < f.sequence_length
  PROVE  Behind(g) = Behind(f) + flit_transmission_cycles
<1>1. g.sequence_no \in Nat /\ g.sequence_length \in Nat
  BY SizesAssumption DEF Flit
<1>2. f.sequence_no = g.sequence_no + 1 /\ f.sequence_length = g.sequence_length
  BY DEF Flit
<1>3. \A n, m \in Nat : n * (m + 1) = n * m + n
  BY SMT
<1>4. f.sequence_length - f.sequence_no - 1 \in Nat
  BY <1>1, <1>2
<1>5. g.sequence_length - g.sequence_no - 1 = (f.sequence_length - f.sequence_no - 1) + 1
  BY <1>1, <1>2
<1> QED BY <1>3, <1>4, <1>5, CyclesAssumption DEF Behind

(* When no head is sent, time passes for all who sleep.                    *)
LEMMA TimePasses ==
  ASSUME TypeOK, Edge,
         \A h \in Hubs : Starts(h) => ~IsHead(Head(buffer_tx[h]))
  PROVE  \A l \in Hubs : sleep_left'[l] = IF sleep_left[l] > 0 THEN sleep_left[l] - 1 ELSE 0
<1>1. {h \in Hubs : Starts(h) /\ IsHead(Head(buffer_tx[h]))} = {}
  OBVIOUS
<1> QED BY <1>1 DEF Edge, powerManager

(* When h sends a head, it is the only one.                                *)
LEMMA OneHead ==
  ASSUME TypeOK, Edge, NEW h \in Hubs, Starts(h), IsHead(Head(buffer_tx[h]))
  PROVE  LET f == Head(buffer_tx[h])
         IN  \A l \in Hubs :
               \/ sleep_left'[l] = IF sleep_left[l] > 0 THEN sleep_left[l] - 1 ELSE 0
               \/ l # f.to /\ sleep_left'[l] = SleepCycles(f)
<1> DEFINE f == Head(buffer_tx[h])
           heads == {Head(buffer_tx[g]) : g \in {k \in Hubs : Starts(k) /\ IsHead(Head(buffer_tx[k]))}}
<1>1. \A g \in Hubs : Starts(g) => g = h
  BY DEF Starts, Requests, HasToken
<1>2. heads = {f}
  BY <1>1
<1>3. (CHOOSE g \in heads : TRUE) = f
  BY <1>2
<1>4. \A l \in Hubs : sleep_left'[l] =
        IF macPolicy \in PowerManaged /\ l \in Listeners /\ \E g \in heads : g.to # l
          THEN SleepCycles(CHOOSE g \in heads : TRUE)
        ELSE IF sleep_left[l] > 0 THEN sleep_left[l] - 1 ELSE 0
  BY DEF Edge, powerManager
<1> HIDE DEF heads
<1> QED BY <1>2, <1>3, <1>4

LEMMA EdgeSleeping ==
  TypeOK /\ OwnFlits /\ PacketKeeps /\ Chains /\ Sleeping /\ Edge => Sleeping'
<1> SUFFICES ASSUME TypeOK, OwnFlits, PacketKeeps, Chains, Sleeping, Edge,
                    macPolicy = "TOKEN_PACKET"
             PROVE  Sleeping'
  BY DEF Sleeping, Edge
<1>0. PICK h \in Hubs : h = current_token_holder
  BY RingFacts DEF TypeOK
<1> USE <1>0
<1> DEFINE f == Head(buffer_tx[h])
           Less(n) == IF n > 0 THEN n - 1 ELSE 0
<1>1. h \in Hubs /\ HasToken(h) /\ flit_transmission_cycles \in Nat \ {0}
  BY CyclesAssumption DEF HasToken
<1>2. \A l \in Hubs : sleep_left[l] \in Nat
  BY DEF TypeOK
<1>3. \A g \in Hubs : Starts(g) => g = h
  BY DEF Starts, Requests, HasToken
<1>4. /\ \A g \in Hubs : OnAir(g)' => g = h /\ (OnAir(h) \/ Starts(h))
      /\ \A g \in Hubs : transmission_in_progress'[g] => g = h /\ transmission_in_progress[h]
  <2>1. ASSUME NEW g \in Hubs, OnAir(g)' PROVE g = h /\ (OnAir(h) \/ Starts(h))
    <3>1. OnAir(g) \/ Starts(g)
      <4>1. cycles_left[g] > 1 \/ Starts(g)
        BY <2>1, EdgeAir
      <4>2. cycles_left[g] \in Nat
        BY DEF TypeOK
      <4> QED BY <4>1, <4>2 DEF OnAir
    <3>2. OnAir(g) => HasToken(g)
      BY DEF PacketKeeps
    <3>3. HasToken(g) => g = h
      BY <1>0 DEF HasToken
    <3> QED BY <1>3, <3>1, <3>2, <3>3
  <2> QED BY <2>1 DEF PacketKeeps, HasToken, Edge
<1>5. /\ transmission_in_progress'[h] = transmission_in_progress[h]
      /\ received' = received /\ macPolicy' = macPolicy
  BY DEF Edge
<1>6. flag[h] = "HOLD_CHANNEL" => current_token_holder' = h
  BY DEF TypeOK, Edge, UpdateToken, TokenMoves
<1>7. CASE OnAir(h)
  <2>1. flag[h] = "HOLD_CHANNEL" /\ buffer_tx[h] # <<>> /\ ~Starts(h)
    BY <1>1, <1>7 DEF PacketKeeps, TypeOK, Starts
  <2>2. cycles_left[h] \in Nat /\ cycles_left[h] > 1 /\ cycles_left'[h] = cycles_left[h] - 1
    BY <1>1, <1>7 DEF TypeOK, OnAir, Edge, Due, Transmit
  <2>3. sleep_left[f.to] = 0 /\ SleepAtMost(Behind(f) + cycles_left[h])
    BY <1>7 DEF Sleeping
  <2>4. f \in Flit /\ f.to \in Hubs /\ Behind(f) \in Nat
    BY <1>1, <2>1, HeadIsOwn, BehindFacts DEF FlitsOf, Flit
  <2>5. buffer_tx'[h] # <<>> /\ Head(buffer_tx'[h]) = f
    BY <1>1, <2>1, EdgeKeepsHead
  <2>6. \A l \in Hubs : sleep_left'[l] = Less(sleep_left[l])
    BY <1>3, <2>1, TimePasses
  <2>7. sleep_left'[f.to] = 0
    BY <2>3, <2>4, <2>6
  <2>8. \A l \in Hubs : sleep_left'[l] <= Behind(f) + cycles_left'[h]
    BY <1>2, <2>2, <2>3, <2>4, <2>6 DEF SleepAtMost
  <2>9. OnAir(h)' /\ current_token_holder' = h
    BY <1>6, <2>1, <2>2 DEF OnAir
  <2> QED BY <2>5, <2>7, <2>8, <2>9 DEF Sleeping, SleepAtMost
<1>8. CASE ~OnAir(h) /\ transmission_in_progress[h]
  <2>1. flag[h] = "HOLD_CHANNEL" /\ current_token_holder' = h
    BY <1>1, <1>6, <1>8 DEF PacketKeeps
  <2>2. PICK l \in Hubs : received[l] # NoFlit
    BY <1>1, <1>8 DEF Chains
  <2>3. received[l] \in Flit /\ sleep_left[l] = 0 /\ SleepAtMost(Behind(received[l]) + 1)
    BY <1>8, <2>2 DEF Sleeping, TypeOK
  <2>4. \A m \in Hubs : received[m] # NoFlit => m = l
    BY <2>2 DEF Chains
  <2>5. CASE Starts(h)
    <3>1. buffer_tx[h] # <<>>
      BY <2>5 DEF Starts, Requests
    <3>2. f \in FlitsOf(h) /\ f \in Flit /\ f.to = l /\ Follows(received[l], f)
      BY <1>1, <1>8, <2>2, <3>1, NextToSend
    <3>3. f = [received[l] EXCEPT !.sequence_no = @ + 1] /\ f.sequence_no < f.sequence_length
      BY <2>2, <3>2 DEF Follows, FlitsOf
    <3>4. Behind(received[l]) = Behind(f) + flit_transmission_cycles /\ Behind(f) \in Nat
      BY <2>3, <3>2, <3>3, BehindNext, BehindFacts
    <3>5. ~IsHead(f)
      <4>1. received[l].sequence_no \in Nat /\ f.sequence_no = received[l].sequence_no + 1
        BY <2>3, <3>3 DEF Flit
      <4> QED BY <4>1 DEF IsHead
    <3>6. \A m \in Hubs : sleep_left'[m] = Less(sleep_left[m])
      BY <1>3, <3>5, TimePasses
    <3>7. cycles_left'[h] = flit_transmission_cycles /\ OnAir(h)'
      BY <1>1, <1>8, <2>5 DEF Edge, Transmit, OnAir
    <3>8. buffer_tx'[h] # <<>> /\ Head(buffer_tx'[h]) = f
      BY <1>1, <3>1, EdgeKeepsHead
    <3>9. sleep_left'[f.to] = 0
      BY <2>3, <3>2, <3>6
    <3>10. \A m \in Hubs : sleep_left'[m] <= Behind(f) + cycles_left'[h]
      BY <1>1, <1>2, <2>3, <3>4, <3>6, <3>7 DEF SleepAtMost
    <3> QED BY <2>1, <3>7, <3>8, <3>9, <3>10 DEF Sleeping, SleepAtMost
  <2>6. CASE ~Starts(h)
    <3>1. \A m \in Hubs : sleep_left'[m] = Less(sleep_left[m])
      BY <1>3, <2>6, TimePasses
    <3>2. ~OnAir(h)'
      BY <1>1, <1>4, <1>8, <2>6
    <3>3. Behind(received[l]) \in Int
      <4>1. received[l].sequence_no \in Nat /\ received[l].sequence_length \in Nat
        BY <2>3, SizesAssumption DEF Flit
      <4> QED BY <4>1, CyclesAssumption DEF Behind
    <3>4. sleep_left'[l] = 0 /\ \A m \in Hubs : sleep_left'[m] <= Behind(received[l]) + 1
      BY <1>2, <2>3, <3>1, <3>3 DEF SleepAtMost
    <3>5. \A m \in Hubs : received'[m] # NoFlit =>
             m = l /\ Behind(received'[m]) = Behind(received[l])
      BY <1>5, <2>4
    <3> QED BY <1>5, <1>8, <2>1, <3>2, <3>4, <3>5 DEF Sleeping, SleepAtMost
  <2> QED BY <2>5, <2>6
<1>9. CASE ~OnAir(h) /\ ~transmission_in_progress[h] /\ Starts(h)
  <2>1. buffer_tx[h] # <<>> /\ flag[h] = "HOLD_CHANNEL"
    BY <1>1, <1>9 DEF Starts, Requests, TypeOK
  <2>2. f \in FlitsOf(h) /\ f \in Flit /\ f.to \in Hubs /\ IsHead(f)
    <3>1. f \in FlitsOf(h) /\ f \in Flit /\ f.to \in Hubs /\ Follows(received[f.to], f)
      BY <1>1, <2>1, NextToSend
    <3>2. received[f.to] = NoFlit
      BY <1>1, <1>9, <2>1, NextToSend
    <3> QED BY <3>1, <3>2 DEF Follows
  <2>3. Behind(f) \in Nat /\ SleepCycles(f) = Behind(f) + flit_transmission_cycles
    BY <2>2, BehindFacts DEF FlitsOf
  <2>4. cycles_left'[h] = flit_transmission_cycles /\ OnAir(h)' /\ current_token_holder' = h
    BY <1>1, <1>6, <1>9, <2>1 DEF Edge, Transmit, OnAir
  <2>5. buffer_tx'[h] # <<>> /\ Head(buffer_tx'[h]) = f
    BY <1>1, <2>1, EdgeKeepsHead
  <2>6. \A l \in Hubs : \/ sleep_left'[l] = Less(sleep_left[l])
                        \/ l # f.to /\ sleep_left'[l] = SleepCycles(f)
    BY <1>1, <1>9, <2>2, OneHead
  <2>7. sleep_left[f.to] = 0 /\ SleepAtMost(Behind(f) + 1)
    <3>1. SleepAtMost(0) \/ (sleep_left[f.to] = 0 /\ SleepAtMost(Behind(f) + 1))
      BY <1>9, <2>1 DEF Sleeping
    <3> QED BY <1>2, <2>2, <2>3, <3>1 DEF SleepAtMost
  <2>8. sleep_left'[f.to] = 0
    BY <2>2, <2>6, <2>7
  <2>9. \A l \in Hubs : sleep_left'[l] <= Behind(f) + cycles_left'[h]
    BY <1>1, <1>2, <2>3, <2>4, <2>6, <2>7 DEF SleepAtMost
  <2> QED BY <2>4, <2>5, <2>8, <2>9 DEF Sleeping, SleepAtMost
<1>10. CASE ~OnAir(h) /\ ~transmission_in_progress[h] /\ ~Starts(h)
  <2>1. \A g \in Hubs : ~OnAir(g)' /\ ~transmission_in_progress'[g]
    BY <1>4, <1>10
  <2>2. \A l \in Hubs : sleep_left'[l] = Less(sleep_left[l])
    BY <1>3, <1>10, TimePasses
  <2>3. current_token_holder' \in Hubs
    BY RingFacts, NextPositionOK DEF TypeOK, Edge, UpdateToken
  <2>4. SleepAtMost(1)
    <3>1. buffer_tx[h] = <<>> \/ flag[h] = "RELEASE_CHANNEL"
      BY <1>1, <1>10 DEF Starts, Requests
    <3> QED BY <1>2, <1>10, <3>1 DEF Sleeping, SleepAtMost
  <2>5. \A l \in Hubs : sleep_left'[l] = 0
    BY <1>2, <2>2, <2>4 DEF SleepAtMost
  <2> QED BY <2>1, <2>3, <2>5 DEF Sleeping, SleepAtMost
<1> QED BY <1>7, <1>8, <1>9, <1>10

LEMMA DeliverSleeping ==
  ASSUME TypeOK, OwnFlits, PacketKeeps, Chains, Sleeping, NEW h \in Hubs, Deliver(h)
  PROVE  Sleeping'
<1> SUFFICES ASSUME macPolicy = "TOKEN_PACKET"
             PROVE  Sleeping'
  BY DEF Sleeping, Deliver
<1> DEFINE f == Head(buffer_tx[h])
<1>1. /\ HasToken(h) /\ flag[h] = "HOLD_CHANNEL" /\ buffer_tx[h] # <<>>
      /\ OnAir(h) /\ cycles_left[h] = 1
  BY DEF PacketKeeps, Deliver, Due, OnAir, TypeOK
<1>2. /\ f \in FlitsOf(h) /\ f \in Flit /\ f.to \in Hubs
      /\ Follows(received[f.to], f)
      /\ \A l \in Hubs : received[l] # NoFlit => l = f.to
      /\ transmission_in_progress[h] <=> received[f.to] # NoFlit
  BY <1>1, NextToSend
<1>3. f.sequence_no < f.sequence_length /\ Behind(f) \in Nat /\ (IsTail(f) => Behind(f) = 0)
  BY <1>2, BehindFacts DEF FlitsOf
<1>4. sleep_left[f.to] = 0 /\ \A l \in Hubs : sleep_left[l] <= Behind(f) + 1
  BY <1>1 DEF Sleeping, SleepAtMost, HasToken
<1>5. current_token_holder' = h /\ sleep_left' = sleep_left /\ ~OnAir(h)'
  <2>1. cycles_left'[h] = 0
    BY DeliverAir
  <2> QED BY <1>1, <2>1 DEF Deliver, ringVars, HasToken, OnAir
<1>6. CASE Accepted(h, f)
  <2>1. /\ \A l \in Hubs : received'[l] = IF l = f.to THEN InProgress(f) ELSE received[l]
        /\ transmission_in_progress'[h] = ((transmission_in_progress[h] \/ IsHead(f)) /\ ~IsTail(f))
        /\ IsTail(f) => flag'[h] = "RELEASE_CHANNEL"
    BY <1>6 DEF Accepted, TypeOK
  <2>2. CASE IsTail(f)
    <3>1. \A l \in Hubs : sleep_left'[l] <= 1
      BY <1>3, <1>4, <1>5, <2>2
    <3>2. ~transmission_in_progress'[h] /\ flag'[h] = "RELEASE_CHANNEL"
      BY <2>1, <2>2
    <3> QED BY <1>5, <3>1, <3>2 DEF Sleeping, SleepAtMost
  <2>3. CASE ~IsTail(f)
    <3>1. transmission_in_progress'[h]
      BY <1>2, <2>1, <2>3 DEF Follows
    <3>2. \A l \in Hubs : received'[l] # NoFlit => l = f.to /\ received'[l] = f
      BY <1>2, <2>1, <2>3 DEF InProgress
    <3> QED BY <1>4, <1>5, <3>1, <3>2 DEF Sleeping, SleepAtMost
  <2> QED BY <2>2, <2>3
<1>7. CASE UNCHANGED <<buffer_rx, buffer_tx, received, transmission_in_progress, flag>>
  <2>1. CASE transmission_in_progress[h]
    <3>1. received[f.to] \in Flit /\ received[f.to] # NoFlit
      BY <1>2, <2>1 DEF TypeOK
    <3>2. Behind(received[f.to]) = Behind(f) + flit_transmission_cycles
      BY <1>2, <1>3, <3>1, BehindNext DEF Follows
    <3>3. \A l \in Hubs : sleep_left[l] <= Behind(received[f.to]) + 1
      BY <1>3, <1>4, <3>2, CyclesAssumption DEF TypeOK
    <3> QED BY <1>2, <1>4, <1>5, <1>7, <2>1, <3>3 DEF Sleeping, SleepAtMost
  <2>2. CASE ~transmission_in_progress[h]
    BY <1>1, <1>4, <1>5, <1>7, <2>2 DEF Sleeping, SleepAtMost
  <2> QED BY <2>1, <2>2
<1> QED BY <1>6, <1>7, DeliverEffect

-----------------------------------------------------------------------------
(***************************************************************************)
(* The invariant is inductive.                                             *)
(***************************************************************************)
LEMMA IInvInit == Init => IInv
<1> SUFFICES ASSUME Init PROVE IInv
  OBVIOUS
<1>1. TypeOK /\ OwnFlits
  BY InitTypes
<1>2. \A h \in Hubs : /\ ~OnAir(h) /\ cycles_left[h] = 0 /\ ~transmission_in_progress[h]
                      /\ received[h] = NoFlit /\ buffer_tx[h] = <<>>
                      /\ queued[h] = NoFlit /\ sleep_left[h] = 0
  BY DEF Init, OnAir
<1>3. Counting
  BY CyclesAssumption DEF Init, Counting
<1>4. HoldKeeps
  BY <1>2, CyclesAssumption DEF Init, HoldKeeps
<1>5. PacketKeeps /\ Exclusive
  BY <1>2 DEF PacketKeeps, Exclusive
<1>6. Chains
  BY <1>2 DEF Chains, Chained
<1>7. Sleeping
  <2>1. current_token_holder \in Hubs /\ SleepAtMost(0)
    BY <1>2, RingFacts DEF TypeOK, SleepAtMost, Init
  <2> QED BY <1>2, <2>1 DEF Sleeping
<1> QED BY <1>1, <1>3, <1>4, <1>5, <1>6, <1>7 DEF IInv

LEMMA IInvNext == IInv /\ [Next]_vars => IInv'
<1> SUFFICES ASSUME IInv, [Next]_vars PROVE IInv'
  OBVIOUS
<1> USE DEF IInv
<1>1. CASE Edge
  BY <1>1, EdgeTypes, EdgeCounting, EdgePacketKeeps, EdgeHoldKeeps, EdgeExclusive, EdgeChains,
     EdgeSleeping
<1>2. ASSUME NEW h \in Hubs, Deliver(h) PROVE IInv'
  <2>1. Counting'
    BY <1>2 DEF Counting, Deliver, ringVars
  <2> QED BY <1>2, <2>1, DeliverTypes, DeliverPacketKeeps, DeliverHoldKeeps, DeliverExclusive,
             DeliverChains, DeliverSleeping
<1>3. CASE UNCHANGED vars
  BY <1>3 DEF vars, ringVars, TypeOK, OwnFlits, Counting, PacketKeeps, HoldKeeps, Exclusive,
              Chains, Sleeping, SleepAtMost, OnAir, HasToken, HubAt
<1> QED BY <1>1, <1>2, <1>3 DEF Next

LEMMA Inductive == Spec => []IInv
BY IInvInit, IInvNext, PTL DEF Spec

-----------------------------------------------------------------------------
(***************************************************************************)
(* Theorems.                                                               *)
(***************************************************************************)

(* The buffers and signals of a channel stay within their bounds, and a    *)
(* flit on the air stays the first one of its buffer_tx.                   *)
THEOREM TypeCorrect == Spec => []TypeOK
<1>1. IInv => TypeOK
  BY DEF IInv
<1> QED BY <1>1, Inductive, PTL

(* Under TOKEN_PACKET and TOKEN_HOLD two hubs never use the channel at     *)
(* once, however long the ring, the packets and the holding time.          *)
THEOREM OneOnAir == Spec => []Exclusive
<1>1. IInv => Exclusive
  BY DEF IInv
<1> QED BY <1>1, Inductive, PTL

(* Under TOKEN_PACKET every antenna buffer gets whole packets, one after   *)
(* the other, whichever hubs they come from.                               *)
THEOREM PacketsArriveWhole == Spec => []WholePackets
<1>1. IInv => WholePackets
  <2> SUFFICES ASSUME IInv, macPolicy = "TOKEN_PACKET", NEW h \in Hubs, Due(h)
               PROVE  LET f == Head(buffer_tx[h]) IN Follows(received[f.to], f)
    BY DEF WholePackets
  <2>1. OnAir(h)
    BY DEF Due, OnAir
  <2>2. HasToken(h) /\ buffer_tx[h] # <<>>
    BY <2>1 DEF IInv, PacketKeeps, TypeOK
  <2> QED BY <2>2, NextToSend DEF IInv
<1> QED BY <1>1, Inductive, PTL

(* Under TOKEN_PACKET the hub a flit is for is awake while it is on the    *)
(* air: the sleep a head tells the others to take ends with its packet.    *)
THEOREM AwakeToReceive == Spec => []Awake
<1>1. IInv => Awake
  BY DEF IInv, Awake, Sleeping, PacketKeeps, HasToken
<1> QED BY <1>1, Inductive, PTL

(* Under TOKEN_PACKET the token stays where it is until the packet that    *)
(* has begun to arrive has arrived.                                        *)
THEOREM TokenHeldThroughPacket == Spec => HeldThroughPacket
<1>1. IInv /\ [Next]_vars =>
        [macPolicy = "TOKEN_PACKET" /\ token_position' # token_position =>
           \A h \in Hubs : received'[h] = NoFlit]_vars
  <2> SUFFICES ASSUME IInv, Next, macPolicy = "TOKEN_PACKET",
                      token_position' # token_position, NEW h \in Hubs
               PROVE  received'[h] = NoFlit
    OBVIOUS
  <2>1. Edge
    BY DEF Next, Deliver, ringVars
  <2>2. TokenMoves /\ received' = received
    BY <2>1 DEF Edge, UpdateToken
  <2>3. flag[current_token_holder] = "RELEASE_CHANNEL"
    BY <2>2 DEF TokenMoves, IInv, TypeOK
  <2> QED BY <2>2, <2>3, OnlyHolder DEF IInv
<1> QED BY <1>1, Inductive, PTL DEF Spec, HeldThroughPacket

=============================================================================
