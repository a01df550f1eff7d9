---------------------------- MODULE RadioChannel ----------------------------
(***************************************************************************)
(* One radio channel: the token that goes round the hubs that transmit on  *)
(* it (src/src/TokenRing.cpp), the part of Hub::tileToAntennaProcess that  *)
(* decides whether a hub transmits (the txRadioProcess... of               *)
(* src/src/Hub.cpp), the thread that sends a flit (Initiator.cpp), the     *)
(* channel that takes its time over it (Channel.cpp) and the antenna       *)
(* buffer it ends up in (Target.cpp).                                      *)
(*                                                                         *)
(* A transmission takes a whole number of cycles and ends just before a    *)
(* clock edge: Deliver.  At the edge, the ring and all the hubs act on the *)
(* values the signals had: Edge.  The tiles' side of the hubs is any one   *)
(* that fills a buffer_tx with whole packets, one after the other, and     *)
(* empties a buffer_rx.  With one virtual channel the reservation table    *)
(* of the hub sees to that; with more, packets mix in buffer_tx already.   *)
(***************************************************************************)
EXTENDS Flits, SequencesExt

CONSTANTS
  Ring,                      (* rings_mapping: the hubs in ring order      *)
  Policies,                  (* the token policies to look at, and those   *)
  PowerManaged,              (* of them with use_powermanager              *)
  Listeners,                 (* the hubs that receive on this channel      *)
  max_hold_cycles,           (* of the last two policies                   *)
  flit_transmission_cycles,
  txBufferSize, rxBufferSize,
  Destinations,              (* Destinations[h]: the hubs h sends to       *)
  Sizes                      (* packet sizes                               *)

Hubs == ToSet(Ring)

num_hubs == Len(Ring)

Senders == {h \in Hubs : Destinations[h] # {}}

ASSUME RingAssumption ==
  /\ Ring \in Seq(Nat) /\ Ring # <<>>
  /\ \A p, q \in 1 .. Len(Ring) : Ring[p] = Ring[q] => p = q
ASSUME PolicyAssumption ==
  /\ Policies \subseteq {"TOKEN_PACKET", "TOKEN_HOLD", "TOKEN_MAX_HOLD"}
  /\ PowerManaged \subseteq Policies
(* updateTokenMaxHold reads the flag of the hub numbered token_position.   *)
ASSUME NumberingAssumption ==
  "TOKEN_MAX_HOLD" \in Policies => Hubs = 0 .. num_hubs - 1
(* attachHub asserts that a flit fits into the holding time.               *)
ASSUME CyclesAssumption ==
  /\ flit_transmission_cycles \in Nat \ {0}
  /\ max_hold_cycles \in Nat
  /\ Policies # {"TOKEN_PACKET"} => flit_transmission_cycles < max_hold_cycles
ASSUME BuffersAssumption == txBufferSize \in Nat \ {0} /\ rxBufferSize \in Nat \ {0}
ASSUME DestinationsAssumption == 
  /\ Listeners \subseteq Hubs
  /\ Destinations \in [Hubs -> SUBSET Listeners]
ASSUME SizesAssumption == Sizes \subseteq Nat \ {0, 1}

VARIABLES
  macPolicy,                 (* configured; never changes                  *)
  token_position,            (* 0 .. num_hubs - 1                          *)
  token_hold_count,
  current_token_holder,      (* signal                                     *)
  current_token_expiration,  (* signal                                     *)
  flag,                      (* flag[h]: signal between h and the ring     *)
  transmission_in_progress,  (* of each hub: between a head and a tail     *)
  buffer_tx, buffer_rx,      (* of each hub: sequences of flits            *)
  sleep_left,                (* sleep_left[h]: cycles until sleep_end_cycle *)
                             (* of a listener, 0 when it is past           *)
  cycles_left,               (* cycles_left[h]: the flit h is sending gets *)
                             (* there at the end of that many cycles; 0    *)
                             (* when the Initiator of h is not in wait()   *)
  queued,                    (* queued[h]: last flit put into buffer_tx[h] *)
  received                   (* received[h]: last flit put into            *)
                             (* buffer_rx[h]; both NoFlit after a tail     *)

ringVars == <<token_position, token_hold_count, current_token_holder,
              current_token_expiration>>
vars == <<macPolicy, ringVars, flag, transmission_in_progress, buffer_tx, buffer_rx,
          sleep_left, cycles_left, queued, received>>

Flit == [from : Hubs, to : Hubs, sequence_no : Nat, sequence_length : Sizes]

NextFlits(g, h) ==
  IF g = NoFlit
    THEN [from : {h}, to : Destinations[h], sequence_no : {0}, sequence_length : Sizes]
    ELSE {[g EXCEPT !.sequence_no = @ + 1]}

(* attachHub and the reset branches.                                       *)
Init ==
  /\ macPolicy \in Policies
  /\ token_position = 0
  /\ token_hold_count = IF macPolicy = "TOKEN_PACKET" THEN 0 ELSE max_hold_cycles
  /\ current_token_holder = Ring[1]
  /\ current_token_expiration = 0
  /\ flag = [h \in Hubs |-> "HOLD_CHANNEL"]
  /\ transmission_in_progress = [h \in Hubs |-> FALSE]
  /\ buffer_tx = [h \in Hubs |-> <<>>]
  /\ buffer_rx = [h \in Hubs |-> <<>>]
  /\ sleep_left = [h \in Hubs |-> 0]
  /\ cycles_left = [h \in Hubs |-> 0]
  /\ queued = [h \in Hubs |-> NoFlit]
  /\ received = [h \in Hubs |-> NoFlit]

(***************************************************************************)
(* The end of a transmission: Target::b_transport and what follows it in   *)
(* Initiator::thread_process.  When the antenna buffer is full the flit    *)
(* stays in buffer_tx, to be sent again.                                   *)
(***************************************************************************)
OnAir(h) == cycles_left[h] > 0

Due(h) == cycles_left[h] = 1

(* Mutant: a head is left in buffer_tx and sent twice.                     *)
AcceptedKeepsFlit(h, f) ==
  /\ buffer_rx' = [buffer_rx EXCEPT ![f.to] = Append(@, f)]
  /\ buffer_tx' = IF IsHead(f) THEN buffer_tx ELSE [buffer_tx EXCEPT ![h] = Tail(@)]
  /\ received' = [received EXCEPT ![f.to] = InProgress(f)]
  /\ transmission_in_progress' =
       [transmission_in_progress EXCEPT ![h] = (@ \/ IsHead(f)) /\ ~IsTail(f)]
  /\ flag' = [flag EXCEPT ![h] = IF IsTail(f) THEN "RELEASE_CHANNEL" ELSE @]
Accepted(h, f) ==
  /\ buffer_rx' = [buffer_rx EXCEPT ![f.to] = Append(@, f)]
  /\ buffer_tx' = [buffer_tx EXCEPT ![h] = Tail(@)]
  /\ received' = [received EXCEPT ![f.to] = InProgress(f)]
  /\ transmission_in_progress' =
       [transmission_in_progress EXCEPT ![h] = (@ \/ IsHead(f)) /\ ~IsTail(f)]
  /\ flag' = [flag EXCEPT ![h] = IF IsTail(f) THEN "RELEASE_CHANNEL" ELSE @]

Deliver(h) ==
  /\ Due(h)
  /\ LET f == Head(buffer_tx[h])
     IN  \/ Len(buffer_rx[f.to]) < rxBufferSize /\ Accepted(h, f)
         \/ /\ Len(buffer_rx[f.to]) = rxBufferSize
            /\ UNCHANGED <<buffer_rx, buffer_tx, received, transmission_in_progress, flag>>
  /\ cycles_left' = [cycles_left EXCEPT ![h] = 0]
  /\ UNCHANGED <<macPolicy, ringVars, sleep_left, queued>>

(***************************************************************************)
(* The hub: whether it asks its Initiator to send, and what it writes to   *)
(* its flag.  Asking an Initiator that is in wait() has no effect.         *)
(***************************************************************************)
HasToken(h) == current_token_holder = h

(* Mutant.                                                                 *)
EnoughOffByOne == current_token_expiration + 1 >= flit_transmission_cycles
Enough == current_token_expiration >= flit_transmission_cycles

(* Mutant.                                                                 *)
RequestsWithoutToken(h) ==
  /\ buffer_tx[h] # <<>>
  /\ IF macPolicy = "TOKEN_PACKET" THEN flag[h] # "RELEASE_CHANNEL" ELSE Enough
Requests(h) ==
  /\ HasToken(h)
  /\ buffer_tx[h] # <<>>
  /\ IF macPolicy = "TOKEN_PACKET" THEN flag[h] # "RELEASE_CHANNEL" ELSE Enough

(* Mutant: a holder between two flits of a packet gives up.                *)
NothingInBuffer(h) == buffer_tx[h] = <<>>
NothingToSend(h) == buffer_tx[h] = <<>> /\ ~transmission_in_progress[h]

HubFlag(h) ==
  CASE macPolicy = "TOKEN_PACKET" ->
         IF HasToken(h) /\ NothingToSend(h) THEN "RELEASE_CHANNEL" ELSE flag[h]
    [] macPolicy = "TOKEN_HOLD" -> "HOLD_CHANNEL"
    [] macPolicy = "TOKEN_MAX_HOLD" ->
         IF HasToken(h) /\ (buffer_tx[h] = <<>> \/ ~Enough)
           THEN "RELEASE_CHANNEL" ELSE "HOLD_CHANNEL"

Starts(h) == Requests(h) /\ ~OnAir(h)

Transmit ==
  cycles_left' = [h \in Hubs |->
                    IF OnAir(h) THEN cycles_left[h] - 1
                    ELSE IF Starts(h) THEN flit_transmission_cycles ELSE 0]

(* A head for another hub tells a listener how long it may sleep.  Only a  *)
(* holder starts, so there is one head at most.                            *)
(* Mutant: a flit too long.                                                *)
SleepTooLong(f) == flit_transmission_cycles * (f.sequence_length + 1)
SleepCycles(f) == flit_transmission_cycles * f.sequence_length

powerManager ==
  LET heads == {Head(buffer_tx[h]) : h \in {g \in Hubs : Starts(g) /\ IsHead(Head(buffer_tx[g]))}}
      PutToSleep(h) == h \in Listeners /\ \E f \in heads : f.to # h
  IN  sleep_left' = [h \in Hubs |->
                       IF macPolicy \in PowerManaged /\ PutToSleep(h)
                         THEN SleepCycles(CHOOSE f \in heads : TRUE)
                       ELSE IF sleep_left[h] > 0 THEN sleep_left[h] - 1 ELSE 0]

(***************************************************************************)
(* The ring: updateTokenPacket, updateTokenHold, updateTokenMaxHold.       *)
(***************************************************************************)
HubAt(p) == Ring[p + 1]

TokenMoves ==
  CASE macPolicy = "TOKEN_PACKET"   -> flag[HubAt(token_position)] = "RELEASE_CHANNEL"
    [] macPolicy = "TOKEN_HOLD"     -> token_hold_count = 1
    [] macPolicy = "TOKEN_MAX_HOLD" ->
         token_hold_count = 1 \/ flag[token_position] = "RELEASE_CHANNEL"

NextPosition == (token_position + 1) % num_hubs

UpdateToken ==
  /\ token_position' = IF TokenMoves THEN NextPosition ELSE token_position
  /\ current_token_holder' = IF TokenMoves THEN HubAt(NextPosition) ELSE current_token_holder
  /\ IF macPolicy = "TOKEN_PACKET"
       THEN UNCHANGED <<token_hold_count, current_token_expiration>>
       ELSE /\ token_hold_count' = IF TokenMoves THEN max_hold_cycles ELSE token_hold_count - 1
            /\ current_token_expiration' = token_hold_count'

(* Mutant: the new holder's flag is left as it was.                        *)
FlagNotReset(h) == HubFlag(h)
FlagAfter(h) ==
  IF macPolicy = "TOKEN_PACKET" /\ TokenMoves /\ h = HubAt(NextPosition)
    THEN "HOLD_CHANNEL" ELSE HubFlag(h)

(***************************************************************************)
(* The tiles' side of the hubs: in one cycle at most one flit goes into a  *)
(* buffer_tx, and one leaves a buffer_rx.                                  *)
(***************************************************************************)
(* Mutant: the buffer may be full.                                         *)
MayPutAnyTime(h) == NextFlits(queued[h], h)
MayPut(h) == IF Len(buffer_tx[h]) < txBufferSize THEN NextFlits(queued[h], h) ELSE {}

(* A flit for each of some hubs.                                           *)
Puts ==
  UNION {{put \in [some -> UNION {MayPut(h) : h \in some}] : \A h \in some : put[h] \in MayPut(h)} :
           some \in SUBSET {h \in Hubs : MayPut(h) # {}}}

Forward(put, taken) ==
  /\ buffer_tx' = [h \in Hubs |-> IF h \in DOMAIN put THEN Append(buffer_tx[h], put[h])
                                  ELSE buffer_tx[h]]
  /\ queued' = [h \in Hubs |-> IF h \in DOMAIN put THEN InProgress(put[h]) ELSE queued[h]]
  /\ buffer_rx' = [h \in Hubs |-> IF h \in taken THEN Tail(buffer_rx[h]) ELSE buffer_rx[h]]

(* One clock edge: TokenRing::updateTokens and, of every hub,              *)
(* antennaToTileProcess and tileToAntennaProcess.                          *)
Edge ==
  /\ \A h \in Hubs : ~Due(h)
  /\ UpdateToken
  /\ flag' = [h \in Hubs |-> FlagAfter(h)]
  /\ Transmit /\ powerManager
  /\ \E put \in Puts, taken \in SUBSET {h \in Hubs : buffer_rx[h] # <<>>} : Forward(put, taken)
  /\ UNCHANGED <<macPolicy, transmission_in_progress, received>>

Next == Edge \/ \E h \in Hubs : Deliver(h)

Spec == Init /\ [][Next]_vars

(* Time passes; the rest of a packet that has begun to come does come, and *)
(* the tiles take what is received.                                        *)
Continues(h) == Edge /\ queued[h] # NoFlit /\ Len(buffer_tx'[h]) > Len(buffer_tx[h])

Empties(h) == Edge /\ Len(buffer_rx'[h]) < Len(buffer_rx[h])

FairSpec ==
  /\ Spec
  /\ WF_vars(Next)
  /\ \A h \in Senders : SF_vars(Continues(h))
  /\ \A h \in Listeners : SF_vars(Empties(h))

(***************************************************************************)
(* Properties.                                                             *)
(***************************************************************************)
TypeOK ==
  /\ macPolicy \in Policies
  /\ token_position \in 0 .. num_hubs - 1
  /\ token_hold_count \in 0 .. max_hold_cycles
  /\ current_token_holder = HubAt(token_position)
  /\ current_token_expiration \in 0 .. max_hold_cycles
  /\ flag \in [Hubs -> {"HOLD_CHANNEL", "RELEASE_CHANNEL"}]
  /\ transmission_in_progress \in [Hubs -> BOOLEAN]
  /\ buffer_tx \in [Hubs -> Seq(Flit)] /\ buffer_rx \in [Hubs -> Seq(Flit)]
  /\ sleep_left \in [Hubs -> Nat]
  /\ cycles_left \in [Hubs -> 0 .. flit_transmission_cycles]
  /\ queued \in [Hubs -> Flit \cup {NoFlit}] /\ received \in [Hubs -> Flit \cup {NoFlit}]
  /\ \A h \in Hubs :
       /\ Len(buffer_tx[h]) <= txBufferSize /\ Len(buffer_rx[h]) <= rxBufferSize
       /\ OnAir(h) => buffer_tx[h] # <<>>

(* The channel is never used by two hubs at once: who still sends when the *)
(* token goes round has finished before the next holder can see it has the *)
(* token.                                                                  *)
Exclusive ==
  macPolicy # "TOKEN_MAX_HOLD" => \A g, h \in Hubs : OnAir(g) /\ OnAir(h) => g = h

(* What gets to an antenna buffer is a sequence of whole packets: the hub  *)
(* that receives reserves an output for a head and has no other way to     *)
(* tell whose body and tail flits come behind it (Hub.cpp, 324-422).       *)
WholePackets ==
  macPolicy = "TOKEN_PACKET" =>
    \A h \in Hubs : Due(h) => LET f == Head(buffer_tx[h]) IN Follows(received[f.to], f)

(* A hub that sleeps through the packets of others (-wirxsleep) is awake   *)
(* when one for itself comes: the time it was told is over, to the cycle.  *)
Awake ==
  macPolicy = "TOKEN_PACKET" =>
    \A h \in Hubs : OnAir(h) => sleep_left[Head(buffer_tx[h]).to] = 0

(* Under TOKEN_PACKET the token is released only when a complete packet    *)
(* has been sent: it does not move while a packet is partly received.      *)
HeldThroughPacket ==
  [][macPolicy = "TOKEN_PACKET" /\ token_position' # token_position =>
       \A h \in Hubs : received'[h] = NoFlit]_vars

(* Whatever is in a buffer_tx gets its turn on the channel: the token      *)
(* comes round, and a flit refused by a full antenna buffer is sent again. *)
EveryoneTransmits == \A h \in Senders : buffer_tx[h] # <<>> ~> OnAir(h)

(* Under TOKEN_MAX_HOLD the holder keeps the token while it needs it, up   *)
(* to the maximum number of cycles.  While cycles of its time are left,    *)
(* the ring does not take the token from a hub that was on the air at the  *)
(* edge before, when it wrote the flag the ring now reads, and still is.   *)
(* A flag written before the flit was started, for an empty buffer_tx or   *)
(* for want of time, is another matter.                                    *)
WasSending(h) == OnAir(h) /\ cycles_left[h] < flit_transmission_cycles

KeptWhileNeeded ==
  [][macPolicy = "TOKEN_MAX_HOLD" /\ token_position' # token_position =>
       token_hold_count = 1 \/ ~WasSending(current_token_holder)]_vars

=============================================================================
