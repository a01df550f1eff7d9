-------------------------- MODULE ReservationTable --------------------------
(***************************************************************************)
(* The switch reservation table of a Router or a Hub                       *)
(* (src/src/ReservationTable.cpp).  An entry per output port holds the     *)
(* (input port, virtual channel) pairs that reserved the output, in the    *)
(* order they asked, and the index of the one whose turn it is.            *)
(*                                                                         *)
(* The operators named as in the C++ class map a table to a table, so that *)
(* the modules of the components that own a table can use them; the state  *)
(* machine at the end is a table in the hands of any client that respects  *)
(* the assertions of the class.                                            *)
(***************************************************************************)
EXTENDS Naturals, Sequences, SequencesExt

CONSTANTS
  Inputs,   (* input ports                                               *)
  Outputs,  (* output ports: 0 .. n_outputs - 1 in the code              *)
  VCs,      (* virtual channels                                          *)
  AtTurn    (* the outputs whose holders are released at their turn only *)

(* The sets are arbitrary: no operator computes with their elements.       *)
ASSUME AtTurnAssumption == AtTurn \subseteq Outputs

TReservation == [input : Inputs, vc : VCs]

RTEntry == [reservations : Seq(TReservation), index : Nat]

(* setSize: every entry is empty and its index is 0.                       *)
setSize == [o \in Outputs |-> [reservations |-> <<>>, index |-> 0]]

(***************************************************************************)
(* Queries.                                                                *)
(***************************************************************************)

Holds(t, r, o) ==
  \E k \in 1 .. Len(t[o].reservations) : t[o].reservations[k] = r

IsCurrent(t, r, o) ==
  /\ t[o].reservations # <<>>
  /\ t[o].reservations[t[o].index + 1] = r

(* isNotReserved *)
isNotReserved(t, o) == t[o].reservations = <<>>

(* getReservations: the outputs, with the virtual channel, whose turn is   *)
(* a reservation of port_in.                                               *)
getReservations(t, port_in) ==
  {p \in Outputs \X VCs : IsCurrent(t, [input |-> port_in, vc |-> p[2]], p[1])}

(* checkReservation scans the other outputs first and then the entry of    *)
(* port_out: the first reservation there with r's virtual channel decides  *)
(* whether it is r itself or one of another input.                         *)
CheckOneChannel(t, r, port_out) ==                              (* mutant *)
  IF \E o \in Outputs : Holds(t, r, o) THEN "RT_ALREADY_SAME" ELSE "RT_AVAILABLE"
CheckOneEntry(t, r, port_out) ==                                (* mutant *)
  IF \A k \in 1 .. Len(t[port_out].reservations) : t[port_out].reservations[k].vc # r.vc
    THEN "RT_AVAILABLE" ELSE "RT_OUTVC_BUSY"
checkReservation(t, r, port_out) ==
  LET res    == t[port_out].reservations
      sameVc == {k \in 1 .. Len(res) : res[k].vc = r.vc}
      first  == CHOOSE k \in sameVc : \A l \in sameVc : k <= l
  IN  IF \E o \in Outputs \ {port_out} : Holds(t, r, o)
        THEN "RT_ALREADY_OTHER_OUT"
      ELSE IF sameVc = {}    THEN "RT_AVAILABLE"
      ELSE IF res[first] = r THEN "RT_ALREADY_SAME"
      ELSE "RT_OUTVC_BUSY"

(***************************************************************************)
(* Updates.                                                                *)
(***************************************************************************)

(* reserve: appends; the caller has checked that r is available.           *)
reserve(t, r, port_out) ==
  [t EXCEPT ![port_out].reservations = Append(@, r)]

(* The zero-based position of the first occurrence of r at an output.      *)
removed_index(t, r, port_out) ==
  LET res == t[port_out].reservations
      at  == {k \in 1 .. Len(res) : res[k] = r}
  IN  (CHOOSE k \in at : \A l \in at : k <= l) - 1

(* The index after position k was erased and n reservations are left: it   *)
(* stays on the reservation it pointed to; when that is the erased one, it *)
(* goes to the one behind it, and to the first when there is none.         *)
IndexAfterOffByOne(index, k, n) ==                              (* mutant *)
  IF k <= index THEN index - 1 ELSE index
IndexAfterNoReset(index, k, n)  ==                              (* mutant *)
  IF k < index THEN index - 1 ELSE index
IndexAfterNoShift(index, k, n)  == IF index >= n THEN 0 ELSE index  (* mutant *)
IndexAfter(index, k, n) ==
  IF k < index THEN index - 1 ELSE IF index >= n THEN 0 ELSE index

(* release: erases r.                                                      *)
release(t, r, port_out) ==
  LET e    == t[port_out]
      k    == removed_index(t, r, port_out)
      left == RemoveAt(e.reservations, k + 1)
  IN  [t EXCEPT ![port_out] = [reservations |-> left,
                               index |-> IndexAfter(e.index, k, Len(left))]]

(* updateIndex: every output with a reservation passes the turn on.        *)
UpdateSkippingLast(t) ==                                        (* mutant *)
  [o \in Outputs |->
     IF Len(t[o].reservations) < 2 THEN t[o]
     ELSE [t[o] EXCEPT !.index = (@ + 1) % (Len(t[o].reservations) - 1)]]
updateIndex(t) ==
  [o \in Outputs |->
     IF t[o].reservations = <<>> THEN t[o]
     ELSE [t[o] EXCEPT !.index = (@ + 1) % Len(t[o].reservations)]]

(***************************************************************************)
(* A table and its clients.                                                *)
(***************************************************************************)

VARIABLE rtable

Init == rtable = setSize

(* A client calls reserve only after checkReservation said RT_AVAILABLE;   *)
(* the class asserts it again (ReservationTable.cpp:108).                  *)
Reserve(r, o) ==
  /\ checkReservation(rtable, r, o) = "RT_AVAILABLE"
  /\ rtable' = reserve(rtable, r, o)

(* A client releases only what is reserved: anything else runs into the    *)
(* assertion at the end of release.  The router and the hub release a      *)
(* reservation when they have just forwarded its tail, hence one whose     *)
(* turn it is: the outputs in AtTurn.  The class does not ask for that.    *)
Release(r, o) ==
  /\ Holds(rtable, r, o)
  /\ o \in AtTurn => IsCurrent(rtable, r, o)
  /\ rtable' = release(rtable, r, o)

UpdateIndex == rtable' = updateIndex(rtable)

Next ==
  \/ \E r \in TReservation, o \in Outputs : Reserve(r, o)
  \/ \E r \in TReservation, o \in Outputs : Release(r, o)
  \/ UpdateIndex

Spec == Init /\ [][Next]_rtable

(* The clock calls updateIndex every other cycle (Router.cpp:269-270).     *)
FairSpec == Spec /\ WF_rtable(UpdateIndex)

-----------------------------------------------------------------------------
(***************************************************************************)
(* Properties.                                                             *)
(***************************************************************************)

(* Every entry is a sequence of reservations and a natural index.          *)
TypeOK == rtable \in [Outputs -> RTEntry]

(* The subscript reservations[index] of getReservations is inside the      *)
(* vector whenever the vector is not empty, and an empty entry starts its  *)
(* next reservation at index 0.                                            *)
IndexInRange ==
  \A o \in Outputs :
    IF rtable[o].reservations = <<>>
      THEN rtable[o].index = 0
      ELSE rtable[o].index < Len(rtable[o].reservations)

(* No virtual channel of an output is reserved twice, so that a packet     *)
(* never shares the channel of a link with another one ("reservations must *)
(* differ by VC", ReservationTable.cpp:69).                                *)
VcExclusive ==
  \A o \in Outputs : \A k, l \in 1 .. Len(rtable[o].reservations) :
    rtable[o].reservations[k].vc = rtable[o].reservations[l].vc => k = l

(* No (input, virtual channel) holds two outputs: the flits behind a head  *)
(* have one way out ("forbidden table status", ReservationTable.cpp:56).   *)
OneOutput ==
  \A r \in TReservation : \A o, p \in Outputs :
    Holds(rtable, r, o) /\ Holds(rtable, r, p) => o = p

(* Releasing a reservation never takes the turn away from another one that *)
(* has it (the index arithmetic of ReservationTable.cpp:129-133): whatever *)
(* has the turn at an output before a reserve or a release has it after    *)
(* the step, unless it is the one released.                                *)
TurnKept ==
  [][~UpdateIndex =>
       \A o \in Outputs : \A r \in TReservation :
         IsCurrent(rtable, r, o) /\ Holds(rtable', r, o) => IsCurrent(rtable', r, o)]_rtable

(* Round robin: every reservation gets its turn, whatever is reserved and  *)
(* released at its turn meanwhile.                                         *)
EveryoneGetsATurn ==
  \A o \in AtTurn : \A r \in TReservation :
    Holds(rtable, r, o) ~> (IsCurrent(rtable, r, o) \/ ~Holds(rtable, r, o))

=============================================================================
