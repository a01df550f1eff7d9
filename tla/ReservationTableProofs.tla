----------------------- MODULE ReservationTableProofs -----------------------
(***************************************************************************)
(* Theorems about ReservationTable, for any sets of inputs, outputs and    *)
(* virtual channels.                                                       *)
(***************************************************************************)
EXTENDS ReservationTable, TLAPS, SequenceTheorems

(* RemoveAt drops one element and moves the ones behind it down.           *)
LEMMA RemoveAtProperties ==
  ASSUME NEW S, NEW s \in Seq(S), NEW k \in 1 .. Len(s)
  PROVE  /\ RemoveAt(s, k) \in Seq(S)
         /\ Len(RemoveAt(s, k)) = Len(s) - 1
         /\ \A j \in 1 .. Len(s) - 1 :
              RemoveAt(s, k)[j] = IF j < k THEN s[j] ELSE s[j + 1]
<1> DEFINE a == SubSeq(s, 1, k - 1)
           b == SubSeq(s, k + 1, Len(s))
<1>0. Len(s) \in Nat /\ k \in Nat /\ 1 <= k /\ k <= Len(s)
  OBVIOUS
<1>1. /\ a \in Seq(S) /\ Len(a) = k - 1
      /\ \A j \in 1 .. k - 1 : a[j] = s[j]
  BY <1>0, SubSeqProperties
<1>2. /\ b \in Seq(S) /\ Len(b) = Len(s) - k
      /\ \A j \in 1 .. Len(s) - k : b[j] = s[k + j]
  BY <1>0, SubSeqProperties
<1>3. RemoveAt(s, k) = a \o b
  BY DEF RemoveAt
<1> HIDE DEF a, b
<1>4. /\ a \o b \in Seq(S)
      /\ Len(a \o b) = Len(a) + Len(b)
      /\ \A j \in 1 .. Len(a) + Len(b) :
           (a \o b)[j] = IF j <= Len(a) THEN a[j] ELSE b[j - Len(a)]
  BY <1>1, <1>2, ConcatProperties, Zenon
<1>5. ASSUME NEW j \in 1 .. Len(s) - 1
      PROVE  (a \o b)[j] = IF j < k THEN s[j] ELSE s[j + 1]
  <2>1. (a \o b)[j] = IF j <= Len(a) THEN a[j] ELSE b[j - Len(a)]
    BY <1>0, <1>1, <1>2, <1>4
  <2>2. CASE j < k
    BY <1>0, <1>1, <2>1, <2>2
  <2>3. CASE ~(j < k)
    BY <1>0, <1>1, <1>2, <2>1, <2>3
  <2> QED BY <2>2, <2>3
<1>6. Len(a \o b) = Len(s) - 1
  BY <1>0, <1>1, <1>2, <1>4
<1> QED BY <1>3, <1>4, <1>5, <1>6

-----------------------------------------------------------------------------
(***************************************************************************)
(* The inductive invariant, of any table t, so that the owners of a table  *)
(* can use it too.  Exclusive is what makes release act on the one         *)
(* reservation it is given, and InRange is what makes its index arithmetic *)
(* meaningful, so neither is inductive without the other.                  *)
(***************************************************************************)
Typed(t) == t \in [Outputs -> RTEntry]

InRange(t) ==
  \A o \in Outputs :
    IF t[o].reservations = <<>>
      THEN t[o].index = 0
      ELSE t[o].index < Len(t[o].reservations)

Exclusive(t) ==
  \A o \in Outputs : \A k, l \in 1 .. Len(t[o].reservations) :
    t[o].reservations[k].vc = t[o].reservations[l].vc => k = l

Single(t) ==
  \A r \in TReservation : \A o, p \in Outputs :
    Holds(t, r, o) /\ Holds(t, r, p) => o = p

WellFormed(t) == Typed(t) /\ InRange(t) /\ Exclusive(t) /\ Single(t)

(* With distinct virtual channels there is one position to erase.          *)
LEMMA RemovedIndexIsPosition ==
  ASSUME NEW t, Typed(t), Exclusive(t), NEW o \in Outputs, NEW r, Holds(t, r, o)
  PROVE  LET k == removed_index(t, r, o) IN
         /\ k \in Nat /\ k < Len(t[o].reservations)
         /\ t[o].reservations[k + 1] = r
<1> DEFINE res == t[o].reservations
           at  == {k \in 1 .. Len(res) : res[k] = r}
<1>1. res \in Seq(TReservation) /\ Len(res) \in Nat
  BY DEF Typed, RTEntry
<1>2. PICK k \in 1 .. Len(res) : res[k] = r
  BY DEF Holds
<1>3. \A l \in at : l = k
  BY <1>2 DEF Exclusive
<1>4. k \in at /\ \A l \in at : k <= l
  BY <1>1, <1>2, <1>3
<1>5. (CHOOSE x \in at : \A l \in at : x <= l) = k
  BY <1>3, <1>4
<1>6. removed_index(t, r, o) = k - 1
  BY <1>5 DEF removed_index
<1> QED BY <1>1, <1>2, <1>6

(* What release leaves behind at the output it works on, and elsewhere.    *)
LEMMA ReleaseEffect ==
  ASSUME NEW t, Typed(t), InRange(t), Exclusive(t),
         NEW o \in Outputs, NEW r, Holds(t, r, o)
  PROVE  LET e == t[o]
             u == release(t, r, o)
             f == u[o]
             k == removed_index(t, r, o)
         IN  /\ u \in [Outputs -> RTEntry]
             /\ \A p \in Outputs : p # o => u[p] = t[p]
             /\ k \in Nat /\ k < Len(e.reservations)
             /\ e.reservations[k + 1] = r
             /\ Len(e.reservations) \in Nat
             /\ f.reservations \in Seq(TReservation)
             /\ Len(f.reservations) = Len(e.reservations) - 1
             /\ \A j \in 1 .. Len(e.reservations) - 1 :
                  f.reservations[j] = IF j < k + 1 THEN e.reservations[j]
                                                   ELSE e.reservations[j + 1]
             /\ f.index = IF k < e.index THEN e.index - 1
                          ELSE IF e.index >= Len(e.reservations) - 1 THEN 0
                          ELSE e.index
<1> DEFINE e == t[o]
           k == removed_index(t, r, o)
           left == RemoveAt(e.reservations, k + 1)
           idx == IF k < e.index THEN e.index - 1
                  ELSE IF e.index >= Len(left) THEN 0
                  ELSE e.index
<1>1. /\ e \in RTEntry /\ e.reservations \in Seq(TReservation)
      /\ Len(e.reservations) \in Nat /\ e.index \in Nat
  BY DEF Typed, RTEntry
<1>2. k \in Nat /\ k < Len(e.reservations) /\ e.reservations[k + 1] = r
  BY RemovedIndexIsPosition
<1>3. release(t, r, o)
        = [t EXCEPT ![o] = [reservations |-> left, index |-> idx]]
  BY DEF release, IndexAfter
<1> HIDE DEF k
<1>4. k + 1 \in 1 .. Len(e.reservations)
  BY <1>1, <1>2
<1>5. /\ left \in Seq(TReservation)
      /\ Len(left) = Len(e.reservations) - 1
      /\ \A j \in 1 .. Len(e.reservations) - 1 :
           left[j] = IF j < k + 1 THEN e.reservations[j] ELSE e.reservations[j + 1]
  BY <1>1, <1>4, RemoveAtProperties
<1> HIDE DEF left
<1>6. idx \in Nat
  BY <1>1, <1>2
<1>7. [reservations |-> left, index |-> idx] \in RTEntry
  BY <1>5, <1>6 DEF RTEntry
<1>8. /\ release(t, r, o) \in [Outputs -> RTEntry]
      /\ release(t, r, o)[o] = [reservations |-> left, index |-> idx]
      /\ \A p \in Outputs : p # o => release(t, r, o)[p] = t[p]
  BY <1>3, <1>7 DEF Typed
<1> QED BY <1>1, <1>2, <1>5, <1>8 DEF k

(* setSize: no holders.                                                    *)
LEMMA SetSizeMakes ==
  /\ WellFormed(setSize)
  /\ \A r \in TReservation, o \in Outputs : ~Holds(setSize, r, o)
<1>1. \A o \in Outputs : setSize[o] = [reservations |-> <<>>, index |-> 0]
  BY DEF setSize
<1>2. Typed(setSize)
  BY EmptySeq DEF setSize, Typed, RTEntry
<1>3. Len(<<>>) = 0
  OBVIOUS
<1> QED BY <1>1, <1>2, <1>3 DEF WellFormed, InRange, Exclusive, Single, Holds

(* An available reservation meets no other of its virtual channel at the   *)
(* output and is held nowhere else.                                        *)
LEMMA AvailableMeans ==
  ASSUME NEW t, NEW r, NEW o \in Outputs, checkReservation(t, r, o) = "RT_AVAILABLE"
  PROVE  /\ \A k \in 1 .. Len(t[o].reservations) : t[o].reservations[k].vc # r.vc
         /\ \A p \in Outputs : ~Holds(t, r, p)
BY DEF checkReservation, Holds

(* reserve, of what is available: one holder more.                         *)
LEMMA ReserveKeeps ==
  ASSUME NEW t, WellFormed(t), NEW r \in TReservation, NEW o \in Outputs,
         checkReservation(t, r, o) = "RT_AVAILABLE"
  PROVE  /\ WellFormed(reserve(t, r, o))
         /\ \A q \in TReservation, p \in Outputs :
              Holds(reserve(t, r, o), q, p) <=> Holds(t, q, p) \/ (q = r /\ p = o)
<1> USE DEF WellFormed
<1> DEFINE u == reserve(t, r, o)
<1> DEFINE res == t[o].reservations
<1>1. /\ t[o] \in RTEntry /\ res \in Seq(TReservation)
      /\ Len(res) \in Nat /\ t[o].index \in Nat
  BY DEF Typed, RTEntry
<1>2. /\ Append(res, r) \in Seq(TReservation)
      /\ Len(Append(res, r)) = Len(res) + 1
      /\ \A j \in 1 .. Len(res) : Append(res, r)[j] = res[j]
      /\ Append(res, r)[Len(res) + 1] = r
  BY <1>1, AppendProperties
<1>3. /\ u \in [Outputs -> RTEntry]
      /\ u[o].reservations = Append(res, r)
      /\ u[o].index = t[o].index
      /\ \A p \in Outputs : p # o => u[p] = t[p]
  BY <1>1, <1>2 DEF reserve, Typed, RTEntry
<1>4. /\ \A k \in 1 .. Len(res) : res[k].vc # r.vc
      /\ \A p \in Outputs : ~Holds(t, r, p)
  BY AvailableMeans
<1> HIDE DEF res, u
<1>5. Typed(u)
  BY <1>3 DEF Typed
<1>6. InRange(u)
  <2>1. ASSUME NEW p \in Outputs, p # o
        PROVE  IF u[p].reservations = <<>> THEN u[p].index = 0
               ELSE u[p].index < Len(u[p].reservations)
    BY <1>3, <2>1 DEF InRange
  <2>2. t[o].index < Len(res) + 1
    BY <1>1 DEF InRange, res
  <2>3. u[o].reservations # <<>> /\ u[o].index < Len(u[o].reservations)
    BY <1>1, <1>2, <1>3, <2>2
  <2> QED BY <2>1, <2>3 DEF InRange
<1>7. Exclusive(u)
  <2> SUFFICES ASSUME NEW p \in Outputs,
                      NEW k \in 1 .. Len(u[p].reservations),
                      NEW l \in 1 .. Len(u[p].reservations),
                      u[p].reservations[k].vc = u[p].reservations[l].vc
               PROVE  k = l
    BY DEF Exclusive
  <2>1. CASE p # o
    BY <1>3, <2>1 DEF Exclusive
  <2>2. CASE p = o
    <3>1. k \in 1 .. Len(res) + 1 /\ l \in 1 .. Len(res) + 1
      BY <1>2, <1>3, <2>2
    <3>2. CASE k \in 1 .. Len(res) /\ l \in 1 .. Len(res)
      <4>1. res[k].vc = res[l].vc
        BY <1>2, <1>3, <2>2, <3>2
      <4> QED BY <3>2, <4>1 DEF Exclusive, res
    <3>3. CASE k = Len(res) + 1 /\ l \in 1 .. Len(res)
      BY <1>2, <1>3, <1>4, <2>2, <3>3
    <3>4. CASE k \in 1 .. Len(res) /\ l = Len(res) + 1
      BY <1>2, <1>3, <1>4, <2>2, <3>4
    <3> QED BY <1>1, <3>1, <3>2, <3>3, <3>4
  <2> QED BY <2>1, <2>2
<1>8. ASSUME NEW q \in TReservation, NEW p \in Outputs
      PROVE  Holds(u, q, p) <=> Holds(t, q, p) \/ (q = r /\ p = o)
  <2>1. CASE p # o
    BY <1>3, <2>1 DEF Holds
  <2>2. CASE p = o
    <3>1. Holds(u, q, p) <=> \E k \in 1 .. Len(res) + 1 : Append(res, r)[k] = q
      BY <1>2, <1>3, <2>2 DEF Holds
    <3>2. Holds(t, q, p) <=> \E k \in 1 .. Len(res) : res[k] = q
      BY <2>2 DEF Holds, res
    <3> QED BY <1>1, <1>2, <2>2, <3>1, <3>2
  <2> QED BY <2>1, <2>2
<1>9. Single(u)
  BY <1>4, <1>8 DEF Single
<1> QED BY <1>5, <1>6, <1>7, <1>8, <1>9 DEF u

(* release, of what is held: one holder less.                              *)
LEMMA ReleaseKeeps ==
  ASSUME NEW t, WellFormed(t), NEW r \in TReservation, NEW o \in Outputs, Holds(t, r, o)
  PROVE  /\ WellFormed(release(t, r, o))
         /\ \A q \in TReservation, p \in Outputs :
              Holds(release(t, r, o), q, p) <=> Holds(t, q, p) /\ ~(q = r /\ p = o)
<1> USE DEF WellFormed
<1> DEFINE u == release(t, r, o)
<1> DEFINE e == t[o]
           f == u[o]
           k == removed_index(t, r, o)
           n == Len(e.reservations)
<1>1. /\ u \in [Outputs -> RTEntry]
      /\ \A p \in Outputs : p # o => u[p] = t[p]
      /\ k \in Nat /\ k < n /\ n \in Nat
      /\ e.reservations[k + 1] = r
      /\ f.reservations \in Seq(TReservation)
      /\ Len(f.reservations) = n - 1
      /\ \A j \in 1 .. n - 1 :
           f.reservations[j] = IF j < k + 1 THEN e.reservations[j]
                                            ELSE e.reservations[j + 1]
      /\ f.index = IF k < e.index THEN e.index - 1
                   ELSE IF e.index >= n - 1 THEN 0
                   ELSE e.index
  BY ReleaseEffect
<1>2. e.index \in Nat /\ e.reservations # <<>> /\ e.index < n
  BY <1>1 DEF Typed, RTEntry, InRange
<1> HIDE DEF e, f, k, n, u
<1>3. Typed(u)
  BY <1>1 DEF Typed
<1>4. InRange(u)
  <2>1. ASSUME NEW p \in Outputs, p # o
        PROVE  IF u[p].reservations = <<>> THEN u[p].index = 0
               ELSE u[p].index < Len(u[p].reservations)
    BY <1>1, <2>1 DEF InRange
  <2>2. IF f.reservations = <<>> THEN f.index = 0 ELSE f.index < Len(f.reservations)
    <3>1. CASE f.reservations = <<>>
      <4>1. n = 1
        BY <1>1, <3>1
      <4> QED BY <1>1, <1>2, <3>1, <4>1
    <3>2. CASE f.reservations # <<>>
      <4>1. n - 1 > 0
        BY <1>1, <3>2, EmptySeq
      <4> QED BY <1>1, <1>2, <3>2, <4>1
    <3> QED BY <3>1, <3>2
  <2> QED BY <2>1, <2>2 DEF InRange, f
<1>5. ASSUME NEW j \in 1 .. n - 1
      PROVE  \E i \in 1 .. n : /\ f.reservations[j] = e.reservations[i]
                               /\ i = IF j < k + 1 THEN j ELSE j + 1
  BY <1>1
<1>6. Exclusive(u)
  <2> SUFFICES ASSUME NEW p \in Outputs,
                      NEW a \in 1 .. Len(u[p].reservations),
                      NEW b \in 1 .. Len(u[p].reservations),
                      u[p].reservations[a].vc = u[p].reservations[b].vc
               PROVE  a = b
    BY DEF Exclusive
  <2>1. CASE p # o
    BY <1>1, <2>1 DEF Exclusive
  <2>2. CASE p = o
    <3>1. a \in 1 .. n - 1 /\ b \in 1 .. n - 1
      BY <1>1, <2>2 DEF f
    <3>2. PICK i \in 1 .. n : /\ f.reservations[a] = e.reservations[i]
                              /\ i = IF a < k + 1 THEN a ELSE a + 1
      BY <1>5, <3>1
    <3>3. PICK j \in 1 .. n : /\ f.reservations[b] = e.reservations[j]
                              /\ j = IF b < k + 1 THEN b ELSE b + 1
      BY <1>5, <3>1
    <3>4. i = j
      BY <2>2, <3>2, <3>3 DEF Exclusive, e, f, n
    <3> QED BY <1>1, <3>1, <3>2, <3>3, <3>4
  <2> QED BY <2>1, <2>2
<1>7. ASSUME NEW q \in TReservation, NEW p \in Outputs
      PROVE  Holds(u, q, p) <=> Holds(t, q, p) /\ ~(q = r /\ p = o)
  <2>1. CASE p # o
    BY <1>1, <2>1 DEF Holds
  <2>2. CASE p = o
    <3>1. Holds(u, q, p) <=> \E j \in 1 .. n - 1 : f.reservations[j] = q
      BY <1>1, <2>2 DEF Holds, f
    <3>2. Holds(t, q, p) <=> \E i \in 1 .. n : e.reservations[i] = q
      BY <2>2 DEF Holds, e, n
    <3>3. \A i \in 1 .. n : e.reservations[i] = r => i = k + 1
      <4>1. k + 1 \in 1 .. n
        BY <1>1
      <4> QED BY <1>1, <4>1 DEF Exclusive, e, n
    <3>4. ASSUME NEW j \in 1 .. n - 1, f.reservations[j] = q PROVE Holds(t, q, p) /\ q # r
      <4>1. PICK i \in 1 .. n : /\ f.reservations[j] = e.reservations[i]
                                /\ i = IF j < k + 1 THEN j ELSE j + 1
        BY <1>5
      <4>2. i # k + 1
        BY <1>1, <4>1
      <4> QED BY <3>2, <3>3, <3>4, <4>1, <4>2
    <3>5. ASSUME NEW i \in 1 .. n, e.reservations[i] = q, q # r PROVE Holds(u, q, p)
      <4>1. i # k + 1
        BY <1>1, <3>5
      <4>2. CASE i < k + 1
        <5>1. i \in 1 .. n - 1
          BY <1>1, <4>2
        <5> QED BY <1>1, <3>1, <3>5, <4>2, <5>1
      <4>3. CASE i > k + 1
        <5>1. i - 1 \in 1 .. n - 1 /\ ~(i - 1 < k + 1) /\ (i - 1) + 1 = i
          BY <1>1, <4>3
        <5>2. f.reservations[i - 1] = q
          BY <1>1, <3>5, <5>1
        <5> QED BY <3>1, <5>1, <5>2
      <4> QED BY <1>1, <4>1, <4>2, <4>3
    <3> QED BY <2>2, <3>1, <3>2, <3>4, <3>5
  <2> QED BY <2>1, <2>2
<1>8. Single(u)
  BY <1>7 DEF Single
<1> QED BY <1>3, <1>4, <1>6, <1>7, <1>8 DEF u

(* updateIndex: the same holders.                                          *)
LEMMA UpdateIndexKeeps ==
  ASSUME NEW t, WellFormed(t)
  PROVE  /\ WellFormed(updateIndex(t))
         /\ \A p \in Outputs : updateIndex(t)[p].reservations = t[p].reservations
<1> USE DEF WellFormed
<1> DEFINE u == updateIndex(t)
<1>1. \A m, n \in Nat : n > 0 => m % n \in Nat /\ m % n < n
  BY SMT
<1>2. ASSUME NEW o \in Outputs
      PROVE  /\ u[o] \in RTEntry
             /\ u[o].reservations = t[o].reservations
             /\ IF u[o].reservations = <<>> THEN u[o].index = 0
                ELSE u[o].index < Len(u[o].reservations)
  <2>1. /\ t[o] \in RTEntry /\ t[o].reservations \in Seq(TReservation)
        /\ Len(t[o].reservations) \in Nat /\ t[o].index \in Nat
    BY DEF Typed, RTEntry
  <2>2. CASE t[o].reservations = <<>>
    BY <2>1, <2>2 DEF updateIndex, InRange
  <2>3. CASE t[o].reservations # <<>>
    <3>1. Len(t[o].reservations) > 0
      BY <2>1, <2>3, EmptySeq
    <3>2. u[o] = [t[o] EXCEPT
                          !.index = (@ + 1) % Len(t[o].reservations)]
      BY <2>3 DEF updateIndex
    <3>3. LET m == (t[o].index + 1) % Len(t[o].reservations)
          IN  m \in Nat /\ m < Len(t[o].reservations)
      BY <1>1, <2>1, <3>1
    <3> QED BY <2>1, <2>3, <3>2, <3>3 DEF RTEntry
  <2> QED BY <2>2, <2>3
<1>3. u = [o \in Outputs |-> u[o]]
  BY DEF updateIndex
<1> HIDE DEF u
<1>4. Typed(u) /\ InRange(u)
  BY <1>2, <1>3 DEF Typed, InRange
<1>5. Exclusive(u)
  BY <1>2 DEF Exclusive
<1>6. Single(u)
  BY <1>2 DEF Single, Holds
<1> QED BY <1>2, <1>4, <1>5, <1>6 DEF u

-----------------------------------------------------------------------------
(***************************************************************************)
(* A table with one virtual channel is a set of ways from an input to an   *)
(* output.                                                                 *)
(***************************************************************************)
OneChannel == \A v, w \in VCs : v = w

Ways(t) ==
  {a \in Inputs \X Outputs : \E vc \in VCs : Holds(t, [input |-> a[1], vc |-> vc], a[2])}

(* A way that is available crosses no other one.                           *)
LEMMA ReserveWay ==
  ASSUME OneChannel, NEW t, WellFormed(t), NEW r \in TReservation, NEW o \in Outputs,
         checkReservation(t, r, o) = "RT_AVAILABLE"
  PROVE  /\ Ways(reserve(t, r, o)) = Ways(t) \cup {<<r.input, o>>}
         /\ \A a \in Ways(t) : a[1] # r.input /\ a[2] # o
<1>1. r.input \in Inputs /\ r.vc \in VCs /\ r = [input |-> r.input, vc |-> r.vc]
  BY DEF TReservation
<1>2. \A i \in Inputs, vc \in VCs : [input |-> i, vc |-> vc] \in TReservation
  BY DEF TReservation
<1>3. \A q \in TReservation, p \in Outputs :
        Holds(reserve(t, r, o), q, p) <=> Holds(t, q, p) \/ (q = r /\ p = o)
  BY ReserveKeeps
<1>4. \A i \in Inputs, vc \in VCs, p \in Outputs :
        Holds(reserve(t, r, o), [input |-> i, vc |-> vc], p) <=>
          Holds(t, [input |-> i, vc |-> vc], p) \/ (i = r.input /\ p = o)
  BY <1>1, <1>2, <1>3 DEF OneChannel
<1>5. Ways(reserve(t, r, o)) = Ways(t) \cup {<<r.input, o>>}
  <2>1. \A a \in Inputs \X Outputs : a = <<r.input, o>> <=> a[1] = r.input /\ a[2] = o
    OBVIOUS
  <2>2. <<r.input, o>> \in Inputs \X Outputs
    BY <1>1
  <2>3. \A a \in Inputs \X Outputs :
          a \in Ways(reserve(t, r, o)) <=> a \in Ways(t) \/ a = <<r.input, o>>
    BY <1>1, <1>4, <2>1 DEF Ways
  <2>4. Ways(reserve(t, r, o)) \subseteq Inputs \X Outputs /\ Ways(t) \subseteq Inputs \X Outputs
    BY DEF Ways
  <2> QED BY <2>2, <2>3, <2>4
<1>6. /\ \A p \in Outputs : ~Holds(t, r, p)
      /\ \A k \in 1 .. Len(t[o].reservations) : t[o].reservations[k].vc # r.vc
  BY AvailableMeans
<1>7. \A i \in Inputs, vc \in VCs : ~Holds(t, [input |-> i, vc |-> vc], o)
  BY <1>1, <1>6 DEF Holds, OneChannel
<1>8. ASSUME NEW a \in Ways(t) PROVE a[1] # r.input /\ a[2] # o
  <2>1. PICK vc \in VCs : Holds(t, [input |-> a[1], vc |-> vc], a[2])
    BY DEF Ways
  <2>2. a[1] \in Inputs /\ a[2] \in Outputs /\ vc = r.vc
    BY <1>1 DEF Ways, OneChannel
  <2>3. a[2] # o
    BY <1>7, <2>1, <2>2
  <2>4. a[1] # r.input
    BY <1>1, <1>6, <2>1, <2>2, <2>3
  <2> QED BY <2>3, <2>4
<1> QED BY <1>5, <1>8

LEMMA ReleaseWay ==
  ASSUME OneChannel, NEW t, WellFormed(t), NEW r \in TReservation, NEW o \in Outputs, Holds(t, r, o)
  PROVE  /\ Ways(release(t, r, o)) = Ways(t) \ {<<r.input, o>>}
         /\ <<r.input, o>> \in Ways(t)
<1>1. r.input \in Inputs /\ r.vc \in VCs /\ r = [input |-> r.input, vc |-> r.vc]
  BY DEF TReservation
<1>2. \A i \in Inputs, vc \in VCs : [input |-> i, vc |-> vc] \in TReservation
  BY DEF TReservation
<1>3. \A q \in TReservation, p \in Outputs :
        Holds(release(t, r, o), q, p) <=> Holds(t, q, p) /\ ~(q = r /\ p = o)
  BY ReleaseKeeps
<1>4. \A i \in Inputs, vc \in VCs, p \in Outputs :
        Holds(release(t, r, o), [input |-> i, vc |-> vc], p) <=>
          Holds(t, [input |-> i, vc |-> vc], p) /\ ~(i = r.input /\ p = o)
  BY <1>1, <1>2, <1>3 DEF OneChannel
<1>5. \A a \in Inputs \X Outputs : a = <<r.input, o>> <=> a[1] = r.input /\ a[2] = o
  OBVIOUS
<1>6. Ways(release(t, r, o)) = Ways(t) \ {<<r.input, o>>}
  BY <1>1, <1>4, <1>5 DEF Ways
<1>7. <<r.input, o>> \in Ways(t)
  BY <1>1 DEF Ways
<1> QED BY <1>6, <1>7

(* What getReservations gives has the turn at an output, and holds it.     *)
LEMMA TurnIsHeld ==
  ASSUME NEW t, WellFormed(t), NEW i \in Inputs, NEW p \in getReservations(t, i)
  PROVE  /\ p[1] \in Outputs /\ p[2] \in VCs
         /\ Holds(t, [input |-> i, vc |-> p[2]], p[1])
         /\ IsCurrent(t, [input |-> i, vc |-> p[2]], p[1])
<1> DEFINE e == t[p[1]]
<1>1. /\ p[1] \in Outputs /\ p[2] \in VCs /\ e.reservations # <<>>
      /\ e.reservations[e.index + 1] = [input |-> i, vc |-> p[2]]
  BY DEF getReservations, IsCurrent
<1>2. /\ Len(e.reservations) \in Nat /\ e.index \in Nat /\ e.index < Len(e.reservations)
  BY <1>1, LenProperties DEF WellFormed, Typed, InRange, RTEntry
<1>3. e.index + 1 \in 1 .. Len(e.reservations)
  BY <1>2
<1> QED BY <1>1, <1>3 DEF Holds, IsCurrent

-----------------------------------------------------------------------------
(* IInv holds in every state of a table in the hands of any client.        *)
IInv == WellFormed(rtable)

LEMMA Inductive == Spec => []IInv
<1> USE DEF IInv
<1>1. Init => IInv
  BY SetSizeMakes DEF Init
<1>2. IInv /\ [Next]_rtable => IInv'
  <2> SUFFICES ASSUME IInv, [Next]_rtable PROVE IInv'
    OBVIOUS
  <2>1. ASSUME NEW r \in TReservation, NEW o \in Outputs, Reserve(r, o) PROVE IInv'
    BY <2>1, ReserveKeeps DEF Reserve
  <2>2. ASSUME NEW r \in TReservation, NEW o \in Outputs, Release(r, o) PROVE IInv'
    BY <2>2, ReleaseKeeps DEF Release
  <2>3. CASE UpdateIndex
    BY <2>3, UpdateIndexKeeps DEF UpdateIndex
  <2>4. CASE UNCHANGED rtable
    BY <2>4
  <2> QED BY <2>1, <2>2, <2>3, <2>4 DEF Next
<1> QED BY <1>1, <1>2, PTL DEF Spec

(* setSize, reserve, release and updateIndex keep the table a table.       *)
THEOREM TypeCorrect == Spec => []TypeOK
<1>1. IInv => TypeOK
  BY DEF IInv, WellFormed, TypeOK, Typed
<1> QED BY <1>1, Inductive, PTL

(* getReservations never subscripts outside a vector (index arithmetic of  *)
(* release and updateIndex).                                               *)
THEOREM IndexSafe == Spec => []IndexInRange
<1>1. IInv => IndexInRange
  BY DEF IInv, WellFormed, IndexInRange, InRange
<1> QED BY <1>1, Inductive, PTL

(* An output's virtual channel is reserved at most once.                   *)
THEOREM ChannelExclusive == Spec => []VcExclusive
<1>1. IInv => VcExclusive
  BY DEF IInv, WellFormed, VcExclusive, Exclusive
<1> QED BY <1>1, Inductive, PTL

(* An input's virtual channel holds at most one output.                    *)
THEOREM SingleOutput == Spec => []OneOutput
<1>1. IInv => OneOutput
  BY DEF IInv, WellFormed, OneOutput, Single
<1> QED BY <1>1, Inductive, PTL

(* reserve and release leave the turn with whoever has it.                 *)
THEOREM TurnIsKept == Spec => TurnKept
<1> DEFINE Kept == \A o \in Outputs : \A r \in TReservation :
                     IsCurrent(rtable, r, o) /\ Holds(rtable', r, o)
                       => IsCurrent(rtable', r, o)
<1>1. ASSUME IInv, NEW r \in TReservation, NEW o \in Outputs, Reserve(r, o)
      PROVE  Kept
  <2> SUFFICES ASSUME NEW p \in Outputs, NEW q \in TReservation,
                      IsCurrent(rtable, q, p)
               PROVE  IsCurrent(rtable', q, p)
    OBVIOUS
  <2>1. /\ rtable[p] \in RTEntry /\ rtable[p].reservations \in Seq(TReservation)
        /\ rtable[p].index \in Nat /\ rtable[p].index < Len(rtable[p].reservations)
        /\ Len(rtable[p].reservations) \in Nat
    BY <1>1 DEF IInv, WellFormed, Typed, InRange, RTEntry, IsCurrent
  <2>2. CASE p # o
    BY <1>1, <2>2 DEF Reserve, reserve, IInv, WellFormed, Typed, IsCurrent
  <2>3. CASE p = o
    <3>1. /\ rtable'[o].reservations = Append(rtable[o].reservations, r)
          /\ rtable'[o].index = rtable[o].index
      BY <1>1 DEF Reserve, reserve, IInv, WellFormed, Typed, RTEntry
    <3>2. /\ Append(rtable[o].reservations, r)[rtable[o].index + 1]
               = rtable[o].reservations[rtable[o].index + 1]
          /\ Append(rtable[o].reservations, r) # <<>>
      BY <2>1, <2>3, AppendProperties
    <3> QED BY <2>3, <3>1, <3>2 DEF IsCurrent
  <2> QED BY <2>2, <2>3
<1>2. ASSUME IInv, NEW r \in TReservation, NEW o \in Outputs, Release(r, o)
      PROVE  Kept
  <2> SUFFICES ASSUME NEW p \in Outputs, NEW q \in TReservation,
                      IsCurrent(rtable, q, p), Holds(rtable', q, p)
               PROVE  IsCurrent(rtable', q, p)
    OBVIOUS
  <2> DEFINE e == rtable[o]
             f == rtable'[o]
             k == removed_index(rtable, r, o)
             n == Len(e.reservations)
  <2>1. /\ \A x \in Outputs : x # o => rtable'[x] = rtable[x]
        /\ k \in Nat /\ k < n /\ n \in Nat
        /\ e.reservations[k + 1] = r
        /\ f.reservations \in Seq(TReservation)
        /\ Len(f.reservations) = n - 1
        /\ \A j \in 1 .. n - 1 :
             f.reservations[j] = IF j < k + 1 THEN e.reservations[j]
                                              ELSE e.reservations[j + 1]
        /\ f.index = IF k < e.index THEN e.index - 1
                     ELSE IF e.index >= n - 1 THEN 0
                     ELSE e.index
    BY <1>2, ReleaseEffect DEF Release, IInv, WellFormed
  <2>2. /\ rtable[o] \in RTEntry /\ e.index \in Nat
        /\ (e.reservations # <<>> => e.index < n)
        /\ \A i, j \in 1 .. n :
             e.reservations[i].vc = e.reservations[j].vc => i = j
    BY <1>2 DEF IInv, WellFormed, Typed, RTEntry, InRange, Exclusive
  <2>3. CASE p # o
    BY <2>1, <2>3 DEF IsCurrent
  <2>4. CASE p = o
    <3>1. e.reservations # <<>> /\ e.reservations[e.index + 1] = q
      BY <2>4 DEF IsCurrent
    <3>2. PICK j \in 1 .. n - 1 : f.reservations[j] = q
      BY <2>1, <2>4 DEF Holds
    <3>3. \A i \in 1 .. n : e.reservations[i] = r => i = k + 1
      <4>1. k + 1 \in 1 .. n
        BY <2>1
      <4> QED BY <2>1, <2>2, <4>1
    <3>4. f.reservations # <<>> /\ n - 1 >= 1
      BY <2>1, <3>2, EmptySeq
    <3> HIDE DEF e, f, k, n
    <3>5. e.index + 1 \in 1 .. n /\ e.index # k
      <4>1. e.index + 1 \in 1 .. n
        BY <2>1, <2>2, <3>1
      <4>2. ASSUME e.index = k PROVE FALSE
        <5>1. q = r
          BY <2>1, <3>1, <4>2
        <5>2. CASE j < k + 1
          BY <2>1, <3>2, <3>3, <5>1, <5>2
        <5>3. CASE ~(j < k + 1)
          <6>1. j + 1 \in 1 .. n /\ e.reservations[j + 1] = r
            BY <2>1, <3>2, <5>1, <5>3
          <6>2. j + 1 = k + 1
            BY <3>3, <6>1
          <6> QED BY <2>1, <5>3, <6>2
        <5> QED BY <5>2, <5>3
      <4> QED BY <4>1, <4>2
    <3>6. f.index + 1 \in 1 .. n - 1 /\ f.reservations[f.index + 1] = q
      <4>1. CASE k < e.index
        <5>1. f.index = e.index - 1 /\ f.index + 1 = e.index
          BY <2>1, <2>2, <4>1
        <5>2. e.index \in 1 .. n - 1 /\ ~(e.index < k + 1)
          BY <2>1, <2>2, <3>5, <4>1
        <5> QED BY <2>1, <3>1, <5>1, <5>2
      <4>2. CASE e.index < k
        <5>1. f.index = e.index /\ e.index + 1 \in 1 .. n - 1 /\ e.index + 1 < k + 1
          BY <2>1, <2>2, <3>5, <4>2
        <5> QED BY <2>1, <3>1, <5>1
      <4> QED BY <2>1, <2>2, <3>5, <4>1, <4>2
    <3> QED BY <2>4, <3>4, <3>6 DEF IsCurrent, f
  <2> QED BY <2>3, <2>4
<1>3. IInv /\ [Next]_rtable => [~UpdateIndex => Kept]_rtable
  BY <1>1, <1>2 DEF Next
<1> QED BY <1>3, Inductive, PTL DEF Spec, TurnKept

=============================================================================
