----------------------------- MODULE FlitChains -----------------------------
(***************************************************************************)
(* Sequences of flits that keep their packets together, and what the two   *)
(* operations of a buffer do to them.                                      *)
(***************************************************************************)
EXTENDS Flits, TLAPS, SequenceTheorems

(* With g in front of it, s continues the packet in progress, begins every *)
(* other one with its head, and leaves the packet of q in progress.        *)
Chained(g, s, q) ==
  IF s = <<>>
    THEN q = g
    ELSE /\ Follows(g, Head(s))
         /\ \A k \in 1 .. Len(s) - 1 : Follows(InProgress(s[k]), s[k + 1])
         /\ q = InProgress(s[Len(s)])

(* A flit that may come next does not break the chain.                     *)
LEMMA ChainedAppend ==
  ASSUME NEW S, NEW s \in Seq(S), NEW f \in S, NEW g, NEW q,
         Chained(g, s, q), Follows(q, f)
  PROVE  Chained(g, Append(s, f), InProgress(f))
<1> DEFINE t == Append(s, f)
<1>1. /\ t \in Seq(S) /\ t # <<>> /\ Len(s) \in Nat /\ Len(t) = Len(s) + 1
      /\ \A k \in 1 .. Len(s) : t[k] = s[k]
      /\ t[Len(s) + 1] = f
  BY AppendProperties
<1>2. Head(t) = IF s = <<>> THEN f ELSE Head(s)
  BY HeadTailAppend
<1> HIDE DEF t
<1>3. CASE s = <<>>
  <2>1. q = g /\ Len(t) = 1
    BY <1>1, <1>3, EmptySeq DEF Chained
  <2> QED BY <1>1, <1>2, <1>3, <2>1 DEF Chained, t
<1>4. CASE s # <<>>
  <2>1. /\ Follows(g, Head(s)) /\ q = InProgress(s[Len(s)])
        /\ \A k \in 1 .. Len(s) - 1 : Follows(InProgress(s[k]), s[k + 1])
    BY <1>4 DEF Chained
  <2>2. ASSUME NEW k \in 1 .. Len(t) - 1
        PROVE  Follows(InProgress(t[k]), t[k + 1])
    <3>1. CASE k < Len(s)
      <4>1. k \in 1 .. Len(s) - 1 /\ k \in 1 .. Len(s) /\ k + 1 \in 1 .. Len(s)
        BY <1>1, <3>1
      <4>2. t[k] = s[k] /\ t[k + 1] = s[k + 1]
        BY <1>1, <4>1
      <4> QED BY <2>1, <4>1, <4>2
    <3>2. CASE k = Len(s)
      <4>1. k \in 1 .. Len(s)
        BY <3>2
      <4>2. t[k] = s[Len(s)] /\ t[k + 1] = f
        BY <1>1, <3>2, <4>1
      <4> QED BY <2>1, <4>2
    <3> QED BY <1>1, <3>1, <3>2
  <2> QED BY <1>1, <1>2, <1>4, <2>1, <2>2 DEF Chained, t
<1> QED BY <1>3, <1>4

(* The first flit may be taken away; it is the one that had to come.       *)
LEMMA ChainedTail ==
  ASSUME NEW S, NEW s \in Seq(S), NEW g, NEW q, Chained(g, s, q), s # <<>>
  PROVE  Follows(g, Head(s)) /\ Chained(InProgress(Head(s)), Tail(s), q)
<1> DEFINE t == Tail(s)
<1>1. /\ t \in Seq(S) /\ Len(s) \in Nat /\ Len(s) # 0 /\ Len(t) = Len(s) - 1
      /\ \A k \in 1 .. Len(t) : t[k] = s[k + 1]
  BY HeadTailProperties, EmptySeq
<1>2. Head(s) = s[1]
  OBVIOUS
<1>3. /\ Follows(g, Head(s)) /\ q = InProgress(s[Len(s)])
      /\ \A k \in 1 .. Len(s) - 1 : Follows(InProgress(s[k]), s[k + 1])
  BY DEF Chained
<1>4. CASE t = <<>>
  <2>1. Len(s) = 1
    BY <1>1, <1>4
  <2> QED BY <1>2, <1>3, <1>4, <2>1 DEF Chained
<1>5. CASE t # <<>>
  <2>1. Len(t) \in Nat \ {0}
    BY <1>1, <1>5, EmptySeq
  <2>2. Head(t) = t[1]
    BY <1>1, <1>5
  <2> HIDE DEF t
  <2>3. Follows(InProgress(Head(s)), Head(t))
    <3>1. 1 \in 1 .. Len(s) - 1 /\ t[1] = s[2]
      BY <1>1, <2>1
    <3> QED BY <1>2, <1>3, <2>2, <3>1
  <2>4. ASSUME NEW k \in 1 .. Len(t) - 1
        PROVE  Follows(InProgress(t[k]), t[k + 1])
    <3>1. k + 1 \in 1 .. Len(s) - 1 /\ t[k] = s[k + 1] /\ t[k + 1] = s[k + 1 + 1]
      BY <1>1
    <3> QED BY <1>3, <3>1
  <2>5. t[Len(t)] = s[Len(s)]
    BY <1>1, <2>1
  <2> QED BY <1>3, <1>5, <2>3, <2>4, <2>5 DEF Chained, t
<1> QED BY <1>4, <1>5

-----------------------------------------------------------------------------
(***************************************************************************)
(* A wormhole switch: the inputs hold outputs, front[i] is what waits at   *)
(* input i, open[o] the flit by which a packet is open at output o,        *)
(* last[i] the last flit that came in at i, NoFlit after a tail, and a     *)
(* packet to d may leave by the outputs ways[d].                           *)
(***************************************************************************)

(* A set of flits: what comes behind a flit is for the same destination    *)
(* and no head.                                                            *)
AreFlits(S) ==
  /\ NoFlit \notin S
  /\ \A f, g \in S : Follows(g, f) => f.dst = g.dst /\ ~IsHead(f)

(* Nobody holds two outputs, and no output is held by two.                 *)
OneToOne(holds) ==
  \A a, b \in holds : a[1] = b[1] \/ a[2] = b[2] => a = b

(* g is the flit by which input i has left a packet open, or NoFlit when   *)
(* it has none open.                                                       *)
HasOpen(holds, open, i, g) ==
  IF g = NoFlit
    THEN \A a \in holds : a[1] = i => open[a[2]] = NoFlit
    ELSE \E a \in holds : a[1] = i /\ open[a[2]] = g

(* An output is held for the packet that is open there, or for a head that *)
(* waits and may leave by it; and from what has left, through what waits,  *)
(* to what came in last, the packets of an input are whole.                *)
HeldFor(a, front, open, ways) ==
  /\ open[a[2]] = NoFlit => front[a[1]] # <<>> /\ IsHead(Head(front[a[1]]))
  /\ a[2] \in ways[(IF open[a[2]] # NoFlit THEN open[a[2]] ELSE Head(front[a[1]])).dst]

Switched(I, O, S, ways, holds, front, open, last) ==
  /\ holds \subseteq I \X O /\ OneToOne(holds)
  /\ \A i \in I : front[i] \in Seq(S) /\ last[i] \in S \cup {NoFlit}
  /\ \A o \in O : open[o] \in S \cup {NoFlit}
  /\ \A o \in O : open[o] # NoFlit => \E a \in holds : a[2] = o
  /\ \A a \in holds : HeldFor(a, front, open, ways)
  /\ \A i \in I : \E g \in S \cup {NoFlit} :
       HasOpen(holds, open, i, g) /\ Chained(g, front[i], last[i])

(* What leaves by an output continues the packet that is open there, and   *)
(* may leave by it.                                                        *)
LEMMA SwitchedInOrder ==
  ASSUME NEW I, NEW O, NEW S, AreFlits(S), NEW ways, NEW holds, NEW front, NEW open, NEW last,
         Switched(I, O, S, ways, holds, front, open, last),
         NEW a \in holds, front[a[1]] # <<>>
  PROVE  LET f == Head(front[a[1]])
         IN  /\ f \in S /\ Follows(open[a[2]], f) /\ a[2] \in ways[f.dst]
             /\ Chained(InProgress(f), Tail(front[a[1]]), last[a[1]])
<1> USE DEF Switched
<1> DEFINE f == Head(front[a[1]])
<1>1. a[1] \in I /\ a[2] \in O /\ front[a[1]] \in Seq(S)
  OBVIOUS
<1>2. PICK g \in S \cup {NoFlit} :
        HasOpen(holds, open, a[1], g) /\ Chained(g, front[a[1]], last[a[1]])
  BY <1>1
<1>3. open[a[2]] = g
  <2>1. \A b \in holds : b[1] = a[1] => b = a
    BY DEF OneToOne
  <2> QED BY <1>2, <2>1 DEF HasOpen
<1>4. f \in S
  BY <1>1, HeadTailProperties
<1>5. Follows(g, f) /\ Chained(InProgress(f), Tail(front[a[1]]), last[a[1]])
  BY <1>1, <1>2, ChainedTail
<1>6. a[2] \in ways[f.dst]
  <2>1. CASE open[a[2]] = NoFlit
    BY <2>1 DEF HeldFor
  <2>2. CASE open[a[2]] # NoFlit
    <3>1. f.dst = open[a[2]].dst
      BY <1>2, <1>3, <1>4, <1>5, <2>2 DEF AreFlits
    <3> QED BY <2>2, <3>1 DEF HeldFor
  <2> QED BY <2>1, <2>2
<1> QED BY <1>3, <1>4, <1>5, <1>6

(* A head waits for nothing but an output of its own.                      *)
LEMMA HeadHoldsItsWay ==
  ASSUME NEW I, NEW O, NEW S, AreFlits(S), NEW ways, NEW holds, NEW front, NEW open, NEW last,
         Switched(I, O, S, ways, holds, front, open, last),
         NEW a \in holds, front[a[1]] # <<>>, IsHead(Head(front[a[1]]))
  PROVE  a[2] \in ways[Head(front[a[1]]).dst] /\ open[a[2]] = NoFlit
<1> DEFINE f == Head(front[a[1]])
<1>1. f \in S /\ Follows(open[a[2]], f) /\ a[2] \in ways[f.dst]
  BY SwitchedInOrder
<1>2. a[2] \in O /\ open[a[2]] \in S \cup {NoFlit}
  BY DEF Switched
<1>3. CASE open[a[2]] # NoFlit
  BY <1>1, <1>2, <1>3 DEF AreFlits
<1> QED BY <1>1, <1>3

(* A head that waits gets an output that nobody holds.                     *)
LEMMA SwitchReserves ==
  ASSUME NEW I, NEW O, NEW S, AreFlits(S), NEW ways, NEW holds, NEW front, NEW open, NEW last,
         Switched(I, O, S, ways, holds, front, open, last),
         NEW i \in I, NEW o \in O, front[i] # <<>>, IsHead(Head(front[i])),
         o \in ways[Head(front[i]).dst],
         \A a \in holds : a[1] # i /\ a[2] # o
  PROVE  Switched(I, O, S, ways, holds \cup {<<i, o>>}, front, open, last)
<1> USE DEF Switched
<1> DEFINE more == holds \cup {<<i, o>>}
<1>1. more \subseteq I \X O /\ OneToOne(more)
  BY DEF OneToOne
<1>2. open[o] = NoFlit
  OBVIOUS
<1>3. \A a \in more : HeldFor(a, front, open, ways)
  BY <1>2 DEF HeldFor
<1>4. ASSUME NEW j \in I
      PROVE  \E g \in S \cup {NoFlit} : HasOpen(more, open, j, g) /\ Chained(g, front[j], last[j])
  <2>1. PICK g \in S \cup {NoFlit} : HasOpen(holds, open, j, g) /\ Chained(g, front[j], last[j])
    OBVIOUS
  <2>2. HasOpen(more, open, j, g)
    BY <1>2, <2>1 DEF HasOpen
  <2> QED BY <2>1, <2>2
<1> QED BY <1>1, <1>3, <1>4

(* A flit leaves by the output that its input holds, and a tail gives the  *)
(* output back.                                                            *)
LEMMA SwitchForwards ==
  ASSUME NEW I, NEW O, NEW S, AreFlits(S), NEW ways, NEW holds, NEW front, NEW open, NEW last,
         Switched(I, O, S, ways, holds, front, open, last),
         NEW i \in I, NEW o \in O, <<i, o>> \in holds, front[i] # <<>>,
         NEW f, f = Head(front[i]),
         NEW holds2, holds2 = IF IsTail(f) THEN holds \ {<<i, o>>} ELSE holds,
         NEW front2, \A j \in I : front2[j] = IF j = i THEN Tail(front[j]) ELSE front[j],
         NEW open2, \A p \in O : open2[p] = IF p = o THEN InProgress(f) ELSE open[p]
  PROVE  Switched(I, O, S, ways, holds2, front2, open2, last)
<1> USE DEF Switched
<1>1. /\ f \in S /\ f # NoFlit /\ Follows(open[o], f) /\ o \in ways[f.dst]
      /\ Chained(InProgress(f), Tail(front[i]), last[i])
  <2>1. PICK a \in holds : a = <<i, o>> /\ a[1] = i /\ a[2] = o
    OBVIOUS
  <2> HIDE DEF Switched
  <2>2. f \in S /\ Follows(open[o], f) /\ o \in ways[f.dst]
        /\ Chained(InProgress(f), Tail(front[i]), last[i])
    <3>1. front[a[1]] # <<>> /\ Head(front[a[1]]) = f
      BY <2>1
    <3>2. LET h == Head(front[a[1]])
          IN  /\ h \in S /\ Follows(open[a[2]], h) /\ a[2] \in ways[h.dst]
              /\ Chained(InProgress(h), Tail(front[a[1]]), last[a[1]])
      BY <3>1, SwitchedInOrder, Zenon
    <3> QED BY <2>1, <3>1, <3>2
  <2> QED BY <2>2 DEF AreFlits
<1>2. \A a \in holds : a[1] = i \/ a[2] = o => a = <<i, o>>
  BY DEF OneToOne
<1>3. holds2 \subseteq holds /\ holds2 \subseteq I \X O /\ OneToOne(holds2)
  BY DEF OneToOne
<1>4. ASSUME NEW j \in I PROVE front2[j] \in Seq(S)
  <2>1. front[j] \in Seq(S)
    OBVIOUS
  <2>2. front[j] # <<>> => Tail(front[j]) \in Seq(S)
    BY <2>1, HeadTailProperties
  <2> QED BY <2>1, <2>2
<1>5. \A p \in O : open2[p] \in S \cup {NoFlit}
  BY <1>1 DEF InProgress
<1>6. ASSUME NEW p \in O, open2[p] # NoFlit PROVE \E a \in holds2 : a[2] = p
  <2>1. CASE p = o
    BY <1>6, <2>1 DEF InProgress
  <2>2. CASE p # o
    BY <1>6, <2>2
  <2> QED BY <2>1, <2>2
<1>7. ASSUME NEW a \in holds2 PROVE HeldFor(a, front2, open2, ways)
  <2>1. a[1] \in I /\ a[2] \in O /\ a \in holds
    BY <1>3
  <2>2. CASE a = <<i, o>>
    BY <1>1, <2>2 DEF HeldFor, InProgress
  <2>3. CASE a # <<i, o>>
    <3>1. open2[a[2]] = open[a[2]] /\ front2[a[1]] = front[a[1]]
      BY <1>2, <2>1, <2>3
    <3> QED BY <2>1, <3>1 DEF HeldFor
  <2> QED BY <2>2, <2>3
<1>8. ASSUME NEW j \in I
      PROVE  \E g \in S \cup {NoFlit} : HasOpen(holds2, open2, j, g) /\ Chained(g, front2[j], last[j])
  <2>1. CASE j = i
    <3>1. Chained(InProgress(f), front2[j], last[j]) /\ InProgress(f) \in S \cup {NoFlit}
      BY <1>1, <2>1 DEF InProgress
    <3>2. HasOpen(holds2, open2, j, InProgress(f))
      BY <1>1, <1>2, <2>1 DEF HasOpen, InProgress
    <3> QED BY <3>1, <3>2
  <2>2. CASE j # i
    <3>1. PICK g \in S \cup {NoFlit} : HasOpen(holds, open, j, g) /\ Chained(g, front[j], last[j])
      OBVIOUS
    <3>2. \A a \in holds : a[1] = j => a \in holds2 /\ open2[a[2]] = open[a[2]]
      BY <1>2, <2>2
    <3>3. HasOpen(holds2, open2, j, g)
      BY <1>3, <3>1, <3>2 DEF HasOpen
    <3> QED BY <2>2, <3>1, <3>3
  <2> QED BY <2>1, <2>2
<1> QED BY <1>3, <1>4, <1>5, <1>6, <1>7, <1>8

(* Flits come in behind what waits.                                        *)
LEMMA SwitchReceives ==
  ASSUME NEW I, NEW O, NEW S, AreFlits(S), NEW ways, NEW holds, NEW front, NEW open, NEW last,
         Switched(I, O, S, ways, holds, front, open, last),
         NEW front2, NEW last2,
         \A i \in I : \/ front2[i] = front[i] /\ last2[i] = last[i]
                      \/ \E f \in S : /\ Follows(last[i], f) /\ last2[i] = InProgress(f)
                                      /\ front2[i] = Append(front[i], f)
  PROVE  Switched(I, O, S, ways, holds, front2, open, last2)
<1> USE DEF Switched
<1>1. ASSUME NEW i \in I
      PROVE  /\ front2[i] \in Seq(S) /\ last2[i] \in S \cup {NoFlit}
             /\ front[i] # <<>> => front2[i] # <<>> /\ Head(front2[i]) = Head(front[i])
             /\ \A g : Chained(g, front[i], last[i]) => Chained(g, front2[i], last2[i])
  <2>1. front[i] \in Seq(S) /\ last[i] \in S \cup {NoFlit}
    OBVIOUS
  <2>2. CASE front2[i] = front[i] /\ last2[i] = last[i]
    BY <2>1, <2>2
  <2>3. ASSUME NEW f \in S, Follows(last[i], f), last2[i] = InProgress(f),
               front2[i] = Append(front[i], f)
        PROVE  <1>1!2
    <3>1. /\ front2[i] \in Seq(S) /\ front2[i] # <<>>
          /\ front[i] # <<>> => Head(front2[i]) = Head(front[i])
      BY <2>1, <2>3, AppendProperties, HeadTailAppend
    <3>2. last2[i] \in S \cup {NoFlit}
      BY <2>3 DEF InProgress
    <3>3. \A g : Chained(g, front[i], last[i]) => Chained(g, front2[i], last2[i])
      BY <2>1, <2>3, ChainedAppend
    <3> QED BY <3>1, <3>2, <3>3
  <2> QED BY <2>2, <2>3
<1>2. \A a \in holds : HeldFor(a, front2, open, ways)
  BY <1>1 DEF HeldFor
<1> QED BY <1>1, <1>2

=============================================================================
