---------------------------- MODULE ChannelWaits ----------------------------
(***************************************************************************)
(* Who waits for whom in a wormhole network without hubs.  A packet that   *)
(* holds a channel (an output of a router, on one virtual channel) keeps   *)
(* it until its tail has passed and, while its head is stuck at the next   *)
(* router, waits for another channel.  The virtual channel of a packet     *)
(* never changes, so each one is a network of its own.  The network can    *)
(* deadlock only if the relation "may wait for" has a circle.              *)
(***************************************************************************)
EXTENDS Routing

Channels(w) == {c \in Nodes(w) \X Directions : Neighbor(w, c[1], c[2]) # NOT_VALID}

End(w, c) == Neighbor(w, c[1], c[2])

(* The routers a packet from s to t may get to, with the ports it comes in *)
(* by.                                                                     *)
Visited(w, a, s, t) ==
  LET From(v) ==
        IF v[1] = t THEN {}
        ELSE {<<Neighbor(w, v[1], d), reflexDirection(d)>> :
                d \in Candidates(a, v[1], s, t, v[2])}
      Within[k \in Nat] ==
        IF k = 0 THEN {<<s, "LOCAL">>}
        ELSE LET near == Within[k - 1] IN near \cup UNION {From(v) : v \in near}
  IN  Within[Max(Nodes(w))]

(* The channels it may reserve on its way.                                 *)
Held(w, a, s, t) ==
  UNION {{v[1]} \X Candidates(a, v[1], s, t, v[2]) :
           v \in {u \in Visited(w, a, s, t) : u[1] # t}}

(* <<c, e>>: some packet that holds c may wait for e.                      *)
MayWait(w, a) ==
  UNION {LET ways == Held(w, a, s, t)
         IN  {x \in ways \X ways : x[2][1] = End(w, x[1])} :
           s \in Tiles(w), t \in Tiles(w)}

(* The channels from which one can wait on for ever: those that are left   *)
(* when channels that wait for none of the others are taken away until     *)
(* there is none of them.                                                  *)
Endless(w, a) ==
  LET waits == MayWait(w, a)
      Left[k \in Nat] ==
        IF k = 0 THEN Channels(w)
        ELSE LET left == Left[k - 1]
             IN  {x[1] : x \in {y \in waits : y[1] \in left /\ y[2] \in left}}
  IN  Left[Cardinality(Channels(w))]

(* The <<topology, routing_algorithm>> pairs with such channels.           *)
CircularNetworks ==
  UNION {IF Endless(net[1], net[2]) = {} THEN {} ELSE {net} : net \in Networks}

=============================================================================
