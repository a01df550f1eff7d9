------------------------------- MODULE MCWalk -------------------------------
(* Mesh and torus of 5 x 4 nodes, an odd ring and an even one, the octagon *)
(* and delta networks of three stages, the fewest with a stage of each     *)
(* kind (first, even, odd, last).  The hubs are those of the files         *)
(* testdelta*.yaml in src/config_examples, and, on the 5 x 4 nodes, two    *)
(* hubs of two routers, and three hubs of which the outer two share no     *)
(* channel.                                                                *)
EXTENDS Walk

MCNetworks == ({"MESH"} \X (MeshAlgorithms \cup {"TABLE_BASED"}))
              \cup {<<"TORUS", "XY_TORUS">>, <<"FOLDED_TORUS", "XY_TORUS">>}
              \cup {<<"OCTAGON", "OCTAGON">>} \cup (DeltaTopologies \X {"DELTA"})

(* A table of the ways of WEST_FIRST, with the input links they use only.  *)
MCTable ==
  LET N == Tiles("MESH")
      Links(n, t) == {<<n, Neighbor("MESH", n, d)>> : d \in WEST_FIRST(n, t)}
      Inputs(n, t) == {<<m, n>> : m \in {k \in N : k = n \/ (k # t /\ <<k, n>> \in Links(k, t))}}
  IN  [n \in N |-> [t \in N |-> IF n = t THEN {} ELSE Inputs(n, t) \X Links(n, t)]]

OnChannelZero(attached, dst_hops) ==
  [attachedNodes |-> attached,
   txChannels |-> [h \in DOMAIN attached |-> {0}],
   rxChannels |-> [h \in DOMAIN attached |-> {0}],
   winoc_dst_hops |-> dst_hops]

Chain ==
  [attachedNodes |-> << {0, 5}, {7, 12}, {14, 19} >>,
   txChannels |-> << {0}, {0, 1}, {1} >>,
   rxChannels |-> << {0}, {0, 1}, {1} >>,
   winoc_dst_hops |-> 0]

InNetworks(nets, configs) ==
  {[topology |-> x[1][1], routing_algorithm |-> x[1][2], hubs |-> x[2]] : x \in nets \X configs}

Hops1(k)  == OnChannelZero(<< {0, 7}, {17, 18} >>, k)
Hops2(k)  == OnChannelZero(<< {0, 10}, {1, 17} >>, k)
Hops16(k) == OnChannelZero(<< {0, 15}, {42}, {38} >>, k)

MCHubNetworks ==
  InNetworks({<<"MESH", "XY">>, <<"MESH", "ODD_EVEN">>, <<"TORUS", "XY_TORUS">>},
             {OnChannelZero(<< {6, 7}, {12, 13} >>, 0), Chain})
  \cup InNetworks({<<"BUTTERFLY", "DELTA">>},
                  {Hops1(1), Hops1(2), Hops1(3), Hops2(0), Hops2(1), Hops2(2)})
  \cup InNetworks({<<"BASELINE", "DELTA">>, <<"OMEGA", "DELTA">>},
                  {OnChannelZero(<< {0}, {7} >>, 0), Hops2(0)})
NoNetworks == {}
MCNoTable == << >>
MCRelay == InNetworks({<<"BUTTERFLY", "DELTA">>}, {Hops16(2)})
=============================================================================
