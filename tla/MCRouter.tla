------------------------------ MODULE MCRouter ------------------------------
(* Two ports, two channels.  Port 0 is the processing element's and feeds  *)
(* one channel, port 1 feeds both.  The destination "far" is behind port 1 *)
(* and "either" may leave by both ports, as an adaptive routing function   *)
(* allows.  So two inputs compete for channel 0 of output 1, output 1 may  *)
(* have two holders, of one input or of two, which take turns, and input 1 *)
(* may hold both outputs, between which it draws.                          *)
EXTENDS Router

MCRoutesFar    == [far |-> {1}]
MCRoutesTwo    == [far |-> {1}, either |-> {0, 1}]
MCStreamsFar   == {<<0, 0, "far">>, <<1, 0, "far">>, <<1, 1, "far">>}
MCStreams      == MCStreamsFar \cup {<<1, 0, "either">>}
(* With one channel, two inputs with packets of both kinds.                *)
MCStreamsLevel == {<<0, 0, "far">>, <<0, 0, "either">>, <<1, 0, "far">>, <<1, 0, "either">>}
=============================================================================
