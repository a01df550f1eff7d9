------------------------------- MODULE MCHub -------------------------------
(* A hub with two tiles and two radio channels.  Tile 8 is behind both     *)
(* channels, so a head for it may ask for either; tile 9 behind the second *)
(* one only.  Hubs 4 and 5 send to this one on channel 0, hub 6 on channel *)
(* 1; with two virtual channels, hub 4 sends on both.                      *)
EXTENDS Hub, TLC

MCChannels    == <<0, 1>>
MCChannelsTo  == 8 :> {0, 1} @@ 9 :> {1}
MCRxStreams   == {<<0, 4, 0>>, <<0, 5, 0>>, <<1, 6, 0>>}
MCRxStreamsVc == {<<0, 4, 0>>, <<0, 4, 1>>}
=============================================================================
