--------------------------- MODULE MCRadioChannel ---------------------------
(* Three hubs in ring order 0, 1, 2.  Hubs 0 and 1 send to hub 2, so that  *)
(* their packets could mix in its antenna buffer, and hub 0 to hub 1 too,  *)
(* so that hub 2 may sleep before it is sent something; hub 0 only sends.  *)
(* With one sender, nobody but hub 1 has anything to send.                 *)
EXTENDS RadioChannel

MCRing         == <<0, 1, 2>>
MCListeners    == {1, 2}
MCDestinations == 0 :> {1, 2} @@ 1 :> {2} @@ 2 :> {}
MCOneSender    == 0 :> {} @@ 1 :> {2} @@ 2 :> {}
=============================================================================
