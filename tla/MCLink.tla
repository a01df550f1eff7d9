------------------------------- MODULE MCLink -------------------------------
(* Two virtual channels with buffers of two flits.  Four flits per channel *)
(* let a buffer fill, drain and fill again.                                *)
EXTENDS Link
=============================================================================
