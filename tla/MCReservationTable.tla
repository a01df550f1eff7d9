------------------------- MODULE MCReservationTable -------------------------
(* A table of two outputs, two inputs and three virtual channels: an entry *)
(* can hold three reservations, so the index has room to be before, at and *)
(* behind the one released.                                                *)
EXTENDS ReservationTable
=============================================================================
