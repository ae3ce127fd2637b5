--------------------------- MODULE MC_BookingPages ---------------------------
(* A customer with two seats to choose from, and the others. *)
EXTENDS BookingPages
=============================================================================
