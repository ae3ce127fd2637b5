---------------------------- MODULE MC_SeatHolds ----------------------------
(* Symmetry for the SeatHolds models: customers, seats and handlers are     *)
(* interchangeable.  Used by the runs without liveness properties only.     *)
EXTENDS SeatHolds, TLC

Symmetry == Permutations(Users) \cup Permutations(Seats) \cup Permutations(Requests)
=============================================================================
