-------------------------- MODULE SeatReservation --------------------------
(***************************************************************************)
(* What the hold machinery promises a customer, without its tables: a seat *)
(* is reserved for at most one customer at a time, a request reserves all  *)
(* its seats or none, and a reservation passes from one customer to        *)
(* another only through a moment in which the seat is nobody's.            *)
(***************************************************************************)
CONSTANTS Users, Seats, Nobody

VARIABLE holder  \* holder[s]: the customer seat s is reserved for, or Nobody

Init == holder = [s \in Seats |-> Nobody]

Reserve(u, S) ==
    /\ \A s \in S : holder[s] = Nobody
    /\ holder' = [s \in Seats |-> IF s \in S THEN u ELSE holder[s]]

\* Released by its customer, lapsed, or turned into a ticket.
Vacate(S) == holder' = [s \in Seats |-> IF s \in S THEN Nobody ELSE holder[s]]

Next == \E S \in SUBSET Seats : Vacate(S) \/ \E u \in Users : Reserve(u, S)

Spec == Init /\ [][Next]_holder
=============================================================================
