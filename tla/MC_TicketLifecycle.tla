------------------------- MODULE MC_TicketLifecycle -------------------------
(* One customer with one or two orders; handlers of a kind are alike.       *)
EXTENDS TicketLifecycle, TLC

CONSTANTS u1, u2, k1, k2

BuyerOne == k1 :> u1
BuyerSame == (k1 :> u1) @@ (k2 :> u1)
BuyerEach == (k1 :> u1) @@ (k2 :> u2)

AllStripe == [k \in Orders |-> "STRIPE"]

Symmetry == Permutations(Workers) \cup Permutations(Desks)
=============================================================================
