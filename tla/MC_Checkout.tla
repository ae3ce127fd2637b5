---------------------------- MODULE MC_Checkout ----------------------------
(* Two customers with an order key each, or one with two.                   *)
EXTENDS Checkout, TLC

CONSTANTS u1, u2, k1, k2

BuyerEach == (k1 :> u1) @@ (k2 :> u2)
BuyerSame == (k1 :> u1) @@ (k2 :> u1)
BuyerOne == k1 :> u1

AllStripe == [k \in Orders |-> "STRIPE"]
StripeAndFake == (k1 :> "STRIPE") @@ (k2 :> "FAKE")

Symmetry == Permutations(Workers)
=============================================================================
