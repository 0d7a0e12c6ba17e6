---------------------------- MODULE MCRefunding ------------------------------
(* Refunding on small instances; refund numbers are interchangeable. *)
EXTENDS Refunding, TLC

DeliverySymmetry == Permutations(Refunds) \cup Permutations(Deliveries)
==============================================================================
