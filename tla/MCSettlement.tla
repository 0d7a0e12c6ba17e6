---------------------------- MODULE MCSettlement -----------------------------
(* Settlement on small instances; handlers of a kind are interchangeable. *)
EXTENDS Settlement, TLC

DeliverySymmetry == Permutations(Deliveries) \cup Permutations(Requests)
==============================================================================
