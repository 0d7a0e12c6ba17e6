--------------------------- MODULE MCCreatePayment ---------------------------
(* Small instances of CreatePayment. *)
EXTENDS CreatePayment, TLC

(* Requests, keys and orders are interchangeable. *)
RequestSymmetry ==
  {p @@ q @@ s : p \in Permutations(Requests), q \in Permutations(Keys), s \in Permutations(Orders)}
==============================================================================
