--------------------------- MODULE MCAlipayPayment ---------------------------
(* AlipayPayment on small instances; handlers of a kind are interchangeable. *)
EXTENDS AlipayPayment, TLC

CONSTANTS s1, s2, q1, q2

Symmetry == Permutations(Syncs) \cup Permutations(Requests)
==============================================================================
