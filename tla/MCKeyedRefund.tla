---------------------------- MODULE MCKeyedRefund ----------------------------
(* KeyedRefund on a small instance; refund numbers are interchangeable. *)
EXTENDS KeyedRefund, TLC

CONSTANTS r1, r2, r3, p1, k1

MCHashOf == <<"h1", "h2">>
Symmetry == Permutations(Refunds)
==============================================================================
