----------------------------- MODULE BookedMoney -----------------------------
(***************************************************************************)
(* What the books promise about the money of one order, whichever channel  *)
(* collects it and whichever handler books it. Modules Settlement (WeChat) *)
(* and AlipayPayment implement this specification.                         *)
(***************************************************************************)

CONSTANT Attempts

VARIABLES
  collected,   \* attempts that have settled
  entries,     \* attempts with an income entry in the ledger
  claimed      \* the order row says that the money arrived

vars == <<collected, entries, claimed>>

Init ==
  /\ collected = {}
  /\ entries = {}
  /\ claimed = FALSE

(* Attempt, entry and order row appear together. *)
Collect(a) ==
  /\ a \notin collected
  /\ collected' = collected \cup {a}
  /\ entries' = entries \cup {a}
  /\ claimed' = TRUE

(* One more attempt settles on an order whose money is on the books. *)
Confirm(a) ==
  /\ a \notin collected
  /\ entries # {}
  /\ collected' = collected \cup {a}
  /\ UNCHANGED <<entries, claimed>>

(* A settled attempt gets its entry when the order row is brought along. *)
Enter(a) ==
  /\ a \in collected \ entries
  /\ entries # {}
  /\ entries' = entries \cup {a}
  /\ claimed' = TRUE
  /\ UNCHANGED collected

(* The order row is rewritten; it may speak of money only if there is some. *)
Restate ==
  /\ entries # {}
  /\ claimed' \in BOOLEAN
  /\ UNCHANGED <<collected, entries>>

Next == (\E a \in Attempts : Collect(a) \/ Confirm(a) \/ Enter(a)) \/ Restate

Spec == Init /\ [][Next]_vars
==============================================================================
