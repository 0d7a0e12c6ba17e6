----------------------------- MODULE Idempotency -----------------------------
(***************************************************************************)
(* IdempotencyService: the pay_idempotency rows of client keys. A request  *)
(* reserves its key with a row that has no snapshot yet, fills in the      *)
(* response when it has one, and deletes the row when it failed. No        *)
(* statement names the request that reserved the key, only key and hash.   *)
(***************************************************************************)
EXTENDS Naturals

CONSTANTS
  Keys,        \* idempotency keys clients use
  Hashes,      \* request hashes
  Requests     \* HTTP requests; also names the response each one built

VARIABLE row   \* pay_idempotency by key

(* snap: the request whose response is stored, "null" while there is none;
   old: past expire_at. *)
Row == [hash: Hashes \cup {"absent"}, snap: Requests \cup {"null"}, old: BOOLEAN]

NoRow == [hash |-> "absent", snap |-> "null", old |-> FALSE]

RowsTypeOK == row \in [Keys -> Row]

RowsInit == row = [k \in Keys |-> NoRow]

(* Mutant: a row without a snapshot is taken for an abandoned one. *)
CanReserve_NullIsAbandoned(k) == row[k] = NoRow \/ row[k].snap = "null"

(* INSERT ... ON CONFLICT DO NOTHING: an expired row conflicts as well. *)
CanReserve(k) == row[k] = NoRow

Reserve(k, h) == row' = [row EXCEPT ![k] = [hash |-> h, snap |-> "null", old |-> FALSE]]

(* Mutant: the stored hash is not compared. *)
CheckStatus_AnyHash(k, h) ==
  CASE row[k] = NoRow \/ row[k].old -> "Error"
    [] row[k].snap = "null" -> "InProgress"
    [] OTHER -> "Replay"

(* What the SELECT after a conflicting INSERT finds. *)
CheckStatus(k, h) ==
  CASE row[k] = NoRow \/ row[k].old -> "Error"
    [] row[k].hash # h -> "Conflict"
    [] row[k].snap = "null" -> "InProgress"
    [] OTHER -> "Replay"

(* The UPDATE and the DELETE hit the row. *)
Matches(k, h) == row[k] # NoRow /\ row[k].hash = h

updateResult(k, h, r) ==
  row' = IF Matches(k, h) THEN [row EXCEPT ![k].snap = r] ELSE row

(* Mutant: a reservation that has been answered is deleted as well. *)
clearReservation_Answered(k, h) ==
  row' = IF Matches(k, h) THEN [row EXCEPT ![k] = NoRow] ELSE row

clearReservation(k, h) ==
  row' = IF Matches(k, h) /\ row[k].snap = "null" THEN [row EXCEPT ![k] = NoRow] ELSE row

(* The row's lifetime passes. *)
Expire(k) ==
  /\ row[k] # NoRow
  /\ ~row[k].old
  /\ row' = [row EXCEPT ![k].old = TRUE]

(* Mutant: only rows with a snapshot are collected. *)
purgeExpired_AnsweredOnly(k) ==
  /\ row[k] # NoRow
  /\ row[k].old /\ row[k].snap # "null"
  /\ row' = [row EXCEPT ![k] = NoRow]

(* Each reconciliation round deletes the rows past their lifetime. *)
purgeExpired(k) ==
  /\ row[k] # NoRow
  /\ row[k].old
  /\ row' = [row EXCEPT ![k] = NoRow]
==============================================================================
