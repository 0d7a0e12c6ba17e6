------------------------------ MODULE ClientKey ------------------------------
(***************************************************************************)
(* What an idempotency key promises its client, whichever service stands   *)
(* behind it: one request at a time works for the key and either answers   *)
(* for all repeats, gives the key back, or leaves it taken; an answer is   *)
(* given until the key lapses. Modules CreatePayment and KeyedRefund       *)
(* implement this specification.                                           *)
(***************************************************************************)

CONSTANTS Keys, Requests

VARIABLES
  taken,     \* whether a request has the key, or had it and left
  serving,   \* the requests that work for each key
  answer     \* the response each key gives, "null" while it has none

vars == <<taken, serving, answer>>

Init ==
  /\ taken = [k \in Keys |-> FALSE]
  /\ serving = [k \in Keys |-> {}]
  /\ answer = [k \in Keys |-> "null"]

(* A request takes a key that is free. *)
Take(k, r) ==
  /\ ~taken[k]
  /\ taken' = [taken EXCEPT ![k] = TRUE]
  /\ serving' = [serving EXCEPT ![k] = {r}]
  /\ UNCHANGED answer

(* The one request at work answers, and is done. *)
Give(k, r, response) ==
  /\ serving[k] = {r}
  /\ answer[k] = "null"
  /\ answer' = [answer EXCEPT ![k] = response]
  /\ serving' = [serving EXCEPT ![k] = {}]
  /\ UNCHANGED taken

(* It failed, and gives the key back. *)
Release(k, r) ==
  /\ serving[k] = {r}
  /\ answer[k] = "null"
  /\ taken' = [taken EXCEPT ![k] = FALSE]
  /\ serving' = [serving EXCEPT ![k] = {}]
  /\ UNCHANGED answer

(* Requests are gone without a word, and their keys stay taken. *)
Leave(gone) ==
  /\ serving' = [k \in Keys |-> IF k \in gone THEN {} ELSE serving[k]]
  /\ UNCHANGED <<taken, answer>>

(* A key nobody works for is forgotten, with its answer. *)
Lapse(k) ==
  /\ taken[k]
  /\ serving[k] = {}
  /\ taken' = [taken EXCEPT ![k] = FALSE]
  /\ answer' = [answer EXCEPT ![k] = "null"]
  /\ UNCHANGED serving

Next ==
  \/ \E k \in Keys, r \in Requests :
       Take(k, r) \/ Release(k, r) \/ \E response \in Requests : Give(k, r, response)
  \/ \E gone \in SUBSET Keys : Leave(gone)
  \/ \E k \in Keys : Lapse(k)

Spec == Init /\ [][Next]_vars
==============================================================================
