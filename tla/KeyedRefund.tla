----------------------------- MODULE KeyedRefund -----------------------------
(***************************************************************************)
(* RefundService::createRefund with its idempotency key around it: the key *)
(* is reserved before module RefundCreate's flow runs, and filled with the *)
(* response or released before the caller hears it. A refund request is    *)
(* repeated by its client under the key it used, or sent under another.    *)
(* Notifications and queries settle the rows meanwhile, each in one step.  *)
(***************************************************************************)
EXTENDS RefundCreate, Idempotency

CONSTANT HashOf   \* SHA-256 of order number, amount and reason, by amount

ASSUME KeyedAssumption ==
  /\ Requests = Refunds
  /\ HashOf \in [Amounts -> Hashes]
  /\ \A a, b \in Amounts : HashOf[a] = HashOf[b] => a = b
  /\ "absent" \notin Hashes
  /\ {"none", "null"} \cap Refunds = {}

VARIABLES
  key,     \* the key each request came with
  kpc,     \* where each request is around the refund flow
  told     \* the refund its response is about, "none" for an error alone

keyVars == <<key, kpc, told>>
vars == <<storeVars, createVars, row, keyVars>>

KeyedPc == {"new", "reserve", "check", "work", "save", "clear", "told"}

TypeOK ==
  /\ StoreTypeOK
  /\ CreateTypeOK
  /\ RowsTypeOK
  /\ key \in [Refunds -> Keys \cup {"none"}]
  /\ kpc \in [Refunds -> KeyedPc]
  /\ told \in [Refunds -> Refunds \cup {"none"}]

Init ==
  /\ StoreInit
  /\ CreateInit
  /\ RowsInit
  /\ key = [r \in Refunds |-> "none"]
  /\ kpc = [r \in Refunds |-> "new"]
  /\ told = [r \in Refunds |-> "none"]

----------------------------------------------------------------------------
At(r, pc) == kpc[r] = pc
Step(r, pc) == kpc' = [kpc EXCEPT ![r] = pc]

(* Requests that name another payment or refund number hash alike. *)
requestHash(r) == HashOf[req[r].amt]

(* A response that carries data is stored, one that does not frees the key. *)
Respond(r, of) ==
  /\ told' = [told EXCEPT ![r] = of]
  /\ Step(r, IF of = "none" THEN "clear" ELSE "save")
  /\ UNCHANGED <<row, key>>

(* A request arrives under a key. *)
Arrive(r, k, p, a) ==
  /\ createRefund(r, p, a)
  /\ key' = [key EXCEPT ![r] = k]
  /\ Step(r, "reserve")
  /\ UNCHANGED <<row, told>>

(* checkAndSet: reserve the key, or find out what holds it. *)
ReserveKey(r) ==
  /\ At(r, "reserve")
  /\ IF CanReserve(key[r])
       THEN Reserve(key[r], requestHash(r)) /\ Step(r, "work")
       ELSE UNCHANGED row /\ Step(r, "check")
  /\ UNCHANGED <<storeVars, createVars, key, told>>

(* A stored response goes out through the callback that stores responses, and
   is stored again; in progress, conflict and error are one refusal. *)
ApplyCheck(r) ==
  /\ At(r, "check")
  /\ IF CheckStatus(key[r], requestHash(r)) = "Replay"
       THEN Respond(r, row[key[r]].snap)
       ELSE Step(r, "told") /\ UNCHANGED <<row, key, told>>
  /\ UNCHANGED <<storeVars, createVars>>

(* The refund flow moves on without an answer yet. *)
Works(r) ==
  /\ At(r, "work")
  /\ RequestStep(r)
  /\ rpc'[r] # "answered"
  /\ UNCHANGED <<row, keyVars>>

(* The order has no settled payment, or not the one the request names. *)
NoSettledPayment(r) ==
  /\ At(r, "work")
  /\ rpc[r] = "order"
  /\ Goto(r, "answered")
  /\ Respond(r, "none")
  /\ UNCHANGED <<storeVars, lock, ans>>

(* It ends with a refusal, or with the refund's state, or by pointing at the
   refund that has settled already. *)
Refuses(r) ==
  /\ At(r, "work")
  /\ rpc[r] \in {"order", "progress", "sum"}
  /\ RequestStep(r)
  /\ rpc'[r] = "answered"
  /\ Respond(r, "none")

Reports(r) ==
  /\ At(r, "work")
  /\ rpc[r] \in {"book", "settleSum", "settleOrder"}
  /\ ~BooksFailure(ans[r])
  /\ RequestStep(r)
  /\ rpc'[r] = "answered"
  /\ Respond(r, r)

PointsAtTwin(r) ==
  /\ At(r, "work")
  /\ proceedWithAmountCheck(r)
  /\ rpc'[r] = "answered"
  /\ \E t \in SettledRefunds \ {r} : req[t] = req[r] /\ Respond(r, t)

(* A failure is answered while updateRefundWithError is still writing. *)
ReportsFailure(r) ==
  /\ At(r, "work")
  /\ rpc[r] = "book"
  /\ BooksFailure(ans[r])
  /\ Respond(r, r)
  /\ UNCHANGED <<storeVars, createVars>>

WritesFailure(r) ==
  /\ ~At(r, "work")
  /\ updateRefundWithError(r)
  /\ UNCHANGED <<row, keyVars>>

(* wrappedCallback: store the response, or free the key if that fails. *)
SaveSnapshot(r) ==
  /\ At(r, "save")
  /\ updateResult(key[r], requestHash(r), told[r])
  /\ Step(r, IF Matches(key[r], requestHash(r)) THEN "told" ELSE "clear")
  /\ UNCHANGED <<storeVars, createVars, key, told>>

ReleaseKey(r) ==
  /\ At(r, "clear")
  /\ clearReservation(key[r], requestHash(r))
  /\ Step(r, "told")
  /\ UNCHANGED <<storeVars, createVars, key, told>>

(* A statement of the flow fails, or its COMMIT's answer is lost: the caller
   gets an error without data. *)
FlowFails(r) ==
  /\ At(r, "work")
  /\ \/ RequestFault(r) /\ ~(rpc[r] = "book" /\ BooksFailure(ans[r]))
     \/ CommitAnswerLost(r)
  /\ Respond(r, "none")

(* The write behind an answered failure fails: it is logged. *)
FailureNotWritten(r) ==
  /\ ~At(r, "work")
  /\ rpc[r] = "book"
  /\ RequestFault(r)
  /\ UNCHANGED <<row, keyVars>>

(* A statement on the key fails: refuse, free the key, or answer with it
   still taken. *)
KeyFails(r) ==
  /\ UseFault
  /\ \/ kpc[r] \in {"reserve", "check", "clear"} /\ Step(r, "told")
     \/ At(r, "save") /\ Step(r, "clear")
  /\ UNCHANGED <<order, refund, req, entries, wtx, chan, createVars, row, key, told>>

----------------------------------------------------------------------------
KeyedStep(r) ==
  \/ ReserveKey(r) \/ ApplyCheck(r) \/ NoSettledPayment(r)
  \/ Works(r) \/ Refuses(r) \/ Reports(r)
  \/ PointsAtTwin(r) \/ ReportsFailure(r) \/ WritesFailure(r)
  \/ SaveSnapshot(r) \/ ReleaseKey(r)

(* A request is over long before its key's row expires. *)
RowExpires(k) ==
  /\ \A r \in Refunds : kpc[r] \in {"new", "told"} \/ key[r] # k
  /\ Expire(k)
  /\ UNCHANGED <<storeVars, createVars, keyVars>>

PurgeRow(k) == purgeExpired(k) /\ UNCHANGED <<storeVars, createVars, keyVars>>

(* The channel decides about a refund it was sent. *)
ChannelDecides(r) == ChannelMoves(r) /\ UNCHANGED <<createVars, row, keyVars>>

(* A settling transaction of module Refunding, taken whole: the refund's row
   and the order it may close. Its ledger entry is that module's concern. *)
Settles(r, st) ==
  /\ refund' = [refund EXCEPT ![r] = st]
  /\ order' = IF order = "PAID" /\ st = "REFUND_SUCCESS" /\ RefundsCover({r}) THEN "REFUNDED" ELSE order
  /\ UNCHANGED <<req, entries, wtx, chan, faults, createVars, row, keyVars>>

(* A notification settles a row that is in flight. *)
NoticeSettles(r) ==
  /\ Channel = "wechat"
  /\ chan[r] \in {"SUCCESS", "CLOSED", "ABNORMAL"}
  /\ refund[r] \in InFlight
  /\ Settles(r, mapRefundStatus(chan[r]))

(* A query writes the answer it got over whatever the row has become; it may
   have asked before the channel decided. *)
QuerySettles(r) ==
  /\ Channel = "wechat"
  /\ refund[r] # "none"
  /\ chan[r] \in WechatRefundState
  /\ \E s \in {chan[r], "PROCESSING"} : Settles(r, mapRefundStatus(s))

(* The server dies: requests are gone, rows and reservations remain. *)
Restart ==
  /\ UseFault
  /\ lock' = [p \in Payments |-> "none"]
  /\ rpc' = [r \in Refunds |-> IF rpc[r] = "new" THEN "new" ELSE "answered"]
  /\ kpc' = [r \in Refunds |-> IF At(r, "new") THEN "new" ELSE "told"]
  /\ told' = [r \in Refunds |-> IF At(r, "told") THEN told[r] ELSE "none"]
  /\ UNCHANGED <<order, refund, req, entries, wtx, chan, ans, row, key>>

Next ==
  \/ \E r \in Refunds :
       \/ \E k \in Keys, p \in Payments, a \in Amounts : Arrive(r, k, p, a)
       \/ KeyedStep(r)
       \/ FlowFails(r) \/ FailureNotWritten(r) \/ KeyFails(r)
       \/ ChannelDecides(r) \/ NoticeSettles(r) \/ QuerySettles(r)
  \/ \E k \in Keys : RowExpires(k) \/ PurgeRow(k)
  \/ Restart

Spec == Init /\ [][Next]_vars

----------------------------------------------------------------------------
(* The request has left, or is leaving, and the channel has not decided. *)
Undecided(r) == rpc[r] = "call" \/ chan[r] \in {"sent", "PROCESSING"}

(* A repeat under one key never leaves while the channel may still grant the
   refund it repeats, at once or after a lost answer, a snapshot that could not
   be stored, a restart or the key's expiry. The checks for a twin alone do not
   ensure it: they run before the payment is locked. On WeChat: an Alipay
   refund that timed out is booked as failed and may be asked for again. *)
OneUndecidedPerKey ==
  \A r, s \in Refunds :
    key[r] = key[s] /\ req[r] = req[s] /\ Undecided(r) /\ Undecided(s) => r = s

(* One key books one refund. False: a twin that settles between the two checks
   is seen by neither. *)
OneRefundPerKey ==
  \A r, s \in LiveRefunds : key[r] = key[s] /\ req[r] = req[s] => r = s

(* Every response that names a refund, at once, replayed or by way of its
   twin, names one of the asked amount that is booked. *)
ResponseIsBooked ==
  \A r \in Refunds : told[r] # "none" =>
    /\ req[told[r]].amt = req[r].amt
    /\ refund[told[r]] # "none"

(* What a key has answered it answers until it has expired: replays store the
   response again, and store the same, or fail to and leave it. *)
AnswerIsStable ==
  [][\A k \in Keys : row[k].snap # "null" =>
        row'[k].snap = row[k].snap \/ (row[k].old /\ row'[k] = NoRow)]_vars

----------------------------------------------------------------------------
(* What makes them inductive. *)

(* Between reserving or replaying its key and answering, a request relies on
   the key's row. *)
Holding == {"work", "save", "clear"}

(* The row is its own, alive, without a snapshot while it works, and with no
   other snapshot than the response it is about to store. *)
KeyHeld(r) ==
  kpc[r] \in Holding =>
    /\ row[key[r]].hash = requestHash(r) /\ ~row[key[r]].old
    /\ At(r, "work") => row[key[r]].snap = "null"
    /\ At(r, "save") /\ row[key[r]].snap # "null" => told[r] = row[key[r]].snap

(* Requests share a key's row only to replay the response stored in it. *)
SharedKeyIsAnswered ==
  \A r, s \in Refunds :
    r # s /\ key[r] = key[s] /\ kpc[r] \in Holding /\ kpc[s] \in Holding
      => row[key[r]].snap # "null"

(* Where the flow is, its key's handling is; only the write behind an answered
   failure runs on alone. *)
PlacesAgree(r) ==
  /\ rpc[r] = "new" <=> At(r, "new")
  /\ rpc[r] \in RequestPc \ {"new", "order", "book", "answered"} => At(r, "work")
  /\ rpc[r] = "new" => refund[r] = "none"
  /\ rpc[r] \in {"call", "await", "book", "settleSum", "settleOrder"} => refund[r] # "none"
  /\ rpc[r] # "new" => key[r] \in Keys /\ req[r].amt \in Amounts
  /\ told[r] # "none" => kpc[r] \in {"save", "clear", "told"}
  /\ At(r, "save") => told[r] # "none"

(* A stored response names a booked refund of the hashed amount. *)
SnapshotIsBooked(k) ==
  row[k].snap # "null" =>
    /\ refund[row[k].snap] # "none"
    /\ row[k].hash = HashOf[req[row[k].snap].amt]

(* Requests that rely on a key which has not answered yet work for it; the
   others replay what it answered. *)
WorksFor(k) == {r \in Refunds : kpc[r] \in Holding /\ key[r] = k /\ row[k].snap = "null"}

(* The client's key as ClientKey has it, read off its row. *)
Key == INSTANCE ClientKey WITH
  taken <- [k \in Keys |-> row[k] # NoRow],
  serving <- [k \in Keys |-> WorksFor(k)],
  answer <- [k \in Keys |-> row[k].snap]

(* The rows keep the promise of ClientKey here too, although a replay passes
   through the statements that store a response and free a key. *)
KeyIsKept == Key!Spec

IInv ==
  /\ TypeOK
  /\ \A r \in Refunds : KeyHeld(r) /\ PlacesAgree(r)
  /\ SharedKeyIsAnswered
  /\ \A k \in Keys : SnapshotIsBooked(k)
  /\ ResponseIsBooked

----------------------------------------------------------------------------
(* What keeps undecided refunds of one key apart, on WeChat. *)

Twins(r) == {s \in Refunds \ {r} : key[s] = key[r] /\ req[s] = req[r]}

(* Nothing is sent before "call", an answer about to be booked is what the
   channel decided, and a refund it has not decided is booked in flight. *)
AnswerAgrees(r) ==
  /\ rpc[r] \notin {"await", "book", "settleSum", "settleOrder", "answered"} => chan[r] = "none"
  /\ rpc[r] = "book" =>
       /\ ans[r] = "refused" => chan[r] \in {"none", "refused"}
       /\ ans[r] \in {"SUCCESS", "CLOSED", "ABNORMAL"} => chan[r] = ans[r]
  /\ Undecided(r) => refund[r] \in InFlight

(* A request that has passed the check for a twin in flight has none that the
   channel may still grant. *)
NoOpenTwin(r) ==
  rpc[r] \in {"lock", "sum", "commit", "call"} => \A s \in Twins(r) : ~Undecided(s)

TwinInv ==
  /\ \A r \in Refunds : AnswerAgrees(r) /\ NoOpenTwin(r)
  /\ OneUndecidedPerKey
==============================================================================
