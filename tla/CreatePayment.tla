---------------------------- MODULE CreatePayment ----------------------------
(***************************************************************************)
(* PaymentService::createPayment: reserve the key, insert order and        *)
(* attempt in one transaction, ask the channel outside it, and record what *)
(* its answer proves; the reservation is filled or cleared before the      *)
(* caller is answered. Other actors on the order, a QR attempt, the payer  *)
(* and the notification, take one step each: their statements are modules  *)
(* QRPayment and PaymentCallback. One action per statement.                *)
(***************************************************************************)
EXTENDS Idempotency, PayStatus

CONSTANTS
  Orders,      \* merchant order numbers
  MaxFaults    \* bound: failing statements and restarts

ASSUME CreateAssumption ==
  /\ Hashes = Orders
  /\ "absent" \notin Hashes
  /\ MaxFaults \in Nat

VARIABLES
  want,     \* key and order each request names
  rpc,      \* where each request is
  ans,      \* what the channel call of each request came back with
  reply,    \* what each caller is told, and whose response that is
  order,    \* pay_order.status by order number
  pay,      \* pay_payment.status of the attempt each request books
  qr,       \* pay_payment.status of a later QR attempt at each order
  trade,    \* the channel's trade under each order number
  sent,     \* requests whose channel call has left
  faults    \* statements failed so far

tableVars == <<order, pay, qr, trade, sent>>
requestVars == <<want, rpc, ans, reply>>
vars == <<row, requestVars, tableVars, faults>>

RequestPc == {"new", "reserve", "check", "validate", "insert", "call", "answer",
              "failPayment", "failOrder", "promotePayment", "promoteOrder",
              "snapshot", "clear", "answered"}

(* code: a payable code; nocode: a body without one; lost: no answer. *)
ChannelAnswer == {"none", "code", "nocode", "lost", "refused"}

NoReply == [kind |-> "none", of |-> "none"]

TypeOK ==
  /\ RowsTypeOK
  /\ want \in [Requests -> [key: Keys \cup {"none"}, order: Orders \cup {"none"}]]
  /\ rpc \in [Requests -> RequestPc]
  /\ ans \in [Requests -> ChannelAnswer]
  /\ reply \in [Requests -> [kind: {"none", "created", "replay", "error"},
                             of: Requests \cup {"none"}]]
  /\ order \in [Orders -> OrderStatus \cup {"none"}]
  /\ pay \in [Requests -> PaymentStatus \cup {"none"}]
  /\ qr \in [Orders -> PaymentStatus \cup {"none"}]
  /\ trade \in [Orders -> {"none", "open", "paid"}]
  /\ sent \subseteq Requests
  /\ faults \in 0..MaxFaults

Init ==
  /\ RowsInit
  /\ want = [r \in Requests |-> [key |-> "none", order |-> "none"]]
  /\ rpc = [r \in Requests |-> "new"]
  /\ ans = [r \in Requests |-> "none"]
  /\ reply = [r \in Requests |-> NoReply]
  /\ order = [o \in Orders |-> "none"]
  /\ pay = [r \in Requests |-> "none"]
  /\ qr = [o \in Orders |-> "none"]
  /\ trade = [o \in Orders |-> "none"]
  /\ sent = {}
  /\ faults = 0

----------------------------------------------------------------------------
Goto(r, pc) == rpc' = [rpc EXCEPT ![r] = pc]
Tell(r, kind, of) == reply' = [reply EXCEPT ![r] = [kind |-> kind, of |-> of]]

(* The failure that is told once the reservation is gone. *)
FailThen(r, pc) == Tell(r, "error", "none") /\ Goto(r, pc)

(* SHA-256 over order number, amount, currency and description: bodies that
   agree on those hash alike, whoever they book for. *)
requestHash(r) == want[r].order

InFlight == {"INIT", "PROCESSING"}

(* A request arrives, or is repeated by its client. *)
createPayment(r, k, o) ==
  /\ rpc[r] = "new"
  /\ want' = [want EXCEPT ![r] = [key |-> k, order |-> o]]
  /\ Goto(r, "reserve")
  /\ UNCHANGED <<row, ans, reply, tableVars, faults>>

(* Reserve the key, or find out what holds it. *)
checkDatabase(r) ==
  /\ rpc[r] = "reserve"
  /\ IF CanReserve(want[r].key)
       THEN Reserve(want[r].key, requestHash(r)) /\ Goto(r, "validate")
       ELSE UNCHANGED row /\ Goto(r, "check")
  /\ UNCHANGED <<want, ans, reply, tableVars, faults>>

(* Conflict, in progress and error are refusals; a stored response is
   returned as it is. *)
ApplyCheck(r) ==
  /\ rpc[r] = "check"
  /\ LET status == CheckStatus(want[r].key, requestHash(r))
     IN IF status = "Replay"
          THEN Goto(r, "answered") /\ Tell(r, "replay", row[want[r].key].snap)
          ELSE FailThen(r, "answered")
  /\ UNCHANGED <<row, want, ans, tableVars, faults>>

(* Amount, addresses and deadlines are checked after the key is reserved. *)
Validate(r) ==
  /\ rpc[r] = "validate"
  /\ \/ Goto(r, "insert") /\ UNCHANGED reply
     \/ FailThen(r, "clear")
  /\ UNCHANGED <<row, want, ans, tableVars, faults>>

(* Mutant: a repeated order number is taken for the same booking. *)
InsertRows_Upsert(r) ==
  /\ rpc[r] = "insert"
  /\ order' = [order EXCEPT ![want[r].order] = IF @ = "none" THEN "CREATED" ELSE @]
  /\ pay' = [pay EXCEPT ![r] = "INIT"]
  /\ Goto(r, "call")
  /\ UNCHANGED reply
  /\ UNCHANGED <<row, want, ans, qr, trade, sent, faults>>

(* INSERT order and attempt, COMMIT. order_no is unique. *)
InsertRows(r) ==
  /\ rpc[r] = "insert"
  /\ IF order[want[r].order] = "none"
       THEN /\ order' = [order EXCEPT ![want[r].order] = "CREATED"]
            /\ pay' = [pay EXCEPT ![r] = "INIT"]
            /\ Goto(r, "call")
            /\ UNCHANGED reply
       ELSE FailThen(r, "clear") /\ UNCHANGED <<order, pay>>
  /\ UNCHANGED <<row, want, ans, qr, trade, sent, faults>>

(* The COMMIT is applied, its answer lost: the channel is never called. *)
CommitAnswerLost(r) ==
  /\ rpc[r] = "insert"
  /\ order[want[r].order] = "none"
  /\ faults < MaxFaults
  /\ faults' = faults + 1
  /\ order' = [order EXCEPT ![want[r].order] = "CREATED"]
  /\ pay' = [pay EXCEPT ![r] = "INIT"]
  /\ FailThen(r, "clear")
  /\ UNCHANGED <<row, want, ans, qr, trade, sent>>

(* Ask the channel for a code. It opens the trade or finds it open, and says
   so or not; or it did not open one for this call, and says so or not. *)
callChannel(r) ==
  LET o == want[r].order
  IN /\ rpc[r] = "call"
     /\ sent' = sent \cup {r}
     /\ \/ /\ trade[o] \in {"none", "open"}
           /\ trade' = [trade EXCEPT ![o] = "open"]
           /\ \E a \in {"code", "nocode", "lost"} : ans' = [ans EXCEPT ![r] = a]
        \/ /\ UNCHANGED trade
           /\ \E a \in {"refused", "nocode", "lost"} : ans' = [ans EXCEPT ![r] = a]
     /\ Goto(r, "answer")
     /\ UNCHANGED <<row, want, reply, order, pay, qr, faults>>

(* Mutant: any 2xx answer is an accepted order. *)
channelResultError_AnyBody(a) == a \in {"lost", "refused"}

(* The call failed, or its answer carries no code the payer could use. *)
channelResultError(a) == a # "code"

(* Mutant: an answer that was lost closes the attempt. *)
attemptCertainlyNotCreated_Lost(a) == a \in {"refused", "lost"}

(* The failure proves that the channel opened nothing for this call. *)
attemptCertainlyNotCreated(a) == a = "refused"

(* Record what the answer proves: a certain refusal closes the rows, an
   unknown outcome leaves them in flight, a code promotes them. *)
paymentCallback(r) ==
  /\ rpc[r] = "answer"
  /\ CASE ~channelResultError(ans[r]) -> Goto(r, "promotePayment") /\ UNCHANGED reply
       [] attemptCertainlyNotCreated(ans[r]) -> FailThen(r, "failPayment")
       [] OTHER -> FailThen(r, "clear")
  /\ UNCHANGED <<row, want, ans, tableVars, faults>>

(* bookRefusedAttempt: two UPDATEs by primary key. *)
FailPayment(r) ==
  /\ rpc[r] = "failPayment"
  /\ pay' = [pay EXCEPT ![r] = "FAIL"]
  /\ Goto(r, "failOrder")
  /\ UNCHANGED <<row, want, ans, reply, order, qr, trade, sent, faults>>

FailOrder(r) ==
  /\ rpc[r] = "failOrder"
  /\ order' = [order EXCEPT ![want[r].order] = "FAILED"]
  /\ Goto(r, "clear")
  /\ UNCHANGED <<row, want, ans, reply, pay, qr, trade, sent, faults>>

(* Mutant: the attempt is written whatever a notification made of it. *)
PromotePayment_Unguarded(r) ==
  /\ rpc[r] = "promotePayment"
  /\ pay' = [pay EXCEPT ![r] = "PROCESSING"]
  /\ Goto(r, "promoteOrder")
  /\ UNCHANGED <<row, want, ans, reply, order, qr, trade, sent, faults>>

(* UPDATE the attempt WHERE in flight; one that moved on is answered. *)
PromotePayment(r) ==
  /\ rpc[r] = "promotePayment"
  /\ IF pay[r] \in InFlight
       THEN pay' = [pay EXCEPT ![r] = "PROCESSING"] /\ Goto(r, "promoteOrder")
       ELSE UNCHANGED pay /\ Goto(r, "snapshot")
  /\ UNCHANGED <<row, want, ans, reply, order, qr, trade, sent, faults>>

PromoteOrder(r) ==
  LET o == want[r].order
  IN /\ rpc[r] = "promoteOrder"
     /\ order' = [order EXCEPT ![o] = IF @ \in {"CREATED", "PAYING"} THEN "PAYING" ELSE @]
     /\ Goto(r, "snapshot")
     /\ UNCHANGED <<row, want, ans, reply, pay, qr, trade, sent, faults>>

(* wrappedCb: store the response before it is given. A row that is gone is
   cleared once more, and the response given all the same. *)
SaveSnapshot(r) ==
  /\ rpc[r] = "snapshot"
  /\ updateResult(want[r].key, requestHash(r), r)
  /\ Tell(r, "created", r)
  /\ Goto(r, IF Matches(want[r].key, requestHash(r)) THEN "answered" ELSE "clear")
  /\ UNCHANGED <<want, ans, tableVars, faults>>

ReleaseKey(r) ==
  /\ rpc[r] = "clear"
  /\ clearReservation(want[r].key, requestHash(r))
  /\ Goto(r, "answered")
  /\ UNCHANGED <<want, ans, reply, tableVars, faults>>

(* A statement fails. What is left to do follows from where it was: refuse,
   release the key, answer with the code in hand, or just answer. *)
RequestFault(r) ==
  /\ faults < MaxFaults
  /\ faults' = faults + 1
  /\ \/ rpc[r] \in {"reserve", "check"} /\ FailThen(r, "answered")
     \/ rpc[r] \in {"insert", "promotePayment"} /\ FailThen(r, "clear")
     \/ rpc[r] \in {"failPayment", "failOrder"} /\ Goto(r, "clear") /\ UNCHANGED reply
     \/ rpc[r] = "promoteOrder" /\ Goto(r, "snapshot") /\ UNCHANGED reply
     \/ rpc[r] = "snapshot" /\ Tell(r, "created", r) /\ Goto(r, "clear")
     \/ rpc[r] = "clear" /\ Goto(r, "answered") /\ UNCHANGED reply
  /\ UNCHANGED <<row, want, ans, tableVars>>

RequestStep(r) ==
  \/ checkDatabase(r) \/ ApplyCheck(r) \/ Validate(r) \/ InsertRows(r)
  \/ callChannel(r) \/ paymentCallback(r) \/ FailPayment(r) \/ FailOrder(r)
  \/ PromotePayment(r) \/ PromoteOrder(r) \/ SaveSnapshot(r) \/ ReleaseKey(r)

----------------------------------------------------------------------------
(* The attempts at o that openAttemptsOfOrder finds, and whether one settled. *)
Booked(o) == {r \in Requests : pay[r] # "none" /\ want[r].order = o}
Settled(o) == qr[o] = "SUCCESS" \/ \E r \in Booked(o) : pay[r] = "SUCCESS"

(* A QR request appends an attempt to an order that is not settled. The
   channel opens the trade unless it is open, and order and attempt are
   promoted; or it refuses, and the attempt alone is closed. *)
QRAttempt(o) ==
  /\ order[o] \notin {"none", "PAID"}
  /\ ~Settled(o)
  /\ qr[o] = "none"
  /\ \/ /\ qr' = [qr EXCEPT ![o] = "PROCESSING"]
        /\ trade' = [trade EXCEPT ![o] = IF @ = "none" THEN "open" ELSE @]
        /\ order' = [order EXCEPT ![o] = IF @ \in {"CREATED", "PAYING"} THEN "PAYING" ELSE @]
     \/ /\ qr' = [qr EXCEPT ![o] = "FAIL"]
        /\ UNCHANGED <<trade, order>>
  /\ UNCHANGED <<row, requestVars, pay, sent, faults>>

(* External: the payer uses the code. *)
PayerPays(o) ==
  /\ trade[o] = "open"
  /\ trade' = [trade EXCEPT ![o] = "paid"]
  /\ UNCHANGED <<row, requestVars, order, pay, qr, sent, faults>>

(* The notification settles the latest attempt that is open, and the order. *)
NotificationSettles(o) ==
  /\ trade[o] = "paid"
  /\ \/ /\ qr[o] \in InFlight
        /\ qr' = [qr EXCEPT ![o] = "SUCCESS"]
        /\ UNCHANGED pay
     \/ /\ qr[o] \in {"none", "FAIL"}
        /\ \E r \in Booked(o) : pay[r] \in InFlight /\ pay' = [pay EXCEPT ![r] = "SUCCESS"]
        /\ UNCHANGED qr
  /\ order' = [order EXCEPT ![o] = "PAID"]
  /\ UNCHANGED <<row, requestVars, trade, sent, faults>>

(* A request is over long before its row expires. *)
RowExpires(k) ==
  /\ \A r \in Requests : rpc[r] \in {"new", "answered"} \/ want[r].key # k
  /\ Expire(k)
  /\ UNCHANGED <<requestVars, tableVars, faults>>

PurgeRow(k) == purgeExpired(k) /\ UNCHANGED <<requestVars, tableVars, faults>>

(* The server dies: requests are gone, the rows remain. *)
Restart ==
  /\ faults < MaxFaults
  /\ faults' = faults + 1
  /\ rpc' = [r \in Requests |-> IF rpc[r] = "new" THEN "new" ELSE "answered"]
  /\ reply' = [r \in Requests |-> IF rpc[r] = "answered" THEN reply[r] ELSE NoReply]
  /\ UNCHANGED <<row, want, ans, tableVars>>

Next ==
  \/ \E r \in Requests :
       \/ \E k \in Keys, o \in Orders : createPayment(r, k, o)
       \/ RequestStep(r)
       \/ RequestFault(r)
       \/ CommitAnswerLost(r)
  \/ \E o \in Orders : QRAttempt(o) \/ PayerPays(o) \/ NotificationSettles(o)
  \/ \E k \in Keys : RowExpires(k) \/ PurgeRow(k)
  \/ Restart

Spec == Init /\ [][Next]_vars

(* A request that has begun is served, time passes, and the reconciliation
   timer collects what has expired. *)
FairSpec ==
  /\ Spec
  /\ \A r \in Requests : WF_vars(RequestStep(r))
  /\ \A k \in Keys : WF_vars(RowExpires(k)) /\ WF_vars(PurgeRow(k))

----------------------------------------------------------------------------
(* Past the reservation of the key and not yet answered. *)
Working == RequestPc \ {"new", "reserve", "check", "answered"}
AtWork(k) == {r \in Requests : rpc[r] \in Working /\ want[r].key = k}

(* One key admits one request at a time: the row outlives whoever reserved it,
   although no statement names the owner. *)
OneAtWorkPerKey == \A k \in Keys : \A r, s \in AtWork(k) : r = s

(* The client's key as ClientKey has it, read off its row. *)
Key == INSTANCE ClientKey WITH
  taken <- [k \in Keys |-> row[k] # NoRow],
  serving <- [k \in Keys |-> AtWork(k)],
  answer <- [k \in Keys |-> row[k].snap]

(* The rows keep the promise of ClientKey: a key is reserved only when it is
   free, the request that works for it answers or frees it, a stored response
   is never replaced, and expiry takes no key from a request at work. *)
KeyIsKept == Key!Spec

(* The channel is asked once for an order through this route, however often
   clients repeat themselves under cleared, expired or other keys. *)
OneOfferPerOrder == \A r, s \in sent : want[r].order = want[s].order => r = s

(* A caller told of a created payment, at once or by replay, has one the
   channel opened and a notification can still match. *)
CreatedIsPayable ==
  \A r \in Requests :
    rpc[r] = "answered" /\ reply[r].kind \in {"created", "replay"}
      => /\ trade[want[r].order] # "none"
         /\ pay[reply[r].of] \in InFlight \cup {"SUCCESS"}

(* Whatever the payer can pay has an attempt the notification will find. *)
OpenTradeHasOpenAttempt ==
  \A o \in Orders : trade[o] # "none" =>
    \/ qr[o] \in InFlight \cup {"SUCCESS"}
    \/ \E r \in Booked(o) : pay[r] \in InFlight \cup {"SUCCESS"}

(* No answer that arrives late takes a settled attempt back. *)
SettledAttemptIsFinal ==
  [][\A r \in Requests : pay[r] = "SUCCESS" => pay'[r] = "SUCCESS"]_vars

(* A key does not stay taken by a request that never answered. *)
KeyIsReleased ==
  \A k \in Keys : (row[k] # NoRow /\ row[k].snap = "null")
                    ~> (row[k] = NoRow \/ row[k].snap # "null")

(* On this route, too, status writes are conditional: an order that a
   notification settled is not written FAILED by a late refusal. *)
PaidOrderStaysPaid == [][\A o \in Orders : order[o] = "PAID" => order'[o] = "PAID"]_vars

----------------------------------------------------------------------------
(* What makes the invariants above inductive. *)

Early == {"new", "reserve", "check", "validate", "insert"}
Open == InFlight \cup {"SUCCESS"}

(* A request at work finds its own reservation, unanswered and current. *)
KeyHeld(r) ==
  rpc[r] \in Working =>
    row[want[r].key] = [hash |-> requestHash(r), snap |-> "null", old |-> FALSE]

(* The rows of a request exist from its insert on, and its channel call is
   made after that and once. *)
RowsBooked(r) ==
  /\ rpc[r] # "new" => want[r].key \in Keys /\ want[r].order \in Orders
  /\ pay[r] # "none" => rpc[r] \notin Early /\ order[want[r].order] # "none"
  /\ rpc[r] \notin Early \cup {"clear", "answered"} => pay[r] # "none"
  /\ r \in sent \/ ans[r] # "none" => pay[r] # "none" /\ rpc[r] # "call"

(* What an answer proves, and who acts on it. *)
AnswerProves(r) ==
  /\ ans[r] = "code" => trade[want[r].order] # "none" /\ pay[r] \in Open
  /\ pay[r] \in Open \cup {"none"} \/ ans[r] = "refused"
  /\ pay[r] = "SUCCESS" => ans[r] \notin {"none", "refused"}
  /\ rpc[r] \in {"failPayment", "failOrder"} => ans[r] = "refused"
  /\ rpc[r] \in {"promotePayment", "promoteOrder", "snapshot"} => ans[r] = "code"

(* Responses that are told or stored come from a call that got its code. *)
ReplyProved(r) ==
  reply[r].kind \in {"created", "replay"} =>
    /\ rpc[r] # "new"
    /\ reply[r].of \in Requests
    /\ ans[reply[r].of] = "code"
    /\ want[reply[r].of].order = want[r].order

SnapshotProved(k) ==
  row[k].snap # "null" => ans[row[k].snap] = "code" /\ want[row[k].snap].order = row[k].hash

OneAttemptPerOrder ==
  \A r, s \in Requests : pay[r] # "none" /\ pay[s] # "none" /\ want[r].order = want[s].order => r = s

(* An open trade has an attempt that no refusal can close any more. *)
TradeMatched(o) ==
  trade[o] # "none" =>
    \/ qr[o] \in Open
    \/ \E r \in Booked(o) : pay[r] \in Open /\ ans[r] \notin {"none", "refused"}

IInv ==
  /\ TypeOK
  /\ OneAtWorkPerKey
  /\ OneAttemptPerOrder
  /\ \A r \in Requests : KeyHeld(r) /\ RowsBooked(r) /\ AnswerProves(r) /\ ReplyProved(r)
  /\ \A k \in Keys : SnapshotProved(k)
  /\ \A o \in Orders : TradeMatched(o)
==============================================================================
