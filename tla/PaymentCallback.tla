--------------------------- MODULE PaymentCallback ---------------------------
(***************************************************************************)
(* CallbackService::handlePaymentCallback: what a verified WeChat payment  *)
(* notification does to the order's rows. The channel repeats a            *)
(* notification until it hears SUCCESS, and repeats may overlap, so each   *)
(* delivery first reserves the notification's key in pay_idempotency under *)
(* a token of its own and stamps the reservation in the transaction that   *)
(* books the money. One action per database statement the handler awaits.  *)
(***************************************************************************)
EXTENDS PaymentStore

CONSTANTS
  Deliveries,    \* HTTP requests that carry notifications, reused when answered
  Notices        \* trade states the channel notifies; one notification per state

ASSUME CallbackAssumption ==
  /\ Deliveries \subseteq Workers
  /\ Notices \subseteq TradeState

VARIABLES
  res,        \* pay_idempotency: reservation by notification
  cpc,        \* where each delivery is
  notice,     \* the notification each delivery carries
  verdict,    \* the order status each delivery has decided to write
  notified,   \* notifications the channel has begun to send
  acked       \* notifications answered SUCCESS

callbackVars == <<res, cpc, notice, verdict, notified, acked>>

NoOwner == "nobody"
NoRes == [owner |-> NoOwner, done |-> FALSE]

(* A token names one delivery. A reused delivery needs no fresh one: it
   reaches finalizeReservation only after writing the row anew. *)
Reservation == [owner: Deliveries \cup {NoOwner}, done: BOOLEAN]

DeliveryPc == {"idle", "lookup", "drop", "audit", "reserve", "lock", "cas",
               "order", "ledger", "finalize", "commit", "commitPlain", "stamp"}

CallbackTypeOK ==
  /\ res \in [Notices -> Reservation]
  /\ cpc \in [Deliveries -> DeliveryPc]
  /\ notice \in [Deliveries -> Notices \cup {"none"}]
  /\ \A d \in Deliveries : cpc[d] # "idle" => notice[d] \in Notices
  /\ verdict \in [Deliveries -> OrderStatus \cup {"none"}]
  /\ notified \subseteq Notices
  /\ acked \subseteq Notices

CallbackInit ==
  /\ res = [n \in Notices |-> NoRes]
  /\ cpc = [d \in Deliveries |-> "idle"]
  /\ notice = [d \in Deliveries |-> "none"]
  /\ verdict = [d \in Deliveries |-> "none"]
  /\ notified = {}
  /\ acked = {}

----------------------------------------------------------------------------
Goto(d, pc) == cpc' = [cpc EXCEPT ![d] = pc]

(* Answer SUCCESS: the channel stops repeating the notification. *)
Ack(d) == Goto(d, "idle") /\ acked' = acked \cup {notice[d]}

(* Answer FAIL: the channel will repeat it. *)
Fail(d) == Goto(d, "idle") /\ UNCHANGED acked

(* The row is still held by an uncommitted finalize of another delivery. *)
ReservationFree(d, n) ==
  \A e \in Deliveries \ {d} : ~(tx[e].fin /\ notice[e] = n)

----------------------------------------------------------------------------
(* External: the channel starts notifying the state its trade has reached. *)
ChannelNotifies ==
  /\ trade \in Notices \ notified
  /\ notified' = notified \cup {trade}
  /\ UNCHANGED <<storeVars, res, cpc, notice, verdict, acked>>

(* A notification arrives (again): signature, decryption, field and nonce
   gates passed, and the reservation key chosen. *)
handlePaymentCallback(d, n) ==
  /\ cpc[d] = "idle"
  /\ n \in notified
  /\ notice' = [notice EXCEPT ![d] = n]
  /\ verdict' = [verdict EXCEPT ![d] = "none"]
  /\ Goto(d, "lookup")
  /\ UNCHANGED <<storeVars, res, notified, acked>>

(* Mutant: an unstamped reservation counts as a handled notification. *)
LookupReservation_TakenIsHandled(d) ==
  /\ cpc[d] = "lookup"
  /\ Goto(d, IF res[notice[d]].owner = NoOwner THEN "reserve" ELSE "audit")
  /\ UNCHANGED <<storeVars, res, notice, verdict, notified, acked>>

(* Read the reservation: absent, taken but never stamped, or stamped. *)
LookupReservation(d) ==
  /\ cpc[d] = "lookup"
  /\ LET r == res[notice[d]]
     IN Goto(d, IF r.owner = NoOwner THEN "reserve" ELSE IF r.done THEN "audit" ELSE "drop")
  /\ UNCHANGED <<storeVars, res, notice, verdict, notified, acked>>

(* Delete the reservation unless it has been stamped meanwhile, whoever took
   it, and ask for a retry. *)
dropUnfinalizedReservation(d) ==
  /\ cpc[d] = "drop"
  /\ ReservationFree(d, notice[d])
  /\ res' = IF res[notice[d]].done THEN res ELSE [res EXCEPT ![notice[d]] = NoRes]
  /\ Fail(d)
  /\ UNCHANGED <<storeVars, notice, verdict, notified>>

(* Already handled: record the duplicate against the latest open attempt. *)
AuditDuplicate(d) ==
  /\ cpc[d] = "audit"
  /\ IF openAttemptsOfOrder = {} THEN Fail(d) ELSE Ack(d)
  /\ UNCHANGED <<storeVars, res, notice, verdict, notified>>

(* INSERT ... ON CONFLICT DO NOTHING with this delivery's token. *)
ReserveKey(d) ==
  /\ cpc[d] = "reserve"
  /\ LET free == res[notice[d]].owner = NoOwner
     IN /\ res' = IF free THEN [res EXCEPT ![notice[d]] = [owner |-> d, done |-> FALSE]] ELSE res
        /\ IF free THEN Goto(d, "lock") /\ UNCHANGED acked ELSE Fail(d)
  /\ UNCHANGED <<storeVars, notice, verdict, notified>>

(* Amount and currency are the order's, and the transaction the booked one:
   anything else is refused for a person to look at. *)
AmountAgrees == exact

(* Open the transaction and read the latest open attempt FOR UPDATE. No such
   attempt, or an amount that is not the order's: FAIL. Already settled: the
   earlier booking is acknowledged, the reservation stays unstamped. *)
LockLatestAttempt(d) ==
  /\ cpc[d] = "lock"
  /\ \/ /\ openAttemptsOfOrder = {}
        /\ Fail(d)
        /\ Rollback(d)
     \/ \E a \in openAttemptsOfOrder :
          /\ IsLatest(a, openAttemptsOfOrder)
          /\ PaymentFree(d, a)
          /\ \/ /\ payment[a] \notin InFlight
                /\ Ack(d)
                /\ Rollback(d)
             \/ /\ payment[a] \in InFlight
                /\ ~AmountAgrees
                /\ Fail(d)
                /\ Rollback(d)
             \/ /\ payment[a] \in InFlight
                /\ AmountAgrees
                /\ Goto(d, "cas")
                /\ InTx(d, [tx[d] EXCEPT !.att = a, !.lock = TRUE])
                /\ UNCHANGED acked
  /\ UNCHANGED <<res, notice, verdict, notified>>

(* Somebody else moved the attempt first: recorded in the audit table and
   acknowledged, nothing booked. *)
LostRace(d) == Rollback(d) /\ Ack(d) /\ UNCHANGED verdict

(* Map the trade state, weigh a REFUNDED claim against the settled refunds,
   record the callback, and move the attempt out of INIT/PROCESSING. *)
CasAttempt(d) ==
  LET m == mapTradeState(notice[d])
  IN /\ cpc[d] = "cas"
     /\ IF payment[tx[d].att] \in InFlight
          THEN /\ InTx(d, [tx[d] EXCEPT !.pay = m.payment])
               /\ verdict' = [verdict EXCEPT
                    ![d] = resolveRefundedOrderStatus(m.order, settled, Total)]
               /\ Goto(d, "order")
               /\ UNCHANGED acked
          ELSE LostRace(d)
     /\ UNCHANGED <<res, notice, notified>>

(* Write the order's status, whatever it was. *)
UpdateOrder(d) ==
  /\ cpc[d] = "order"
  /\ OrderFree(d)
  /\ InTx(d, [tx[d] EXCEPT !.order = verdict[d]])
  /\ Goto(d, IF MoneyArrived(verdict[d]) THEN "ledger" ELSE "commitPlain")
  /\ UNCHANGED <<res, notice, verdict, notified, acked>>

(* Post the PAYMENT entry. The unique index refuses a second one, which
   aborts the transaction without stopping the handler. *)
InsertLedger(d) ==
  /\ cpc[d] = "ledger"
  /\ LedgerFree(d, tx[d].att)
  /\ InTx(d, [tx[d] EXCEPT !.led = tx[d].att \notin ledger, !.dead = tx[d].att \in ledger])
  /\ Goto(d, "finalize")
  /\ UNCHANGED <<res, notice, verdict, notified, acked>>

(* Mutant: stamped on a connection of its own, ahead of the COMMIT. *)
FinalizeInTx_OwnConnection(d) ==
  /\ cpc[d] = "finalize"
  /\ res' = [res EXCEPT ![notice[d]].done = TRUE]
  /\ Goto(d, "commit")
  /\ UNCHANGED <<storeVars, notice, verdict, notified, acked>>

(* Stamp the reservation inside the transaction, if it is still this
   delivery's; a reservation lost to a retry rolls the booking back. *)
FinalizeInTx(d) ==
  /\ cpc[d] = "finalize"
  /\ ReservationFree(d, notice[d])
  /\ IF res[notice[d]].owner = d /\ ~tx[d].dead
       THEN /\ InTx(d, [tx[d] EXCEPT !.fin = TRUE])
            /\ Goto(d, "commit")
            /\ UNCHANGED acked
       ELSE Rollback(d) /\ Fail(d)
  /\ UNCHANGED <<res, notice, verdict, notified>>

(* COMMIT publishes the booking and the stamp together, then ACK. *)
CommitBooking(d) ==
  /\ cpc[d] = "commit"
  /\ Commit(d)
  /\ res' = [res EXCEPT ![notice[d]].done = TRUE]
  /\ Ack(d)
  /\ UNCHANGED <<notice, verdict, notified>>

(* A state that carries no money commits first ... *)
CommitPlain(d) ==
  /\ cpc[d] = "commitPlain"
  /\ Commit(d)
  /\ Goto(d, "stamp")
  /\ UNCHANGED <<res, notice, verdict, notified, acked>>

(* ... and stamps its reservation afterwards; losing it is only logged. *)
StampAfterCommit(d) ==
  /\ cpc[d] = "stamp"
  /\ ReservationFree(d, notice[d])
  /\ res' = IF res[notice[d]].owner = d THEN [res EXCEPT ![notice[d]].done = TRUE] ELSE res
  /\ Ack(d)
  /\ UNCHANGED <<storeVars, notice, verdict, notified>>

(* A statement fails. The handler rolls back and answers FAIL, except after
   the commit of a state without money, which is acknowledged anyway. *)
DeliveryFault(d) ==
  /\ cpc[d] # "idle"
  /\ Fault(d)
  /\ IF cpc[d] = "stamp" THEN Ack(d) ELSE Fail(d)
  /\ UNCHANGED <<res, notice, verdict, notified>>

(* The answer to COMMIT is lost after the database has applied it. *)
CommitAnswerLost(d) ==
  /\ cpc[d] = "commit"
  /\ faults < MaxFaults
  /\ faults' = faults + 1
  /\ Publish(d)
  /\ res' = [res EXCEPT ![notice[d]].done = TRUE]
  /\ Fail(d)
  /\ UNCHANGED <<settled, trade, exact, notice, verdict, notified>>

(* The sweep deletes a reservation past its seven days, stamped or not; no
   delivery runs that long. *)
purgeExpired(n) ==
  /\ res[n].owner # NoOwner
  /\ cpc[res[n].owner] = "idle"
  /\ \A e \in Deliveries : ~(tx[e].fin /\ notice[e] = n)
  /\ res' = [res EXCEPT ![n] = NoRes]
  /\ UNCHANGED <<storeVars, cpc, notice, verdict, notified, acked>>

DeliveryStep(d) ==
  \/ LookupReservation(d) \/ dropUnfinalizedReservation(d) \/ AuditDuplicate(d)
  \/ ReserveKey(d) \/ LockLatestAttempt(d) \/ CasAttempt(d) \/ UpdateOrder(d)
  \/ InsertLedger(d) \/ FinalizeInTx(d) \/ CommitBooking(d)
  \/ CommitPlain(d) \/ StampAfterCommit(d)

CallbackNext ==
  \/ ChannelNotifies
  \/ \E n \in Notices : purgeExpired(n)
  \/ \E d \in Deliveries :
       \/ \E n \in Notices : handlePaymentCallback(d, n)
       \/ DeliveryStep(d)
       \/ DeliveryFault(d)
       \/ CommitAnswerLost(d)
==============================================================================
