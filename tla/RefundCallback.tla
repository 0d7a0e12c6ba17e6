--------------------------- MODULE RefundCallback ----------------------------
(***************************************************************************)
(* CallbackService::handleRefundCallback: what a verified WeChat refund    *)
(* notification does. As for payments, a delivery reserves the             *)
(* notification's key under its own token and stamps the reservation in    *)
(* the transaction that settles the refund. One action per statement       *)
(* another transaction can notice.                                         *)
(***************************************************************************)
EXTENDS RefundStore

CONSTANT Deliveries  \* HTTP requests that carry notifications, reused

ASSUME CallbackAssumption == Deliveries \subseteq Settlers

VARIABLES
  res,       \* pay_idempotency: the reservation of each refund's notification
  dpc,       \* where each delivery is
  carries,   \* the refund each delivery is about
  acked      \* refunds whose notification was answered SUCCESS

callbackVars == <<res, dpc, carries, acked>>

NoOwner == "nobody"
NoRes == [owner |-> NoOwner, done |-> FALSE]

DeliveryPc == {"idle", "lookup", "drop", "audit", "reserve", "read", "cas",
               "sum", "order", "finalize", "commit"}

CallbackTypeOK ==
  /\ res \in [Refunds -> [owner: Deliveries \cup {NoOwner}, done: BOOLEAN]]
  /\ dpc \in [Deliveries -> DeliveryPc]
  /\ carries \in [Deliveries -> Refunds \cup {"none"}]
  /\ acked \subseteq Refunds

CallbackInit ==
  /\ res = [r \in Refunds |-> NoRes]
  /\ dpc = [d \in Deliveries |-> "idle"]
  /\ carries = [d \in Deliveries |-> "none"]
  /\ acked = {}

MoveTo(d, pc) == dpc' = [dpc EXCEPT ![d] = pc]

(* Answer SUCCESS, which stops the repeats, or FAIL, which asks for one. *)
Ack(d) == MoveTo(d, "idle") /\ acked' = acked \cup {carries[d]}
Fail(d) == MoveTo(d, "idle") /\ UNCHANGED acked

(* The status the notification stands for. *)
Notified(d) == mapRefundStatus(chan[carries[d]])

ReservationFree(d) == \A e \in Deliveries \ {d} : ~(wtx[e].fin /\ carries[e] = carries[d])

----------------------------------------------------------------------------
(* The notification of a refund that has ended arrives (again); signature,
   freshness, decryption, field and nonce gates passed. *)
handleRefundCallback(d, r) ==
  /\ dpc[d] = "idle"
  /\ Channel = "wechat"
  /\ chan[r] \in {"SUCCESS", "CLOSED", "ABNORMAL"}
  /\ carries' = [carries EXCEPT ![d] = r]
  /\ MoveTo(d, "lookup")
  /\ UNCHANGED <<storeVars, res, acked>>

(* Read the reservation: absent, taken but never stamped, or stamped. *)
LookupReservation(d) ==
  /\ dpc[d] = "lookup"
  /\ LET r == res[carries[d]]
     IN MoveTo(d, IF r.owner = NoOwner THEN "reserve" ELSE IF r.done THEN "audit" ELSE "drop")
  /\ UNCHANGED <<storeVars, res, carries, acked>>

(* Delete it unless it has been stamped meanwhile, and ask for a retry. *)
dropUnfinalizedReservation(d) ==
  /\ dpc[d] = "drop"
  /\ ReservationFree(d)
  /\ res' = IF res[carries[d]].done THEN res ELSE [res EXCEPT ![carries[d]] = NoRes]
  /\ Fail(d)
  /\ UNCHANGED <<storeVars, carries>>

(* Already handled: record the duplicate against the order's payment. *)
AuditDuplicate(d) ==
  /\ dpc[d] = "audit"
  /\ Ack(d)
  /\ UNCHANGED <<storeVars, res, carries>>

(* INSERT ... ON CONFLICT DO NOTHING with this delivery's token. *)
ReserveKey(d) ==
  /\ dpc[d] = "reserve"
  /\ IF res[carries[d]].owner = NoOwner
       THEN /\ res' = [res EXCEPT ![carries[d]] = [owner |-> d, done |-> FALSE]]
            /\ MoveTo(d, "read")
            /\ UNCHANGED acked
       ELSE Fail(d) /\ UNCHANGED res
  /\ UNCHANGED <<storeVars, carries>>

(* Read the row outside the transaction: a settled refund is acknowledged, its
   reservation left unstamped. The amount is the one this service asked for. *)
ReadRefund(d) ==
  /\ dpc[d] = "read"
  /\ IF refund[carries[d]] = "REFUND_SUCCESS" THEN Ack(d) ELSE MoveTo(d, "cas") /\ UNCHANGED acked
  /\ UNCHANGED <<storeVars, res, carries>>

(* Move the refund out of REFUND_INIT/REFUNDING and, if it settled, post its
   REFUND entry. Zero rows: somebody settled it first, recorded and ACKed. *)
CasRefund(d) ==
  /\ dpc[d] = "cas"
  /\ RefundFree(d, carries[d])
  /\ IF refund[carries[d]] \in InFlight
       THEN /\ InTx(d, [NoTx EXCEPT !.ref = carries[d], !.st = Notified(d),
                                    !.led = Notified(d) = "REFUND_SUCCESS"])
            /\ MoveTo(d, IF Notified(d) = "REFUND_SUCCESS" THEN "sum" ELSE "finalize")
            /\ UNCHANGED acked
       ELSE Rollback(d) /\ Ack(d)
  /\ UNCHANGED <<res, carries>>

(* Sum the settled rows, this one included. *)
SumInTx(d) ==
  /\ dpc[d] = "sum"
  /\ MoveTo(d, IF RefundsCover({carries[d]}) THEN "order" ELSE "finalize")
  /\ UNCHANGED <<storeVars, res, carries, acked>>

(* UPDATE pay_order SET REFUNDED WHERE status = PAID. *)
CloseOrderInTx(d) ==
  /\ dpc[d] = "order"
  /\ OrderFree(d)
  /\ InTx(d, [wtx[d] EXCEPT !.close = order = "PAID"])
  /\ MoveTo(d, "finalize")
  /\ UNCHANGED <<res, carries, acked>>

(* Mutant: the stamp is written on a connection of its own. *)
FinalizeInTx_OwnConnection(d) ==
  /\ dpc[d] = "finalize"
  /\ ReservationFree(d)
  /\ IF res[carries[d]].owner = d
       THEN /\ res' = [res EXCEPT ![carries[d]].done = TRUE]
            /\ MoveTo(d, "commit")
            /\ UNCHANGED <<storeVars, acked>>
       ELSE Rollback(d) /\ Fail(d) /\ UNCHANGED res
  /\ UNCHANGED carries

(* Stamp the reservation if it is still this delivery's; one lost to a retry
   rolls the settlement back. *)
FinalizeInTx(d) ==
  /\ dpc[d] = "finalize"
  /\ ReservationFree(d)
  /\ IF res[carries[d]].owner = d
       THEN /\ InTx(d, [wtx[d] EXCEPT !.fin = TRUE])
            /\ MoveTo(d, "commit")
            /\ UNCHANGED acked
       ELSE Rollback(d) /\ Fail(d)
  /\ UNCHANGED <<res, carries>>

(* COMMIT publishes settlement and stamp together, then ACK; when the answer
   to COMMIT is lost the delivery is answered FAIL. *)
CommitSettlement(d) ==
  /\ dpc[d] = "commit"
  /\ Publish(d)
  /\ res' = [res EXCEPT ![carries[d]].done = TRUE]
  /\ \/ Ack(d) /\ UNCHANGED faults
     \/ Fail(d) /\ UseFault
  /\ UNCHANGED carries

(* A statement fails: rolled back and answered FAIL. *)
DeliveryFault(d) ==
  /\ dpc[d] # "idle"
  /\ Fault(d)
  /\ Fail(d)
  /\ UNCHANGED <<res, carries>>

DeliveryStep(d) ==
  \/ LookupReservation(d) \/ dropUnfinalizedReservation(d) \/ AuditDuplicate(d)
  \/ ReserveKey(d) \/ ReadRefund(d) \/ CasRefund(d) \/ SumInTx(d)
  \/ CloseOrderInTx(d) \/ FinalizeInTx(d) \/ CommitSettlement(d)

CallbackNext ==
  \E d \in Deliveries :
    \/ \E r \in Refunds : handleRefundCallback(d, r)
    \/ DeliveryStep(d)
    \/ DeliveryFault(d)
==============================================================================
