----------------------------- MODULE AlipaySync ------------------------------
(***************************************************************************)
(* PaymentService::syncOrderStatusFromAlipay, as the sweep and the query   *)
(* drive it with an answer and AlipayCallbackController::notify with a     *)
(* notification: the status is applied, however old it has become, to the  *)
(* order's rows. One action per statement it awaits. The caller is         *)
(* answered when the order is written, before the transaction commits.     *)
(***************************************************************************)
EXTENDS PaymentStore

CONSTANT Syncs       \* sync rounds and notification handlers, reused when over

ASSUME SyncAssumption == Syncs \subseteq Workers

VARIABLES
  sync,      \* each round's place, whom it answers and the status it applies
  acked      \* a notification that the buyer paid was answered with SUCCESS

syncVars == <<sync, acked>>

(* TRADE_FINISHED, a paid trade past refunding, is treated as TRADE_SUCCESS
   throughout and is not distinguished here. *)
AlipayStatus == {"WAIT_BUYER_PAY", "TRADE_SUCCESS", "TRADE_CLOSED"}

SyncPc == {"idle", "pick", "readSettled", "cas", "readOrder", "write",
           "lookup", "insert", "commit"}

(* by: who is answered; word: the trade_status. *)
Sync == [pc: SyncPc, by: {"none", "sweep", "notify"}, word: AlipayStatus \cup {"none"}]

IdleSync == [pc |-> "idle", by |-> "none", word |-> "none"]

SyncTypeOK ==
  /\ sync \in [Syncs -> Sync]
  /\ acked \in BOOLEAN

SyncInit ==
  /\ sync = [s \in Syncs |-> IdleSync]
  /\ acked = FALSE

----------------------------------------------------------------------------
(* External: what Alipay calls the state its trade is in. A fully refunded
   trade is closed. *)
Reported ==
  CASE trade \in {"NOTPAY", "USERPAYING"} -> {"WAIT_BUYER_PAY"}
    [] trade = "SUCCESS"                  -> {"TRADE_SUCCESS"}
    [] trade = "REFUND"                   -> {IF settled < Total THEN "TRADE_SUCCESS"
                                                                 ELSE "TRADE_CLOSED"}
    [] trade = "CLOSED"                   -> {"TRADE_CLOSED"}
    [] OTHER                              -> {}

(* External: the statuses the trade has had so far. Each may be notified late,
   again, and out of order. *)
Notified ==
  Reported \cup (IF trade = "none" THEN {} ELSE {"WAIT_BUYER_PAY"})
           \cup (IF trade = "REFUND" THEN {"TRADE_SUCCESS"} ELSE {})

mapAlipayStatus(w) ==
  CASE w = "TRADE_SUCCESS" -> [order |-> "PAID", payment |-> "SUCCESS"]
    [] w = "WAIT_BUYER_PAY" -> [order |-> "PAYING", payment |-> "PROCESSING"]
    [] w = "TRADE_CLOSED" -> [order |-> "FAILED", payment |-> "FAIL"]

----------------------------------------------------------------------------
At(s, pc) == sync[s].pc = pc
Advance(s, pc) == sync' = [sync EXCEPT ![s].pc = pc]
EndSync(s) == sync' = [sync EXCEPT ![s] = IdleSync]
Order(s) == mapAlipayStatus(sync[s].word).order

(* The callback with a status: a notification is acknowledged. The callback
   without one is answered FAIL and acknowledges nothing. *)
Answer(s) ==
  acked' = (acked \/ (sync[s].by = "notify" /\ Order(s) = "PAID"))

NoAnswer == UNCHANGED acked

(* The channel answers a query with the state its trade has now. An answer
   that is an error, or whose status is not one of the four, ends at once. *)
queryOrder(s) ==
  /\ At(s, "idle")
  /\ order # "none"
  /\ \E w \in Reported : sync' = [sync EXCEPT ![s] =
                            [pc |-> "pick", by |-> "sweep", word |-> w]]
  /\ NoAnswer
  /\ UNCHANGED storeVars

(* A notification that is signed by Alipay for our app_id; any other is
   answered FAIL and touches nothing. *)
notify(s, w) ==
  /\ At(s, "idle")
  /\ w \in Notified
  /\ sync' = [sync EXCEPT ![s] = [pc |-> "pick", by |-> "notify", word |-> w]]
  /\ NoAnswer
  /\ UNCHANGED storeVars

(* Mutant: the reported amount is not compared with the attempt's. *)
PickAttempt_NoAmountGate(s) ==
  /\ At(s, "pick")
  /\ \E a \in openAttemptsOfOrder :
       /\ IsLatest(a, openAttemptsOfOrder)
       /\ Advance(s, IF payment[a] = "SUCCESS" THEN "readSettled" ELSE "cas")
       /\ InTx(s, [NoTx EXCEPT !.att = a])
       /\ NoAnswer

(* Read the latest attempt that can carry money, outside any transaction. With
   none the status is answered as it is, and a refunded attempt is answered
   too; a paid trade of another amount is answered without a status. *)
PickAttempt(s) ==
  LET mismatch == Order(s) = "PAID" /\ ~exact IN
  /\ At(s, "pick")
  /\ \/ /\ openAttemptsOfOrder = {}
        /\ Answer(s) /\ EndSync(s) /\ UNCHANGED storeVars
     \/ \E a \in openAttemptsOfOrder :
          /\ IsLatest(a, openAttemptsOfOrder)
          /\ IF mismatch \/ payment[a] = "REFUNDED"
               THEN /\ IF mismatch THEN NoAnswer ELSE Answer(s)
                    /\ EndSync(s) /\ UNCHANGED storeVars
               ELSE /\ Advance(s, IF payment[a] = "SUCCESS" THEN "readSettled" ELSE "cas")
                    /\ InTx(s, [NoTx EXCEPT !.att = a])
                    /\ NoAnswer

(* The attempt was SUCCESS: bring the order along unless it is PAID. (The
   order row's amount is weighed once more here and in ReadOrder; the model has
   one amount, which PickAttempt has weighed.) *)
ReadSettledOrder(s) ==
  /\ At(s, "readSettled")
  /\ \/ /\ OrderSeenBy(s) = "PAID"
        /\ Advance(s, "commit") /\ Answer(s) /\ UNCHANGED storeVars
     \/ /\ OrderSeenBy(s) # "PAID"
        /\ Advance(s, "write") /\ NoAnswer /\ UNCHANGED storeVars

(* Mutant: the update runs on a connection of its own and commits at once. *)
CasAttempt_OwnConnection(s) ==
  /\ At(s, "cas")
  /\ PaymentFree(s, tx[s].att)
  /\ \/ /\ payment[tx[s].att] \in InFlight
        /\ payment' = [payment EXCEPT ![tx[s].att] = mapAlipayStatus(sync[s].word).payment]
        /\ UNCHANGED <<order, ledger, settled, tx, trade, exact, faults>>
        /\ Advance(s, "readOrder") /\ NoAnswer
     \/ /\ payment[tx[s].att] \notin InFlight
        /\ Rollback(s) /\ EndSync(s) /\ Answer(s)

(* UPDATE pay_payment ... WHERE status IN ('INIT', 'PROCESSING'). The loser of
   a race answers the status all the same. *)
CasAttempt(s) ==
  /\ At(s, "cas")
  /\ PaymentFree(s, tx[s].att)
  /\ \/ /\ payment[tx[s].att] \in InFlight
        /\ InTx(s, [tx[s] EXCEPT !.lock = TRUE,
                                 !.pay = mapAlipayStatus(sync[s].word).payment])
        /\ Advance(s, "readOrder") /\ NoAnswer
     \/ /\ payment[tx[s].att] \notin InFlight
        /\ Rollback(s) /\ EndSync(s) /\ Answer(s)

(* An order that is already PAID is left alone; the attempt still commits. *)
ReadOrder(s) ==
  /\ At(s, "readOrder")
  /\ \/ /\ OrderSeenBy(s) = "PAID"
        /\ Advance(s, "commit") /\ Answer(s)
     \/ /\ OrderSeenBy(s) # "PAID"
        /\ Advance(s, "write") /\ NoAnswer
  /\ UNCHANGED storeVars

(* Write the order by primary key, whatever it is by now, and answer; the
   ledger entry and the commit are still to come. *)
WriteOrder(s) ==
  /\ At(s, "write")
  /\ OrderFree(s)
  /\ InTx(s, [tx[s] EXCEPT !.order = Order(s)])
  /\ Advance(s, IF Order(s) = "PAID" THEN "lookup" ELSE "commit")
  /\ Answer(s)

(* insertLedgerEntry: one PAYMENT entry per attempt; the unique index settles
   a race lost after the lookup, and fails the transaction. *)
LookupLedger(s) ==
  /\ At(s, "lookup")
  /\ Advance(s, IF tx[s].att \in ledger THEN "commit" ELSE "insert")
  /\ NoAnswer
  /\ UNCHANGED storeVars

InsertLedgerEntry(s) ==
  /\ At(s, "insert")
  /\ LedgerFree(s, tx[s].att)
  /\ InTx(s, [tx[s] EXCEPT !.led = tx[s].att \notin ledger, !.dead = tx[s].att \in ledger])
  /\ Advance(s, "commit")
  /\ NoAnswer

(* The last reference to the transaction goes, which commits it. *)
CommitSync(s) ==
  /\ At(s, "commit")
  /\ Commit(s)
  /\ EndSync(s)
  /\ NoAnswer

(* A statement fails: the transaction rolls back and nothing is answered with
   a status any more. *)
SyncFault(s) ==
  /\ ~At(s, "idle")
  /\ Fault(s)
  /\ EndSync(s)
  /\ NoAnswer

SyncStep(s) ==
  \/ PickAttempt(s) \/ ReadSettledOrder(s) \/ CasAttempt(s) \/ ReadOrder(s)
  \/ WriteOrder(s) \/ LookupLedger(s) \/ InsertLedgerEntry(s) \/ CommitSync(s)

SyncNext ==
  \E s \in Syncs : \/ queryOrder(s) \/ SyncStep(s) \/ SyncFault(s)
                  \/ \E w \in AlipayStatus : notify(s, w)
==============================================================================
