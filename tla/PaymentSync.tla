----------------------------- MODULE PaymentSync -----------------------------
(***************************************************************************)
(* PaymentService::syncOrderStatusFromWechat as queryOrder and the         *)
(* reconciliation sweep drive it: ask the channel for the trade, then      *)
(* apply the answer, however old it has become, to the order's rows. One   *)
(* action per call the round awaits.                                       *)
(***************************************************************************)
EXTENDS PaymentStore

CONSTANT Rounds      \* query or sweep rounds on the order, reused when over

ASSUME SyncAssumption == Rounds \subseteq Workers

VARIABLE round       \* each round's place and what it has read so far

RoundPc == {"idle", "pick", "sum", "readSettled", "cas", "readOrder",
            "write", "lookup", "insert", "commit"}

(* ans: the channel's answer; snap: the attempt's status when it was picked;
   final: the order status the answer stands for. *)
Round == [pc: RoundPc, ans: TradeState \cup {"none"},
          snap: PaymentStatus \cup {"none"}, final: OrderStatus \cup {"none"}]

IdleRound == [pc |-> "idle", ans |-> "none", snap |-> "none", final |-> "none"]

SyncTypeOK == round \in [Rounds -> Round]

SyncInit == round = [r \in Rounds |-> IdleRound]

----------------------------------------------------------------------------
At(r, pc) == round[r].pc = pc
Advance(r, pc) == round' = [round EXCEPT ![r].pc = pc]
EndRound(r) == round' = [round EXCEPT ![r] = IdleRound]

(* The channel answers the query with the state its trade has now. *)
queryOrder(r) ==
  /\ At(r, "idle")
  /\ order # "none"
  /\ trade # "none"
  /\ round' = [round EXCEPT ![r].pc = "pick", ![r].ans = trade]
  /\ UNCHANGED storeVars

(* Mutant: the answer's amount is not compared with the attempt's. *)
PickAttempt_NoAmountGate(r) ==
  /\ At(r, "pick")
  /\ \E a \in openAttemptsOfOrder :
       /\ IsLatest(a, openAttemptsOfOrder)
       /\ round' = [round EXCEPT ![r].pc = "sum", ![r].snap = payment[a]]
       /\ InTx(r, [NoTx EXCEPT !.att = a])

(* Read the latest open attempt, outside any transaction. Nothing is open, or
   the answer claims money of another amount: the round is over. *)
PickAttempt(r) ==
  /\ At(r, "pick")
  /\ \/ /\ openAttemptsOfOrder = {}
        /\ EndRound(r)
        /\ UNCHANGED storeVars
     \/ \E a \in openAttemptsOfOrder :
          /\ IsLatest(a, openAttemptsOfOrder)
          /\ IF MoneyArrived(mapTradeState(round[r].ans).order) /\ ~exact
               THEN EndRound(r) /\ UNCHANGED storeVars
               ELSE /\ round' = [round EXCEPT ![r].pc = "sum", ![r].snap = payment[a]]
                    /\ InTx(r, [NoTx EXCEPT !.att = a])

(* Open the transaction; a REFUNDED claim is weighed against the settled
   refunds. A settled attempt leaves only the order to update. *)
ReadSettledRefunds(r) ==
  /\ At(r, "sum")
  /\ LET claim == mapTradeState(round[r].ans).order
     IN round' = [round EXCEPT
          ![r].final = resolveRefundedOrderStatus(claim, settled, Total),
          ![r].pc = CASE round[r].snap = "SUCCESS"  -> "readSettled"
                      [] round[r].snap = "REFUNDED" -> "commit"
                      [] OTHER                      -> "cas"]
  /\ UNCHANGED storeVars

(* The attempt was SUCCESS: bring the order along unless it is PAID. *)
ReadSettledOrder(r) ==
  /\ At(r, "readSettled")
  /\ Advance(r, IF OrderSeenBy(r) = "PAID" THEN "commit" ELSE "write")
  /\ UNCHANGED storeVars

(* Mutant: the order is written before the attempt. *)
CasPickedAttempt_OrderFirst(r) ==
  /\ At(r, "cas")
  /\ IF tx[r].order = "keep"
       THEN /\ OrderFree(r)
            /\ InTx(r, [tx[r] EXCEPT !.order = round[r].final])
            /\ UNCHANGED round
       ELSE /\ PaymentFree(r, tx[r].att)
            /\ InTx(r, [tx[r] EXCEPT !.lock = TRUE, !.pay = mapTradeState(round[r].ans).payment])
            /\ Advance(r, IF MoneyArrived(round[r].final) THEN "lookup" ELSE "commit")

(* Mutant: the update runs on a connection of its own and commits at once. *)
CasPickedAttempt_OwnConnection(r) ==
  /\ At(r, "cas")
  /\ PaymentFree(r, tx[r].att)
  /\ payment[tx[r].att] \in InFlight
  /\ payment' = [payment EXCEPT ![tx[r].att] = mapTradeState(round[r].ans).payment]
  /\ UNCHANGED <<order, ledger, settled, tx, trade, exact, faults>>
  /\ Advance(r, "readOrder")

(* UPDATE pay_payment ... WHERE status IN ('INIT', 'PROCESSING'); a row that
   has moved on ends the round. *)
CasPickedAttempt(r) ==
  /\ At(r, "cas")
  /\ PaymentFree(r, tx[r].att)
  /\ IF payment[tx[r].att] \in InFlight
       THEN /\ InTx(r, [tx[r] EXCEPT !.lock = TRUE,
                                     !.pay = mapTradeState(round[r].ans).payment])
            /\ Advance(r, "readOrder")
       ELSE Rollback(r) /\ EndRound(r)

(* An order that is already PAID is left alone; the attempt still commits. *)
ReadOrder(r) ==
  /\ At(r, "readOrder")
  /\ Advance(r, IF OrderSeenBy(r) = "PAID" THEN "commit" ELSE "write")
  /\ UNCHANGED storeVars

(* Mutant: the order is written without its ledger entry. *)
WriteOrder_NoLedger(r) ==
  /\ At(r, "write")
  /\ OrderFree(r)
  /\ InTx(r, [tx[r] EXCEPT !.order = round[r].final])
  /\ Advance(r, "commit")

(* Write the order's status by primary key, whatever it is by now. *)
WriteOrder(r) ==
  /\ At(r, "write")
  /\ OrderFree(r)
  /\ InTx(r, [tx[r] EXCEPT !.order = round[r].final])
  /\ Advance(r, IF MoneyArrived(round[r].final) THEN "lookup" ELSE "commit")

(* insertLedgerEntry: an attempt that already has its PAYMENT entry gets no
   second one ... *)
LookupLedger(r) ==
  /\ At(r, "lookup")
  /\ Advance(r, IF tx[r].att \in ledger THEN "commit" ELSE "insert")
  /\ UNCHANGED storeVars

(* ... and the unique index settles a race lost after the lookup: the insert
   fails and takes the whole transaction with it. *)
InsertLedgerEntry(r) ==
  /\ At(r, "insert")
  /\ LedgerFree(r, tx[r].att)
  /\ InTx(r, [tx[r] EXCEPT !.led = tx[r].att \notin ledger, !.dead = tx[r].att \in ledger])
  /\ Advance(r, "commit")

(* The last reference to the transaction goes, which commits it. *)
CommitRound(r) ==
  /\ At(r, "commit")
  /\ Commit(r)
  /\ EndRound(r)

(* A statement fails, or the channel does: the round gives up. *)
RoundFault(r) ==
  /\ ~At(r, "idle")
  /\ Fault(r)
  /\ EndRound(r)

RoundStep(r) ==
  \/ PickAttempt(r) \/ ReadSettledRefunds(r) \/ ReadSettledOrder(r)
  \/ CasPickedAttempt(r) \/ ReadOrder(r) \/ WriteOrder(r)
  \/ LookupLedger(r) \/ InsertLedgerEntry(r) \/ CommitRound(r)

SyncNext == \E r \in Rounds : queryOrder(r) \/ RoundStep(r) \/ RoundFault(r)
==============================================================================
