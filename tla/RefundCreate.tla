---------------------------- MODULE RefundCreate -----------------------------
(***************************************************************************)
(* RefundService::createRefund: check the order and the refunds it has,    *)
(* reserve the amount by inserting a REFUND_INIT row under the payment's   *)
(* row lock, call the channel outside any transaction, and book what its   *)
(* answer proves. One action per statement or call the request awaits.     *)
(***************************************************************************)
EXTENDS RefundStore

VARIABLES
  rpc,      \* where each refund request is
  lock,     \* the request whose transaction holds each payment row
  ans       \* what the channel call of each request came back with

createVars == <<rpc, lock, ans>>

RequestPc == {"new", "order", "same", "progress", "lock", "sum", "commit", "call",
              "await", "book", "settleSum", "settleOrder", "answered"}

(* refused: the channel declined, or the request never left; unknown: nothing
   can be said; notready: no Alipay client. *)
Answer == WechatRefundState \cup {"none", "refused", "unknown", "notready"}

CreateTypeOK ==
  /\ rpc \in [Refunds -> RequestPc]
  /\ lock \in [Payments -> Refunds \cup {"none"}]
  /\ ans \in [Refunds -> Answer]

CreateInit ==
  /\ rpc = [r \in Refunds |-> "new"]
  /\ lock = [p \in Payments |-> "none"]
  /\ ans = [r \in Refunds |-> "none"]

Goto(r, pc) == rpc' = [rpc EXCEPT ![r] = pc]
Unlock(r) == lock' = [p \in Payments |-> IF lock[p] = r THEN "none" ELSE lock[p]]

(* Another refund row names the same payment and amount and is in S. *)
TwinIn(r, S) == \E o \in Refunds \ {r} : req[o] = req[r] /\ refund[o] \in S

----------------------------------------------------------------------------
(* A request that passed the field checks names a settled payment. *)
createRefund(r, p, a) ==
  /\ rpc[r] = "new"
  /\ req' = [req EXCEPT ![r] = [pay |-> p, amt |-> a]]
  /\ Goto(r, "order")
  /\ UNCHANGED <<order, refund, entries, wtx, chan, faults, lock, ans>>

(* The order must be PAID and the amount within it. *)
proceedOrderFlow(r) ==
  /\ rpc[r] = "order"
  /\ Goto(r, IF order = "PAID" /\ req[r].amt \in 1..Total THEN "same" ELSE "answered")
  /\ UNCHANGED <<storeVars, lock, ans>>

(* A refund of the same payment and amount that has settled answers this one. *)
proceedWithAmountCheck(r) ==
  /\ rpc[r] = "same"
  /\ Goto(r, IF TwinIn(r, {"REFUND_SUCCESS"}) THEN "answered" ELSE "progress")
  /\ UNCHANGED <<storeVars, lock, ans>>

(* One that is still in flight rejects it. *)
proceedWithInProgressCheck(r) ==
  /\ rpc[r] = "progress"
  /\ Goto(r, IF TwinIn(r, InFlight) THEN "answered" ELSE "lock")
  /\ UNCHANGED <<storeVars, lock, ans>>

(* Mutant: the payment row is read without FOR UPDATE. *)
LockPayment_NoForUpdate(r) ==
  /\ rpc[r] = "lock"
  /\ Goto(r, "sum")
  /\ UNCHANGED <<storeVars, lock, ans>>

(* SELECT ... FOR UPDATE on the payment row. *)
LockPayment(r) ==
  /\ rpc[r] = "lock"
  /\ lock[req[r].pay] = "none"
  /\ lock' = [lock EXCEPT ![req[r].pay] = r]
  /\ Goto(r, "sum")
  /\ UNCHANGED <<storeVars, ans>>

(* Everything the order has refunded, or is refunding, plus this amount must
   stay within its total. *)
CheckSum(r) ==
  /\ rpc[r] = "sum"
  /\ IF SumOf(LiveRefunds) + req[r].amt > Total
       THEN Unlock(r) /\ Goto(r, "answered")
       ELSE UNCHANGED lock /\ Goto(r, "commit")
  /\ UNCHANGED <<storeVars, ans>>

(* INSERT the REFUND_INIT row and COMMIT, before anything leaves. *)
CommitRefundRow(r) ==
  /\ rpc[r] = "commit"
  /\ WriteRefund(r, "REFUND_INIT")
  /\ Unlock(r)
  /\ Goto(r, "call")
  /\ UNCHANGED ans

(* The COMMIT is applied, its answer lost: the channel is never called. *)
CommitAnswerLost(r) ==
  /\ rpc[r] = "commit"
  /\ UseFault
  /\ refund' = [refund EXCEPT ![r] = "REFUND_INIT"]
  /\ Unlock(r)
  /\ Goto(r, "answered")
  /\ UNCHANGED <<order, req, entries, wtx, chan, ans>>

(* The request leaves for the channel, or a local fault (no client) stops it:
   WeChat's is a certain no, Alipay's is answered without touching the row. *)
invokeRefundChannel(r) ==
  /\ rpc[r] = "call"
  /\ \/ /\ chan' = [chan EXCEPT ![r] = "sent"]
        /\ Goto(r, "await")
        /\ UNCHANGED ans
     \/ /\ ans' = [ans EXCEPT ![r] = IF Channel = "wechat" THEN "refused" ELSE "notready"]
        /\ Goto(r, "book")
        /\ UNCHANGED chan
  /\ UNCHANGED <<order, refund, req, entries, wtx, faults, lock>>

(* Its answer arrives: the state the channel gave the refund, a refusal, or
   nothing that says either (a timeout, a 5xx, an unverifiable body). *)
AnswerArrives(r) ==
  /\ rpc[r] = "await"
  /\ \E a \in {"unknown"} \cup (IF chan[r] = "sent" THEN {} ELSE {chan[r]}) :
       ans' = [ans EXCEPT ![r] = a]
  /\ Goto(r, "book")
  /\ UNCHANGED <<storeVars, lock>>

(* Mutant: a call that timed out is booked as a refusal. *)
refundCertainlyDidNotHappen_Timeout(a) == a \in {"refused", "unknown"}

(* The WeChat call failed in a way that proves no refund was made. *)
refundCertainlyDidNotHappen(a) == a = "refused"

(* What the answer lets the service book: a failure, nothing, or progress. *)
BooksFailure(a) ==
  IF Channel = "alipay" THEN a \in {"refused", "unknown"}
  ELSE refundCertainlyDidNotHappen(a) \/ mapRefundStatus(a) = "REFUND_FAIL"

(* No settler holds the row. *)
RowFree(r) == \A w \in Settlers : wtx[w].ref = r => wtx[w].st = "keep"

(* UPDATE ... SET REFUND_FAIL WHERE status is still in flight. *)
updateRefundWithError(r) ==
  /\ rpc[r] = "book"
  /\ BooksFailure(ans[r])
  /\ RowFree(r)
  /\ WriteRefund(r, IF refund[r] \in InFlight THEN "REFUND_FAIL" ELSE refund[r])
  /\ Goto(r, "answered")
  /\ UNCHANGED <<lock, ans>>

(* The outcome is unknown, or no client was there: the row stays as it is. *)
LeaveRefund(r) ==
  /\ rpc[r] = "book"
  /\ ans[r] \in {"unknown", "notready"} /\ ~BooksFailure(ans[r])
  /\ Goto(r, "answered")
  /\ UNCHANGED <<storeVars, lock, ans>>

(* Mutant: the answer is written whatever the row has become. *)
SettleRow_Unguarded(r) ==
  /\ rpc[r] = "book"
  /\ mapRefundStatus(ans[r]) \in {"REFUNDING", "REFUND_SUCCESS"}
  /\ RowFree(r)
  /\ WriteRefund(r, mapRefundStatus(ans[r]))
  /\ Goto(r, IF mapRefundStatus(ans[r]) = "REFUND_SUCCESS" THEN "settleSum" ELSE "answered")
  /\ UNCHANGED <<lock, ans>>

(* updateRefundWithSuccess: UPDATE ... WHERE in flight; zero rows goes on. *)
SettleRow(r) ==
  /\ rpc[r] = "book"
  /\ mapRefundStatus(ans[r]) \in {"REFUNDING", "REFUND_SUCCESS"}
  /\ RowFree(r)
  /\ WriteRefund(r, IF refund[r] \in InFlight THEN mapRefundStatus(ans[r]) ELSE refund[r])
  /\ Goto(r, IF mapRefundStatus(ans[r]) = "REFUND_SUCCESS" THEN "settleSum" ELSE "answered")
  /\ UNCHANGED <<lock, ans>>

(* Sum the settled refunds, in a statement of its own. *)
SettleSum(r) ==
  /\ rpc[r] = "settleSum"
  /\ Goto(r, IF RefundsCover({}) THEN "settleOrder" ELSE "answered")
  /\ UNCHANGED <<storeVars, lock, ans>>

(* UPDATE pay_order SET REFUNDED WHERE status = PAID. *)
writeRefundedOrder(r) ==
  /\ rpc[r] = "settleOrder"
  /\ \A w \in Settlers : ~wtx[w].close
  /\ order' = IF order = "PAID" THEN "REFUNDED" ELSE order
  /\ Goto(r, "answered")
  /\ UNCHANGED <<refund, req, entries, wtx, chan, faults, lock, ans>>

(* A statement fails: the request is answered with the error. *)
RequestFault(r) ==
  /\ rpc[r] \notin {"new", "call", "await", "answered"}
  /\ UseFault
  /\ Unlock(r)
  /\ Goto(r, "answered")
  /\ UNCHANGED <<order, refund, req, entries, wtx, chan, ans>>

RequestStep(r) ==
  \/ proceedOrderFlow(r) \/ proceedWithAmountCheck(r) \/ proceedWithInProgressCheck(r)
  \/ LockPayment(r) \/ CheckSum(r) \/ CommitRefundRow(r) \/ invokeRefundChannel(r)
  \/ AnswerArrives(r) \/ updateRefundWithError(r) \/ LeaveRefund(r)
  \/ SettleRow(r) \/ SettleSum(r) \/ writeRefundedOrder(r)

CreateNext ==
  \E r \in Refunds :
    \/ \E p \in Payments, a \in Amounts : createRefund(r, p, a)
    \/ RequestStep(r)
    \/ CommitAnswerLost(r)
    \/ RequestFault(r)
    \/ ChannelMoves(r) /\ UNCHANGED createVars
==============================================================================
