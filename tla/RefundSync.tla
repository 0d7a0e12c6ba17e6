----------------------------- MODULE RefundSync ------------------------------
(***************************************************************************)
(* RefundService::syncRefundStatusFromWechat as queryRefund and the        *)
(* reconciliation sweep drive it: ask WeChat for a refund, then apply the  *)
(* answer to its row in one transaction, whatever the row has become.      *)
(***************************************************************************)
EXTENDS RefundStore

CONSTANT Queries     \* queries of a refund, reused when over

ASSUME SyncAssumption == Queries \subseteq Settlers

VARIABLE query       \* each query's place, the refund it asks about, the answer

QueryPc == {"idle", "read", "write", "lookup", "sum", "order", "commit"}

Query == [pc: QueryPc, ref: Refunds \cup {"none"}, ans: RefundStatus \cup {"none"}]

IdleQuery == [pc |-> "idle", ref |-> "none", ans |-> "none"]

SyncTypeOK == query \in [Queries -> Query]

SyncInit == query = [q \in Queries |-> IdleQuery]

At(q, pc) == query[q].pc = pc
Advance(q, pc) == query' = [query EXCEPT ![q].pc = pc]
EndQuery(q) == query' = [query EXCEPT ![q] = IdleQuery]

----------------------------------------------------------------------------
(* Mutant: rows still at REFUND_INIT are not asked about. *)
queryRefund_SkipsInit(q, r) ==
  /\ At(q, "idle")
  /\ refund[r] \notin {"none", "REFUND_INIT"}
  /\ Channel = "wechat"
  /\ chan[r] \in WechatRefundState
  /\ query' = [query EXCEPT ![q] = [pc |-> "read", ref |-> r, ans |-> mapRefundStatus(chan[r])]]
  /\ UNCHANGED storeVars

(* The refund has a row and WeChat, the only channel asked, knows it: its
   present state is the answer, already in the row's vocabulary. *)
queryRefund(q, r) ==
  /\ At(q, "idle")
  /\ refund[r] # "none"
  /\ Channel = "wechat"
  /\ chan[r] \in WechatRefundState
  /\ query' = [query EXCEPT ![q] = [pc |-> "read", ref |-> r, ans |-> mapRefundStatus(chan[r])]]
  /\ UNCHANGED storeVars

(* Read the row outside any transaction: a settled one is left alone. *)
ReadRow(q) ==
  /\ At(q, "read")
  /\ IF refund[query[q].ref] = "REFUND_SUCCESS" THEN EndQuery(q) ELSE Advance(q, "write")
  /\ UNCHANGED storeVars

(* Mutant: any answer posts a REFUND entry. *)
WriteRow_PostsAlways(q) ==
  /\ At(q, "write")
  /\ RefundFree(q, query[q].ref)
  /\ InTx(q, [NoTx EXCEPT !.ref = query[q].ref, !.st = query[q].ans])
  /\ Advance(q, "lookup")

(* Mutant: a settling answer takes the order row before the refund row. *)
WriteRow_OrderFirst(q) ==
  /\ At(q, "write")
  /\ IF query[q].ans = "REFUND_SUCCESS" /\ ~wtx[q].close
       THEN /\ OrderFree(q)
            /\ InTx(q, [NoTx EXCEPT !.close = TRUE])
            /\ UNCHANGED query
       ELSE /\ RefundFree(q, query[q].ref)
            /\ InTx(q, [wtx[q] EXCEPT !.ref = query[q].ref, !.st = query[q].ans])
            /\ Advance(q, IF query[q].ans = "REFUND_SUCCESS" THEN "lookup" ELSE "commit")

(* UPDATE by primary key, without looking at the status again. *)
WriteRow(q) ==
  /\ At(q, "write")
  /\ RefundFree(q, query[q].ref)
  /\ InTx(q, [NoTx EXCEPT !.ref = query[q].ref, !.st = query[q].ans])
  /\ Advance(q, IF query[q].ans = "REFUND_SUCCESS" THEN "lookup" ELSE "commit")

(* Post the REFUND entry unless its payment has one. The order is read just
   before; one that is no longer PAID ends the transaction here. *)
insertLedgerEntry(q) ==
  /\ At(q, "lookup")
  /\ LET found == \E o \in Refunds : entries[o] > 0 /\ req[o].pay = req[query[q].ref].pay
     IN InTx(q, [wtx[q] EXCEPT !.led = ~found])
  /\ Advance(q, IF order = "PAID" THEN "sum" ELSE "commit")

(* Sum the settled rows, this one included. *)
SumSettled(q) ==
  /\ At(q, "sum")
  /\ Advance(q, IF RefundsCover({query[q].ref}) THEN "order" ELSE "commit")
  /\ UNCHANGED storeVars

(* UPDATE pay_order SET REFUNDED WHERE status = PAID. *)
CloseOrder(q) ==
  /\ At(q, "order")
  /\ OrderFree(q)
  /\ InTx(q, [wtx[q] EXCEPT !.close = order = "PAID"])
  /\ Advance(q, "commit")

(* The last reference to the transaction goes, which commits it. *)
CommitQuery(q) ==
  /\ At(q, "commit")
  /\ Publish(q)
  /\ EndQuery(q)
  /\ UNCHANGED faults

(* A statement fails: rolled back, and the query is over. *)
QueryFault(q) ==
  /\ ~At(q, "idle")
  /\ Fault(q)
  /\ EndQuery(q)

QueryStep(q) ==
  \/ ReadRow(q) \/ WriteRow(q) \/ insertLedgerEntry(q) \/ SumSettled(q)
  \/ CloseOrder(q) \/ CommitQuery(q)

SyncNext ==
  \E q \in Queries :
    \/ \E r \in Refunds : queryRefund(q, r)
    \/ QueryStep(q)
    \/ QueryFault(q)
==============================================================================
