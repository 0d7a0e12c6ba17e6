----------------------------- MODULE RefundStore -----------------------------
(***************************************************************************)
(* The rows a refund touches: the pay_refund rows of one settled order,    *)
(* the order itself and its REFUND ledger entries, under PostgreSQL's READ *)
(* COMMITTED, with the refunds as the channel knows them. A transaction's  *)
(* writes stay in its buffer until COMMIT and lock the rows they touch.    *)
(***************************************************************************)
EXTENDS PayStatus, FiniteSetsExt

CONSTANTS
  Refunds,       \* refund numbers, each carried by one refund request
  Payments,      \* the order's settled payments a refund may name
  Amounts,       \* amounts a refund may ask for
  Total,         \* the order amount
  Channel,       \* "wechat" or "alipay"
  MaxFaults,     \* bound: database statements that fail, and restarts
  Settlers       \* deliveries and queries: what opens settling transactions

ASSUME RefundStoreAssumption ==
  /\ IsFiniteSet(Refunds) /\ "none" \notin Refunds
  /\ Amounts \subseteq Nat
  /\ Total \in Nat \ {0}
  /\ Channel \in {"wechat", "alipay"}
  /\ MaxFaults \in Nat

VARIABLES
  order,      \* pay_order.status
  refund,     \* pay_refund.status by refund number, "none" without a row
  req,        \* payment and amount each refund names
  entries,    \* REFUND ledger entries posted for each refund
  wtx,        \* the buffer of each settler's open transaction
  chan,       \* what the channel has made of each refund
  faults      \* statements failed so far

storeVars == <<order, refund, req, entries, wtx, chan, faults>>

(* st, close: buffered writes of the refund's and the order's status; led: a
   buffered ledger entry; fin: a buffered reservation snapshot. *)
RefundTx == [ref: Refunds \cup {"none"}, st: RefundStatus \cup {"keep"},
             close: BOOLEAN, led: BOOLEAN, fin: BOOLEAN]

NoTx == [ref |-> "none", st |-> "keep", close |-> FALSE, led |-> FALSE, fin |-> FALSE]

(* sent: the request is under way; refused: the channel declined it. *)
ChannelRefund == WechatRefundState \cup {"none", "sent", "refused"}

StoreTypeOK ==
  /\ order \in {"PAID", "REFUNDED"}
  /\ refund \in [Refunds -> RefundStatus \cup {"none"}]
  /\ req \in [Refunds -> [pay: Payments \cup {"none"}, amt: Amounts \cup {0}]]
  /\ entries \in [Refunds -> Nat]
  /\ wtx \in [Settlers -> RefundTx]
  /\ chan \in [Refunds -> ChannelRefund]
  /\ faults \in 0..MaxFaults

StoreInit ==
  /\ order = "PAID"
  /\ refund = [r \in Refunds |-> "none"]
  /\ req = [r \in Refunds |-> [pay |-> "none", amt |-> 0]]
  /\ entries = [r \in Refunds |-> 0]
  /\ wtx = [w \in Settlers |-> NoTx]
  /\ chan = [r \in Refunds |-> "none"]
  /\ faults = 0

----------------------------------------------------------------------------
InFlight == {"REFUND_INIT", "REFUNDING"}

(* SUM(amount) over the pay_refund rows in S. *)
SumOf(S) == MapThenSumSet(LAMBDA r : req[r].amt, S)

SettledRefunds == {r \in Refunds : refund[r] = "REFUND_SUCCESS"}
LiveRefunds == {r \in Refunds : refund[r] \in InFlight \cup {"REFUND_SUCCESS"}}

(* Mutant: money still on its way counts as returned. *)
RefundsCover_Live(own) == refundsCoverOrderAmount(SumOf(LiveRefunds \cup own), Total)

(* The settled rows a transaction sees, its own included, cover the order. *)
RefundsCover(own) == refundsCoverOrderAmount(SumOf(SettledRefunds \cup own), Total)

(* No other transaction holds the row. *)
RefundFree(w, r) == \A v \in Settlers \ {w} : ~(wtx[v].ref = r /\ wtx[v].st # "keep")
OrderFree(w) == \A v \in Settlers \ {w} : ~wtx[v].close

InTx(w, t) ==
  /\ wtx' = [wtx EXCEPT ![w] = t]
  /\ UNCHANGED <<order, refund, req, entries, chan, faults>>

Rollback(w) == InTx(w, NoTx)

(* w's buffered writes become visible together. *)
Publish(w) ==
  LET t == wtx[w]
  IN /\ refund' = IF t.st = "keep" THEN refund ELSE [refund EXCEPT ![t.ref] = t.st]
     /\ order' = IF t.close THEN "REFUNDED" ELSE order
     /\ entries' = IF t.led THEN [entries EXCEPT ![t.ref] = @ + 1] ELSE entries
     /\ wtx' = [wtx EXCEPT ![w] = NoTx]
     /\ UNCHANGED <<req, chan>>

(* A single-statement UPDATE, committed at once. *)
WriteRefund(r, st) ==
  /\ refund' = [refund EXCEPT ![r] = st]
  /\ UNCHANGED <<order, req, entries, wtx, chan, faults>>

UseFault == faults < MaxFaults /\ faults' = faults + 1

(* A statement of w fails and its transaction rolls back. *)
Fault(w) ==
  /\ UseFault
  /\ wtx' = [wtx EXCEPT ![w] = NoTx]
  /\ UNCHANGED <<order, refund, req, entries, chan>>

----------------------------------------------------------------------------
(* External: the channel takes a refund it was sent, or declines it, and
   settles one it took. An ABNORMAL refund did not move money either and is
   read like a CLOSED one; Alipay settles in its answer. *)
ChannelMoves(r) ==
  /\ \/ chan[r] = "sent" /\ Channel = "wechat"
        /\ \E s \in {"PROCESSING", "SUCCESS", "CLOSED", "refused"} : chan' = [chan EXCEPT ![r] = s]
     \/ chan[r] = "sent" /\ Channel = "alipay"
        /\ \E s \in {"SUCCESS", "refused"} : chan' = [chan EXCEPT ![r] = s]
     \/ chan[r] = "PROCESSING"
        /\ \E s \in {"SUCCESS", "CLOSED"} : chan' = [chan EXCEPT ![r] = s]
  /\ UNCHANGED <<order, refund, req, entries, wtx, faults>>
==============================================================================
