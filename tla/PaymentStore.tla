---------------------------- MODULE PaymentStore -----------------------------
(***************************************************************************)
(* The rows of one order as its writers see them: pay_order, its           *)
(* pay_payment attempts and its PAYMENT ledger entries, under PostgreSQL's *)
(* READ COMMITTED. A transaction's writes stay in its own buffer until it  *)
(* commits; a row it wrote, or read FOR UPDATE, is locked until it ends.   *)
(* The trade the channel keeps for the order number lives here too.        *)
(***************************************************************************)
EXTENDS PayStatus, FiniteSets

CONSTANTS
  MaxAttempts,   \* bound: payment rows one order ever gets
  MaxFaults,     \* bound: database statements that fail
  Total,         \* the order amount, in units of one partial refund
  Workers        \* handlers that open transactions on these rows

ASSUME StoreAssumption ==
  /\ MaxAttempts \in Nat \ {0}
  /\ MaxFaults \in Nat
  /\ Total \in Nat \ {0}

VARIABLES
  order,     \* pay_order.status, "none" while the row does not exist
  payment,   \* pay_payment.status by attempt; created_at grows with the index
  ledger,    \* attempts that own a PAYMENT ledger entry
  settled,   \* sum of the order's REFUND_SUCCESS rows
  tx,        \* what each worker's open transaction has read, locked, written
  trade,     \* the channel's trade state, "none" before it accepts the order
  exact,     \* the amount the channel collects equals the order amount
  faults     \* database statements that have failed

storeVars == <<order, payment, ledger, settled, tx, trade, exact, faults>>

Attempts == 1..MaxAttempts

(* att: the attempt in hand (0: none); lock: its row is locked; pay, order:
   buffered column writes; led: buffered ledger entry; fin: buffered
   reservation snapshot; dead: a statement failed, so COMMIT rolls back. *)
Tx == [att: 0..MaxAttempts, lock: BOOLEAN,
       pay: PaymentStatus \cup {"keep"}, order: OrderStatus \cup {"keep"},
       led: BOOLEAN, fin: BOOLEAN, dead: BOOLEAN]

NoTx == [att |-> 0, lock |-> FALSE, pay |-> "keep", order |-> "keep",
         led |-> FALSE, fin |-> FALSE, dead |-> FALSE]

StoreTypeOK ==
  /\ order \in OrderStatus \cup {"none"}
  /\ payment \in [Attempts -> PaymentStatus \cup {"none"}]
  /\ ledger \subseteq Attempts
  /\ settled \in 0..Total
  /\ tx \in [Workers -> Tx]
  /\ trade \in TradeState \cup {"none"}
  /\ exact \in BOOLEAN
  /\ faults \in 0..MaxFaults

StoreInit ==
  /\ order = "none"
  /\ payment = [a \in Attempts |-> "none"]
  /\ ledger = {}
  /\ settled = 0
  /\ tx = [w \in Workers |-> NoTx]
  /\ trade = "none"
  /\ exact \in BOOLEAN
  /\ faults = 0

----------------------------------------------------------------------------
(* Rows and locks *)

InFlight == {"INIT", "PROCESSING"}

(* Mutant: the newest row wins, closed or not. *)
openAttemptsOfOrder_AnyRow == {a \in Attempts : payment[a] # "none"}

(* The attempts a notification or a channel answer may be matched against. *)
openAttemptsOfOrder == {a \in Attempts : payment[a] \in InFlight \cup {"SUCCESS", "REFUNDED"}}

IsLatest(a, S) == a \in S /\ \A b \in S : b <= a

(* Nobody else holds the row; an UPDATE of it by w need not wait. *)
PaymentFree(w, a) == \A v \in Workers \ {w} : ~(tx[v].lock /\ tx[v].att = a)
OrderFree(w) == \A v \in Workers \ {w} : tx[v].order = "keep"
LedgerFree(w, a) == \A v \in Workers \ {w} : ~(tx[v].led /\ tx[v].att = a)

(* The order status w's own transaction sees. *)
OrderSeenBy(w) == IF tx[w].order = "keep" THEN order ELSE tx[w].order

(* The buffered writes of w become visible, unless a statement failed. *)
Publish(w) ==
  LET t == tx[w]
      live == ~t.dead
  IN /\ payment' = IF live /\ t.pay # "keep" THEN [payment EXCEPT ![t.att] = t.pay] ELSE payment
     /\ order' = IF live /\ t.order # "keep" THEN t.order ELSE order
     /\ ledger' = IF live /\ t.led THEN ledger \cup {t.att} ELSE ledger
     /\ tx' = [tx EXCEPT ![w] = NoTx]

Commit(w) == Publish(w) /\ UNCHANGED <<settled, trade, exact, faults>>

(* Drop them. *)
Rollback(w) ==
  /\ tx' = [tx EXCEPT ![w] = NoTx]
  /\ UNCHANGED <<order, payment, ledger, settled, trade, exact, faults>>

(* A step inside w's transaction changes its buffer only. *)
InTx(w, t) ==
  /\ tx' = [tx EXCEPT ![w] = t]
  /\ UNCHANGED <<order, payment, ledger, settled, trade, exact, faults>>

(* A statement of w fails: its transaction, if any, rolls back. *)
Fault(w) ==
  /\ faults < MaxFaults
  /\ faults' = faults + 1
  /\ tx' = [tx EXCEPT ![w] = NoTx]
  /\ UNCHANGED <<order, payment, ledger, settled, trade, exact>>

----------------------------------------------------------------------------
(* External: the channel, and the refund service as it moves the order. *)

(* The buyer pays, the trade is closed unpaid, or a refund of a PAID order is
   accepted, which turns the trade to REFUND. *)
ChannelMoves ==
  /\ \/ trade = "NOTPAY" /\ trade' \in {"USERPAYING", "SUCCESS", "CLOSED"}
     \/ trade = "USERPAYING" /\ trade' \in {"SUCCESS", "PAYERROR"}
     \/ trade = "SUCCESS" /\ order = "PAID" /\ trade' = "REFUND"
  /\ UNCHANGED <<order, payment, ledger, settled, tx, exact, faults>>

(* One partial refund settles: its row becomes REFUND_SUCCESS. *)
RefundSettles ==
  /\ trade = "REFUND"
  /\ settled < Total
  /\ settled' = settled + 1
  /\ UNCHANGED <<order, payment, ledger, tx, trade, exact, faults>>

(* RefundService closes a covered order: UPDATE ... WHERE status = 'PAID'. *)
RefundClosesOrder ==
  /\ order = "PAID"
  /\ refundsCoverOrderAmount(settled, Total)
  /\ \A v \in Workers : tx[v].order = "keep"
  /\ order' = "REFUNDED"
  /\ UNCHANGED <<payment, ledger, settled, tx, trade, exact, faults>>

StoreNext == ChannelMoves \/ RefundSettles \/ RefundClosesOrder

----------------------------------------------------------------------------
(* What the rows say to each other, whichever channel collects the money *)

(* The order's money is on the books: a settled attempt that owns its PAYMENT
   ledger entry. *)
Booked == \E a \in ledger : payment[a] = "SUCCESS"

(* An order row says the money arrived only when it is booked: order, attempt
   and ledger entry become visible together, whichever of the callback and
   the query round wrote them and whatever failed on the way. *)
PaidOrderIsBooked == MoneyArrived(order) => Booked

(* Every ledger entry belongs to an attempt that settled: no half of a booking
   survives a fault between its statements. *)
LedgerOnlyForSettled == \A a \in ledger : payment[a] = "SUCCESS"

(* A settled attempt means the order's money is booked, possibly on another
   attempt. *)
SettledMeansBooked == (\E a \in Attempts : payment[a] = "SUCCESS") => Booked

(* The three rows of a booking agree. *)
BooksAgree == LedgerOnlyForSettled /\ PaidOrderIsBooked /\ SettledMeansBooked

(* A locked attempt is in flight and has one holder; only its holder writes
   it. Nobody writes REFUNDED into pay_payment. *)
LocksProtect ==
  /\ \A w \in Workers :
       /\ tx[w].lock => tx[w].att # 0 /\ payment[tx[w].att] \in InFlight
       /\ tx[w].pay # "keep" => tx[w].lock
       /\ tx[w].pay # "REFUNDED"
       /\ tx[w].led => tx[w].att # 0
  /\ \A v, w \in Workers : tx[v].lock /\ tx[w].lock /\ tx[v].att = tx[w].att => v = w
  /\ \A a \in Attempts : payment[a] # "REFUNDED"

----------------------------------------------------------------------------
(* These rows as the books of module BookedMoney. *)
Money == INSTANCE BookedMoney WITH
  collected <- {a \in Attempts : payment[a] = "SUCCESS"},
  entries <- ledger,
  claimed <- MoneyArrived(order)
==============================================================================
