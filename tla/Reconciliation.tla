--------------------------- MODULE Reconciliation ----------------------------
(***************************************************************************)
(* ReconciliationService's sweeps over the pay_order and pay_refund rows:  *)
(* each lists one batch of pending rows, asks the channel about every one, *)
(* applies the answers through the services' sync functions (modules       *)
(* PaymentSync, AlipaySync, RefundSync: here, what they leave in the row)  *)
(* and closes WeChat trades that expired unpaid.                           *)
(***************************************************************************)
EXTENDS Naturals, Sequences, FiniteSets

CONSTANTS
  Rows,        \* pay_order and pay_refund rows
  KindOf,      \* the sweep that lists each row: "wechat", "alipay" or "refund"
  Deadline,    \* the WeChat orders created with time_expire
  Unknown,     \* rows the asked channel never knows: refunds of Alipay payments,
               \* and orders left behind before their create call
  Batch,       \* reconcile.batch_size
  MaxFaults    \* bound: statements and channel calls that fail

Kinds == {"wechat", "alipay", "refund"}

ASSUME ReconciliationAssumption ==
  /\ IsFiniteSet(Rows)
  /\ KindOf \in [Rows -> Kinds]
  /\ Deadline \subseteq {r \in Rows : KindOf[r] = "wechat"}
  /\ Unknown \subseteq Rows
  /\ Batch \in Nat \ {0}
  /\ MaxFaults \in Nat

VARIABLES
  row,       \* fresh: CREATED within the cutoff; created: CREATED before it;
             \* pending: PAYING, REFUND_INIT or REFUNDING; paid, closed: settled
  trade,     \* the channel's side of the row
  expired,   \* rows whose expire_at has passed
  recent,    \* the rows of each kind by updated_at, newest first
  selecting, \* sweeps whose SELECT is on its way
  flight,    \* what a sweep is waiting for, or holds, for each row
  faults     \* statements and channel calls that have failed

sweepVars == <<row, trade, expired, recent, selecting, flight, faults>>

RowState == {"fresh", "created", "pending", "paid", "closed"}
TradeState == {"NOTPAY", "SUCCESS", "CLOSED"}
Flight == {"none", "asked", "closing"} \cup TradeState

SweepTypeOK ==
  /\ row \in [Rows -> RowState]
  /\ trade \in [Rows -> TradeState]
  /\ expired \subseteq Deadline
  /\ recent \in [Kinds -> Seq(Rows)]
  /\ selecting \subseteq Kinds
  /\ flight \in [Rows -> Flight]
  /\ faults \in 0..MaxFaults

RowsOf == [k \in Kinds |-> {r \in Rows : KindOf[r] = k}]

(* The orders in which the rows of a kind may have been updated. *)
Orders(k) ==
  {s \in [1..Cardinality(RowsOf[k]) -> RowsOf[k]] : \A r \in RowsOf[k] : \E i \in DOMAIN s : s[i] = r}

SweepInit ==
  /\ row = [r \in Rows |-> IF KindOf[r] = "refund" THEN "pending" ELSE "fresh"]
  /\ trade = [r \in Rows |-> "NOTPAY"]
  /\ expired = {}
  /\ recent \in {s \in [Kinds -> UNION {Orders(k) : k \in Kinds}] : \A k \in Kinds : s[k] \in Orders(k)}
  /\ selecting = {}
  /\ flight = [r \in Rows |-> "none"]
  /\ faults = 0

----------------------------------------------------------------------------
(* Mutant: an order whose PAYING write was lost is not looked for. *)
Listed_PayingOnly(k) == {r \in RowsOf[k] : row[r] = "pending"}

(* What each sweep's WHERE admits: created orders once the cutoff is past. *)
Listed(k) == {r \in RowsOf[k] : row[r] \in {"created", "pending"}}

(* ORDER BY updated_at DESC LIMIT batch *)
Chosen(k) ==
  LET listed == SelectSeq(recent[k], LAMBDA r : r \in Listed(k))
  IN {listed[i] : i \in 1..(IF Len(listed) < Batch THEN Len(listed) ELSE Batch)}

(* The trigger on UPDATE stamps updated_at. *)
Touch(r) == recent' = [recent EXCEPT ![KindOf[r]] = <<r>> \o SelectSeq(@, LAMBDA x : x # r)]

UseFault == faults < MaxFaults /\ faults' = faults + 1

(* The channel each sweep asks. *)
Asks == [wechat |-> "wechat", alipay |-> "alipay", refund |-> "wechat"]

(* reconcile: one SELECT per sweep whose channel is configured (and, in the
   model, whose table has rows). *)
reconcile(configured) ==
  /\ selecting' = selecting \cup {k \in {KindOf[r] : r \in Rows} : Asks[k] \in configured}
  /\ UNCHANGED <<row, trade, expired, recent, flight, faults>>

(* syncPendingWeChatOrders, syncPendingAlipayOrders, syncPendingRefunds: ask
   about the batch. A row an earlier sweep still asks about is asked once. *)
syncPending(k) ==
  /\ k \in selecting
  /\ selecting' = selecting \ {k}
  /\ flight' = [r \in Rows |-> IF r \in Chosen(k) /\ flight[r] = "none" THEN "asked" ELSE flight[r]]
  /\ UNCHANGED <<row, trade, expired, recent, faults>>

(* The SELECT fails: logged, and over until the next sweep. *)
SelectFails(k) ==
  /\ UseFault
  /\ k \in selecting
  /\ selecting' = selecting \ {k}
  /\ UNCHANGED <<row, trade, expired, recent, flight>>

(* The channel answers with what it knows at that moment. *)
Answers(r) ==
  /\ flight[r] = "asked"
  /\ r \notin Unknown
  /\ flight' = [flight EXCEPT ![r] = trade[r]]
  /\ UNCHANGED <<row, trade, expired, recent, selecting, faults>>

(* An error or a timeout; for a row the channel does not know, every time. *)
QueryFails(r) ==
  /\ flight[r] = "asked"
  /\ flight' = [flight EXCEPT ![r] = "none"]
  /\ IF r \in Unknown THEN UNCHANGED faults ELSE UseFault
  /\ UNCHANGED <<row, trade, expired, recent, selecting>>

(* What each trade state makes of the row. *)
Settled(s) == CASE s = "SUCCESS" -> "paid" [] s = "CLOSED" -> "closed" [] s = "NOTPAY" -> "pending"

(* What the sync function makes of a row: an order's only while it is in
   flight, a refund's whatever it has become. *)
Sync(r, s) ==
  IF KindOf[r] = "refund" \/ row[r] \in {"fresh", "created", "pending"}
    THEN row' = [row EXCEPT ![r] = Settled(s)] /\ Touch(r)
    ELSE UNCHANGED <<row, recent>>

(* Mutant: an expired trade is left to WeChat's own lazy expiry. *)
CloseIfExpired_Never(r) == "none"

(* Only an answer that is NOTPAY and a deadline that has passed, together,
   start a close. *)
CloseIfExpired(r) ==
  IF KindOf[r] = "wechat" /\ flight[r] = "NOTPAY" /\ r \in expired THEN "closing" ELSE "none"

(* Apply the answer, however old it is by now, or fail to. *)
Apply(r) ==
  /\ flight[r] \in TradeState
  /\ Sync(r, flight[r])
  /\ flight' = [flight EXCEPT ![r] = CloseIfExpired(r)]
  /\ UNCHANGED <<trade, expired, selecting, faults>>

ApplyFails(r) ==
  /\ UseFault
  /\ flight[r] \in TradeState
  /\ flight' = [flight EXCEPT ![r] = CloseIfExpired(r)]
  /\ UNCHANGED <<row, trade, expired, recent, selecting>>

(* Mutant: a close that came back books the order. *)
closeOrder_Books(r) ==
  /\ flight[r] = "closing"
  /\ flight' = [flight EXCEPT ![r] = "none"]
  /\ trade' = IF trade[r] = "NOTPAY" THEN [trade EXCEPT ![r] = "CLOSED"] ELSE trade
  /\ Sync(r, "CLOSED")
  /\ UNCHANGED <<expired, selecting, faults>>

(* The channel closes an unpaid trade and refuses to close any other. Nothing
   is booked: the next sweep will ask again. *)
closeOrder(r) ==
  /\ flight[r] = "closing"
  /\ flight' = [flight EXCEPT ![r] = "none"]
  /\ trade' = IF trade[r] = "NOTPAY" THEN [trade EXCEPT ![r] = "CLOSED"] ELSE trade
  /\ UNCHANGED <<row, expired, recent, selecting, faults>>

(* The close request is lost. *)
CloseFails(r) ==
  /\ UseFault
  /\ flight[r] = "closing"
  /\ flight' = [flight EXCEPT ![r] = "none"]
  /\ UNCHANGED <<row, trade, expired, recent, selecting>>

----------------------------------------------------------------------------
(* External: time passes, buyers pay, notifications settle rows. *)

Ages(r) ==
  /\ row[r] = "fresh"
  /\ row' = [row EXCEPT ![r] = "created"]
  /\ UNCHANGED <<trade, expired, recent, selecting, flight, faults>>

(* The create request writes PAYING after all, or a notification settles. *)
OthersWrite(r) ==
  /\ row[r] \in {"fresh", "created", "pending"}
  /\ trade[r] # "NOTPAY" \/ (row[r] = "fresh" /\ r \notin Unknown)
  /\ Sync(r, trade[r])
  /\ UNCHANGED <<trade, expired, selecting, flight, faults>>

(* A refund of the other channel is paid out there; no buyer sees a trade that
   was never made. *)
Pays(r) ==
  /\ trade[r] = "NOTPAY"
  /\ r \in Unknown => KindOf[r] = "refund"
  /\ trade' = [trade EXCEPT ![r] = "SUCCESS"]
  /\ UNCHANGED <<row, expired, recent, selecting, flight, faults>>

Expires(r) ==
  /\ r \in Deadline \ expired
  /\ expired' = expired \cup {r}
  /\ UNCHANGED <<row, trade, recent, selecting, flight, faults>>

SweepStep(r) ==
  \/ Answers(r) \/ QueryFails(r) \/ Apply(r) \/ ApplyFails(r)
  \/ closeOrder(r) \/ CloseFails(r)

OutsideStep(r) == Ages(r) \/ OthersWrite(r) \/ Pays(r) \/ Expires(r)
==============================================================================
