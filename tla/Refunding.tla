----------------------------- MODULE Refunding -------------------------------
(***************************************************************************)
(* How the refunds of one settled order run: requests reserve amounts and  *)
(* call the channel; their answers, notifications and queries settle the   *)
(* same rows and close the order, in any order, with failing statements    *)
(* and restarts in between.                                                *)
(***************************************************************************)
EXTENDS RefundCreate, RefundSync, RefundCallback

ASSUME RefundingAssumption == Deliveries \cap Queries = {}

vars == <<storeVars, createVars, query, callbackVars>>

Init == StoreInit /\ CreateInit /\ SyncInit /\ CallbackInit

(* The server dies: handlers and open transactions are gone, committed rows
   and the channel remain. *)
Restart ==
  /\ UseFault
  /\ wtx' = [w \in Settlers |-> NoTx]
  /\ lock' = [p \in Payments |-> "none"]
  /\ rpc' = [r \in Refunds |-> IF rpc[r] = "new" THEN "new" ELSE "answered"]
  /\ query' = [q \in Queries |-> IdleQuery]
  /\ dpc' = [d \in Deliveries |-> "idle"]
  /\ UNCHANGED <<order, refund, req, entries, chan, ans, res, carries, acked>>

Next ==
  \/ CreateNext /\ UNCHANGED <<query, callbackVars>>
  \/ SyncNext /\ UNCHANGED <<createVars, callbackVars>>
  \/ CallbackNext /\ UNCHANGED <<createVars, query>>
  \/ Restart

Spec == Init /\ [][Next]_vars

(* A handler that has begun is served to its end, and the channel decides
   every refund it was sent. *)
HandlerFairness ==
  /\ \A r \in Refunds :
       /\ WF_vars(RequestStep(r) /\ UNCHANGED <<query, callbackVars>>)
       /\ WF_vars(ChannelMoves(r) /\ UNCHANGED <<createVars, query, callbackVars>>)
  /\ \A d \in Deliveries : WF_vars(DeliveryStep(d) /\ UNCHANGED <<createVars, query>>)
  /\ \A q \in Queries : WF_vars(QueryStep(q) /\ UNCHANGED <<createVars, callbackVars>>)

(* Each notification is repeated until it is acknowledged, however many other
   deliveries the server answers meanwhile. *)
NotifyFairness ==
  \A d \in Deliveries, r \in Refunds :
    SF_vars(r \notin acked /\ handleRefundCallback(d, r) /\ UNCHANGED <<createVars, query>>)

(* Each sweep asks about every refund in flight, whatever else is queried. *)
SweepFairness ==
  \A q \in Queries, r \in Refunds :
    SF_vars(refund[r] \in InFlight /\ queryRefund(q, r) /\ UNCHANGED <<createVars, callbackVars>>)

FairSpec == Spec /\ HandlerFairness /\ NotifyFairness /\ SweepFairness

----------------------------------------------------------------------------
(* The value every variable may take. *)
TypeOK == StoreTypeOK /\ CreateTypeOK /\ SyncTypeOK /\ CallbackTypeOK

(* Money the channel has returned or is returning. *)
MovingRefunds == {r \in Refunds : chan[r] \in {"PROCESSING", "SUCCESS"}}
ReturnedRefunds == {r \in Refunds : chan[r] = "SUCCESS"}

(* The channel never returns more than the order's amount: a refund is counted
   against the order before its request leaves and until it certainly failed,
   under the payment's lock, through lost answers, faults and restarts. *)
NeverOverRefunded == SumOf(MovingRefunds) <= Total

(* A refund booked REFUND_FAIL did not happen and will not: booking one whose
   outcome is unknown would invite a second refund of the same money. *)
FailMeansNotRefunded ==
  \A r \in Refunds : refund[r] = "REFUND_FAIL" => chan[r] \in {"none", "refused", "CLOSED", "ABNORMAL"}

(* A REFUNDED order's money is back in full, whoever closed it. *)
RefundedMeansMoneyBack == order = "REFUNDED" => SumOf(ReturnedRefunds) >= Total

(* A REFUND entry is posted only for money returned. *)
EntryMeansMoneyBack == \A r \in Refunds : entries[r] > 0 => chan[r] = "SUCCESS"

(* A stamped reservation, which turns every repeat of the notification away,
   stands for a refund that failed or whose REFUND entry is posted: stamp and
   entry share one COMMIT, through faults, restarts and lost answers. *)
StampedRefundIsEntered ==
  \A r \in Refunds : res[r].done /\ chan[r] = "SUCCESS" => entries[r] > 0

(* Inside its transaction, with the row of its next statement free. *)
DeliveryMoves(d) ==
  /\ wtx[d] # NoTx
  /\ \/ dpc[d] \in {"sum", "commit"}
     \/ dpc[d] = "order" /\ OrderFree(d)
     \/ dpc[d] = "finalize" /\ ReservationFree(d)

QueryMoves(q) ==
  /\ wtx[q] # NoTx
  /\ \/ query[q].pc \in {"lookup", "sum", "commit"}
     \/ At(q, "write") /\ RefundFree(q, query[q].ref)
     \/ At(q, "order") /\ OrderFree(q)

(* Whoever waits for a row waits for a transaction that can move, or for one
   that waits for such: refund row, order and reservation are taken in that
   order, no handler ends with its transaction open, and the holder of a
   payment row waits for nobody. *)
SomeSettlerCanMove ==
  /\ (\E w \in Settlers : wtx[w] # NoTx)
       => (\E d \in Deliveries : DeliveryMoves(d)) \/ (\E q \in Queries : QueryMoves(q))
  /\ \A p \in Payments : lock[p] # "none" => rpc[lock[p]] \in {"sum", "commit"}

(* A settled refund stays settled: writing over it would un-refund money the
   customer received. False: a query writes its answer by primary key. *)
SettledRefundIsFinal ==
  [][\A r \in Refunds : refund[r] = "REFUND_SUCCESS" => refund'[r] = "REFUND_SUCCESS"]_vars

(* A row leaves REFUND_SUCCESS only when a query commits an answer older than
   its settlement: the writes of answers and notifications are guarded by the
   status they replace, which nobody changes before they commit. *)
OnlyQueriesReopen ==
  [][\A r \in Refunds : refund[r] = "REFUND_SUCCESS" /\ refund'[r] # "REFUND_SUCCESS" =>
       \E q \in Queries :
         At(q, "commit") /\ query[q].ref = r /\ query[q].ans # "REFUND_SUCCESS"]_vars

(* Money the channel returned is booked in the end, and for good, by repeated
   notifications or by the sweep alone: an old answer written over it is
   corrected by the next query. *)
ReturnedIsEventuallyBooked ==
  \A r \in Refunds : chan[r] = "SUCCESS" ~> [](refund[r] = "REFUND_SUCCESS")

(* Refunds that cover the order close it in the end: settlements that each
   counted without the other are recovered by a later one. *)
CoveredOrderIsClosed == RefundsCover({}) ~> order = "REFUNDED"

(* Partial refunds are legitimate repeats against one payment: a query that
   settles a refund posts its entry in the same commit. *)
SettlingQueryPostsEntry ==
  [][\A q \in Queries : At(q, "commit") /\ query'[q] = IdleQuery
        /\ refund[query[q].ref] # "REFUND_SUCCESS" /\ refund'[query[q].ref] = "REFUND_SUCCESS"
        => entries'[query[q].ref] = entries[query[q].ref] + 1]_vars

----------------------------------------------------------------------------
(* What makes the invariants about the channel's refunds inductive. *)

NotMoved == {"none", "refused", "CLOSED", "ABNORMAL"}
Failed == {"CLOSED", "ABNORMAL"}

(* A status that somebody has written, buffered or decided to write agrees
   with what the channel has made of the refund. *)
Agrees(st, r) ==
  /\ st = "REFUND_SUCCESS" => chan[r] = "SUCCESS"
  /\ st = "REFUND_FAIL" /\ Channel = "wechat" => chan[r] \in Failed

(* The row, the request and its channel call: nothing leaves before "call",
   and a request that never left is over when its row says REFUND_FAIL. *)
RequestAgrees(r) ==
  /\ rpc[r] \notin {"await", "book", "settleSum", "settleOrder", "answered"} => chan[r] = "none"
  /\ refund[r] = "REFUND_SUCCESS" => chan[r] = "SUCCESS"
  /\ refund[r] = "REFUND_FAIL" /\ Channel = "wechat" =>
       chan[r] \in NotMoved /\ (chan[r] = "none" => rpc[r] = "answered")
  /\ entries[r] > 0 => chan[r] = "SUCCESS"
  /\ rpc[r] = "book" => Agrees(mapRefundStatus(ans[r]), r)
  /\ rpc[r] = "book" /\ ans[r] = "refused" => chan[r] \in {"none", "refused"}

(* A settling transaction names a refund and agrees with the channel. *)
SettlerAgrees(w) ==
  /\ wtx[w].st # "keep" \/ wtx[w].led => wtx[w].ref \in Refunds
  /\ wtx[w].st # "keep" => Agrees(wtx[w].st, wtx[w].ref)
  /\ wtx[w].led => chan[wtx[w].ref] = "SUCCESS"

QueryAgrees(q) ==
  ~At(q, "idle") =>
    /\ query[q].ref \in Refunds
    /\ query[q].ans \in RefundStatus
    /\ Agrees(query[q].ans, query[q].ref)
    /\ At(q, "lookup") => query[q].ans = "REFUND_SUCCESS" /\ wtx[q].ref = query[q].ref

DeliveryAgrees(d) ==
  dpc[d] # "idle" => carries[d] \in Refunds /\ chan[carries[d]] \in Failed \cup {"SUCCESS"}

IInv ==
  /\ TypeOK
  /\ \A r \in Refunds : RequestAgrees(r)
  /\ \A w \in Settlers : SettlerAgrees(w)
  /\ \A q \in Queries : QueryAgrees(q)
  /\ \A d \in Deliveries : DeliveryAgrees(d)

----------------------------------------------------------------------------
(* What makes the invariants about stamps and held rows inductive. *)

Settling == {"sum", "order", "finalize", "commit"}

(* A row is there from its COMMIT on, and a stamped refund failed or is
   entered. *)
RowHolds(r) ==
  /\ rpc[r] \in {"new", "order", "same", "progress", "lock", "sum", "commit"} => refund[r] = "none"
  /\ rpc[r] = "call" \/ chan[r] # "none" => refund[r] # "none"
  /\ res[r].done => chan[r] \in Failed \/ (chan[r] = "SUCCESS" /\ entries[r] > 0)

(* A delivery inside its transaction holds the row it is about, still in
   flight; outside it has nothing buffered. *)
DeliveryHolds(d) ==
  /\ dpc[d] # "idle" => Channel = "wechat"
  /\ dpc[d] \notin Settling => wtx[d] = NoTx
  /\ dpc[d] \in Settling =>
       /\ wtx[d].ref = carries[d] /\ wtx[d].st = Notified(d)
       /\ wtx[d].led = (Notified(d) = "REFUND_SUCCESS")
       /\ refund[carries[d]] \in InFlight

(* A query asks about a row, and buffers the answer it got for it. *)
QueryHolds(q) ==
  /\ ~At(q, "idle") => refund[query[q].ref] # "none"
  /\ wtx[q].st # "keep" =>
       /\ wtx[q].ref = query[q].ref /\ wtx[q].st = query[q].ans
       /\ query[q].pc \in {"lookup", "sum", "order", "commit"}

(* At most one transaction holds a row. *)
OneHolder ==
  \A v, w \in Settlers :
    v # w /\ wtx[v].st # "keep" /\ wtx[w].st # "keep" => wtx[v].ref # wtx[w].ref

BookedInv ==
  /\ \A r \in Refunds : RowHolds(r)
  /\ \A d \in Deliveries : DeliveryHolds(d)
  /\ \A q \in Queries : QueryHolds(q)
  /\ OneHolder

----------------------------------------------------------------------------
(* What makes the sums inductive. *)

(* The channel has returned the order's amount. It never takes money back. *)
MoneyIsBack == SumOf(ReturnedRefunds) >= Total

(* Whoever is about to close the order has counted money that is back. *)
ClosersCounted ==
  /\ order = "REFUNDED" => MoneyIsBack
  /\ \A w \in Settlers : wtx[w].close => MoneyIsBack
  /\ \A r \in Refunds : rpc[r] = "settleOrder" => MoneyIsBack
  /\ \A q \in Queries :
       /\ At(q, "sum") => query[q].ans = "REFUND_SUCCESS"
       /\ At(q, "order") => MoneyIsBack
  /\ \A d \in Deliveries :
       /\ dpc[d] = "sum" => chan[carries[d]] = "SUCCESS"
       /\ dpc[d] = "order" => MoneyIsBack

(* Refunds whose money is, or may yet be, moving: about to leave, sent, taken
   or paid. The rows that count against the order are more, and may grow when
   a late answer is written over a refund already booked as failed. *)
Claims ==
  {r \in Refunds : rpc[r] = "call" \/ chan[r] \in {"sent", "PROCESSING", "SUCCESS"}}

(* A row is inserted by its request's COMMIT alone, under the payment's lock. *)
RowReserved(r) ==
  /\ rpc[r] # "new" => req[r].pay \in Payments
  /\ rpc[r] \in {"sum", "commit"} => lock[req[r].pay] = r
  /\ rpc[r] \in {"new", "order", "same", "progress", "lock", "sum", "commit"} => refund[r] = "none"
  /\ rpc[r] = "call" \/ chan[r] # "none" => refund[r] # "none"

(* A row that others settle has been sent. *)
SettlersFollow ==
  /\ \A w \in Settlers : wtx[w].st # "keep" => chan[wtx[w].ref] # "none"
  /\ \A q \in Queries : ~At(q, "idle") => chan[query[q].ref] # "none"

(* The claims fit the order, with the one about to be inserted. *)
ClaimsFit ==
  /\ SumOf(Claims) <= Total
  /\ \A r \in Refunds : rpc[r] = "commit" => SumOf(Claims) + req[r].amt <= Total

ReserveInv ==
  /\ \A r \in Refunds : RowReserved(r)
  /\ SettlersFollow
  /\ ClaimsFit

----------------------------------------------------------------------------
(* What makes the waits inductive: where a handler is when it holds a row. *)

LocksFollowPlaces ==
  /\ \A d \in Deliveries :
       /\ wtx[d] # NoTx => dpc[d] \in Settling
       /\ wtx[d].close => dpc[d] \in {"finalize", "commit"}
       /\ wtx[d].fin => dpc[d] = "commit"
  /\ \A q \in Queries :
       /\ wtx[q] # NoTx => query[q].pc \in {"lookup", "sum", "order", "commit"}
       /\ wtx[q].close => At(q, "commit")
  /\ \A w \in Settlers \ (Deliveries \cup Queries) : wtx[w] = NoTx
  /\ \A p \in Payments : lock[p] # "none" => rpc[lock[p]] \in {"sum", "commit"}
==============================================================================
