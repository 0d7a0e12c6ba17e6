--------------------------- MODULE RefundingProofs ---------------------------
(***************************************************************************)
(* What every statement of Refunding keeps true, for any number of         *)
(* refunds, payments, deliveries, queries, faults and restarts: the rows,  *)
(* the buffers and the answers in flight never claim more than the channel *)
(* has done.                                                               *)
(***************************************************************************)
EXTENDS Refunding, FiniteSetTheorems, TLAPS

(* An idle transaction buffer is typed. *)
LEMMA NoTxType == NoTx \in RefundTx
BY DEF NoTx, RefundTx

(* The statuses a channel's word is read as. *)
LEMMA MappedStatus ==
  ASSUME NEW s \in WechatRefundState
  PROVE  /\ mapRefundStatus(s) \in RefundStatus
         /\ (mapRefundStatus(s) = "REFUND_SUCCESS") <=> (s = "SUCCESS")
         /\ (mapRefundStatus(s) = "REFUND_FAIL") <=> (s \in Failed)
BY DEF mapRefundStatus, WechatRefundState, RefundStatus, Failed

(* Answers that name no state of a refund are read as no verdict. *)
LEMMA MappedNoVerdict ==
  ASSUME NEW a \in {"none", "refused", "unknown", "notready"}
  PROVE  mapRefundStatus(a) = ""
BY DEF mapRefundStatus

(* The empty tables satisfy the invariant. *)
LEMMA InitIInv == Init => IInv
<1> SUFFICES ASSUME Init PROVE IInv
  OBVIOUS
<1> USE DEF Init, StoreInit, CreateInit, SyncInit, CallbackInit
<1>1. TypeOK
  BY NoTxType, RefundStoreAssumption
  DEF TypeOK, StoreTypeOK, CreateTypeOK, SyncTypeOK, CallbackTypeOK, RefundStatus,
      ChannelRefund, RequestPc, Answer, Query, QueryPc, IdleQuery, DeliveryPc, NoRes, NoOwner
<1>2. \A r \in Refunds : RequestAgrees(r)
  BY DEF RequestAgrees
<1>3. \A w \in Settlers : SettlerAgrees(w)
  BY DEF SettlerAgrees, NoTx
<1>4. \A q \in Queries : QueryAgrees(q)
  BY DEF QueryAgrees, At, IdleQuery
<1>5. \A d \in Deliveries : DeliveryAgrees(d)
  BY DEF DeliveryAgrees
<1> QED
  BY <1>1, <1>2, <1>3, <1>4, <1>5 DEF IInv

----------------------------------------------------------------------------
(* Steps of a request *)

LEMMA RequestKeeps ==
  ASSUME IInv, NEW r \in Refunds, UNCHANGED <<query, callbackVars>>,
         \/ \E p \in Payments, a \in Amounts : createRefund(r, p, a)
         \/ RequestStep(r) \/ CommitAnswerLost(r) \/ RequestFault(r)
         \/ ChannelMoves(r) /\ UNCHANGED createVars
  PROVE  IInv'
<1> USE DEF callbackVars
<1>t. /\ StoreTypeOK /\ CreateTypeOK /\ SyncTypeOK /\ CallbackTypeOK
      /\ \A x \in Refunds : RequestAgrees(x)
      /\ \A w \in Settlers : SettlerAgrees(w)
      /\ \A q \in Queries : QueryAgrees(q)
      /\ \A d \in Deliveries : DeliveryAgrees(d)
  BY DEF IInv, TypeOK
<1> HIDE DEF IInv
<1>0. ASSUME wtx' = wtx,
             \A x \in Refunds : chan[x] \notin {"none", "sent", "PROCESSING"} => chan'[x] = chan[x]
      PROVE  /\ SyncTypeOK' /\ CallbackTypeOK'
             /\ \A w \in Settlers : SettlerAgrees(w)'
             /\ \A q \in Queries : QueryAgrees(q)'
             /\ \A d \in Deliveries : DeliveryAgrees(d)'
  BY <1>t, <1>0
  DEF SyncTypeOK, CallbackTypeOK, SettlerAgrees, QueryAgrees, DeliveryAgrees, Agrees, At, Failed
<1>1. ASSUME wtx' = wtx, chan' = chan
      PROVE  /\ SyncTypeOK' /\ CallbackTypeOK'
             /\ \A w \in Settlers : SettlerAgrees(w)'
             /\ \A q \in Queries : QueryAgrees(q)'
             /\ \A d \in Deliveries : DeliveryAgrees(d)'
  BY <1>t, <1>1
  DEF SyncTypeOK, CallbackTypeOK, SettlerAgrees, QueryAgrees, DeliveryAgrees, Agrees, At
<1>2. ASSUME NEW p \in Payments, NEW a \in Amounts, createRefund(r, p, a)
      PROVE  IInv'
  <2>1. StoreTypeOK' /\ CreateTypeOK'
    BY <1>t, <1>2 DEF createRefund, Goto, StoreTypeOK, CreateTypeOK, RequestPc
  <2>2. \A x \in Refunds : RequestAgrees(x)'
    BY <1>t, <1>2 DEF createRefund, Goto, CreateTypeOK, RequestAgrees, Agrees
  <2> QED
    BY <1>1, <1>2, <2>1, <2>2 DEF createRefund, IInv, TypeOK
<1>3. ASSUME proceedOrderFlow(r)
      PROVE  IInv'
  <2>0. wtx' = wtx /\ chan' = chan
    BY <1>3 DEF proceedOrderFlow, storeVars
  <2>1. StoreTypeOK' /\ CreateTypeOK'
    BY <1>t, <1>3 DEF proceedOrderFlow, Goto, storeVars, StoreTypeOK, CreateTypeOK, RequestPc
  <2>2. \A x \in Refunds : RequestAgrees(x)'
    BY <1>t, <1>3
    DEF proceedOrderFlow, Goto, storeVars, StoreTypeOK, CreateTypeOK, RequestAgrees, Agrees
  <2> QED
    BY <1>1, <2>0, <2>1, <2>2 DEF IInv, TypeOK
<1>4. ASSUME proceedWithAmountCheck(r)
      PROVE  IInv'
  <2>0. wtx' = wtx /\ chan' = chan
    BY <1>4 DEF proceedWithAmountCheck, storeVars
  <2>1. StoreTypeOK' /\ CreateTypeOK'
    BY <1>t, <1>4 DEF proceedWithAmountCheck, Goto, storeVars, StoreTypeOK, CreateTypeOK, RequestPc
  <2>2. \A x \in Refunds : RequestAgrees(x)'
    BY <1>t, <1>4
    DEF proceedWithAmountCheck, Goto, storeVars, StoreTypeOK, CreateTypeOK, RequestAgrees,
        Agrees
  <2> QED
    BY <1>1, <2>0, <2>1, <2>2 DEF IInv, TypeOK
<1>5. ASSUME proceedWithInProgressCheck(r)
      PROVE  IInv'
  <2>0. wtx' = wtx /\ chan' = chan
    BY <1>5 DEF proceedWithInProgressCheck, storeVars
  <2>1. StoreTypeOK' /\ CreateTypeOK'
    BY <1>t, <1>5
    DEF proceedWithInProgressCheck, Goto, storeVars, StoreTypeOK, CreateTypeOK, RequestPc
  <2>2. \A x \in Refunds : RequestAgrees(x)'
    BY <1>t, <1>5
    DEF proceedWithInProgressCheck, Goto, storeVars, StoreTypeOK, CreateTypeOK,
        RequestAgrees, Agrees
  <2> QED
    BY <1>1, <2>0, <2>1, <2>2 DEF IInv, TypeOK
<1>6. ASSUME LockPayment(r)
      PROVE  IInv'
  <2>0. wtx' = wtx /\ chan' = chan
    BY <1>6 DEF LockPayment, storeVars
  <2>1. StoreTypeOK' /\ CreateTypeOK'
    BY <1>t, <1>6 DEF LockPayment, Goto, storeVars, StoreTypeOK, CreateTypeOK, RequestPc
  <2>2. \A x \in Refunds : RequestAgrees(x)'
    BY <1>t, <1>6 DEF LockPayment, Goto, storeVars, StoreTypeOK, CreateTypeOK, RequestAgrees, Agrees
  <2> QED
    BY <1>1, <2>0, <2>1, <2>2 DEF IInv, TypeOK
<1>7. ASSUME CheckSum(r)
      PROVE  IInv'
  <2>0. wtx' = wtx /\ chan' = chan
    BY <1>7 DEF CheckSum, Unlock, storeVars
  <2>1. StoreTypeOK' /\ CreateTypeOK'
    BY <1>t, <1>7 DEF CheckSum, Goto, Unlock, storeVars, StoreTypeOK, CreateTypeOK, RequestPc
  <2>2. \A x \in Refunds : RequestAgrees(x)'
    BY <1>t, <1>7
    DEF CheckSum, Goto, Unlock, storeVars, StoreTypeOK, CreateTypeOK, RequestAgrees, Agrees
  <2> QED
    BY <1>1, <2>0, <2>1, <2>2 DEF IInv, TypeOK
<1>8. ASSUME CommitRefundRow(r)
      PROVE  IInv'
  <2>0. wtx' = wtx /\ chan' = chan
    BY <1>8 DEF CommitRefundRow, WriteRefund, Unlock, RefundStatus, storeVars
  <2>1. StoreTypeOK' /\ CreateTypeOK'
    BY <1>t, <1>8
    DEF CommitRefundRow, Goto, WriteRefund, Unlock, RefundStatus, storeVars, StoreTypeOK,
        CreateTypeOK, RequestPc
  <2>2. \A x \in Refunds : RequestAgrees(x)'
    BY <1>t, <1>8
    DEF CommitRefundRow, Goto, WriteRefund, Unlock, RefundStatus, storeVars, StoreTypeOK,
        CreateTypeOK, RequestAgrees, Agrees
  <2> QED
    BY <1>1, <2>0, <2>1, <2>2 DEF IInv, TypeOK
<1>9. ASSUME CommitAnswerLost(r)
      PROVE  IInv'
  <2>0. wtx' = wtx /\ chan' = chan
    BY <1>9 DEF CommitAnswerLost, UseFault, Unlock, RefundStatus, storeVars
  <2>1. StoreTypeOK' /\ CreateTypeOK'
    BY <1>t, <1>9, RefundStoreAssumption
    DEF CommitAnswerLost, Goto, UseFault, Unlock, RefundStatus, storeVars, StoreTypeOK,
        CreateTypeOK, RequestPc
  <2>2. \A x \in Refunds : RequestAgrees(x)'
    BY <1>t, <1>9, RefundStoreAssumption
    DEF CommitAnswerLost, Goto, UseFault, Unlock, RefundStatus, storeVars, StoreTypeOK,
        CreateTypeOK, RequestAgrees, Agrees
  <2> QED
    BY <1>1, <2>0, <2>1, <2>2 DEF IInv, TypeOK
<1>10. ASSUME AnswerArrives(r)
      PROVE  IInv'
  <2>0. UNCHANGED storeVars /\ wtx' = wtx /\ chan' = chan /\ lock' = lock
    BY <1>10 DEF AnswerArrives, storeVars
  <2>1. PICK a \in {"unknown", chan[r]} :
          a # "sent" /\ ans' = [ans EXCEPT ![r] = a] /\ rpc' = [rpc EXCEPT ![r] = "book"]
    BY <1>10 DEF AnswerArrives, Goto
  <2>2. /\ a \in Answer
        /\ Agrees(mapRefundStatus(a), r)
        /\ a = "refused" => chan[r] = "refused"
    <3>1. CASE a \in {"none", "refused", "unknown"}
      BY <3>1, <2>1, MappedNoVerdict DEF Answer, Agrees
    <3>2. CASE a \in WechatRefundState
      BY <3>2, <2>1, MappedStatus DEF Answer, Agrees, WechatRefundState
    <3> QED
      BY <1>t, <2>1, <3>1, <3>2 DEF StoreTypeOK, ChannelRefund
  <2>3. StoreTypeOK' /\ CreateTypeOK'
    BY <1>t, <2>0, <2>1, <2>2 DEF storeVars, StoreTypeOK, CreateTypeOK, RequestPc
  <2>4. ASSUME NEW x \in Refunds, rpc[x] = "await" \/ x # r
        PROVE  RequestAgrees(x)'
    <3>1. CASE x # r
      BY <1>t, <3>1, <2>0, <2>1 DEF storeVars, CreateTypeOK, RequestAgrees, Agrees
    <3>2. CASE x = r
      <4>1. ans'[x] = a /\ rpc'[x] = "book" /\ rpc[x] = "await"
        BY <1>t, <3>2, <2>1, <2>4 DEF CreateTypeOK
      <4> QED
        BY <1>t, <3>2, <4>1, <2>0, <2>2 DEF storeVars, RequestAgrees, Agrees, NotMoved
    <3> QED
      BY <3>1, <3>2
  <2> QED
    BY <1>1, <1>10, <2>0, <2>3, <2>4 DEF AnswerArrives, IInv, TypeOK
<1>11. ASSUME updateRefundWithError(r)
      PROVE  IInv'
  <2>0. wtx' = wtx /\ chan' = chan
    BY <1>11
    DEF updateRefundWithError, WriteRefund, RefundStatus, BooksFailure,
        refundCertainlyDidNotHappen, NotMoved, Failed, InFlight, storeVars
  <2>1. StoreTypeOK' /\ CreateTypeOK'
    BY <1>t, <1>11, MappedNoVerdict
    DEF updateRefundWithError, Goto, WriteRefund, RefundStatus, BooksFailure,
        refundCertainlyDidNotHappen, NotMoved, Failed, InFlight, storeVars, StoreTypeOK,
        CreateTypeOK, RequestPc
  <2>2. \A x \in Refunds : RequestAgrees(x)'
    BY <1>t, <1>11, MappedNoVerdict
    DEF updateRefundWithError, Goto, WriteRefund, RefundStatus, BooksFailure,
        refundCertainlyDidNotHappen, NotMoved, Failed, InFlight, storeVars, StoreTypeOK,
        CreateTypeOK, RequestAgrees, Agrees
  <2> QED
    BY <1>1, <2>0, <2>1, <2>2 DEF IInv, TypeOK
<1>12. ASSUME LeaveRefund(r)
      PROVE  IInv'
  <2>0. wtx' = wtx /\ chan' = chan
    BY <1>12 DEF LeaveRefund, storeVars
  <2>1. StoreTypeOK' /\ CreateTypeOK'
    BY <1>t, <1>12 DEF LeaveRefund, Goto, storeVars, StoreTypeOK, CreateTypeOK, RequestPc
  <2>2. \A x \in Refunds : RequestAgrees(x)'
    BY <1>t, <1>12
    DEF LeaveRefund, Goto, storeVars, StoreTypeOK, CreateTypeOK, RequestAgrees, Agrees
  <2> QED
    BY <1>1, <2>0, <2>1, <2>2 DEF IInv, TypeOK
<1>13. ASSUME SettleRow(r)
      PROVE  IInv'
  <2>0. wtx' = wtx /\ chan' = chan
    BY <1>13 DEF SettleRow, WriteRefund, RefundStatus, InFlight, storeVars
  <2>1. StoreTypeOK' /\ CreateTypeOK'
    BY <1>t, <1>13
    DEF SettleRow, Goto, WriteRefund, RefundStatus, InFlight, storeVars, StoreTypeOK,
        CreateTypeOK, RequestPc
  <2>2. \A x \in Refunds : RequestAgrees(x)'
    BY <1>t, <1>13
    DEF SettleRow, Goto, WriteRefund, RefundStatus, InFlight, storeVars, StoreTypeOK,
        CreateTypeOK, RequestAgrees, Agrees
  <2> QED
    BY <1>1, <2>0, <2>1, <2>2 DEF IInv, TypeOK
<1>14. ASSUME SettleSum(r)
      PROVE  IInv'
  <2>0. wtx' = wtx /\ chan' = chan
    BY <1>14 DEF SettleSum, storeVars
  <2>1. StoreTypeOK' /\ CreateTypeOK'
    BY <1>t, <1>14 DEF SettleSum, Goto, storeVars, StoreTypeOK, CreateTypeOK, RequestPc
  <2>2. \A x \in Refunds : RequestAgrees(x)'
    BY <1>t, <1>14 DEF SettleSum, Goto, storeVars, StoreTypeOK, CreateTypeOK, RequestAgrees, Agrees
  <2> QED
    BY <1>1, <2>0, <2>1, <2>2 DEF IInv, TypeOK
<1>15. ASSUME writeRefundedOrder(r)
      PROVE  IInv'
  <2>0. wtx' = wtx /\ chan' = chan
    BY <1>15 DEF writeRefundedOrder, storeVars
  <2>1. StoreTypeOK' /\ CreateTypeOK'
    BY <1>t, <1>15 DEF writeRefundedOrder, Goto, storeVars, StoreTypeOK, CreateTypeOK, RequestPc
  <2>2. \A x \in Refunds : RequestAgrees(x)'
    BY <1>t, <1>15
    DEF writeRefundedOrder, Goto, storeVars, StoreTypeOK, CreateTypeOK, RequestAgrees,
        Agrees
  <2> QED
    BY <1>1, <2>0, <2>1, <2>2 DEF IInv, TypeOK
<1>16. ASSUME RequestFault(r)
      PROVE  IInv'
  <2>0. wtx' = wtx /\ chan' = chan
    BY <1>16 DEF RequestFault, UseFault, Unlock, storeVars
  <2>1. StoreTypeOK' /\ CreateTypeOK'
    BY <1>t, <1>16, RefundStoreAssumption
    DEF RequestFault, Goto, UseFault, Unlock, storeVars, StoreTypeOK, CreateTypeOK,
        RequestPc
  <2>2. \A x \in Refunds : RequestAgrees(x)'
    BY <1>t, <1>16, RefundStoreAssumption
    DEF RequestFault, Goto, UseFault, Unlock, storeVars, StoreTypeOK, CreateTypeOK,
        RequestAgrees, Agrees
  <2> QED
    BY <1>1, <2>0, <2>1, <2>2 DEF IInv, TypeOK
<1>17. ASSUME invokeRefundChannel(r)
      PROVE  IInv'
  <2>0. /\ wtx' = wtx /\ chan[r] = "none"
        /\ \A x \in Refunds : chan[x] # "none" => chan'[x] = chan[x]
    BY <1>t, <1>17 DEF invokeRefundChannel, StoreTypeOK, RequestAgrees
  <2>1. StoreTypeOK' /\ CreateTypeOK'
    BY <1>t, <1>17
    DEF invokeRefundChannel, Goto, StoreTypeOK, CreateTypeOK, RequestPc, Answer,
        ChannelRefund
  <2>2. \A x \in Refunds : RequestAgrees(x)'
    <3>1. ASSUME NEW x \in Refunds, x # r
          PROVE  RequestAgrees(x)'
      BY <1>t, <1>17, <2>0, <3>1
      DEF invokeRefundChannel, Goto, StoreTypeOK, CreateTypeOK, RequestAgrees, Agrees
    <3>2. ASSUME chan' = [chan EXCEPT ![r] = "sent"] /\ rpc' = [rpc EXCEPT ![r] = "await"]
          PROVE  RequestAgrees(r)'
      <4>1. /\ rpc[r] = "call" /\ rpc'[r] = "await" /\ chan'[r] = "sent"
            /\ refund'[r] = refund[r] /\ entries'[r] = entries[r]
        BY <1>t, <1>17, <3>2 DEF invokeRefundChannel, StoreTypeOK, CreateTypeOK
      <4> QED
        BY <1>t, <2>0, <4>1 DEF RequestAgrees
    <3>3. ASSUME chan' = chan /\ rpc' = [rpc EXCEPT ![r] = "book"],
                 ans'[r] \in {"refused", "notready"}
          PROVE  RequestAgrees(r)'
      <4>1. mapRefundStatus(ans'[r]) = ""
        BY <3>3, MappedNoVerdict
      <4> QED
        BY <1>t, <1>17, <2>0, <3>3, <4>1
        DEF invokeRefundChannel, StoreTypeOK, CreateTypeOK, RequestAgrees, Agrees
    <3>4. \/ chan' = [chan EXCEPT ![r] = "sent"] /\ rpc' = [rpc EXCEPT ![r] = "await"]
          \/ /\ chan' = chan /\ rpc' = [rpc EXCEPT ![r] = "book"]
             /\ ans'[r] \in {"refused", "notready"}
      BY <1>t, <1>17 DEF invokeRefundChannel, Goto, CreateTypeOK
    <3> QED
      BY <3>1, <3>2, <3>3, <3>4
  <2> QED
    BY <1>0, <2>0, <2>1, <2>2 DEF IInv, TypeOK
<1>18. ASSUME ChannelMoves(r), UNCHANGED createVars
      PROVE  IInv'
  <2>0. /\ wtx' = wtx
        /\ \A x \in Refunds : chan[x] \notin {"none", "sent", "PROCESSING"} => chan'[x] = chan[x]
        /\ \A x \in Refunds : (chan'[x] = "none") <=> (chan[x] = "none")
    BY <1>t, <1>18 DEF ChannelMoves, StoreTypeOK
  <2>1. StoreTypeOK' /\ CreateTypeOK'
    BY <1>t, <1>18
    DEF ChannelMoves, createVars, StoreTypeOK, CreateTypeOK, ChannelRefund,
        WechatRefundState
  <2>2. \A x \in Refunds : RequestAgrees(x)'
    BY <1>t, <1>18, <2>0 DEF ChannelMoves, createVars, RequestAgrees, Agrees, NotMoved, Failed
  <2> QED
    BY <1>0, <2>0, <2>1, <2>2 DEF IInv, TypeOK
<1> QED
  BY <1>2, <1>3, <1>4, <1>5, <1>6, <1>7, <1>8, <1>9, <1>10, <1>11, <1>12, <1>13, <1>14, <1>15,
     <1>16, <1>17, <1>18
  DEF RequestStep

----------------------------------------------------------------------------
(* Steps of the settlers *)

(* A step that touches neither requests nor channel keeps the agreement of the
   requests when refunds and entries stay, and of the settlers one by one. *)
LEMMA BufferKeeps ==
  ASSUME IInv, NEW w \in Settlers, NEW t \in RefundTx,
         wtx' = [wtx EXCEPT ![w] = t],
         UNCHANGED <<order, refund, req, entries, chan, createVars>>,
         faults' \in 0..MaxFaults,
         t.st # "keep" => t.ref \in Refunds /\ Agrees(t.st, t.ref),
         t.led => t.ref \in Refunds /\ chan[t.ref] = "SUCCESS"
  PROVE  /\ StoreTypeOK' /\ CreateTypeOK'
         /\ \A x \in Refunds : RequestAgrees(x)'
         /\ \A v \in Settlers : SettlerAgrees(v)'
<1>t. /\ StoreTypeOK /\ CreateTypeOK /\ SyncTypeOK /\ CallbackTypeOK
      /\ \A x \in Refunds : RequestAgrees(x)
      /\ \A v \in Settlers : SettlerAgrees(v)
      /\ \A y \in Queries : QueryAgrees(y)
      /\ \A e \in Deliveries : DeliveryAgrees(e)
  BY DEF IInv, TypeOK
<1> HIDE DEF IInv
<1>1. StoreTypeOK' /\ CreateTypeOK'
  BY <1>t DEF StoreTypeOK, CreateTypeOK, createVars
<1>2. \A x \in Refunds : RequestAgrees(x)'
  BY <1>t DEF RequestAgrees, Agrees, createVars
<1>3. ASSUME NEW v \in Settlers
      PROVE  SettlerAgrees(v)'
  <2>1. wtx'[v] = IF v = w THEN t ELSE wtx[v]
    BY <1>t DEF StoreTypeOK
  <2> QED
    BY <1>t, <2>1 DEF SettlerAgrees, Agrees
<1> QED
  BY <1>1, <1>2, <1>3

(* COMMIT publishes what the buffer agreed to. *)
LEMMA PublishKeeps ==
  ASSUME IInv, NEW w \in Settlers, Publish(w), UNCHANGED createVars, faults' \in 0..MaxFaults
  PROVE  /\ StoreTypeOK' /\ CreateTypeOK'
         /\ \A x \in Refunds : RequestAgrees(x)'
         /\ \A v \in Settlers : SettlerAgrees(v)'
         /\ chan' = chan
<1>t. /\ StoreTypeOK /\ CreateTypeOK /\ SyncTypeOK /\ CallbackTypeOK
      /\ \A x \in Refunds : RequestAgrees(x)
      /\ \A v \in Settlers : SettlerAgrees(v)
      /\ \A y \in Queries : QueryAgrees(y)
      /\ \A e \in Deliveries : DeliveryAgrees(e)
  BY DEF IInv, TypeOK
<1> HIDE DEF IInv
<1> DEFINE b == wtx[w]
<1>1. /\ b \in RefundTx
      /\ chan' = chan /\ req' = req
      /\ wtx' = [wtx EXCEPT ![w] = NoTx]
      /\ refund' = IF b.st = "keep" THEN refund ELSE [refund EXCEPT ![b.ref] = b.st]
      /\ entries' = IF b.led THEN [entries EXCEPT ![b.ref] = @ + 1] ELSE entries
      /\ order' = IF b.close THEN "REFUNDED" ELSE order
  BY <1>t DEF Publish, StoreTypeOK
<1>2. /\ b.st # "keep" \/ b.led => b.ref \in Refunds
      /\ b.st # "keep" => Agrees(b.st, b.ref)
      /\ b.led => chan[b.ref] = "SUCCESS"
      /\ b.st \in RefundStatus \cup {"keep"} /\ b.led \in BOOLEAN /\ b.close \in BOOLEAN
  BY <1>t, <1>1 DEF SettlerAgrees, RefundTx
<1> HIDE DEF b
<1>3. StoreTypeOK' /\ CreateTypeOK'
  BY <1>t, <1>1, <1>2, NoTxType DEF StoreTypeOK, CreateTypeOK, createVars
<1>4. ASSUME NEW x \in Refunds
      PROVE  RequestAgrees(x)'
  <2>1. refund'[x] = IF b.st # "keep" /\ x = b.ref THEN b.st ELSE refund[x]
    BY <1>t, <1>1 DEF StoreTypeOK
  <2>2. entries'[x] > 0 => entries[x] > 0 \/ (b.led /\ x = b.ref)
    BY <1>t, <1>1, <1>2 DEF StoreTypeOK
  <2> QED
    BY <1>t, <1>1, <1>2, <2>1, <2>2 DEF RequestAgrees, Agrees, createVars, Failed, NotMoved
<1>5. ASSUME NEW v \in Settlers
      PROVE  SettlerAgrees(v)'
  <2>1. wtx'[v] = IF v = w THEN NoTx ELSE wtx[v]
    BY <1>t, <1>1 DEF StoreTypeOK
  <2> QED
    BY <1>t, <1>1, <2>1 DEF SettlerAgrees, Agrees, NoTx
<1> QED
  BY <1>1, <1>3, <1>4, <1>5

(* Every statement of a refund query keeps the invariant. *)
LEMMA QueryKeeps ==
  ASSUME IInv, NEW q \in Queries, UNCHANGED <<createVars, callbackVars>>,
         \/ \E r \in Refunds : queryRefund(q, r)
         \/ QueryStep(q) \/ QueryFault(q)
  PROVE  IInv'
<1>t. /\ StoreTypeOK /\ CreateTypeOK /\ SyncTypeOK /\ CallbackTypeOK
      /\ \A x \in Refunds : RequestAgrees(x)
      /\ \A v \in Settlers : SettlerAgrees(v)
      /\ \A y \in Queries : QueryAgrees(y)
      /\ \A e \in Deliveries : DeliveryAgrees(e)
  BY DEF IInv, TypeOK
<1> HIDE DEF IInv
<1>s. q \in Settlers
  BY SyncAssumption
<1>d. ASSUME chan' = chan
      PROVE  CallbackTypeOK' /\ (\A d \in Deliveries : DeliveryAgrees(d)')
  BY <1>t, <1>d DEF callbackVars, CallbackTypeOK, DeliveryAgrees
<1>u. ASSUME UNCHANGED storeVars
      PROVE  /\ StoreTypeOK' /\ CreateTypeOK' /\ chan' = chan /\ wtx' = wtx
             /\ \A x \in Refunds : RequestAgrees(x)'
             /\ \A v \in Settlers : SettlerAgrees(v)'
  BY <1>t, <1>u
  DEF storeVars, createVars, StoreTypeOK, CreateTypeOK, RequestAgrees, SettlerAgrees, Agrees
<1>q. query[q] \in Query
  BY <1>t DEF SyncTypeOK
(* Only q's own place changes. *)
<1>o. ASSUME NEW c \in Query, query' = [query EXCEPT ![q] = c], chan' = chan,
             \A v \in Settlers \ {q} : wtx'[v] = wtx[v],
             c.pc # "idle" =>
               /\ c.ref \in Refunds /\ c.ans \in RefundStatus /\ Agrees(c.ans, c.ref)
               /\ c.pc = "lookup" => c.ans = "REFUND_SUCCESS" /\ wtx'[q].ref = c.ref
      PROVE  SyncTypeOK' /\ (\A y \in Queries : QueryAgrees(y)')
  <2>1. SyncTypeOK'
    BY <1>t, <1>o DEF SyncTypeOK
  <2>2. ASSUME NEW y \in Queries
        PROVE  QueryAgrees(y)'
    <3>1. query'[y] = IF y = q THEN c ELSE query[y]
      BY <1>t, <1>o DEF SyncTypeOK
    <3>2. y # q => wtx'[y] = wtx[y]
      BY <1>o, SyncAssumption
    <3> QED
      BY <1>t, <1>o, <3>1, <3>2 DEF QueryAgrees, At, Agrees
  <2> QED
    BY <2>1, <2>2
<1>i. IdleQuery \in Query /\ IdleQuery.pc = "idle"
  BY DEF IdleQuery, Query, QueryPc
(* A query that goes on keeps its refund and its answer. *)
<1>a. ASSUME NEW k \in QueryPc, ~At(q, "idle")
      PROVE  /\ [query[q] EXCEPT !.pc = k] \in Query
             /\ [query[q] EXCEPT !.pc = k].pc = k
             /\ [query[q] EXCEPT !.pc = k].ref = query[q].ref
             /\ [query[q] EXCEPT !.pc = k].ans = query[q].ans
             /\ Advance(q, k) => query' = [query EXCEPT ![q] = [query[q] EXCEPT !.pc = k]]
             /\ query[q].ref \in Refunds /\ query[q].ans \in RefundStatus
             /\ Agrees(query[q].ans, query[q].ref)
  BY <1>t, <1>q, <1>a DEF Query, Advance, QueryAgrees
<1>w. wtx[q] \in RefundTx
  BY <1>t, <1>s DEF StoreTypeOK
<1>1. ASSUME NEW r \in Refunds, queryRefund(q, r)
      PROVE  IInv'
  <2> DEFINE c == [pc |-> "read", ref |-> r, ans |-> mapRefundStatus(chan[r])]
  <2>1. c \in Query /\ c.ans \in RefundStatus /\ Agrees(c.ans, r)
    BY <1>1, MappedStatus DEF queryRefund, Query, QueryPc, Agrees
  <2>2. UNCHANGED storeVars /\ query' = [query EXCEPT ![q] = c]
    BY <1>1 DEF queryRefund
  <2>3. SyncTypeOK' /\ (\A y \in Queries : QueryAgrees(y)')
    BY <1>o, <1>u, <2>1, <2>2
  <2> QED
    BY <1>d, <1>u, <2>2, <2>3 DEF IInv, TypeOK
<1>2. ASSUME ReadRow(q) \/ SumSettled(q)
      PROVE  IInv'
  <2>1. UNCHANGED storeVars /\ ~At(q, "idle")
    BY <1>2 DEF ReadRow, SumSettled, At
  <2>2. PICK k \in {"write", "order", "commit"} : EndQuery(q) \/ Advance(q, k)
    BY <1>2 DEF ReadRow, SumSettled
  <2>3. SyncTypeOK' /\ (\A y \in Queries : QueryAgrees(y)')
    <3>1. CASE EndQuery(q)
      BY <1>o, <1>u, <1>i, <2>1, <3>1 DEF EndQuery
    <3>2. CASE Advance(q, k)
      <4>1. k \in QueryPc
        BY DEF QueryPc
      <4> QED
        BY <1>o, <1>u, <1>a, <2>1, <2>2, <3>2, <4>1
    <3> QED
      BY <2>2, <3>1, <3>2
  <2> QED
    BY <1>d, <1>u, <2>1, <2>3 DEF IInv, TypeOK
<1>b. ASSUME NEW t \in RefundTx, NEW k \in {"lookup", "sum", "order", "commit"}, InTx(q, t), Advance(q, k),
             ~At(q, "idle"),
             t.st # "keep" => t.ref \in Refunds /\ Agrees(t.st, t.ref),
             t.led => t.ref \in Refunds /\ chan[t.ref] = "SUCCESS",
             k = "lookup" => query[q].ans = "REFUND_SUCCESS" /\ t.ref = query[q].ref
      PROVE  IInv'
  <2>1. /\ wtx' = [wtx EXCEPT ![q] = t] /\ wtx'[q] = t
        /\ UNCHANGED <<order, refund, req, entries, chan, createVars>>
        /\ faults' \in 0..MaxFaults
        /\ \A v \in Settlers \ {q} : wtx'[v] = wtx[v]
    BY <1>b, <1>t, <1>s DEF InTx, StoreTypeOK
  <2>2. /\ StoreTypeOK' /\ CreateTypeOK'
        /\ \A x \in Refunds : RequestAgrees(x)'
        /\ \A v \in Settlers : SettlerAgrees(v)'
    BY <1>b, <1>s, <2>1, BufferKeeps
  <2>3. k \in QueryPc /\ k # "idle"
    BY DEF QueryPc
  <2> DEFINE c == [query[q] EXCEPT !.pc = k]
  <2>4. /\ c \in Query /\ query' = [query EXCEPT ![q] = c]
        /\ c.pc = k /\ c.ref = query[q].ref /\ c.ans = query[q].ans
        /\ c.ref \in Refunds /\ c.ans \in RefundStatus /\ Agrees(c.ans, c.ref)
    BY <1>a, <1>b, <2>3
  <2> HIDE DEF c
  <2>5. SyncTypeOK' /\ (\A y \in Queries : QueryAgrees(y)')
    BY <1>o, <1>b, <2>1, <2>4
  <2> QED
    BY <1>d, <2>1, <2>2, <2>5 DEF IInv, TypeOK
<1>3. ASSUME WriteRow(q)
      PROVE  IInv'
  <2> DEFINE t == [NoTx EXCEPT !.ref = query[q].ref, !.st = query[q].ans]
             k == IF query[q].ans = "REFUND_SUCCESS" THEN "lookup" ELSE "commit"
  <2>1. ~At(q, "idle") /\ InTx(q, t) /\ Advance(q, k)
    BY <1>3 DEF WriteRow, At
  <2>2. /\ query[q].ref \in Refunds /\ query[q].ans \in RefundStatus
        /\ Agrees(query[q].ans, query[q].ref)
    BY <1>t, <2>1 DEF QueryAgrees
  <2>3. /\ t \in RefundTx /\ t.ref = query[q].ref /\ t.st = query[q].ans /\ t.led = FALSE
        /\ k \in {"lookup", "commit"} /\ (k = "lookup" => query[q].ans = "REFUND_SUCCESS")
    BY <2>2 DEF NoTx, RefundTx
  <2> HIDE DEF t, k
  <2> QED
    BY <1>b, <2>1, <2>2, <2>3
<1>4. ASSUME insertLedgerEntry(q)
      PROVE  IInv'
  <2> DEFINE found == \E o \in Refunds : entries[o] > 0 /\ req[o].pay = req[query[q].ref].pay
  <2>1. At(q, "lookup") /\ ~At(q, "idle") /\ InTx(q, [wtx[q] EXCEPT !.led = ~found])
    BY <1>4 DEF insertLedgerEntry, At
  <2> HIDE DEF found
  <2>2. (~found) \in BOOLEAN
    OBVIOUS
  <2> DEFINE t == [wtx[q] EXCEPT !.led = ~found]
  <2>3. PICK k \in {"sum", "commit"} : Advance(q, k)
    BY <1>4 DEF insertLedgerEntry
  <2>4. wtx[q].ref \in Refunds /\ chan[wtx[q].ref] = "SUCCESS"
    BY <1>t, <2>1 DEF QueryAgrees, Agrees
  <2>5. t \in RefundTx /\ t.ref = wtx[q].ref /\ t.st = wtx[q].st
    BY <1>w, <2>2 DEF RefundTx
  <2>6. t.st # "keep" => Agrees(t.st, t.ref)
    BY <1>t, <1>s, <2>5 DEF SettlerAgrees
  <2> HIDE DEF t
  <2> QED
    BY <1>b, <2>1, <2>3, <2>4, <2>5, <2>6 DEF t
<1>5. ASSUME CloseOrder(q)
      PROVE  IInv'
  <2> DEFINE t == [wtx[q] EXCEPT !.close = (order = "PAID")]
  <2>1. ~At(q, "idle") /\ InTx(q, t) /\ Advance(q, "commit")
    BY <1>5 DEF CloseOrder, At
  <2>2. t \in RefundTx /\ t.ref = wtx[q].ref /\ t.st = wtx[q].st /\ t.led = wtx[q].led
    BY <1>w DEF RefundTx
  <2>3. /\ t.st # "keep" => t.ref \in Refunds /\ Agrees(t.st, t.ref)
        /\ t.led => t.ref \in Refunds /\ chan[t.ref] = "SUCCESS"
    BY <1>t, <1>s, <2>2 DEF SettlerAgrees
  <2> HIDE DEF t
  <2> QED
    BY <1>b, <2>1, <2>2, <2>3
<1>6. ASSUME CommitQuery(q)
      PROVE  IInv'
  <2>1. /\ Publish(q) /\ query' = [query EXCEPT ![q] = IdleQuery]
        /\ faults' \in 0..MaxFaults
    BY <1>t, <1>6 DEF CommitQuery, EndQuery, StoreTypeOK
  <2>2. \A v \in Settlers \ {q} : wtx'[v] = wtx[v]
    BY <1>t, <2>1 DEF Publish, StoreTypeOK
  <2>3. /\ StoreTypeOK' /\ CreateTypeOK' /\ chan' = chan
        /\ \A x \in Refunds : RequestAgrees(x)'
        /\ \A v \in Settlers : SettlerAgrees(v)'
    BY <1>s, <2>1, PublishKeeps
  <2>4. SyncTypeOK' /\ (\A y \in Queries : QueryAgrees(y)')
    BY <1>o, <1>i, <2>1, <2>2, <2>3
  <2> QED
    BY <1>d, <2>3, <2>4 DEF IInv, TypeOK
<1>7. ASSUME QueryFault(q)
      PROVE  IInv'
  <2>1. /\ wtx' = [wtx EXCEPT ![q] = NoTx] /\ query' = [query EXCEPT ![q] = IdleQuery]
        /\ UNCHANGED <<order, refund, req, entries, chan>>
        /\ faults' \in 0..MaxFaults
    BY <1>t, <1>7, RefundStoreAssumption DEF QueryFault, Fault, UseFault, EndQuery, StoreTypeOK
  <2>2. \A v \in Settlers \ {q} : wtx'[v] = wtx[v]
    BY <1>t, <2>1 DEF StoreTypeOK
  <2>3. NoTx.st = "keep" /\ NoTx.led = FALSE
    BY DEF NoTx
  <2>4. /\ StoreTypeOK' /\ CreateTypeOK'
        /\ \A x \in Refunds : RequestAgrees(x)'
        /\ \A v \in Settlers : SettlerAgrees(v)'
    BY <1>s, <2>1, <2>3, NoTxType, BufferKeeps
  <2>5. SyncTypeOK' /\ (\A y \in Queries : QueryAgrees(y)')
    BY <1>o, <1>i, <2>1, <2>2
  <2> QED
    BY <1>d, <2>1, <2>4, <2>5 DEF IInv, TypeOK
<1> QED
  BY <1>1, <1>2, <1>3, <1>4, <1>5, <1>6, <1>7 DEF QueryStep

(* Every statement of a refund notification keeps the invariant. *)
LEMMA DeliveryKeeps ==
  ASSUME IInv, NEW d \in Deliveries, UNCHANGED <<createVars, query>>,
         \/ \E r \in Refunds : handleRefundCallback(d, r)
         \/ DeliveryStep(d) \/ DeliveryFault(d)
  PROVE  IInv'
<1>t. /\ StoreTypeOK /\ CreateTypeOK /\ SyncTypeOK /\ CallbackTypeOK
      /\ \A x \in Refunds : RequestAgrees(x)
      /\ \A v \in Settlers : SettlerAgrees(v)
      /\ \A y \in Queries : QueryAgrees(y)
      /\ \A e \in Deliveries : DeliveryAgrees(e)
  BY DEF IInv, TypeOK
<1> HIDE DEF IInv
<1>s. d \in Settlers /\ d \notin Queries /\ wtx[d] \in RefundTx
  BY <1>t, CallbackAssumption, RefundingAssumption DEF StoreTypeOK
<1>n. NoTx.st = "keep" /\ NoTx.led = FALSE
  BY DEF NoTx
(* Another settler's query is none of d's business. *)
<1>q. ASSUME chan' = chan, \A v \in Settlers \ {d} : wtx'[v] = wtx[v]
      PROVE  SyncTypeOK' /\ (\A y \in Queries : QueryAgrees(y)')
  BY <1>t, <1>s, <1>q, SyncAssumption DEF SyncTypeOK, QueryAgrees, At, Agrees
<1>c. ASSUME NEW k \in DeliveryPc, MoveTo(d, k), chan' = chan, carries' = carries,
             dpc[d] # "idle"
      PROVE  /\ dpc' \in [Deliveries -> DeliveryPc]
             /\ \A e \in Deliveries : DeliveryAgrees(e)'
  BY <1>t, <1>c DEF MoveTo, CallbackTypeOK, DeliveryAgrees
(* Steps that leave the rows and the buffers alone. *)
<1>u. ASSUME UNCHANGED storeVars
      PROVE  /\ StoreTypeOK' /\ CreateTypeOK' /\ SyncTypeOK' /\ chan' = chan
             /\ \A x \in Refunds : RequestAgrees(x)'
             /\ \A v \in Settlers : SettlerAgrees(v)'
             /\ \A y \in Queries : QueryAgrees(y)'
  <2>1. chan' = chan /\ wtx' = wtx
    BY <1>u DEF storeVars
  <2>2. /\ StoreTypeOK' /\ CreateTypeOK'
        /\ \A x \in Refunds : RequestAgrees(x)'
        /\ \A v \in Settlers : SettlerAgrees(v)'
    BY <1>t, <1>u
    DEF storeVars, createVars, StoreTypeOK, CreateTypeOK, RequestAgrees, SettlerAgrees,
        Agrees
  <2> QED
    BY <1>q, <2>1, <2>2
<1>1. ASSUME NEW r \in Refunds, handleRefundCallback(d, r)
      PROVE  IInv'
  <2>1. CallbackTypeOK' /\ (\A e \in Deliveries : DeliveryAgrees(e)')
    BY <1>t, <1>u, <1>1
    DEF handleRefundCallback, MoveTo, CallbackTypeOK, DeliveryAgrees, DeliveryPc, Failed
  <2> QED
    BY <1>1, <1>u, <2>1 DEF handleRefundCallback, IInv, TypeOK
(* The reservation, the place and the answers of d. *)
<1>2. ASSUME \/ LookupReservation(d) \/ dropUnfinalizedReservation(d) \/ AuditDuplicate(d)
             \/ ReserveKey(d) \/ ReadRefund(d) \/ SumInTx(d)
      PROVE  IInv'
  <2>1. UNCHANGED storeVars /\ carries' = carries /\ dpc[d] # "idle"
    BY <1>2
    DEF LookupReservation, dropUnfinalizedReservation, AuditDuplicate, ReserveKey,
        ReadRefund, SumInTx
  <2>2. \E k \in {"idle", "drop", "audit", "reserve", "read", "cas", "order", "finalize"} : MoveTo(d, k)
    BY <1>2
    DEF LookupReservation, dropUnfinalizedReservation, AuditDuplicate, ReserveKey,
        ReadRefund, SumInTx, Ack, Fail
  <2>3. PICK k \in DeliveryPc : MoveTo(d, k)
    BY <2>2 DEF DeliveryPc
  <2>4. acked' \subseteq Refunds
    <3>1. carries[d] \in Refunds
      BY <1>t, <2>1 DEF DeliveryAgrees
    <3>2. acked' = acked \/ acked' = acked \cup {carries[d]}
      BY <1>2
      DEF LookupReservation, dropUnfinalizedReservation, AuditDuplicate, ReserveKey,
          ReadRefund, SumInTx, Ack, Fail
    <3> QED
      BY <1>t, <3>1, <3>2 DEF CallbackTypeOK
  <2>5. res' \in [Refunds -> [owner: Deliveries \cup {NoOwner}, done: BOOLEAN]]
    <3>1. \/ res' = res \/ res' = [res EXCEPT ![carries[d]] = NoRes]
          \/ res' = [res EXCEPT ![carries[d]] = [owner |-> d, done |-> FALSE]]
      BY <1>2
      DEF LookupReservation, dropUnfinalizedReservation, AuditDuplicate, ReserveKey,
          ReadRefund, SumInTx
    <3> DEFINE R == [owner: Deliveries \cup {NoOwner}, done: BOOLEAN]
    <3>2. NoRes \in R /\ [owner |-> d, done |-> FALSE] \in R /\ res \in [Refunds -> R]
      BY <1>t DEF CallbackTypeOK, NoRes
    <3> HIDE DEF R
    <3>3. res' \in [Refunds -> R]
      BY <3>1, <3>2
    <3> QED
      BY <3>3 DEF R
  <2> QED
    BY <1>t, <1>u, <1>c, <2>1, <2>3, <2>4, <2>5 DEF CallbackTypeOK, IInv, TypeOK
(* Steps that change d's buffer only. *)
<1>b. ASSUME NEW t \in RefundTx, NEW k \in DeliveryPc, InTx(d, t), MoveTo(d, k),
             dpc[d] # "idle", carries' = carries, res' = res,
             acked' = acked \/ acked' = acked \cup {carries[d]},
             t.st # "keep" => t.ref \in Refunds /\ Agrees(t.st, t.ref),
             t.led => t.ref \in Refunds /\ chan[t.ref] = "SUCCESS"
      PROVE  IInv'
  <2>1. /\ wtx' = [wtx EXCEPT ![d] = t]
        /\ UNCHANGED <<order, refund, req, entries, chan, createVars>>
        /\ faults' \in 0..MaxFaults
        /\ \A v \in Settlers \ {d} : wtx'[v] = wtx[v]
    BY <1>b, <1>t, <1>s DEF InTx, StoreTypeOK
  <2>2. /\ StoreTypeOK' /\ CreateTypeOK'
        /\ \A x \in Refunds : RequestAgrees(x)'
        /\ \A v \in Settlers : SettlerAgrees(v)'
    BY <1>b, <1>s, <2>1, BufferKeeps
  <2>3. CallbackTypeOK' /\ (\A e \in Deliveries : DeliveryAgrees(e)')
    BY <1>t, <1>b, <1>c, <2>1 DEF CallbackTypeOK, DeliveryAgrees
  <2> QED
    BY <1>q, <2>1, <2>2, <2>3 DEF IInv, TypeOK
<1>3. ASSUME CasRefund(d)
      PROVE  IInv'
  <2> DEFINE st == Notified(d)
             t == [NoTx EXCEPT !.ref = carries[d], !.st = st, !.led = (st = "REFUND_SUCCESS")]
  <2>1. /\ dpc[d] # "idle" /\ carries' = carries /\ res' = res
        /\ \/ Rollback(d) /\ Ack(d)
           \/ InTx(d, t) /\ UNCHANGED acked /\ (\E k \in {"sum", "finalize"} : MoveTo(d, k))
    BY <1>3 DEF CasRefund
  <2>2. carries[d] \in Refunds /\ chan[carries[d]] \in Failed \cup {"SUCCESS"}
    BY <1>t, <2>1 DEF DeliveryAgrees
  <2>3. /\ st \in RefundStatus
        /\ (st = "REFUND_SUCCESS") <=> (chan[carries[d]] = "SUCCESS")
        /\ (st = "REFUND_FAIL") <=> (chan[carries[d]] \in Failed)
    BY <2>2, MappedStatus DEF Notified, Failed, WechatRefundState
  <2> HIDE DEF st
  <2>4. /\ t \in RefundTx /\ t.ref = carries[d] /\ t.st = st
        /\ t.led <=> st = "REFUND_SUCCESS"
    BY <2>2, <2>3 DEF NoTx, RefundTx
  <2>5. Agrees(st, carries[d])
    BY <2>2, <2>3 DEF Agrees
  <2> HIDE DEF t
  <2>6. CASE Rollback(d) /\ Ack(d)
    BY <1>b, <1>n, <2>1, <2>6, NoTxType DEF Rollback, Ack, DeliveryPc
  <2>7. CASE InTx(d, t) /\ UNCHANGED acked /\ (\E k \in {"sum", "finalize"} : MoveTo(d, k))
    <3>1. PICK k \in DeliveryPc : MoveTo(d, k)
      BY <2>7 DEF DeliveryPc
    <3> QED
      BY <1>b, <2>1, <2>2, <2>3, <2>4, <2>5, <2>7, <3>1
  <2> QED
    BY <2>1, <2>6, <2>7
<1>4. ASSUME CloseOrderInTx(d)
      PROVE  IInv'
  <2> DEFINE t == [wtx[d] EXCEPT !.close = (order = "PAID")]
  <2>1. /\ dpc[d] # "idle" /\ carries' = carries /\ res' = res /\ acked' = acked
        /\ InTx(d, t) /\ MoveTo(d, "finalize")
    BY <1>4 DEF CloseOrderInTx
  <2>2. t \in RefundTx /\ t.ref = wtx[d].ref /\ t.st = wtx[d].st /\ t.led = wtx[d].led
    BY <1>s DEF RefundTx
  <2>3. /\ t.st # "keep" => t.ref \in Refunds /\ Agrees(t.st, t.ref)
        /\ t.led => t.ref \in Refunds /\ chan[t.ref] = "SUCCESS"
    BY <1>t, <1>s, <2>2 DEF SettlerAgrees
  <2> HIDE DEF t
  <2> QED
    BY <1>b, <2>1, <2>2, <2>3 DEF DeliveryPc
<1>5. ASSUME FinalizeInTx(d)
      PROVE  IInv'
  <2> DEFINE t == [wtx[d] EXCEPT !.fin = TRUE]
  <2>1. /\ dpc[d] # "idle" /\ carries' = carries /\ res' = res /\ acked' = acked
        /\ \/ InTx(d, t) /\ MoveTo(d, "commit")
           \/ Rollback(d) /\ MoveTo(d, "idle")
    BY <1>5 DEF FinalizeInTx, Fail
  <2>2. t \in RefundTx /\ t.ref = wtx[d].ref /\ t.st = wtx[d].st /\ t.led = wtx[d].led
    BY <1>s DEF RefundTx
  <2>3. /\ t.st # "keep" => t.ref \in Refunds /\ Agrees(t.st, t.ref)
        /\ t.led => t.ref \in Refunds /\ chan[t.ref] = "SUCCESS"
    BY <1>t, <1>s, <2>2 DEF SettlerAgrees
  <2> HIDE DEF t
  <2>4. CASE InTx(d, t) /\ MoveTo(d, "commit")
    BY <1>b, <2>1, <2>2, <2>3, <2>4 DEF DeliveryPc
  <2>5. CASE Rollback(d) /\ MoveTo(d, "idle")
    BY <1>b, <1>n, <2>1, <2>5, NoTxType DEF Rollback, DeliveryPc
  <2> QED
    BY <2>1, <2>4, <2>5
<1>6. ASSUME CommitSettlement(d)
      PROVE  IInv'
  <2>1. /\ Publish(d) /\ MoveTo(d, "idle") /\ dpc[d] # "idle" /\ carries' = carries
        /\ faults' \in 0..MaxFaults
        /\ res' = [res EXCEPT ![carries[d]].done = TRUE]
        /\ acked' = acked \/ acked' = acked \cup {carries[d]}
    BY <1>t, <1>6, RefundStoreAssumption DEF CommitSettlement, Ack, Fail, UseFault, StoreTypeOK
  <2>2. \A v \in Settlers \ {d} : wtx'[v] = wtx[v]
    BY <1>t, <2>1 DEF Publish, StoreTypeOK
  <2>3. /\ StoreTypeOK' /\ CreateTypeOK' /\ chan' = chan
        /\ \A x \in Refunds : RequestAgrees(x)'
        /\ \A v \in Settlers : SettlerAgrees(v)'
    BY <1>s, <2>1, PublishKeeps
  <2>4. /\ carries[d] \in Refunds
        /\ [res[carries[d]] EXCEPT !.done = TRUE] \in [owner: Deliveries \cup {NoOwner}, done: BOOLEAN]
    BY <1>t, <2>1 DEF DeliveryAgrees, CallbackTypeOK
  <2>5. /\ res' \in [Refunds -> [owner: Deliveries \cup {NoOwner}, done: BOOLEAN]]
        /\ acked' \subseteq Refunds
    BY <1>t, <2>1, <2>4 DEF CallbackTypeOK
  <2>6. CallbackTypeOK' /\ (\A e \in Deliveries : DeliveryAgrees(e)')
    BY <1>t, <1>c, <2>1, <2>3, <2>5 DEF CallbackTypeOK, DeliveryPc
  <2> QED
    BY <1>q, <2>2, <2>3, <2>6 DEF IInv, TypeOK
<1>7. ASSUME DeliveryFault(d)
      PROVE  IInv'
  <2>1. /\ wtx' = [wtx EXCEPT ![d] = NoTx]
        /\ UNCHANGED <<order, refund, req, entries, chan, createVars>>
        /\ faults' \in 0..MaxFaults
        /\ MoveTo(d, "idle") /\ dpc[d] # "idle" /\ UNCHANGED <<res, carries, acked>>
    BY <1>t, <1>7, RefundStoreAssumption DEF DeliveryFault, Fault, Fail, UseFault, StoreTypeOK
  <2>2. \A v \in Settlers \ {d} : wtx'[v] = wtx[v]
    BY <1>t, <2>1 DEF StoreTypeOK
  <2>3. /\ StoreTypeOK' /\ CreateTypeOK'
        /\ \A x \in Refunds : RequestAgrees(x)'
        /\ \A v \in Settlers : SettlerAgrees(v)'
    BY <1>s, <1>n, <2>1, NoTxType, BufferKeeps
  <2>4. CallbackTypeOK' /\ (\A e \in Deliveries : DeliveryAgrees(e)')
    BY <1>t, <1>c, <2>1 DEF CallbackTypeOK, DeliveryPc
  <2> QED
    BY <1>q, <2>1, <2>2, <2>3, <2>4 DEF IInv, TypeOK
<1> QED
  BY <1>1, <1>2, <1>3, <1>4, <1>5, <1>6, <1>7 DEF DeliveryStep

(* A restart forgets the handlers and their buffers. *)
LEMMA RestartKeeps ==
  ASSUME IInv, Restart
  PROVE  IInv'
<1>t. /\ StoreTypeOK /\ CreateTypeOK /\ SyncTypeOK /\ CallbackTypeOK
      /\ \A x \in Refunds : RequestAgrees(x)
      /\ \A v \in Settlers : SettlerAgrees(v)
      /\ \A y \in Queries : QueryAgrees(y)
      /\ \A e \in Deliveries : DeliveryAgrees(e)
  BY DEF IInv, TypeOK
<1> HIDE DEF IInv
<1>1. StoreTypeOK' /\ CreateTypeOK' /\ SyncTypeOK' /\ CallbackTypeOK'
  BY <1>t, NoTxType, RefundStoreAssumption
  DEF Restart, UseFault, StoreTypeOK, CreateTypeOK, SyncTypeOK, CallbackTypeOK, RequestPc,
      Query, QueryPc, IdleQuery, DeliveryPc
<1>2. \A x \in Refunds : RequestAgrees(x)'
  BY <1>t DEF Restart, RequestAgrees, Agrees
<1>3. \A v \in Settlers : SettlerAgrees(v)'
  BY DEF Restart, SettlerAgrees, NoTx
<1>4. \A y \in Queries : QueryAgrees(y)'
  BY DEF Restart, QueryAgrees, At, IdleQuery
<1>5. \A e \in Deliveries : DeliveryAgrees(e)'
  BY DEF Restart, DeliveryAgrees
<1> QED
  BY <1>1, <1>2, <1>3, <1>4, <1>5 DEF IInv, TypeOK

(* A step that changes nothing. *)
LEMMA StutterKeeps ==
  ASSUME IInv, UNCHANGED vars
  PROVE  IInv'
<1>t. /\ StoreTypeOK /\ CreateTypeOK /\ SyncTypeOK /\ CallbackTypeOK
      /\ \A x \in Refunds : RequestAgrees(x)
      /\ \A v \in Settlers : SettlerAgrees(v)
      /\ \A y \in Queries : QueryAgrees(y)
      /\ \A e \in Deliveries : DeliveryAgrees(e)
  BY DEF IInv, TypeOK
<1> HIDE DEF IInv
<1>1. TypeOK'
  BY <1>t DEF vars, storeVars, createVars, callbackVars, TypeOK, StoreTypeOK, CreateTypeOK,
     SyncTypeOK, CallbackTypeOK
<1>2. /\ \A x \in Refunds : RequestAgrees(x)'
      /\ \A v \in Settlers : SettlerAgrees(v)'
  BY <1>t DEF vars, storeVars, createVars, RequestAgrees, SettlerAgrees, Agrees
<1>3. /\ \A y \in Queries : QueryAgrees(y)'
      /\ \A e \in Deliveries : DeliveryAgrees(e)'
  BY <1>t DEF vars, storeVars, callbackVars, QueryAgrees, DeliveryAgrees, Agrees, At
<1> QED
  BY <1>1, <1>2, <1>3 DEF IInv

----------------------------------------------------------------------------
(* Rows, buffers, answers and deliveries agree with the channel in every
   reachable state. *)
THEOREM RefundsAgree == Spec => []IInv
<1>1. Init => IInv
  BY InitIInv
<1>2. ASSUME IInv, [Next]_vars
      PROVE  IInv'
  <2>1. CASE CreateNext /\ UNCHANGED <<query, callbackVars>>
    BY <1>2, <2>1, RequestKeeps DEF CreateNext
  <2>2. CASE SyncNext /\ UNCHANGED <<createVars, callbackVars>>
    BY <1>2, <2>2, QueryKeeps DEF SyncNext
  <2>3. CASE CallbackNext /\ UNCHANGED <<createVars, query>>
    BY <1>2, <2>3, DeliveryKeeps DEF CallbackNext
  <2>4. CASE Restart
    BY <1>2, <2>4, RestartKeeps
  <2>5. CASE UNCHANGED vars
    BY <1>2, <2>5, StutterKeeps
  <2> QED
    BY <1>2, <2>1, <2>2, <2>3, <2>4, <2>5 DEF Next
<1> QED
  BY <1>1, <1>2, PTL DEF Spec

(* Type correctness. *)
THEOREM RefundTypes == Spec => []TypeOK
<1>1. IInv => TypeOK
  BY DEF IInv
<1> QED
  BY <1>1, RefundsAgree, PTL

(* On WeChat a refund booked REFUND_FAIL did not happen and will not, whether
   the request's answer, a notification or a query booked it
   (refundCertainlyDidNotHappen). *)
THEOREM FailedRefundsDidNotHappen ==
  ASSUME Channel = "wechat"
  PROVE  Spec => []FailMeansNotRefunded
<1>1. IInv => FailMeansNotRefunded
  BY DEF IInv, RequestAgrees, FailMeansNotRefunded, NotMoved
<1> QED
  BY <1>1, RefundsAgree, PTL

(* A REFUND ledger entry, posted by a notification or by a query, stands for
   money the channel returned. *)
THEOREM EntriesAreMoney == Spec => []EntryMeansMoneyBack
<1>1. IInv => EntryMeansMoneyBack
  BY DEF IInv, RequestAgrees, EntryMeansMoneyBack
<1> QED
  BY <1>1, RefundsAgree, PTL

----------------------------------------------------------------------------
(* Stamped refunds and held rows *)

(* The parts of both invariants. *)
LEMMA BookedFacts ==
  ASSUME IInv, BookedInv
  PROVE  /\ StoreTypeOK /\ CreateTypeOK /\ SyncTypeOK /\ CallbackTypeOK
         /\ \A x \in Refunds : RequestAgrees(x) /\ RowHolds(x)
         /\ \A v \in Settlers : SettlerAgrees(v)
         /\ \A e \in Deliveries : DeliveryAgrees(e) /\ DeliveryHolds(e)
         /\ \A q \in Queries : QueryAgrees(q) /\ QueryHolds(q)
         /\ OneHolder
BY DEF IInv, TypeOK, BookedInv

(* A delivery inside its transaction has the status the channel proved. *)
LEMMA HeldStatus ==
  ASSUME IInv, BookedInv, NEW d \in Deliveries, dpc[d] \in Settling
  PROVE  /\ d \in Settlers /\ carries[d] \in Refunds
         /\ wtx[d].ref = carries[d] /\ wtx[d].st \in {"REFUND_SUCCESS", "REFUND_FAIL"}
         /\ wtx[d].st = "REFUND_SUCCESS" <=> chan[carries[d]] = "SUCCESS"
         /\ wtx[d].led <=> chan[carries[d]] = "SUCCESS"
         /\ refund[carries[d]] \in InFlight
<1>1. DeliveryAgrees(d) /\ DeliveryHolds(d) /\ dpc[d] # "idle"
  BY BookedFacts DEF Settling
<1>2. chan[carries[d]] \in Failed \cup {"SUCCESS"} /\ carries[d] \in Refunds
  BY <1>1 DEF DeliveryAgrees
<1>3. chan[carries[d]] \in WechatRefundState
  BY <1>2 DEF Failed, WechatRefundState
<1>4. /\ wtx[d].st = mapRefundStatus(chan[carries[d]])
      /\ wtx[d].led = (mapRefundStatus(chan[carries[d]]) = "REFUND_SUCCESS")
  BY <1>1 DEF DeliveryHolds, Notified
<1>5. /\ wtx[d].st \in {"REFUND_SUCCESS", "REFUND_FAIL"}
      /\ wtx[d].st = "REFUND_SUCCESS" <=> chan[carries[d]] = "SUCCESS"
  BY <1>2, <1>3, <1>4, MappedStatus
<1> QED
  BY <1>1, <1>2, <1>4, <1>5, CallbackAssumption DEF DeliveryHolds

(* The empty tables satisfy it. *)
LEMMA InitBooked == Init => BookedInv
<1> SUFFICES ASSUME Init PROVE BookedInv
  OBVIOUS
<1> USE DEF Init, StoreInit, CreateInit, SyncInit, CallbackInit
<1>1. \A r \in Refunds : RowHolds(r)
  BY DEF RowHolds, NoRes
<1>2. \A d \in Deliveries : DeliveryHolds(d)
  BY CallbackAssumption DEF DeliveryHolds, Settling
<1>3. \A q \in Queries : QueryHolds(q)
  BY SyncAssumption DEF QueryHolds, At, IdleQuery, NoTx
<1>4. OneHolder
  BY DEF OneHolder, NoTx
<1> QED
  BY <1>1, <1>2, <1>3, <1>4 DEF BookedInv

(* A row another handler writes is not one a delivery holds, so that what a
   delivery and a query hold is kept. *)
LEMMA HoldersKept ==
  ASSUME IInv, BookedInv, NEW W,
         \A x \in Refunds : chan[x] \in Failed \cup {"SUCCESS"} => chan'[x] = chan[x],
         \A x \in Refunds : refund[x] # "none" => refund'[x] # "none",
         \A e \in Deliveries \ W :
           /\ dpc'[e] = dpc[e] /\ carries'[e] = carries[e] /\ wtx'[e] = wtx[e]
           /\ dpc[e] \in Settling => refund'[carries[e]] = refund[carries[e]],
         \A q \in Queries \ W : query'[q] = query[q] /\ wtx'[q] = wtx[q]
  PROVE  /\ \A e \in Deliveries \ W : DeliveryHolds(e)'
         /\ \A q \in Queries \ W : QueryHolds(q)'
<1>1. ASSUME NEW e \in Deliveries \ W PROVE DeliveryHolds(e)'
  <2>1. DeliveryAgrees(e) /\ DeliveryHolds(e)
    BY BookedFacts
  <2>2. CASE dpc[e] = "idle"
    BY <2>1, <2>2 DEF DeliveryHolds, Settling
  <2>3. CASE dpc[e] # "idle"
    <3>1. carries[e] \in Refunds /\ chan'[carries[e]] = chan[carries[e]]
      BY <2>1, <2>3 DEF DeliveryAgrees
    <3> QED
      BY <2>1, <3>1 DEF DeliveryHolds, Notified
  <2> QED
    BY <2>2, <2>3
<1>2. ASSUME NEW q \in Queries \ W PROVE QueryHolds(q)'
  <2>1. QueryAgrees(q) /\ QueryHolds(q)
    BY BookedFacts
  <2>2. ~At(q, "idle") => query[q].ref \in Refunds
    BY <2>1 DEF QueryAgrees
  <2> QED
    BY <2>1, <2>2 DEF QueryHolds, At
<1> QED
  BY <1>1, <1>2

(* What the statements of a request have in common: they write their own row
   only, and only while it is absent, or in flight and held by nobody. *)
LEMMA RequestWriteBooked ==
  ASSUME IInv, BookedInv, NEW r \in Refunds,
         UNCHANGED <<wtx, entries, query, callbackVars>>,
         \A x \in Refunds \ {r} : refund'[x] = refund[x] /\ rpc'[x] = rpc[x] /\ chan'[x] = chan[x],
         chan[r] \notin {"none", "sent", "PROCESSING"} => chan'[r] = chan[r],
         refund'[r] = refund[r] \/ refund[r] = "none" \/ (refund[r] \in InFlight /\ RowFree(r)),
         refund[r] # "none" => refund'[r] # "none",
         rpc'[r] \in {"new", "order", "same", "progress", "lock", "sum", "commit"} => refund'[r] = "none",
         rpc'[r] = "call" \/ chan'[r] # "none" => refund'[r] # "none"
  PROVE  /\ BookedInv'
         /\ \A x \in Refunds : refund[x] = "REFUND_SUCCESS" => refund'[x] = "REFUND_SUCCESS"
<1>t. /\ \A x \in Refunds : RowHolds(x)
      /\ OneHolder
  BY BookedFacts
<1>u. wtx' = wtx /\ entries' = entries /\ query' = query /\ res' = res /\ dpc' = dpc /\ carries' = carries
  BY DEF callbackVars
<1>1. \A x \in Refunds : refund[x] = "REFUND_SUCCESS" => refund'[x] = "REFUND_SUCCESS"
  BY DEF InFlight
<1>2. \A x \in Refunds : chan[x] \in Failed \cup {"SUCCESS"} => chan'[x] = chan[x]
  BY DEF Failed
<1>3. \A x \in Refunds : RowHolds(x)'
  BY <1>t, <1>u, <1>2 DEF RowHolds, Failed
<1>4. \A e \in Deliveries : dpc[e] \in Settling => refund'[carries[e]] = refund[carries[e]]
  BY HeldStatus DEF RowFree, InFlight
<1>5. /\ \A e \in Deliveries : DeliveryHolds(e)'
      /\ \A q \in Queries : QueryHolds(q)'
  <2>1. \A x \in Refunds : refund[x] # "none" => refund'[x] # "none"
    OBVIOUS
  <2>2. /\ \A e \in Deliveries \ {} : DeliveryHolds(e)'
        /\ \A q \in Queries \ {} : QueryHolds(q)'
    BY <1>u, <1>2, <1>4, <2>1, HoldersKept
  <2> QED
    BY <2>2
<1>6. OneHolder'
  BY <1>t, <1>u DEF OneHolder
<1> QED
  BY <1>1, <1>3, <1>5, <1>6 DEF BookedInv

(* Every statement of a request, and the channel's moves. *)
LEMMA RequestKeepsBooked ==
  ASSUME IInv, BookedInv, NEW r \in Refunds, UNCHANGED <<query, callbackVars>>,
         \/ \E p \in Payments, a \in Amounts : createRefund(r, p, a)
         \/ RequestStep(r) \/ CommitAnswerLost(r) \/ RequestFault(r)
         \/ ChannelMoves(r) /\ UNCHANGED createVars
  PROVE  /\ BookedInv'
         /\ \A x \in Refunds : refund[x] = "REFUND_SUCCESS" => refund'[x] = "REFUND_SUCCESS"
<1>t. StoreTypeOK /\ CreateTypeOK /\ RequestAgrees(r) /\ RowHolds(r)
  BY BookedFacts
<1> DEFINE Early == {"new", "order", "same", "progress", "lock", "sum", "commit"}
<1>h. /\ rpc[r] \in Early => refund[r] = "none"
      /\ rpc[r] = "call" \/ chan[r] # "none" => refund[r] # "none"
      /\ rpc[r] \in Early \cup {"call"} => chan[r] = "none"
  BY <1>t DEF RowHolds, RequestAgrees
<1>f. /\ chan \in [Refunds -> ChannelRefund] /\ rpc \in [Refunds -> RequestPc]
      /\ refund \in [Refunds -> RefundStatus \cup {"none"}]
  BY <1>t DEF StoreTypeOK, CreateTypeOK
(* Steps that write no row and send nothing. *)
<1>1. ASSUME NEW k, rpc' = [rpc EXCEPT ![r] = k], UNCHANGED <<wtx, entries, refund, chan>>,
             k \in Early => rpc[r] \in Early,
             k = "call" => rpc[r] = "call"
      PROVE  /\ BookedInv'
             /\ \A x \in Refunds : refund[x] = "REFUND_SUCCESS" => refund'[x] = "REFUND_SUCCESS"
  <2>1. rpc'[r] = k /\ (\A x \in Refunds \ {r} : rpc'[x] = rpc[x])
    BY <1>1, <1>f
  <2> QED
    BY <1>1, <1>h, <2>1, RequestWriteBooked
<1>2. ASSUME NEW p \in Payments, NEW a \in Amounts, createRefund(r, p, a)
      PROVE  /\ BookedInv'
             /\ \A x \in Refunds : refund[x] = "REFUND_SUCCESS" => refund'[x] = "REFUND_SUCCESS"
  <2>1. /\ rpc' = [rpc EXCEPT ![r] = "order"] /\ rpc[r] = "new"
        /\ UNCHANGED <<wtx, entries, refund, chan>>
    BY <1>2 DEF createRefund, Goto
  <2> QED
    BY <1>1, <2>1
<1>3. ASSUME \/ proceedOrderFlow(r) \/ proceedWithAmountCheck(r) \/ proceedWithInProgressCheck(r)
             \/ LockPayment(r) \/ CheckSum(r) \/ AnswerArrives(r) \/ LeaveRefund(r)
             \/ SettleSum(r) \/ writeRefundedOrder(r) \/ RequestFault(r)
      PROVE  /\ BookedInv'
             /\ \A x \in Refunds : refund[x] = "REFUND_SUCCESS" => refund'[x] = "REFUND_SUCCESS"
  <2>1. UNCHANGED <<wtx, entries, refund, chan>>
    BY <1>3
    DEF proceedOrderFlow, proceedWithAmountCheck, proceedWithInProgressCheck, LockPayment, CheckSum,
        AnswerArrives, LeaveRefund, SettleSum, writeRefundedOrder, RequestFault, storeVars
  <2>2. \E k \in {"same", "progress", "lock", "sum", "commit", "book", "settleOrder", "answered"} :
           rpc' = [rpc EXCEPT ![r] = k] /\ (k \in Early => rpc[r] \in Early)
    BY <1>3
    DEF proceedOrderFlow, proceedWithAmountCheck, proceedWithInProgressCheck, LockPayment, CheckSum,
        AnswerArrives, LeaveRefund, SettleSum, writeRefundedOrder, RequestFault, Goto
  <2> QED
    BY <1>1, <2>1, <2>2
<1>4. ASSUME CommitRefundRow(r) \/ CommitAnswerLost(r)
      PROVE  /\ BookedInv'
             /\ \A x \in Refunds : refund[x] = "REFUND_SUCCESS" => refund'[x] = "REFUND_SUCCESS"
  <2>1. /\ refund' = [refund EXCEPT ![r] = "REFUND_INIT"] /\ UNCHANGED <<wtx, entries, chan>>
        /\ rpc[r] = "commit" /\ (\E k \in {"call", "answered"} : rpc' = [rpc EXCEPT ![r] = k])
    BY <1>4 DEF CommitRefundRow, CommitAnswerLost, WriteRefund, Goto
  <2>2. /\ refund'[r] = "REFUND_INIT" /\ rpc'[r] \in {"call", "answered"} /\ refund[r] = "none"
        /\ \A x \in Refunds \ {r} : refund'[x] = refund[x] /\ rpc'[x] = rpc[x]
    BY <1>f, <1>h, <2>1
  <2> QED
    BY <2>1, <2>2, RequestWriteBooked
<1>5. ASSUME invokeRefundChannel(r)
      PROVE  /\ BookedInv'
             /\ \A x \in Refunds : refund[x] = "REFUND_SUCCESS" => refund'[x] = "REFUND_SUCCESS"
  <2>1. /\ rpc[r] = "call" /\ UNCHANGED <<wtx, entries, refund>>
        /\ chan' = chan \/ chan' = [chan EXCEPT ![r] = "sent"]
        /\ \E k \in {"await", "book"} : rpc' = [rpc EXCEPT ![r] = k]
    BY <1>5 DEF invokeRefundChannel, Goto
  <2>2. /\ rpc'[r] \in {"await", "book"} /\ refund[r] # "none" /\ chan[r] = "none"
        /\ \A x \in Refunds \ {r} : chan'[x] = chan[x] /\ rpc'[x] = rpc[x]
    BY <1>f, <1>h, <2>1
  <2> QED
    BY <2>1, <2>2, RequestWriteBooked
<1>6. ASSUME updateRefundWithError(r) \/ SettleRow(r)
      PROVE  /\ BookedInv'
             /\ \A x \in Refunds : refund[x] = "REFUND_SUCCESS" => refund'[x] = "REFUND_SUCCESS"
  <2>1. /\ RowFree(r) /\ UNCHANGED <<wtx, entries, chan>>
        /\ \E k \in {"settleSum", "answered"} : rpc' = [rpc EXCEPT ![r] = k]
        /\ \E st \in {"REFUND_FAIL", "REFUNDING", "REFUND_SUCCESS"} :
             refund' = [refund EXCEPT ![r] = IF refund[r] \in InFlight THEN st ELSE refund[r]]
    BY <1>6 DEF updateRefundWithError, SettleRow, WriteRefund, Goto
  <2>2. /\ rpc'[r] \in {"settleSum", "answered"}
        /\ \A x \in Refunds \ {r} : refund'[x] = refund[x] /\ rpc'[x] = rpc[x]
        /\ refund'[r] = refund[r] \/ (refund[r] \in InFlight /\ refund'[r] # "none")
    BY <1>f, <2>1
  <2> QED
    BY <1>h, <2>1, <2>2, RequestWriteBooked
<1>7. ASSUME ChannelMoves(r), UNCHANGED createVars
      PROVE  /\ BookedInv'
             /\ \A x \in Refunds : refund[x] = "REFUND_SUCCESS" => refund'[x] = "REFUND_SUCCESS"
  <2>1. /\ chan[r] \in {"sent", "PROCESSING"} /\ UNCHANGED <<wtx, entries, refund, rpc>>
        /\ \A x \in Refunds \ {r} : chan'[x] = chan[x]
    BY <1>f, <1>7 DEF ChannelMoves, createVars
  <2> QED
    BY <1>h, <2>1, RequestWriteBooked
<1> QED
  BY <1>2, <1>3, <1>4, <1>5, <1>6, <1>7 DEF RequestStep

(* A step of w that commits nothing: the rows stay, and so does what the
   others hold. *)
LEMMA SettlerStepBooked ==
  ASSUME IInv, BookedInv, NEW w \in Settlers, NEW t,
         wtx' = [wtx EXCEPT ![w] = t], UNCHANGED <<refund, entries, chan, rpc>>,
         t.st # "keep" => \A v \in Settlers \ {w} : wtx[v].st # "keep" => wtx[v].ref # t.ref,
         \A e \in Deliveries \ {w} : dpc'[e] = dpc[e] /\ carries'[e] = carries[e],
         \A q \in Queries \ {w} : query'[q] = query[q],
         \A x \in Refunds : res'[x].done => res[x].done
  PROVE  /\ \A x \in Refunds : RowHolds(x)'
         /\ \A e \in Deliveries \ {w} : DeliveryHolds(e)'
         /\ \A q \in Queries \ {w} : QueryHolds(q)'
         /\ OneHolder' /\ wtx'[w] = t
<1>t. StoreTypeOK /\ (\A x \in Refunds : RowHolds(x)) /\ OneHolder
  BY BookedFacts
<1>1. wtx'[w] = t /\ (\A v \in Settlers \ {w} : wtx'[v] = wtx[v])
  BY <1>t DEF StoreTypeOK
<1>2. \A x \in Refunds : RowHolds(x)'
  BY <1>t DEF RowHolds
<1>3. /\ \A e \in Deliveries \ {w} : DeliveryHolds(e)'
      /\ \A q \in Queries \ {w} : QueryHolds(q)'
  BY <1>1, HoldersKept, CallbackAssumption, SyncAssumption
<1>4. OneHolder'
  BY <1>t, <1>1 DEF OneHolder
<1> QED
  BY <1>1, <1>2, <1>3, <1>4

(* A delivery outside or inside its transaction. *)
LEMMA DeliveryStepBooked ==
  ASSUME IInv, BookedInv, NEW d \in Deliveries, NEW k \in DeliveryPc, NEW t,
         MoveTo(d, k), wtx' = [wtx EXCEPT ![d] = t],
         UNCHANGED <<refund, entries, chan, rpc, query>>,
         \A e \in Deliveries \ {d} : carries'[e] = carries[e],
         \A x \in Refunds : res'[x].done => res[x].done,
         k # "idle" => Channel = "wechat",
         k \notin Settling => t = NoTx,
         k \in Settling =>
           /\ t.ref = carries'[d] /\ t.st = mapRefundStatus(chan[carries'[d]])
           /\ t.led = (mapRefundStatus(chan[carries'[d]]) = "REFUND_SUCCESS")
           /\ refund[carries'[d]] \in InFlight
           /\ \A v \in Settlers \ {d} : wtx[v].st # "keep" => wtx[v].ref # t.ref
  PROVE  BookedInv'
<1>s. d \in Settlers /\ d \notin Queries /\ NoTx.st = "keep"
  BY CallbackAssumption, RefundingAssumption DEF NoTx
<1>1. dpc'[d] = k /\ (\A e \in Deliveries \ {d} : dpc'[e] = dpc[e])
  BY BookedFacts DEF MoveTo, CallbackTypeOK
<1>2. /\ \A x \in Refunds : RowHolds(x)'
      /\ \A e \in Deliveries \ {d} : DeliveryHolds(e)'
      /\ \A q \in Queries \ {d} : QueryHolds(q)'
      /\ OneHolder' /\ wtx'[d] = t
  <2>1. t.st # "keep" => \A v \in Settlers \ {d} : wtx[v].st # "keep" => wtx[v].ref # t.ref
    BY <1>s
  <2>2. \A q \in Queries \ {d} : query'[q] = query[q]
    OBVIOUS
  <2>3. \A e \in Deliveries \ {d} : dpc'[e] = dpc[e] /\ carries'[e] = carries[e]
    BY <1>1
  <2>4. UNCHANGED <<refund, entries, chan, rpc>>
    OBVIOUS
  <2> QED
    BY <1>s, <2>1, <2>2, <2>3, <2>4, SettlerStepBooked, Zenon
<1>3. DeliveryHolds(d)'
  <2>1. k # "idle" => Channel = "wechat"
    OBVIOUS
  <2> QED
    BY <1>1, <1>2, <2>1 DEF DeliveryHolds, Notified
<1> QED
  BY <1>s, <1>2, <1>3 DEF BookedInv

(* A query that goes on, or ends without a COMMIT. *)
LEMMA QueryStepBooked ==
  ASSUME IInv, BookedInv, NEW q \in Queries, NEW c, NEW t,
         query' = [query EXCEPT ![q] = c], wtx' = [wtx EXCEPT ![q] = t],
         UNCHANGED <<refund, entries, chan, rpc, callbackVars>>,
         c.pc # "idle" => refund[c.ref] # "none",
         t.st # "keep" =>
           /\ t.ref = c.ref /\ t.st = c.ans
           /\ c.pc \in {"lookup", "sum", "order", "commit"}
           /\ \A v \in Settlers \ {q} : wtx[v].st # "keep" => wtx[v].ref # t.ref
  PROVE  BookedInv'
<1>s. q \in Settlers /\ q \notin Deliveries
  BY SyncAssumption, RefundingAssumption
<1>1. query'[q] = c /\ (\A y \in Queries \ {q} : query'[y] = query[y])
  BY BookedFacts DEF SyncTypeOK
<1>u. res' = res /\ dpc' = dpc /\ carries' = carries
  BY DEF callbackVars
<1>2. /\ \A x \in Refunds : RowHolds(x)'
      /\ \A e \in Deliveries \ {q} : DeliveryHolds(e)'
      /\ \A y \in Queries \ {q} : QueryHolds(y)'
      /\ OneHolder' /\ wtx'[q] = t
  BY <1>s, <1>u, <1>1, SettlerStepBooked
<1>3. QueryHolds(q)'
  BY <1>1, <1>2 DEF QueryHolds, At
<1> QED
  BY <1>s, <1>2, <1>3 DEF BookedInv

(* COMMIT writes w's own row alone, which nobody else holds. *)
LEMMA PublishBooked ==
  ASSUME IInv, BookedInv, NEW w \in Settlers, Publish(w), UNCHANGED createVars,
         wtx[w].st # "keep" => refund[wtx[w].ref] # "none",
         \A e \in Deliveries \ {w} : dpc'[e] = dpc[e] /\ carries'[e] = carries[e],
         \A q \in Queries \ {w} : query'[q] = query[q],
         \A x \in Refunds :
           res'[x].done => \/ res[x].done
                           \/ chan[x] \in Failed
                           \/ chan[x] = "SUCCESS" /\ wtx[w].led /\ wtx[w].ref = x
  PROVE  /\ \A x \in Refunds : RowHolds(x)'
         /\ \A e \in Deliveries \ {w} : DeliveryHolds(e)'
         /\ \A q \in Queries \ {w} : QueryHolds(q)'
         /\ OneHolder' /\ wtx'[w] = NoTx
         /\ \A x \in Refunds :
              refund'[x] = IF wtx[w].st # "keep" /\ x = wtx[w].ref THEN wtx[w].st ELSE refund[x]
<1>t. /\ StoreTypeOK /\ SettlerAgrees(w) /\ wtx[w] \in RefundTx /\ OneHolder
      /\ \A x \in Refunds : RowHolds(x)
  BY BookedFacts DEF StoreTypeOK
<1> DEFINE b == wtx[w]
<1>1. /\ chan' = chan /\ rpc' = rpc /\ wtx' = [wtx EXCEPT ![w] = NoTx]
      /\ refund' = IF b.st = "keep" THEN refund ELSE [refund EXCEPT ![b.ref] = b.st]
      /\ entries' = IF b.led THEN [entries EXCEPT ![b.ref] = @ + 1] ELSE entries
  BY DEF Publish, createVars
<1>2. /\ b.st # "keep" \/ b.led => b.ref \in Refunds
      /\ b.st \in RefundStatus \cup {"keep"} /\ b.led \in BOOLEAN
  BY <1>t DEF SettlerAgrees, RefundTx
<1> HIDE DEF b
<1>3. \A x \in Refunds : refund'[x] = IF b.st # "keep" /\ x = b.ref THEN b.st ELSE refund[x]
  BY <1>t, <1>1 DEF StoreTypeOK
<1>4. \A x \in Refunds : entries[x] > 0 \/ (b.led /\ x = b.ref) => entries'[x] > 0
  BY <1>t, <1>1, <1>2 DEF StoreTypeOK
<1>5. wtx'[w] = NoTx /\ (\A v \in Settlers \ {w} : wtx'[v] = wtx[v])
  BY <1>t, <1>1 DEF StoreTypeOK
<1>6. \A x \in Refunds : (refund[x] # "none") = (refund'[x] # "none")
  BY <1>2, <1>3 DEF RefundStatus, b
<1>7. \A x \in Refunds : RowHolds(x)'
  <2>1. ASSUME NEW x \in Refunds, res'[x].done
        PROVE  chan[x] \in Failed \/ (chan[x] = "SUCCESS" /\ entries'[x] > 0)
    BY <1>t, <1>4, <2>1 DEF RowHolds, b
  <2> QED
    BY <1>t, <1>1, <1>6, <2>1 DEF RowHolds
<1>8. ASSUME NEW e \in Deliveries \ {w}, dpc[e] \in Settling
      PROVE  refund'[carries[e]] = refund[carries[e]]
  <2>1. e \in Settlers /\ carries[e] \in Refunds /\ wtx[e].ref = carries[e] /\ wtx[e].st # "keep"
    BY <1>8, HeldStatus
  <2> QED
    BY <1>t, <1>3, <2>1 DEF OneHolder, b
<1>9. /\ \A e \in Deliveries \ {w} : DeliveryHolds(e)'
      /\ \A q \in Queries \ {w} : QueryHolds(q)'
  BY <1>1, <1>5, <1>6, <1>8, HoldersKept, CallbackAssumption, SyncAssumption
<1>10. OneHolder'
  BY <1>t, <1>5 DEF OneHolder, NoTx
<1> QED
  BY <1>3, <1>5, <1>7, <1>9, <1>10 DEF b

(* The commit of a delivery: its own row alone moves, out of flight. *)
LEMMA CommitKeepsBooked ==
  ASSUME IInv, BookedInv, NEW d \in Deliveries, UNCHANGED <<createVars, query>>, CommitSettlement(d)
  PROVE  /\ BookedInv'
         /\ \A x \in Refunds : refund[x] = "REFUND_SUCCESS" => refund'[x] = "REFUND_SUCCESS"
<1>t. CallbackTypeOK /\ DeliveryAgrees(d)
  BY BookedFacts
<1>s. d \in Settlers /\ d \notin Queries
  BY CallbackAssumption, RefundingAssumption
<1>0. dpc[d] = "commit" /\ dpc[d] \in Settling
  BY DEF CommitSettlement, Settling
<1>1. /\ carries[d] \in Refunds /\ wtx[d].ref = carries[d] /\ refund[carries[d]] \in InFlight
      /\ wtx[d].led <=> chan[carries[d]] = "SUCCESS"
  BY <1>0, HeldStatus
<1>2. chan[carries[d]] \in Failed \cup {"SUCCESS"}
  BY <1>0, <1>t DEF DeliveryAgrees
<1>3. /\ Publish(d) /\ carries' = carries /\ dpc' = [dpc EXCEPT ![d] = "idle"]
      /\ res' = [res EXCEPT ![carries[d]].done = TRUE]
  BY DEF CommitSettlement, Ack, Fail, MoveTo
<1>4. /\ dpc'[d] = "idle" /\ (\A e \in Deliveries \ {d} : dpc'[e] = dpc[e])
      /\ \A x \in Refunds \ {carries[d]} : res'[x] = res[x]
  BY <1>1, <1>3, <1>t DEF CallbackTypeOK
<1>5. /\ \A x \in Refunds : RowHolds(x)'
      /\ \A e \in Deliveries \ {d} : DeliveryHolds(e)'
      /\ \A q \in Queries \ {d} : QueryHolds(q)'
      /\ OneHolder' /\ wtx'[d] = NoTx
      /\ \A x \in Refunds :
           refund'[x] = IF wtx[d].st # "keep" /\ x = wtx[d].ref THEN wtx[d].st ELSE refund[x]
  BY <1>s, <1>1, <1>2, <1>3, <1>4, PublishBooked DEF InFlight
<1>6. DeliveryHolds(d)'
  BY <1>4, <1>5 DEF DeliveryHolds, Settling
<1>7. \A x \in Refunds : refund[x] = "REFUND_SUCCESS" => refund'[x] = "REFUND_SUCCESS"
  BY <1>1, <1>5 DEF InFlight
<1> QED
  BY <1>s, <1>5, <1>6, <1>7 DEF BookedInv

(* Every statement of a notification. *)
LEMMA DeliveryKeepsBooked ==
  ASSUME IInv, BookedInv, NEW d \in Deliveries, UNCHANGED <<createVars, query>>,
         \/ \E r \in Refunds : handleRefundCallback(d, r)
         \/ DeliveryStep(d) \/ DeliveryFault(d)
  PROVE  /\ BookedInv'
         /\ \A x \in Refunds : refund[x] = "REFUND_SUCCESS" => refund'[x] = "REFUND_SUCCESS"
<1>t. /\ StoreTypeOK /\ CallbackTypeOK /\ DeliveryAgrees(d) /\ DeliveryHolds(d) /\ OneHolder
      /\ d \in Settlers /\ wtx[d] \in RefundTx
  BY BookedFacts, CallbackAssumption DEF StoreTypeOK
<1> DEFINE c == carries[d]
<1>i. dpc[d] # "idle" => c \in Refunds /\ Channel = "wechat"
  BY <1>t DEF DeliveryAgrees, DeliveryHolds
<1>k. wtx' = wtx => wtx' = [wtx EXCEPT ![d] = wtx[d]]
  BY <1>t DEF StoreTypeOK
<1>1. ASSUME NEW r \in Refunds, handleRefundCallback(d, r)
      PROVE  BookedInv' /\ refund' = refund
  <2>1. /\ dpc[d] = "idle" /\ Channel = "wechat" /\ MoveTo(d, "lookup")
        /\ carries' = [carries EXCEPT ![d] = r]
        /\ UNCHANGED <<wtx, refund, entries, chan, rpc, res>>
    BY <1>1 DEF handleRefundCallback, storeVars, createVars
  <2>2. wtx[d] = NoTx /\ (\A e \in Deliveries \ {d} : carries'[e] = carries[e])
    BY <1>t, <2>1 DEF DeliveryHolds, Settling, CallbackTypeOK
  <2> QED
    BY <1>k, <2>1, <2>2, DeliveryStepBooked DEF DeliveryPc, Settling
(* Outside the transaction. *)
<1>2. ASSUME \/ LookupReservation(d) \/ dropUnfinalizedReservation(d) \/ AuditDuplicate(d)
             \/ ReserveKey(d) \/ ReadRefund(d)
      PROVE  BookedInv' /\ refund' = refund
  <2>1. /\ dpc[d] \in {"lookup", "drop", "audit", "reserve", "read"} /\ carries' = carries
        /\ UNCHANGED <<wtx, refund, entries, chan, rpc>>
    BY <1>2
    DEF LookupReservation, dropUnfinalizedReservation, AuditDuplicate, ReserveKey, ReadRefund,
        storeVars, createVars
  <2>2. PICK k \in {"idle", "drop", "audit", "reserve", "read", "cas"} : MoveTo(d, k)
    BY <1>2
    DEF LookupReservation, dropUnfinalizedReservation, AuditDuplicate, ReserveKey, ReadRefund,
        Ack, Fail
  <2>3. \A x \in Refunds : res'[x].done => res[x].done
    <3>1. \/ res' = res \/ res' = [res EXCEPT ![c] = NoRes]
          \/ res' = [res EXCEPT ![c] = [owner |-> d, done |-> FALSE]]
      BY <1>2
      DEF LookupReservation, dropUnfinalizedReservation, AuditDuplicate, ReserveKey, ReadRefund
    <3> QED
      BY <1>t, <3>1 DEF CallbackTypeOK, NoRes
  <2>4. wtx[d] = NoTx /\ k \in DeliveryPc /\ k \notin Settling /\ dpc[d] # "idle"
    BY <1>t, <2>1, <2>2 DEF DeliveryHolds, Settling, DeliveryPc
  <2> QED
    BY <1>i, <1>k, <2>1, <2>2, <2>3, <2>4, DeliveryStepBooked
(* The row is taken while it is in flight and nobody holds it. *)
<1>3. ASSUME CasRefund(d)
      PROVE  BookedInv' /\ refund' = refund
  <2> DEFINE st == Notified(d)
             t == [NoTx EXCEPT !.ref = c, !.st = st, !.led = (st = "REFUND_SUCCESS")]
  <2>1. /\ dpc[d] = "cas" /\ RefundFree(d, c) /\ UNCHANGED <<refund, entries, chan, rpc, res, carries>>
        /\ \/ /\ refund[c] \in InFlight /\ wtx' = [wtx EXCEPT ![d] = t]
              /\ \E k \in {"sum", "finalize"} : MoveTo(d, k)
           \/ wtx' = [wtx EXCEPT ![d] = NoTx] /\ MoveTo(d, "idle")
    BY <1>3 DEF CasRefund, InTx, Rollback, Ack, createVars
  <2>2. Channel = "wechat"
    BY <1>i, <2>1
  <2>3. /\ t.ref = c /\ t.st = mapRefundStatus(chan[c])
        /\ t.led = (mapRefundStatus(chan[c]) = "REFUND_SUCCESS")
    BY DEF NoTx, Notified
  <2> HIDE DEF t
  <2>4. CASE refund[c] \in InFlight /\ wtx' = [wtx EXCEPT ![d] = t]
             /\ \E k \in {"sum", "finalize"} : MoveTo(d, k)
    <3>1. \A v \in Settlers \ {d} : wtx[v].st # "keep" => wtx[v].ref # t.ref
      BY <2>1, <2>3 DEF RefundFree
    <3>2. PICK k \in DeliveryPc : k \in {"sum", "finalize"} /\ MoveTo(d, k)
      BY <2>4 DEF DeliveryPc
    <3> QED
      BY <2>1, <2>2, <2>3, <2>4, <3>1, <3>2, DeliveryStepBooked DEF Settling
  <2>5. CASE wtx' = [wtx EXCEPT ![d] = NoTx] /\ MoveTo(d, "idle")
    BY <2>1, <2>5, DeliveryStepBooked DEF Settling, DeliveryPc
  <2> QED
    BY <2>1, <2>4, <2>5
(* Inside it, up to COMMIT. *)
<1>4. ASSUME SumInTx(d) \/ CloseOrderInTx(d) \/ FinalizeInTx(d)
      PROVE  BookedInv' /\ refund' = refund
  <2>1. /\ dpc[d] \in Settling /\ UNCHANGED <<refund, entries, chan, rpc, res, carries>>
    BY <1>4
    DEF SumInTx, CloseOrderInTx, FinalizeInTx, InTx, Rollback, Fail, storeVars, createVars, Settling
  <2>2. \/ wtx' = [wtx EXCEPT ![d] = NoTx] /\ MoveTo(d, "idle")
        \/ \E t \in {wtx[d], [wtx[d] EXCEPT !.close = (order = "PAID")], [wtx[d] EXCEPT !.fin = TRUE]},
             k \in {"order", "finalize", "commit"} : wtx' = [wtx EXCEPT ![d] = t] /\ MoveTo(d, k)
    BY <1>4, <1>k DEF SumInTx, CloseOrderInTx, FinalizeInTx, InTx, Rollback, Fail, storeVars
  <2>3. CASE wtx' = [wtx EXCEPT ![d] = NoTx] /\ MoveTo(d, "idle")
    BY <2>1, <2>3, DeliveryStepBooked DEF DeliveryPc, Settling
  <2>4. ASSUME NEW t, NEW k \in {"order", "finalize", "commit"},
               wtx' = [wtx EXCEPT ![d] = t], MoveTo(d, k),
               t \in {wtx[d], [wtx[d] EXCEPT !.close = (order = "PAID")], [wtx[d] EXCEPT !.fin = TRUE]}
        PROVE  BookedInv' /\ refund' = refund
    <3>1. t.ref = wtx[d].ref /\ t.st = wtx[d].st /\ t.led = wtx[d].led
      BY <1>t, <2>4 DEF RefundTx
    <3>2. /\ t.ref = c /\ t.st = mapRefundStatus(chan[c]) /\ refund[c] \in InFlight
          /\ t.led = (mapRefundStatus(chan[c]) = "REFUND_SUCCESS") /\ dpc[d] # "idle"
      BY <1>t, <2>1, <3>1 DEF DeliveryHolds, Notified, Settling
    <3>3. \A v \in Settlers \ {d} : wtx[v].st # "keep" => wtx[v].ref # t.ref
      BY <1>t, <2>1, <3>1, HeldStatus DEF OneHolder
    <3>4. k \in DeliveryPc /\ k \in Settling
      BY DEF DeliveryPc, Settling
    <3> QED
      BY <1>i, <2>1, <2>4, <3>2, <3>3, <3>4, DeliveryStepBooked
  <2> QED
    BY <2>2, <2>3, <2>4
<1>5. ASSUME DeliveryFault(d)
      PROVE  BookedInv' /\ refund' = refund
  <2>1. /\ wtx' = [wtx EXCEPT ![d] = NoTx] /\ MoveTo(d, "idle")
        /\ UNCHANGED <<refund, entries, chan, rpc, res, carries>>
    BY <1>5 DEF DeliveryFault, Fault, Fail, createVars
  <2> QED
    BY <2>1, DeliveryStepBooked DEF DeliveryPc, Settling
<1>6. CASE CommitSettlement(d)
  BY <1>6, CommitKeepsBooked
<1> QED
  BY <1>1, <1>2, <1>3, <1>4, <1>5, <1>6 DEF DeliveryStep

(* Every statement of a query. Its COMMIT alone writes a row, with the answer
   it got, whatever the row has become. *)
LEMMA QueryKeepsBooked ==
  ASSUME IInv, BookedInv, NEW q \in Queries, UNCHANGED <<createVars, callbackVars>>,
         \/ \E r \in Refunds : queryRefund(q, r)
         \/ QueryStep(q) \/ QueryFault(q)
  PROVE  /\ BookedInv'
         /\ \A x \in Refunds : refund[x] = "REFUND_SUCCESS" /\ refund'[x] # "REFUND_SUCCESS" =>
              At(q, "commit") /\ query[q].ref = x /\ query[q].ans # "REFUND_SUCCESS"
<1>t. /\ StoreTypeOK /\ SyncTypeOK /\ QueryAgrees(q) /\ QueryHolds(q) /\ OneHolder
      /\ q \in Settlers /\ wtx[q] \in RefundTx /\ query[q] \in Query /\ q \notin Deliveries
  BY BookedFacts, SyncAssumption, RefundingAssumption DEF StoreTypeOK, SyncTypeOK
<1>u. rpc' = rpc
  BY DEF createVars
<1>i. IdleQuery.pc = "idle" /\ NoTx.st = "keep"
  BY DEF IdleQuery, NoTx
<1>k. wtx' = wtx => wtx' = [wtx EXCEPT ![q] = wtx[q]]
  BY <1>t DEF StoreTypeOK
<1>r. ~At(q, "idle") => refund[query[q].ref] # "none"
  BY <1>t DEF QueryHolds
<1>a. ASSUME NEW k
      PROVE  /\ [query[q] EXCEPT !.pc = k].pc = k
             /\ [query[q] EXCEPT !.pc = k].ref = query[q].ref
             /\ [query[q] EXCEPT !.pc = k].ans = query[q].ans
             /\ Advance(q, k) => query' = [query EXCEPT ![q] = [query[q] EXCEPT !.pc = k]]
  BY <1>t DEF Query, Advance
<1>1. ASSUME NEW r \in Refunds, queryRefund(q, r)
      PROVE  BookedInv' /\ refund' = refund
  <2> DEFINE c == [pc |-> "read", ref |-> r, ans |-> mapRefundStatus(chan[r])]
  <2>1. /\ At(q, "idle") /\ refund[r] # "none" /\ query' = [query EXCEPT ![q] = c]
        /\ UNCHANGED <<wtx, refund, entries, chan>>
    BY <1>1 DEF queryRefund, storeVars
  <2>2. wtx[q].st = "keep"
    BY <1>t, <2>1 DEF QueryHolds, At
  <2>3. c.ref = r
    OBVIOUS
  <2> HIDE DEF c
  <2> QED
    BY <1>k, <1>u, <2>1, <2>2, <2>3, QueryStepBooked
<1>2. ASSUME ReadRow(q)
      PROVE  BookedInv' /\ refund' = refund
  <2>1. /\ At(q, "read") /\ UNCHANGED <<wtx, refund, entries, chan>>
        /\ EndQuery(q) \/ Advance(q, "write")
    BY <1>2 DEF ReadRow, storeVars
  <2>2. wtx[q].st = "keep" /\ ~At(q, "idle")
    BY <1>t, <2>1 DEF QueryHolds, At
  <2>3. CASE EndQuery(q)
    BY <1>i, <1>k, <1>u, <2>1, <2>2, <2>3, QueryStepBooked DEF EndQuery
  <2>4. CASE Advance(q, "write")
    <3>1. PICK c : query' = [query EXCEPT ![q] = c] /\ c.ref = query[q].ref
      BY <1>a, <2>4
    <3> QED
      BY <1>k, <1>r, <1>u, <2>1, <2>2, <3>1, QueryStepBooked
  <2> QED
    BY <2>1, <2>3, <2>4
<1>3. ASSUME WriteRow(q)
      PROVE  BookedInv' /\ refund' = refund
  <2> DEFINE t == [NoTx EXCEPT !.ref = query[q].ref, !.st = query[q].ans]
  <2>1. /\ ~At(q, "idle") /\ RefundFree(q, query[q].ref) /\ wtx' = [wtx EXCEPT ![q] = t]
        /\ UNCHANGED <<refund, entries, chan>>
    BY <1>3 DEF WriteRow, At, InTx
  <2>2. PICK k \in {"lookup", "commit"} : Advance(q, k)
    BY <1>3 DEF WriteRow
  <2>3. t.ref = query[q].ref /\ t.st = query[q].ans
    BY DEF NoTx
  <2>4. \A v \in Settlers \ {q} : wtx[v].st # "keep" => wtx[v].ref # t.ref
    BY <2>1, <2>3 DEF RefundFree
  <2> HIDE DEF t
  <2>5. PICK c : /\ query' = [query EXCEPT ![q] = c] /\ c.pc = k
                 /\ c.ref = query[q].ref /\ c.ans = query[q].ans
    BY <1>a, <2>2
  <2> QED
    BY <1>r, <1>u, <2>1, <2>2, <2>3, <2>4, <2>5, QueryStepBooked
(* The rest of the transaction keeps the buffered answer. *)
<1>4. ASSUME insertLedgerEntry(q) \/ SumSettled(q) \/ CloseOrder(q)
      PROVE  BookedInv' /\ refund' = refund
  <2>1. /\ query[q].pc \in {"lookup", "sum", "order"} /\ ~At(q, "idle")
        /\ UNCHANGED <<refund, entries, chan>>
    BY <1>4 DEF insertLedgerEntry, SumSettled, CloseOrder, At, InTx, storeVars
  <2>2. PICK k \in {"sum", "order", "commit"} : Advance(q, k)
    BY <1>4 DEF insertLedgerEntry, SumSettled, CloseOrder
  <2>3. \E t : wtx' = [wtx EXCEPT ![q] = t] /\ t.ref = wtx[q].ref /\ t.st = wtx[q].st
    <3>1. CASE insertLedgerEntry(q)
      <4> DEFINE found == \E o \in Refunds : entries[o] > 0 /\ req[o].pay = req[query[q].ref].pay
      <4>1. wtx' = [wtx EXCEPT ![q] = [wtx[q] EXCEPT !.led = ~found]]
        BY <3>1 DEF insertLedgerEntry, InTx
      <4> HIDE DEF found
      <4> DEFINE t == [wtx[q] EXCEPT !.led = ~found]
      <4>2. t.ref = wtx[q].ref /\ t.st = wtx[q].st
        BY <1>t DEF RefundTx
      <4> QED
        BY <4>1, <4>2
    <3>2. CASE SumSettled(q)
      BY <1>k, <3>2 DEF SumSettled, storeVars
    <3>3. CASE CloseOrder(q)
      <4>1. wtx' = [wtx EXCEPT ![q] = [wtx[q] EXCEPT !.close = (order = "PAID")]]
        BY <3>3 DEF CloseOrder, InTx
      <4> DEFINE t == [wtx[q] EXCEPT !.close = (order = "PAID")]
      <4>2. t.ref = wtx[q].ref /\ t.st = wtx[q].st
        BY <1>t DEF RefundTx
      <4> QED
        BY <4>1, <4>2
    <3> QED
      BY <1>4, <3>1, <3>2, <3>3
  <2>4. PICK t : wtx' = [wtx EXCEPT ![q] = t] /\ t.ref = wtx[q].ref /\ t.st = wtx[q].st
    BY <2>3
  <2>5. t.st # "keep" =>
          /\ t.ref = query[q].ref /\ t.st = query[q].ans
          /\ \A v \in Settlers \ {q} : wtx[v].st # "keep" => wtx[v].ref # t.ref
    BY <1>t, <2>4 DEF QueryHolds, OneHolder
  <2> QED
    <3>1. PICK c : /\ query' = [query EXCEPT ![q] = c] /\ c.pc = k
                   /\ c.ref = query[q].ref /\ c.ans = query[q].ans
      BY <1>a, <2>2
    <3> QED
      BY <1>r, <1>u, <2>1, <2>2, <2>4, <2>5, <3>1, QueryStepBooked
<1>5. ASSUME QueryFault(q)
      PROVE  BookedInv' /\ refund' = refund
  <2>1. /\ wtx' = [wtx EXCEPT ![q] = NoTx] /\ query' = [query EXCEPT ![q] = IdleQuery]
        /\ UNCHANGED <<refund, entries, chan>>
    BY <1>5 DEF QueryFault, Fault, EndQuery
  <2> QED
    BY <1>i, <1>u, <2>1, QueryStepBooked
<1>6. ASSUME CommitQuery(q)
      PROVE  /\ BookedInv'
             /\ \A x \in Refunds : refund[x] = "REFUND_SUCCESS" /\ refund'[x] # "REFUND_SUCCESS" =>
                  At(q, "commit") /\ query[q].ref = x /\ query[q].ans # "REFUND_SUCCESS"
  <2>1. /\ At(q, "commit") /\ ~At(q, "idle") /\ Publish(q)
        /\ query' = [query EXCEPT ![q] = IdleQuery]
    BY <1>6 DEF CommitQuery, EndQuery, At
  <2>2. query'[q] = IdleQuery /\ (\A y \in Queries \ {q} : query'[y] = query[y])
    BY <1>t, <2>1 DEF SyncTypeOK
  <2>3. res' = res /\ dpc' = dpc /\ carries' = carries
    BY DEF callbackVars
  <2>4. wtx[q].st # "keep" =>
          wtx[q].ref = query[q].ref /\ wtx[q].st = query[q].ans /\ refund[wtx[q].ref] # "none"
    BY <1>t, <2>1 DEF QueryHolds
  <2>5. /\ \A x \in Refunds : RowHolds(x)'
        /\ \A e \in Deliveries \ {q} : DeliveryHolds(e)'
        /\ \A y \in Queries \ {q} : QueryHolds(y)'
        /\ OneHolder' /\ wtx'[q] = NoTx
        /\ \A x \in Refunds :
             refund'[x] = IF wtx[q].st # "keep" /\ x = wtx[q].ref THEN wtx[q].st ELSE refund[x]
    BY <1>t, <2>1, <2>2, <2>3, <2>4, PublishBooked
  <2>6. QueryHolds(q)'
    BY <1>i, <2>2, <2>5 DEF QueryHolds, At
  <2> QED
    BY <1>t, <2>1, <2>4, <2>5, <2>6 DEF BookedInv
<1> QED
  BY <1>1, <1>2, <1>3, <1>4, <1>5, <1>6 DEF QueryStep

(* A restart forgets the handlers; rows and stamps remain. *)
LEMMA RestartKeepsBooked ==
  ASSUME IInv, BookedInv, Restart
  PROVE  BookedInv' /\ refund' = refund
<1>t. CreateTypeOK /\ (\A x \in Refunds : RowHolds(x))
  BY BookedFacts
<1>1. \A x \in Refunds : RowHolds(x)'
  BY <1>t DEF Restart, RowHolds
<1>2. \A e \in Deliveries : DeliveryHolds(e)'
  BY CallbackAssumption DEF Restart, DeliveryHolds, Settling
<1>3. \A q \in Queries : QueryHolds(q)'
  BY SyncAssumption DEF Restart, QueryHolds, At, IdleQuery, NoTx
<1>4. OneHolder'
  BY DEF Restart, OneHolder, NoTx
<1> QED
  BY <1>1, <1>2, <1>3, <1>4 DEF BookedInv, Restart

(* A step that changes nothing. *)
LEMMA StutterKeepsBooked ==
  ASSUME IInv, BookedInv, UNCHANGED vars
  PROVE  BookedInv' /\ refund' = refund
<1>t. /\ \A x \in Refunds : RowHolds(x)
      /\ \A e \in Deliveries : DeliveryHolds(e)
      /\ \A q \in Queries : QueryHolds(q)
      /\ OneHolder
  BY BookedFacts
<1> USE DEF vars, storeVars, createVars, callbackVars
<1>1. \A x \in Refunds : RowHolds(x)'
  BY <1>t DEF RowHolds
<1>2. \A e \in Deliveries : DeliveryHolds(e)'
  BY <1>t DEF DeliveryHolds, Notified
<1>3. \A q \in Queries : QueryHolds(q)'
  BY <1>t DEF QueryHolds, At
<1>4. OneHolder'
  BY <1>t DEF OneHolder
<1> QED
  BY <1>1, <1>2, <1>3, <1>4 DEF BookedInv

(* A step keeps rows, holders and stamps in order, and takes a refund out of
   REFUND_SUCCESS only when a query commits another answer. *)
LEMMA StepKeepsBooked ==
  ASSUME IInv, BookedInv, [Next]_vars
  PROVE  /\ BookedInv'
         /\ \A x \in Refunds : refund[x] = "REFUND_SUCCESS" /\ refund'[x] # "REFUND_SUCCESS" =>
              \E q \in Queries :
                At(q, "commit") /\ query[q].ref = x /\ query[q].ans # "REFUND_SUCCESS"
<1>1. CASE CreateNext /\ UNCHANGED <<query, callbackVars>>
  BY <1>1, RequestKeepsBooked DEF CreateNext
<1>2. CASE SyncNext /\ UNCHANGED <<createVars, callbackVars>>
  BY <1>2, QueryKeepsBooked DEF SyncNext
<1>3. CASE CallbackNext /\ UNCHANGED <<createVars, query>>
  BY <1>3, DeliveryKeepsBooked DEF CallbackNext
<1>4. CASE Restart
  BY <1>4, RestartKeepsBooked
<1>5. CASE UNCHANGED vars
  BY <1>5, StutterKeepsBooked
<1> QED
  BY <1>1, <1>2, <1>3, <1>4, <1>5 DEF Next

(* A delivery inside handleRefundCallback's transaction holds a row that is
   still in flight, and holds it alone, whatever answers and queries write
   meanwhile; a query inside its own buffers the answer it got. *)
THEOREM HeldRowsStayInFlight == Spec => []BookedInv
<1>1. Init => BookedInv
  BY InitBooked
<1>2. IInv /\ BookedInv /\ [Next]_vars => BookedInv'
  BY StepKeepsBooked
<1> QED
  BY <1>1, <1>2, RefundsAgree, PTL DEF Spec

(* A reservation that turns repeats of a notification away stands for a refund
   that failed or is in the ledger: finalizeIdempotencyInTx stamps it in the
   transaction that posts the entry. *)
THEOREM StampedRefundsAreEntered == Spec => []StampedRefundIsEntered
<1>1. BookedInv => StampedRefundIsEntered
  BY DEF BookedInv, RowHolds, StampedRefundIsEntered, Failed
<1> QED
  BY <1>1, HeldRowsStayInFlight, PTL

(* No answer, notification, fault or restart takes a refund out of
   REFUND_SUCCESS: whoever does is a query that commits an older answer
   (syncRefundStatusFromWechat's UPDATE by primary key). *)
THEOREM OnlyQueriesReopenRows == Spec => OnlyQueriesReopen
<1>1. IInv /\ BookedInv /\ [Next]_vars =>
        [\A r \in Refunds : refund[r] = "REFUND_SUCCESS" /\ refund'[r] # "REFUND_SUCCESS" =>
           \E q \in Queries :
             At(q, "commit") /\ query[q].ref = r /\ query[q].ans # "REFUND_SUCCESS"]_vars
  BY StepKeepsBooked
<1> QED
  BY <1>1, RefundsAgree, HeldRowsStayInFlight, PTL DEF Spec, OnlyQueriesReopen

----------------------------------------------------------------------------
(* What a sum over a finite set is: MapThenSumSet computes it by a recursive
   function over the subsets, and these lemmas say that the function exists and
   that the order of its choices does not matter. *)

Pick(s) == CHOOSE x \in s : TRUE
AmountSum(v, S) == MapThenSumSet(LAMBDA r : v[r].amt, S)
Sums(v, S, g) == [s \in SUBSET S |-> IF s = {} THEN 0 ELSE v[Pick(s)].amt + g[s \ {Pick(s)}]]

LEMMA SumUnfolds ==
  ASSUME NEW v, NEW S
  PROVE  AmountSum(v, S) = (CHOOSE g : g = Sums(v, S, g))[S]
BY Zenon DEF AmountSum, MapThenSumSet, MapThenFoldSet, Sums, Pick

(* Induction over finite sets, for a property given as the set of the sets
   that have it. *)
LEMMA FiniteInduction ==
  ASSUME NEW S, IsFiniteSet(S), NEW Good,
         \A T \in SUBSET S : (\A U \in SUBSET T : U # T => U \in Good) => T \in Good
  PROVE  S \in Good
<1> DEFINE Bad == {T \in SUBSET S : T \notin Good}
           R == StrictSubsetOrdering(S)
<1> SUFFICES ASSUME S \notin Good PROVE FALSE
  OBVIOUS
<1>1. IsWellFoundedOn(R, FiniteSubsetsOf(S))
  BY FS_StrictSubsetOrderingWellFounded
<1>2. Bad \subseteq FiniteSubsetsOf(S)
  BY FS_Subset DEF FiniteSubsetsOf
<1>3. Bad # {}
  OBVIOUS
<1> HIDE DEF R
<1>a. \E x \in Bad : \A y \in Bad : ~(<<y, x>> \in R)
  <2> HIDE DEF Bad
  <2> QED
    BY <1>1, <1>2, <1>3, WFMin
<1>4. PICK T \in Bad : \A U \in Bad : ~(<<U, T>> \in R)
  BY <1>a
<1>5. \A U \in SUBSET T : U # T => U \in Good
  BY <1>4 DEF R, StrictSubsetOrdering
<1> QED
  BY <1>4, <1>5

(* The recursion has one solution on every finite set. *)
LEMMA SumsSolved ==
  ASSUME NEW v, NEW S, IsFiniteSet(S)
  PROVE  /\ \E g : g = Sums(v, S, g)
         /\ \A g : g = Sums(v, S, g) => \A s \in SUBSET S : g[s] = AmountSum(v, s)
<1> DEFINE P(T) == /\ \E g : g = Sums(v, T, g)
                   /\ \A g : g = Sums(v, T, g) => \A s \in SUBSET T : g[s] = AmountSum(v, s)
           Good == {T \in SUBSET S : P(T)}
<1>1. ASSUME NEW T \in SUBSET S, \A U \in SUBSET T : U # T => U \in Good
      PROVE  T \in Good
  <2> DEFINE f == [s \in SUBSET T |-> AmountSum(v, s)]
             a == IF T = {} THEN 0 ELSE v[Pick(T)].amt + f[T \ {Pick(T)}]
             h == [s \in SUBSET T |-> IF s = T THEN a ELSE f[s]]
  <2>0. \A s : s # {} => Pick(s) \in s /\ s \ {Pick(s)} # s
    BY DEF Pick
  <2>1. \A U \in SUBSET T : U # T => P(U)
    BY <1>1
  <2>2. ASSUME NEW g, g = Sums(v, T, g), NEW s \in SUBSET T, s # T
        PROVE  g[s] = AmountSum(v, s)
    <3> DEFINE k == [u \in SUBSET s |-> g[u]]
    <3>1. k = Sums(v, s, k)
      <4>1. ASSUME NEW u \in SUBSET s
            PROVE  g[u] = IF u = {} THEN 0 ELSE v[Pick(u)].amt + g[u \ {Pick(u)}]
        BY <2>2 DEF Sums
      <4>2. ASSUME NEW u \in SUBSET s
            PROVE  k[u] = IF u = {} THEN 0 ELSE v[Pick(u)].amt + k[u \ {Pick(u)}]
        BY <4>1
      <4> HIDE DEF k
      <4>3. k = [u \in SUBSET s |-> k[u]]
        BY DEF k
      <4> QED
        BY <4>2, <4>3, Zenon DEF Sums
    <3>2. k[s] = AmountSum(v, s)
      BY <2>1, <2>2, <3>1
    <3> QED
      BY <3>2
  <2>3. ASSUME NEW s \in SUBSET T, s # T
        PROVE  AmountSum(v, s) = IF s = {} THEN 0 ELSE v[Pick(s)].amt + AmountSum(v, s \ {Pick(s)})
    <3>1. PICK g : g = Sums(v, s, g)
      BY <2>1, <2>3
    <3>2. \A u \in SUBSET s : g[u] = AmountSum(v, u)
      BY <2>1, <2>3, <3>1
    <3>3. g[s] = IF s = {} THEN 0 ELSE v[Pick(s)].amt + g[s \ {Pick(s)}]
      BY <3>1 DEF Sums
    <3> QED
      BY <3>2, <3>3
  <2>4. h = Sums(v, T, h)
    <3>1. ASSUME NEW s \in SUBSET T
          PROVE  h[s] = IF s = {} THEN 0 ELSE v[Pick(s)].amt + h[s \ {Pick(s)}]
      <4>1. CASE s = {}
        <5>1. CASE T = {}
          BY <4>1, <5>1
        <5>2. CASE T # {}
          BY <2>3, <4>1, <5>2
        <5> QED
          BY <5>1, <5>2
      <4>2. CASE s # {}
        <5>1. s \ {Pick(s)} \in SUBSET T /\ s \ {Pick(s)} # T
          BY <2>0, <4>2
        <5>2. h[s \ {Pick(s)}] = AmountSum(v, s \ {Pick(s)})
          BY <5>1
        <5>3. CASE s = T
          BY <4>2, <5>1, <5>2, <5>3
        <5>4. CASE s # T
          BY <2>3, <4>2, <5>2, <5>4
        <5> QED
          BY <5>3, <5>4
      <4> QED
        BY <4>1, <4>2
    <3> HIDE DEF h
    <3>2. h = [s \in SUBSET T |-> h[s]]
      BY DEF h
    <3> QED
      BY <3>1, <3>2, Zenon DEF Sums
  <2>5. ASSUME NEW g, g = Sums(v, T, g) PROVE g[T] = a
    <3>1. g[T] = IF T = {} THEN 0 ELSE v[Pick(T)].amt + g[T \ {Pick(T)}]
      BY <2>5 DEF Sums
    <3>2. T # {} => g[T \ {Pick(T)}] = f[T \ {Pick(T)}]
      BY <2>0, <2>2, <2>5
    <3> QED
      BY <3>1, <3>2
  <2>6. AmountSum(v, T) = a
    <3> DEFINE G == CHOOSE g : g = Sums(v, T, g)
    <3>1. G = Sums(v, T, G)
      BY <2>4
    <3>2. AmountSum(v, T) = G[T]
      BY SumUnfolds
    <3> HIDE DEF G, a
    <3> QED
      BY <2>5, <3>1, <3>2
  <2> HIDE DEF a, h
  <2>7. ASSUME NEW g, g = Sums(v, T, g), NEW s \in SUBSET T
        PROVE  g[s] = AmountSum(v, s)
    BY <2>2, <2>5, <2>6, <2>7
  <2>8. P(T)
    BY <2>4, <2>7
  <2> QED
    BY <2>8
<1> HIDE DEF Good
<1>2. S \in Good
  BY <1>1, FiniteInduction
<1> QED
  BY <1>2 DEF Good

LEMMA SumRecursion ==
  ASSUME NEW v, NEW S, IsFiniteSet(S)
  PROVE  AmountSum(v, S) = IF S = {} THEN 0 ELSE v[Pick(S)].amt + AmountSum(v, S \ {Pick(S)})
<1>1. PICK g : g = Sums(v, S, g)
  BY SumsSolved
<1>2. \A u \in SUBSET S : g[u] = AmountSum(v, u)
  BY <1>1, SumsSolved
<1>3. g[S] = IF S = {} THEN 0 ELSE v[Pick(S)].amt + g[S \ {Pick(S)}]
  BY <1>1 DEF Sums
<1> QED
  BY <1>2, <1>3

(* A sum of natural amounts is natural, and any one of them can be taken out
   of it first. *)
LEMMA SumRemove ==
  ASSUME NEW v, NEW S, IsFiniteSet(S), \A r \in S : v[r].amt \in Nat
  PROVE  /\ AmountSum(v, S) \in Nat
         /\ \A x \in S : AmountSum(v, S) = v[x].amt + AmountSum(v, S \ {x})
<1> DEFINE P(T) == /\ AmountSum(v, T) \in Nat
                   /\ \A x \in T : AmountSum(v, T) = v[x].amt + AmountSum(v, T \ {x})
           Good == {T \in SUBSET S : P(T)}
<1>1. ASSUME NEW T \in SUBSET S, \A U \in SUBSET T : U # T => U \in Good
      PROVE  T \in Good
  <2> DEFINE p == Pick(T)
  <2>0. /\ \A U \in SUBSET T : U # T => P(U)
        /\ \A x \in T : v[x].amt \in Nat
    BY <1>1
  <2>1. AmountSum(v, T) = IF T = {} THEN 0 ELSE v[p].amt + AmountSum(v, T \ {p})
    BY SumRecursion, FS_Subset
  <2>2. T # {} => p \in T
    BY DEF Pick
  <2> HIDE DEF p
  <2>3. CASE T = {}
    BY <2>1, <2>3
  <2>4. CASE T # {}
    <3>0. p \in T
      BY <2>2, <2>4
    <3>1. P(T \ {p})
      BY <2>0, <3>0
    <3>2. AmountSum(v, T) \in Nat
      BY <2>0, <2>1, <2>4, <3>0, <3>1
    <3>3. ASSUME NEW x \in T, x # p
          PROVE  AmountSum(v, T) = v[x].amt + AmountSum(v, T \ {x})
      <4>1. AmountSum(v, T \ {p}) = v[x].amt + AmountSum(v, (T \ {p}) \ {x})
        BY <3>1, <3>3
      <4>2. P(T \ {x})
        BY <2>0, <3>3
      <4>3. AmountSum(v, T \ {x}) = v[p].amt + AmountSum(v, (T \ {x}) \ {p})
        BY <3>0, <3>3, <4>2
      <4>4. P((T \ {p}) \ {x})
        BY <2>0, <3>0
      <4>5. (T \ {p}) \ {x} = (T \ {x}) \ {p}
        OBVIOUS
      <4> DEFINE A == AmountSum(v, T)
                 B == AmountSum(v, T \ {p})
                 C == AmountSum(v, T \ {x})
                 D == AmountSum(v, (T \ {p}) \ {x})
      <4>6. /\ A = v[p].amt + B /\ B = v[x].amt + D /\ C = v[p].amt + D
            /\ D \in Nat /\ v[x].amt \in Nat /\ v[p].amt \in Nat
        BY <2>0, <2>1, <2>4, <3>0, <4>1, <4>3, <4>4, <4>5
      <4> HIDE DEF A, B, C, D
      <4>7. A = v[x].amt + C
        BY <4>6
      <4> QED
        BY <4>7 DEF A, C
    <3>4. P(T)
      BY <2>1, <2>4, <3>2, <3>3
    <3> QED
      BY <3>4
  <2> QED
    BY <2>3, <2>4
<1> HIDE DEF Good
<1>2. S \in Good
  BY <1>1, FiniteInduction
<1> QED
  BY <1>2 DEF Good

(* One amount more. *)
LEMMA SumAdd ==
  ASSUME NEW v, NEW S, IsFiniteSet(S), NEW x, x \notin S,
         \A r \in S \cup {x} : v[r].amt \in Nat
  PROVE  AmountSum(v, S \cup {x}) = v[x].amt + AmountSum(v, S)
<1>1. IsFiniteSet(S \cup {x})
  BY FS_AddElement
<1>2. (S \cup {x}) \ {x} = S
  OBVIOUS
<1>3. AmountSum(v, S \cup {x}) = v[x].amt + AmountSum(v, (S \cup {x}) \ {x})
  BY <1>1, SumRemove
<1> QED
  BY <1>2, <1>3

(* Fewer amounts sum to no more. *)
LEMMA SumMono ==
  ASSUME NEW v, NEW S, IsFiniteSet(S), \A r \in S : v[r].amt \in Nat, NEW T \in SUBSET S
  PROVE  AmountSum(v, T) <= AmountSum(v, S)
<1> DEFINE Good == {U \in SUBSET S : T \subseteq U => AmountSum(v, T) <= AmountSum(v, U)}
<1>1. ASSUME NEW U \in SUBSET S, \A V \in SUBSET U : V # U => V \in Good
      PROVE  U \in Good
  <2> SUFFICES ASSUME T \subseteq U PROVE AmountSum(v, T) <= AmountSum(v, U)
    OBVIOUS
  <2>0. IsFiniteSet(U) /\ IsFiniteSet(T)
    BY FS_Subset
  <2>1. CASE U = T
    BY <2>0, <2>1, SumRemove
  <2>2. CASE U # T
    <3>1. PICK x \in U : x \notin T
      BY <2>2
    <3>2. U \ {x} \in Good
      BY <1>1, <3>1
    <3>3. AmountSum(v, T) <= AmountSum(v, U \ {x})
      BY <3>1, <3>2
    <3> HIDE DEF Good
    <3>4. AmountSum(v, U) = v[x].amt + AmountSum(v, U \ {x}) /\ v[x].amt \in Nat
      BY <2>0, <3>1, SumRemove
    <3>5. IsFiniteSet(U \ {x})
      BY <2>0, FS_Subset
    <3>6. AmountSum(v, U \ {x}) \in Nat /\ AmountSum(v, T) \in Nat
      BY <2>0, <3>5, SumRemove
    <3> QED
      BY <3>3, <3>4, <3>6
  <2> QED
    BY <2>1, <2>2
<1> HIDE DEF Good
<1>2. S \in Good
  BY <1>1, FiniteInduction
<1> QED
  BY <1>2 DEF Good

(* The sum over S depends on the amounts in S alone. *)
LEMMA SumSame ==
  ASSUME NEW v, NEW w, NEW S, IsFiniteSet(S), \A r \in S : v[r].amt = w[r].amt
  PROVE  AmountSum(v, S) = AmountSum(w, S)
<1> DEFINE Good == {U \in SUBSET S : AmountSum(v, U) = AmountSum(w, U)}
<1>1. ASSUME NEW U \in SUBSET S, \A V \in SUBSET U : V # U => V \in Good
      PROVE  U \in Good
  <2> DEFINE p == Pick(U)
  <2>0. IsFiniteSet(U)
    BY FS_Subset
  <2>1. /\ AmountSum(v, U) = IF U = {} THEN 0 ELSE v[p].amt + AmountSum(v, U \ {p})
        /\ AmountSum(w, U) = IF U = {} THEN 0 ELSE w[p].amt + AmountSum(w, U \ {p})
    BY <2>0, SumRecursion
  <2>2. U # {} => p \in U
    BY DEF Pick
  <2> HIDE DEF p
  <2>3. U # {} => U \ {p} \in Good
    BY <1>1, <2>2
  <2>4. AmountSum(v, U) = AmountSum(w, U)
    BY <2>1, <2>2, <2>3
  <2> QED
    BY <2>4
<1> HIDE DEF Good
<1>2. S \in Good
  BY <1>1, FiniteInduction
<1> QED
  BY <1>2 DEF Good

----------------------------------------------------------------------------
(* Sums over refunds *)

(* SumOf in the terms of the lemmas, before and after a step. *)
LEMMA SumOfIs ==
  ASSUME NEW S
  PROVE  SumOf(S) = AmountSum(req, S)
BY DEF SumOf, AmountSum

LEMMA SumOfIsNext ==
  ASSUME NEW CONSTANT S
  PROVE  SumOf(S)' = AmountSum(req', S)
BY Zenon DEF SumOf, AmountSum, MapThenSumSet, MapThenFoldSet

LEMMA AmountsAreNat ==
  ASSUME StoreTypeOK
  PROVE  \A r \in Refunds : req[r].amt \in Nat
<1>1. Amounts \cup {0} \subseteq Nat
  BY RefundStoreAssumption
<1>2. \A r \in Refunds : req[r].amt \in Amounts \cup {0}
  BY DEF StoreTypeOK
<1> QED
  BY <1>1, <1>2

(* More refunds of the same amounts sum to no less. *)
LEMMA SumGrows ==
  ASSUME StoreTypeOK, StoreTypeOK', NEW S \in SUBSET Refunds, NEW T \in SUBSET Refunds,
         S \subseteq T, \A r \in S : req'[r].amt = req[r].amt
  PROVE  /\ AmountSum(req, S) \in Nat /\ AmountSum(req', T) \in Nat
         /\ AmountSum(req, S) <= AmountSum(req', T)
<1>1. IsFiniteSet(S) /\ IsFiniteSet(T)
  BY FS_Subset, RefundStoreAssumption
<1>2. \A r \in Refunds : req[r].amt \in Nat /\ req'[r].amt \in Nat
  <2>1. Amounts \cup {0} \subseteq Nat
    BY RefundStoreAssumption
  <2>2. \A r \in Refunds : req[r].amt \in Amounts \cup {0} /\ req'[r].amt \in Amounts \cup {0}
    BY DEF StoreTypeOK
  <2> QED
    BY <2>1, <2>2
<1>3. AmountSum(req, S) = AmountSum(req', S)
  BY <1>1, SumSame
<1>4. AmountSum(req', S) <= AmountSum(req', T)
  BY <1>1, <1>2, SumMono
<1>5. AmountSum(req, S) \in Nat /\ AmountSum(req', T) \in Nat
  BY <1>1, <1>2, SumRemove
<1> QED
  BY <1>3, <1>4, <1>5

----------------------------------------------------------------------------
(* The order is closed against money that is back *)

(* The channel never forgets a refund it was sent, nor takes one back, and no
   request changes one that has left. *)
ChannelKeeps ==
  \A x \in Refunds :
    /\ chan[x] # "none" => chan'[x] # "none" /\ req'[x] = req[x]
    /\ chan[x] = "SUCCESS" => chan'[x] = "SUCCESS"

LEMMA MoneyStays ==
  ASSUME StoreTypeOK, StoreTypeOK', ChannelKeeps, MoneyIsBack
  PROVE  MoneyIsBack'
<1> DEFINE S == ReturnedRefunds
           T == ReturnedRefunds'
<1>1. S \in SUBSET Refunds /\ T \in SUBSET Refunds /\ S \subseteq T
  BY DEF ReturnedRefunds, ChannelKeeps
<1>2. \A r \in S : req'[r].amt = req[r].amt
  BY DEF ReturnedRefunds, ChannelKeeps
<1>3. MoneyIsBack <=> AmountSum(req, S) >= Total
  BY SumOfIs DEF MoneyIsBack
<1>4. MoneyIsBack' <=> AmountSum(req', T) >= Total
  BY Zenon DEF MoneyIsBack, SumOf, AmountSum, MapThenSumSet, MapThenFoldSet
<1> HIDE DEF S, T
<1>5. /\ AmountSum(req, S) \in Nat /\ AmountSum(req', T) \in Nat
      /\ AmountSum(req, S) <= AmountSum(req', T)
  BY <1>1, <1>2, SumGrows
<1> QED
  BY <1>3, <1>4, <1>5, RefundStoreAssumption

(* Settled rows that cover the order, this one included, are money back. *)
LEMMA CoverIsMoney ==
  ASSUME IInv, NEW own \in SUBSET ReturnedRefunds, RefundsCover(own)
  PROVE  MoneyIsBack
<1> DEFINE S == SettledRefunds \cup own
<1>1. S \in SUBSET ReturnedRefunds /\ ReturnedRefunds \in SUBSET Refunds
  BY DEF IInv, RequestAgrees, SettledRefunds, ReturnedRefunds
<1>2. SumOf(S) >= Total
  BY DEF RefundsCover, refundsCoverOrderAmount
<1>3. IsFiniteSet(ReturnedRefunds) /\ IsFiniteSet(S)
  BY <1>1, FS_Subset, RefundStoreAssumption
<1>4. \A r \in ReturnedRefunds : req[r].amt \in Nat
  BY AmountsAreNat, <1>1 DEF IInv, TypeOK
<1> HIDE DEF S
<1>5. SumOf(S) <= SumOf(ReturnedRefunds) /\ SumOf(S) \in Nat /\ SumOf(ReturnedRefunds) \in Nat
  BY <1>1, <1>3, <1>4, SumMono, SumRemove, SumOfIs
<1> QED
  BY <1>2, <1>5, RefundStoreAssumption DEF MoneyIsBack

(* Who comes to close the order, and what it has counted. *)
CloserStep ==
  /\ order' = "REFUNDED" =>
       \/ order = "REFUNDED"
       \/ \E w \in Settlers : wtx[w].close
       \/ \E r \in Refunds : rpc[r] = "settleOrder"
  /\ \A w \in Settlers : wtx'[w].close =>
       \/ wtx[w].close
       \/ w \in Queries /\ At(w, "order")
       \/ w \in Deliveries /\ dpc[w] = "order"
  /\ \A r \in Refunds : rpc'[r] = "settleOrder" => rpc[r] = "settleOrder" \/ RefundsCover({})
  /\ \A q \in Queries :
       /\ At(q, "sum")' => query'[q].ans = query[q].ans /\ (At(q, "sum") \/ At(q, "lookup"))
       /\ At(q, "order")' => At(q, "order") \/ (At(q, "sum") /\ RefundsCover({query[q].ref}))
  /\ \A d \in Deliveries :
       /\ dpc'[d] = "sum" =>
            carries'[d] = carries[d] /\ (dpc[d] = "sum" \/ (dpc[d] = "cas" /\ Notified(d) = "REFUND_SUCCESS"))
       /\ dpc'[d] = "order" => dpc[d] = "order" \/ (dpc[d] = "sum" /\ RefundsCover({carries[d]}))

LEMMA CountedStays ==
  ASSUME IInv, StoreTypeOK', ClosersCounted, ChannelKeeps, CloserStep
  PROVE  ClosersCounted'
<1>t. /\ StoreTypeOK
      /\ \A q \in Queries : QueryAgrees(q)
      /\ \A d \in Deliveries : DeliveryAgrees(d)
  BY DEF IInv, TypeOK
<1>1. MoneyIsBack => MoneyIsBack'
  BY <1>t, MoneyStays
<1>2. RefundsCover({}) => MoneyIsBack
  BY CoverIsMoney
<1>3. order' = "REFUNDED" => MoneyIsBack'
  BY <1>1 DEF CloserStep, ClosersCounted
<1>4. \A w \in Settlers : wtx'[w].close => MoneyIsBack'
  BY <1>1 DEF CloserStep, ClosersCounted
<1>5. \A r \in Refunds : rpc'[r] = "settleOrder" => MoneyIsBack'
  BY <1>1, <1>2 DEF CloserStep, ClosersCounted
<1>6. ASSUME NEW q \in Queries
      PROVE  /\ At(q, "sum")' => query'[q].ans = "REFUND_SUCCESS"
             /\ At(q, "order")' => MoneyIsBack'
  <2>1. At(q, "lookup") => query[q].ans = "REFUND_SUCCESS"
    BY <1>t DEF QueryAgrees, At
  <2>2. At(q, "sum")' => query'[q].ans = "REFUND_SUCCESS"
    BY <2>1 DEF CloserStep, ClosersCounted
  <2>3. ASSUME At(q, "sum"), RefundsCover({query[q].ref}) PROVE MoneyIsBack
    <3>1. query[q].ref \in ReturnedRefunds
      BY <1>t, <2>3 DEF ClosersCounted, QueryAgrees, At, Agrees, ReturnedRefunds
    <3>2. {query[q].ref} \in SUBSET ReturnedRefunds
      BY <3>1
    <3> QED
      BY <2>3, <3>2, CoverIsMoney
  <2> QED
    BY <1>1, <2>2, <2>3 DEF CloserStep, ClosersCounted
<1>7. ASSUME NEW d \in Deliveries
      PROVE  /\ dpc'[d] = "sum" => chan'[carries'[d]] = "SUCCESS"
             /\ dpc'[d] = "order" => MoneyIsBack'
  <2>1. dpc[d] # "idle" => carries[d] \in Refunds /\ chan[carries[d]] \in WechatRefundState
    BY <1>t DEF DeliveryAgrees, Failed, WechatRefundState
  <2>2. dpc[d] = "cas" /\ Notified(d) = "REFUND_SUCCESS" => chan[carries[d]] = "SUCCESS"
    BY <2>1, MappedStatus DEF Notified
  <2>3. dpc'[d] = "sum" => chan'[carries'[d]] = "SUCCESS"
    <3>1. dpc[d] = "sum" => chan[carries[d]] = "SUCCESS"
      BY DEF ClosersCounted
    <3>2. \A x \in Refunds : chan[x] = "SUCCESS" => chan'[x] = "SUCCESS"
      BY DEF ChannelKeeps
    <3>3. dpc'[d] = "sum" =>
            carries'[d] = carries[d] /\ (dpc[d] = "sum" \/ (dpc[d] = "cas" /\ Notified(d) = "REFUND_SUCCESS"))
      BY DEF CloserStep
    <3> QED
      BY <2>1, <2>2, <3>1, <3>2, <3>3
  <2>4. ASSUME dpc[d] = "sum", RefundsCover({carries[d]}) PROVE MoneyIsBack
    <3>1. {carries[d]} \in SUBSET ReturnedRefunds
      BY <2>1, <2>4 DEF ClosersCounted, ReturnedRefunds
    <3> QED
      BY <2>4, <3>1, CoverIsMoney
  <2> QED
    BY <1>1, <2>3, <2>4 DEF CloserStep, ClosersCounted
<1> QED
  BY <1>3, <1>4, <1>5, <1>6, <1>7 DEF ClosersCounted

(* The statements of a request and the channel's moves. *)
LEMMA RequestCloses ==
  ASSUME IInv, NEW r \in Refunds, UNCHANGED <<query, callbackVars>>,
         \/ \E p \in Payments, a \in Amounts : createRefund(r, p, a)
         \/ RequestStep(r) \/ CommitAnswerLost(r) \/ RequestFault(r)
         \/ ChannelMoves(r) /\ UNCHANGED createVars
  PROVE  ChannelKeeps /\ CloserStep
<1>t. StoreTypeOK /\ CreateTypeOK /\ (\A x \in Refunds : RequestAgrees(x))
  BY DEF IInv, TypeOK
<1>u. query' = query /\ dpc' = dpc /\ carries' = carries
  BY DEF callbackVars
(* Only writeRefundedOrder touches the order, only SettleSum leads to it. *)
<1>1. ASSUME wtx' = wtx,
             order' = order \/ (rpc[r] = "settleOrder" /\ order' \in {order, "REFUNDED"}),
             \A x \in Refunds \ {r} : rpc'[x] = rpc[x],
             rpc'[r] = "settleOrder" => RefundsCover({})
      PROVE  CloserStep
  BY <1>u, <1>1 DEF CloserStep, At
<1>2. ASSUME chan' = chan, req' = req PROVE ChannelKeeps
  BY <1>2 DEF ChannelKeeps
<1>3. ASSUME NEW p \in Payments, NEW a \in Amounts, createRefund(r, p, a)
      PROVE  ChannelKeeps /\ CloserStep
  <2>1. chan[r] = "none" /\ chan' = chan /\ \A x \in Refunds \ {r} : req'[x] = req[x]
    BY <1>t, <1>3 DEF createRefund, StoreTypeOK, RequestAgrees
  <2>2. /\ wtx' = wtx /\ order' = order /\ rpc'[r] = "order"
        /\ \A x \in Refunds \ {r} : rpc'[x] = rpc[x]
    BY <1>t, <1>3 DEF createRefund, Goto, CreateTypeOK
  <2> QED
    BY <1>1, <2>1, <2>2 DEF ChannelKeeps
<1>4. CASE proceedOrderFlow(r) \/ proceedWithAmountCheck(r) \/ proceedWithInProgressCheck(r)
           \/ LockPayment(r) \/ CheckSum(r) \/ AnswerArrives(r) \/ LeaveRefund(r)
  <2>1. UNCHANGED storeVars
    BY <1>4 DEF proceedOrderFlow, proceedWithAmountCheck, proceedWithInProgressCheck, LockPayment,
       CheckSum, AnswerArrives, LeaveRefund
  <2>2. \E k \in RequestPc : k # "settleOrder" /\ rpc' = [rpc EXCEPT ![r] = k]
    BY <1>4 DEF proceedOrderFlow, proceedWithAmountCheck, proceedWithInProgressCheck, LockPayment,
       CheckSum, AnswerArrives, LeaveRefund, Goto, RequestPc
  <2>3. rpc'[r] # "settleOrder" /\ \A x \in Refunds \ {r} : rpc'[x] = rpc[x]
    BY <1>t, <2>2 DEF CreateTypeOK
  <2> QED
    BY <1>1, <1>2, <2>1, <2>3 DEF storeVars
<1>5. CASE CommitRefundRow(r) \/ CommitAnswerLost(r) \/ updateRefundWithError(r) \/ SettleRow(r)
           \/ RequestFault(r)
  <2>1. UNCHANGED <<order, req, wtx, chan>>
    BY <1>5 DEF CommitRefundRow, CommitAnswerLost, updateRefundWithError, SettleRow, RequestFault,
       WriteRefund
  <2>2. \E k \in RequestPc : k # "settleOrder" /\ rpc' = [rpc EXCEPT ![r] = k]
    BY <1>5 DEF CommitRefundRow, CommitAnswerLost, updateRefundWithError, SettleRow, RequestFault,
       Goto, RequestPc
  <2>3. rpc'[r] # "settleOrder" /\ \A x \in Refunds \ {r} : rpc'[x] = rpc[x]
    BY <1>t, <2>2 DEF CreateTypeOK
  <2> QED
    BY <1>1, <1>2, <2>1, <2>3
<1>6. CASE SettleSum(r)
  <2>1. UNCHANGED <<order, req, wtx, chan>>
    BY <1>6 DEF SettleSum, storeVars
  <2>2. /\ rpc'[r] = "settleOrder" => RefundsCover({})
        /\ \A x \in Refunds \ {r} : rpc'[x] = rpc[x]
    BY <1>t, <1>6 DEF SettleSum, Goto, CreateTypeOK
  <2> QED
    BY <1>1, <1>2, <2>1, <2>2
<1>7. CASE writeRefundedOrder(r)
  <2>1. UNCHANGED <<req, wtx, chan>> /\ rpc[r] = "settleOrder" /\ order' \in {order, "REFUNDED"}
    BY <1>7 DEF writeRefundedOrder
  <2>2. rpc'[r] = "answered" /\ \A x \in Refunds \ {r} : rpc'[x] = rpc[x]
    BY <1>t, <1>7 DEF writeRefundedOrder, Goto, CreateTypeOK
  <2> QED
    BY <1>1, <1>2, <2>1, <2>2
<1>8. CASE invokeRefundChannel(r)
  <2>1. /\ UNCHANGED <<order, req, wtx>> /\ chan[r] = "none"
        /\ \A x \in Refunds \ {r} : chan'[x] = chan[x]
    BY <1>t, <1>8 DEF invokeRefundChannel, StoreTypeOK, RequestAgrees
  <2>2. rpc'[r] # "settleOrder" /\ \A x \in Refunds \ {r} : rpc'[x] = rpc[x]
    BY <1>t, <1>8 DEF invokeRefundChannel, Goto, CreateTypeOK
  <2> QED
    BY <1>1, <2>1, <2>2 DEF ChannelKeeps
<1>9. CASE ChannelMoves(r) /\ UNCHANGED createVars
  <2>1. /\ UNCHANGED <<order, req, wtx, rpc>>
        /\ \A x \in Refunds : chan[x] # "none" => chan'[x] # "none"
        /\ \A x \in Refunds : chan[x] = "SUCCESS" => chan'[x] = "SUCCESS"
    BY <1>t, <1>9 DEF ChannelMoves, StoreTypeOK, createVars
  <2> QED
    BY <1>u, <2>1 DEF ChannelKeeps, CloserStep, At
<1> QED
  BY <1>3, <1>4, <1>5, <1>6, <1>7, <1>8, <1>9 DEF RequestStep

(* The statements of a query. *)
LEMMA QueryCloses ==
  ASSUME IInv, NEW q \in Queries, UNCHANGED <<createVars, callbackVars>>,
         \/ \E r \in Refunds : queryRefund(q, r)
         \/ QueryStep(q) \/ QueryFault(q)
  PROVE  ChannelKeeps /\ CloserStep
<1>t. StoreTypeOK /\ SyncTypeOK /\ q \in Settlers
  BY SyncAssumption DEF IInv, TypeOK
<1>u. rpc' = rpc /\ dpc' = dpc /\ carries' = carries
  BY DEF createVars, callbackVars
<1>1. ASSUME chan' = chan, req' = req PROVE ChannelKeeps
  BY <1>1 DEF ChannelKeeps
<1>2. ASSUME order' = "REFUNDED" => order = "REFUNDED" \/ wtx[q].close,
             \A w \in Settlers \ {q} : wtx'[w] = wtx[w],
             wtx'[q].close => wtx[q].close \/ At(q, "order"),
             \A y \in Queries \ {q} : query'[y] = query[y],
             At(q, "sum")' => query'[q].ans = query[q].ans /\ At(q, "lookup"),
             At(q, "order")' => At(q, "sum") /\ RefundsCover({query[q].ref})
      PROVE  CloserStep
  BY <1>t, <1>u, <1>2 DEF CloserStep, At
<1>3. CASE (\E r \in Refunds : queryRefund(q, r)) \/ ReadRow(q) \/ SumSettled(q)
  <2>1. UNCHANGED storeVars /\ \A y \in Queries \ {q} : query'[y] = query[y]
    BY <1>t, <1>3 DEF queryRefund, ReadRow, SumSettled, EndQuery, Advance, SyncTypeOK
  <2>2. /\ ~At(q, "sum")'
        /\ At(q, "order")' => At(q, "sum") /\ RefundsCover({query[q].ref})
    BY <1>t, <1>3 DEF queryRefund, ReadRow, SumSettled, EndQuery, Advance, SyncTypeOK, At,
       IdleQuery, Query
  <2> QED
    BY <1>1, <1>2, <2>1, <2>2 DEF storeVars
<1>4. CASE WriteRow(q) \/ insertLedgerEntry(q) \/ CloseOrder(q)
  <2>1. /\ UNCHANGED <<order, req, chan>>
        /\ \A w \in Settlers \ {q} : wtx'[w] = wtx[w]
        /\ \A y \in Queries \ {q} : query'[y] = query[y]
    BY <1>t, <1>4
    DEF WriteRow, insertLedgerEntry, CloseOrder, InTx, Advance, SyncTypeOK, StoreTypeOK
  <2>2. /\ At(q, "sum")' => query'[q].ans = query[q].ans /\ At(q, "lookup")
        /\ ~At(q, "order")'
    BY <1>t, <1>4 DEF WriteRow, insertLedgerEntry, CloseOrder, Advance, SyncTypeOK, At, Query
  <2>3. wtx'[q].close => wtx[q].close \/ At(q, "order")
    <3>1. CASE WriteRow(q)
      BY <1>t, <3>1 DEF WriteRow, InTx, NoTx, StoreTypeOK
    <3>2. CASE insertLedgerEntry(q)
      <4> DEFINE found == \E o \in Refunds : entries[o] > 0 /\ req[o].pay = req[query[q].ref].pay
      <4>1. wtx' = [wtx EXCEPT ![q] = [wtx[q] EXCEPT !.led = ~found]]
        BY <3>2 DEF insertLedgerEntry, InTx
      <4> HIDE DEF found
      <4> QED
        BY <1>t, <4>1 DEF StoreTypeOK, RefundTx
    <3>3. CASE CloseOrder(q)
      BY <3>3 DEF CloseOrder
    <3> QED
      BY <1>4, <3>1, <3>2, <3>3
  <2> QED
    BY <1>1, <1>2, <2>1, <2>2, <2>3
<1>5. CASE CommitQuery(q) \/ QueryFault(q)
  <2>1. /\ UNCHANGED <<req, chan>>
        /\ wtx' = [wtx EXCEPT ![q] = NoTx]
        /\ query' = [query EXCEPT ![q] = IdleQuery]
        /\ order' = "REFUNDED" => order = "REFUNDED" \/ wtx[q].close
    BY <1>5 DEF CommitQuery, QueryFault, Publish, Fault, EndQuery
  <2>2. /\ wtx'[q] = NoTx /\ query'[q] = IdleQuery
        /\ \A w \in Settlers \ {q} : wtx'[w] = wtx[w]
        /\ \A y \in Queries \ {q} : query'[y] = query[y]
    BY <1>t, <2>1 DEF StoreTypeOK, SyncTypeOK
  <2> QED
    BY <1>1, <1>2, <2>1, <2>2 DEF NoTx, IdleQuery, At
<1> QED
  BY <1>3, <1>4, <1>5 DEF QueryStep

(* The statements of a delivery. *)
LEMMA DeliveryCloses ==
  ASSUME IInv, NEW d \in Deliveries, UNCHANGED <<createVars, query>>,
         \/ \E r \in Refunds : handleRefundCallback(d, r)
         \/ DeliveryStep(d) \/ DeliveryFault(d)
  PROVE  ChannelKeeps /\ CloserStep
<1>t. StoreTypeOK /\ CallbackTypeOK /\ d \in Settlers /\ wtx[d] \in RefundTx
  BY CallbackAssumption DEF IInv, TypeOK, StoreTypeOK
<1>u. rpc' = rpc /\ query' = query
  BY DEF createVars
<1>1. ASSUME chan' = chan, req' = req PROVE ChannelKeeps
  BY <1>1 DEF ChannelKeeps
<1>2. ASSUME order' = "REFUNDED" => order = "REFUNDED" \/ wtx[d].close,
             \A w \in Settlers \ {d} : wtx'[w] = wtx[w],
             wtx'[d].close => wtx[d].close \/ dpc[d] = "order",
             \A e \in Deliveries \ {d} : dpc'[e] = dpc[e] /\ carries'[e] = carries[e],
             dpc'[d] = "sum" => carries'[d] = carries[d] /\ dpc[d] = "cas" /\ Notified(d) = "REFUND_SUCCESS",
             dpc'[d] = "order" => dpc[d] = "sum" /\ RefundsCover({carries[d]})
      PROVE  CloserStep
  BY <1>t, <1>u, <1>2 DEF CloserStep, At
<1>3. CASE \/ \E r \in Refunds : handleRefundCallback(d, r)
           \/ LookupReservation(d) \/ dropUnfinalizedReservation(d) \/ AuditDuplicate(d)
           \/ ReserveKey(d) \/ ReadRefund(d) \/ SumInTx(d)
  <2>1. /\ UNCHANGED storeVars
        /\ \A e \in Deliveries \ {d} : dpc'[e] = dpc[e] /\ carries'[e] = carries[e]
    BY <1>t, <1>3 DEF handleRefundCallback, LookupReservation, dropUnfinalizedReservation,
       AuditDuplicate, ReserveKey, ReadRefund, SumInTx, MoveTo, Ack, Fail, CallbackTypeOK
  <2>2. /\ dpc'[d] # "sum"
        /\ dpc'[d] = "order" => dpc[d] = "sum" /\ RefundsCover({carries[d]})
    BY <1>t, <1>3 DEF handleRefundCallback, LookupReservation, dropUnfinalizedReservation,
       AuditDuplicate, ReserveKey, ReadRefund, SumInTx, MoveTo, Ack, Fail, CallbackTypeOK
  <2> QED
    BY <1>1, <1>2, <2>1, <2>2 DEF storeVars
<1>4. CASE CasRefund(d)
  <2>1. /\ UNCHANGED <<order, req, chan, carries>>
        /\ \A w \in Settlers \ {d} : wtx'[w] = wtx[w]
        /\ \A e \in Deliveries \ {d} : dpc'[e] = dpc[e]
    BY <1>t, <1>4 DEF CasRefund, Rollback, InTx, MoveTo, Ack, StoreTypeOK, CallbackTypeOK
  <2>2. /\ dpc'[d] # "order" /\ dpc[d] = "cas"
        /\ dpc'[d] = "sum" => Notified(d) = "REFUND_SUCCESS"
    BY <1>t, <1>4 DEF CasRefund, MoveTo, Ack, CallbackTypeOK
  <2>3. ~wtx'[d].close
    <3> DEFINE t == [NoTx EXCEPT !.ref = carries[d], !.st = Notified(d),
                                 !.led = Notified(d) = "REFUND_SUCCESS"]
    <3>1. ~t.close /\ ~NoTx.close
      BY DEF NoTx
    <3>2. wtx' = [wtx EXCEPT ![d] = t] \/ wtx' = [wtx EXCEPT ![d] = NoTx]
      BY <1>4 DEF CasRefund, Rollback, InTx
    <3> HIDE DEF t
    <3> QED
      BY <1>t, <3>1, <3>2 DEF StoreTypeOK
  <2> QED
    BY <1>1, <1>2, <2>1, <2>2, <2>3
<1>5. CASE CloseOrderInTx(d)
  <2>1. /\ UNCHANGED <<order, req, chan, carries>>
        /\ \A w \in Settlers \ {d} : wtx'[w] = wtx[w]
        /\ \A e \in Deliveries \ {d} : dpc'[e] = dpc[e]
    BY <1>t, <1>5 DEF CloseOrderInTx, InTx, MoveTo, StoreTypeOK, CallbackTypeOK
  <2>2. dpc'[d] = "finalize" /\ dpc[d] = "order"
    BY <1>t, <1>5 DEF CloseOrderInTx, MoveTo, CallbackTypeOK
  <2> QED
    BY <1>1, <1>2, <2>1, <2>2
<1>6. CASE FinalizeInTx(d)
  <2>1. /\ UNCHANGED <<order, req, chan, carries>>
        /\ \A w \in Settlers \ {d} : wtx'[w] = wtx[w]
        /\ \A e \in Deliveries \ {d} : dpc'[e] = dpc[e]
    BY <1>t, <1>6 DEF FinalizeInTx, Rollback, InTx, MoveTo, Fail, StoreTypeOK, CallbackTypeOK
  <2>2. dpc'[d] \notin {"sum", "order"}
    BY <1>t, <1>6 DEF FinalizeInTx, MoveTo, Fail, CallbackTypeOK
  <2>3. wtx'[d].close => wtx[d].close
    BY <1>t, <1>6 DEF FinalizeInTx, Rollback, InTx, NoTx, StoreTypeOK, RefundTx
  <2> QED
    BY <1>1, <1>2, <2>1, <2>2, <2>3
<1>7. CASE CommitSettlement(d) \/ DeliveryFault(d)
  <2>1. /\ UNCHANGED <<req, chan, carries>>
        /\ wtx' = [wtx EXCEPT ![d] = NoTx]
        /\ dpc' = [dpc EXCEPT ![d] = "idle"]
        /\ order' = "REFUNDED" => order = "REFUNDED" \/ wtx[d].close
    BY <1>7 DEF CommitSettlement, DeliveryFault, Publish, Fault, MoveTo, Ack, Fail
  <2>2. /\ wtx'[d] = NoTx /\ dpc'[d] = "idle"
        /\ \A w \in Settlers \ {d} : wtx'[w] = wtx[w]
        /\ \A e \in Deliveries \ {d} : dpc'[e] = dpc[e]
    BY <1>t, <2>1 DEF StoreTypeOK, CallbackTypeOK
  <2> QED
    BY <1>1, <1>2, <2>1, <2>2 DEF NoTx
<1> QED
  BY <1>3, <1>4, <1>5, <1>6, <1>7 DEF DeliveryStep

(* Every step. *)
LEMMA StepCloses ==
  ASSUME IInv, [Next]_vars
  PROVE  ChannelKeeps /\ CloserStep
<1>1. CASE CreateNext /\ UNCHANGED <<query, callbackVars>>
  BY <1>1, RequestCloses DEF CreateNext
<1>2. CASE SyncNext /\ UNCHANGED <<createVars, callbackVars>>
  BY <1>2, QueryCloses DEF SyncNext
<1>3. CASE CallbackNext /\ UNCHANGED <<createVars, query>>
  BY <1>3, DeliveryCloses DEF CallbackNext
<1>4. CASE Restart
  BY <1>4 DEF Restart, ChannelKeeps, CloserStep, At, IdleQuery, NoTx
<1>5. CASE UNCHANGED vars
  BY <1>5 DEF vars, storeVars, createVars, callbackVars, ChannelKeeps, CloserStep, At
<1> QED
  BY <1>1, <1>2, <1>3, <1>4, <1>5 DEF Next

(* A REFUNDED order's money is back in full: the channel has returned the
   order's amount whoever closed it - the request's answer
   (refreshOrderRefundStatus), a notification or a query. *)
THEOREM RefundedOrdersAreRepaid == Spec => []RefundedMeansMoneyBack
<1>1. Init => ClosersCounted
  BY DEF Init, StoreInit, CreateInit, SyncInit, CallbackInit, ClosersCounted, NoTx, At, IdleQuery
<1>2. IInv /\ IInv' /\ ClosersCounted /\ [Next]_vars => ClosersCounted'
  BY CountedStays, StepCloses DEF IInv, TypeOK
<1>3. ClosersCounted => RefundedMeansMoneyBack
  BY DEF ClosersCounted, RefundedMeansMoneyBack, MoneyIsBack
<1> QED
  BY <1>1, <1>2, <1>3, RefundsAgree, PTL DEF Spec

----------------------------------------------------------------------------
(* The channel never returns more than the order's amount *)

(* The parts of both invariants. *)
LEMMA ReserveFacts ==
  ASSUME IInv, ReserveInv
  PROVE  /\ StoreTypeOK /\ CreateTypeOK /\ SyncTypeOK /\ CallbackTypeOK
         /\ \A x \in Refunds : RequestAgrees(x) /\ RowReserved(x)
         /\ \A w \in Settlers : SettlerAgrees(w)
         /\ \A q \in Queries : QueryAgrees(q)
         /\ \A d \in Deliveries : DeliveryAgrees(d)
         /\ SettlersFollow /\ ClaimsFit
BY DEF IInv, TypeOK, ReserveInv

(* Claims counted after a step. *)
LEMMA ClaimsSum ==
  /\ SumOf(Claims) = AmountSum(req, Claims)
  /\ SumOf(Claims)' = AmountSum(req', Claims')
BY Zenon DEF SumOf, AmountSum, MapThenSumSet, MapThenFoldSet

(* What claims money counts against the order: an outcome that is not known
   is never booked as a failure. *)
LEMMA ClaimsAreLive ==
  ASSUME IInv, ReserveInv, Channel = "wechat"
  PROVE  SumOf(Claims) <= SumOf(LiveRefunds) /\ SumOf(Claims) \in Nat /\ SumOf(LiveRefunds) \in Nat
<1>t. StoreTypeOK /\ \A x \in Refunds : RequestAgrees(x) /\ RowReserved(x)
  BY ReserveFacts
<1>1. ASSUME NEW x \in Claims PROVE x \in LiveRefunds
  <2>1. /\ x \in Refunds /\ refund[x] \in RefundStatus \cup {"none"} /\ refund[x] # "none"
        /\ rpc[x] = "call" \/ chan[x] \in {"sent", "PROCESSING", "SUCCESS"}
    BY <1>t, <1>1 DEF Claims, StoreTypeOK, RowReserved
  <2>2. refund[x] # "REFUND_FAIL"
    BY <1>t, <2>1 DEF RequestAgrees, NotMoved
  <2> QED
    BY <2>1, <2>2 DEF LiveRefunds, RefundStatus, InFlight
<1>2. Claims \in SUBSET LiveRefunds /\ LiveRefunds \in SUBSET Refunds
  BY <1>1 DEF LiveRefunds
<1>3. IsFiniteSet(LiveRefunds) /\ IsFiniteSet(Claims)
  BY <1>2, FS_Subset, RefundStoreAssumption
<1>4. \A r \in LiveRefunds : req[r].amt \in Nat
  BY <1>t, <1>2, AmountsAreNat
<1>5. /\ AmountSum(req, Claims) <= AmountSum(req, LiveRefunds)
      /\ AmountSum(req, Claims) \in Nat /\ AmountSum(req, LiveRefunds) \in Nat
  BY <1>2, <1>3, <1>4, SumMono, SumRemove
<1> QED
  BY <1>5, SumOfIs

(* A step that adds no claim and brings no request to its COMMIT. *)
LEMMA NoNewClaim ==
  ASSUME StoreTypeOK, StoreTypeOK', ClaimsFit,
         Claims' \subseteq Claims,
         \A x \in Refunds : x \in Claims' \/ rpc'[x] = "commit" => req'[x] = req[x],
         \A x \in Refunds : rpc'[x] = "commit" => rpc[x] = "commit"
  PROVE  ClaimsFit'
<1> DEFINE S == Claims'
           T == Claims
           Before == AmountSum(req, T)
           After == AmountSum(req', S)
<1>1. S \in SUBSET T /\ T \in SUBSET Refunds
  BY DEF Claims
<1>2. \A x \in S : req'[x] = req[x]
  BY <1>1
<1>3. SumOf(Claims) = Before /\ SumOf(Claims)' = After
  BY ClaimsSum
<1>4. \A r \in Refunds : req[r].amt \in Nat
  BY AmountsAreNat
<1> HIDE DEF S, T
<1>5. IsFiniteSet(S) /\ IsFiniteSet(T)
  BY <1>1, FS_Subset, RefundStoreAssumption
<1>6. AmountSum(req, S) = After
  BY <1>2, <1>5, SumSame
<1>7. AmountSum(req, S) <= Before /\ Before \in Nat /\ AmountSum(req, S) \in Nat
  BY <1>1, <1>4, <1>5, SumMono, SumRemove
<1>8. After <= Before /\ Before \in Nat /\ After \in Nat
  BY <1>6, <1>7
<1> HIDE DEF Before, After
<1>9. After <= Total
  BY <1>3, <1>8, RefundStoreAssumption DEF ClaimsFit
<1>10. ASSUME NEW r \in Refunds, rpc'[r] = "commit"
       PROVE  After + req'[r].amt <= Total
  <2>1. Before + req[r].amt <= Total /\ req'[r] = req[r]
    BY <1>3, <1>10 DEF ClaimsFit
  <2> QED
    BY <1>4, <1>8, <2>1, RefundStoreAssumption
<1> QED
  BY <1>3, <1>9, <1>10 DEF ClaimsFit

(* A statement of a request: it moves its own row, place and claim only, and
   leaves the locks of others alone. *)
LEMMA RequestReserves ==
  ASSUME IInv, ReserveInv, NEW r \in Refunds, UNCHANGED <<wtx, query>>,
         \A x \in Refunds \ {r} :
           refund'[x] = refund[x] /\ rpc'[x] = rpc[x] /\ req'[x] = req[x] /\ chan'[x] = chan[x],
         chan[r] # "none" => chan'[r] # "none",
         \A p \in Payments : lock[p] \in Refunds \ {r} => lock'[p] = lock[p],
         RowReserved(r)'
  PROVE  (\A x \in Refunds : RowReserved(x)') /\ SettlersFollow'
<1>t. /\ CreateTypeOK
      /\ \A x \in Refunds : RowReserved(x)
      /\ \A w \in Settlers : SettlerAgrees(w)
      /\ \A q \in Queries : QueryAgrees(q)
      /\ SettlersFollow
  BY ReserveFacts
<1>1. ASSUME NEW x \in Refunds, x # r PROVE RowReserved(x)'
  <2>1. rpc[x] \in {"sum", "commit"} => req[x].pay \in Payments /\ lock[req[x].pay] = x
    BY <1>t DEF RowReserved
  <2> QED
    BY <1>t, <1>1, <2>1 DEF RowReserved
<1>2. \A w \in Settlers : wtx'[w].st # "keep" => chan'[wtx'[w].ref] # "none"
  BY <1>t DEF SettlersFollow, SettlerAgrees
<1>3. \A q \in Queries : ~At(q, "idle")' => chan'[query'[q].ref] # "none"
  BY <1>t DEF SettlersFollow, QueryAgrees, At
<1> QED
  BY <1>1, <1>2, <1>3 DEF SettlersFollow

(* One payment has one lock: a single request is about to insert its row. *)
LEMMA OneInserter ==
  ASSUME IInv, ReserveInv, \A p, s \in Payments : p = s,
         NEW r \in Refunds, NEW x \in Refunds, rpc[r] = "commit", rpc[x] = "commit"
  PROVE  x = r
<1>1. /\ req[r].pay \in Payments /\ lock[req[r].pay] = r
      /\ req[x].pay \in Payments /\ lock[req[x].pay] = x
  BY ReserveFacts DEF RowReserved
<1>2. req[r].pay = req[x].pay
  BY <1>1
<1> QED
  BY <1>1, <1>2

(* The sum is checked under the lock that the INSERT releases. *)
LEMMA InsertFits ==
  ASSUME IInv, IInv', ReserveInv, \A p, s \in Payments : p = s,
         NEW r \in Refunds, CommitRefundRow(r)
  PROVE  ClaimsFit'
<1>t. /\ StoreTypeOK /\ CreateTypeOK /\ ClaimsFit /\ RequestAgrees(r)
  BY ReserveFacts
<1>1. /\ req' = req /\ chan' = chan /\ rpc[r] = "commit" /\ rpc'[r] = "call"
      /\ \A x \in Refunds \ {r} : rpc'[x] = rpc[x]
  BY <1>t DEF CommitRefundRow, WriteRefund, Goto, CreateTypeOK
<1>2. r \notin Claims
  BY <1>t, <1>1 DEF Claims, RequestAgrees
<1>3. Claims' = Claims \cup {r}
  BY <1>1 DEF Claims
<1>4. \A x \in Refunds : rpc'[x] # "commit"
  BY <1>1, OneInserter
<1> DEFINE S == Claims
           Before == AmountSum(req, S)
           After == AmountSum(req, S \cup {r})
<1>5. SumOf(Claims) = Before /\ SumOf(Claims)' = After
  BY <1>1, <1>3, ClaimsSum
<1>6. S \in SUBSET Refunds /\ r \notin S
  BY <1>2 DEF Claims
<1> HIDE DEF S
<1>7. IsFiniteSet(S)
  BY <1>6, FS_Subset, RefundStoreAssumption
<1>8. \A x \in S \cup {r} : req[x].amt \in Nat
  BY <1>t, <1>6, AmountsAreNat
<1>9. After = req[r].amt + Before /\ Before \in Nat
  BY <1>6, <1>7, <1>8, SumAdd, SumRemove
<1> HIDE DEF Before, After
<1>10. Before + req[r].amt <= Total
  BY <1>t, <1>1, <1>5 DEF ClaimsFit
<1>11. After <= Total
  BY <1>8, <1>9, <1>10, RefundStoreAssumption
<1> QED
  BY <1>4, <1>5, <1>11 DEF ClaimsFit

(* Reading the sum under the lock. *)
LEMMA CheckedSumFits ==
  ASSUME IInv, IInv', ReserveInv, Channel = "wechat", NEW r \in Refunds, CheckSum(r)
  PROVE  ClaimsFit'
<1>t. /\ StoreTypeOK /\ CreateTypeOK /\ ClaimsFit
  BY ReserveFacts
<1>1. /\ req' = req /\ chan' = chan /\ rpc[r] = "sum" /\ rpc'[r] \in {"commit", "answered"}
      /\ rpc'[r] = "commit" => ~(SumOf(LiveRefunds) + req[r].amt > Total)
      /\ \A x \in Refunds \ {r} : rpc'[x] = rpc[x]
  BY <1>t DEF CheckSum, Goto, CreateTypeOK, storeVars
<1>2. Claims' = Claims
  BY <1>1 DEF Claims
<1>3. SumOf(Claims)' = SumOf(Claims)
  BY <1>1, <1>2, ClaimsSum
<1>4. SumOf(Claims) <= SumOf(LiveRefunds) /\ SumOf(Claims) \in Nat /\ SumOf(LiveRefunds) \in Nat
  BY ClaimsAreLive
<1>5. req[r].amt \in Nat
  BY <1>t, AmountsAreNat
<1>6. rpc'[r] = "commit" => SumOf(Claims) + req[r].amt <= Total
  BY <1>1, <1>4, <1>5, RefundStoreAssumption
<1> QED
  BY <1>t, <1>1, <1>3, <1>6 DEF ClaimsFit

(* Every statement of a request, and the channel's moves. *)
LEMMA RequestKeepsReserve ==
  ASSUME IInv, IInv', ReserveInv, Channel = "wechat", \A p, s \in Payments : p = s,
         NEW r \in Refunds, UNCHANGED <<query, callbackVars>>,
         \/ \E p \in Payments, a \in Amounts : createRefund(r, p, a)
         \/ RequestStep(r) \/ CommitAnswerLost(r) \/ RequestFault(r)
         \/ ChannelMoves(r) /\ UNCHANGED createVars
  PROVE  ReserveInv'
<1>t. /\ StoreTypeOK /\ CreateTypeOK /\ ClaimsFit /\ RequestAgrees(r) /\ RowReserved(r)
      /\ StoreTypeOK' /\ req[r].pay \in Payments \cup {"none"}
      /\ RequestAgrees(r)'
  BY ReserveFacts DEF IInv, TypeOK, StoreTypeOK
<1> DEFINE Early == {"new", "order", "same", "progress", "lock", "sum", "commit"}
(* Whatever moves r's place alone, and neither to nor from its COMMIT. *)
<1>1. ASSUME UNCHANGED storeVars, NEW k \in RequestPc, rpc' = [rpc EXCEPT ![r] = k],
             k \in {"sum", "commit"} => lock'[req[r].pay] = r,
             k \in Early => rpc[r] \in Early \ {"new"},
             rpc[r] # "new" /\ k \notin {"new", "call"},
             \A p \in Payments : lock[p] \in Refunds \ {r} => lock'[p] = lock[p]
      PROVE  /\ \A x \in Refunds : RowReserved(x)'
             /\ SettlersFollow'
             /\ k # "commit" => ClaimsFit'
  <2>1. /\ UNCHANGED <<wtx, query, refund, req, chan>> /\ rpc'[r] = k
        /\ \A x \in Refunds \ {r} : rpc'[x] = rpc[x]
    BY <1>t, <1>1 DEF storeVars, CreateTypeOK
  <2>2. RowReserved(r)'
    BY <1>t, <1>1, <2>1 DEF RowReserved
  <2>3. (\A x \in Refunds : RowReserved(x)') /\ SettlersFollow'
    BY <1>1, <2>1, <2>2, RequestReserves
  <2>4. k # "commit" => ClaimsFit'
    <3>1. Claims' \subseteq Claims
      BY <1>1, <2>1 DEF Claims
    <3> QED
      BY <1>t, <2>1, <3>1, NoNewClaim
  <2> QED
    BY <2>3, <2>4
<1>2. ASSUME NEW p \in Payments, NEW a \in Amounts, createRefund(r, p, a)
      PROVE  ReserveInv'
  <2>1. /\ UNCHANGED <<wtx, query, refund, chan, lock>> /\ rpc[r] = "new" /\ rpc'[r] = "order"
        /\ req'[r].pay = p
        /\ \A x \in Refunds \ {r} : rpc'[x] = rpc[x] /\ req'[x] = req[x]
    BY <1>t, <1>2 DEF createRefund, Goto, CreateTypeOK, StoreTypeOK
  <2>2. chan[r] = "none" /\ refund[r] = "none"
    BY <1>t, <2>1 DEF RequestAgrees, RowReserved
  <2>3. RowReserved(r)'
    BY <2>1, <2>2 DEF RowReserved
  <2>4. (\A x \in Refunds : RowReserved(x)') /\ SettlersFollow'
    BY <2>1, <2>3, RequestReserves
  <2>5. Claims' \subseteq Claims /\ r \notin Claims'
    BY <2>1, <2>2 DEF Claims
  <2>6. ClaimsFit'
    BY <1>t, <2>1, <2>5, NoNewClaim
  <2> QED
    BY <2>4, <2>6 DEF ReserveInv
<1>3. CASE proceedOrderFlow(r) \/ proceedWithAmountCheck(r) \/ proceedWithInProgressCheck(r)
           \/ AnswerArrives(r) \/ LeaveRefund(r) \/ SettleSum(r)
  <2>1. UNCHANGED storeVars /\ lock' = lock
    BY <1>3 DEF proceedOrderFlow, proceedWithAmountCheck, proceedWithInProgressCheck,
       AnswerArrives, LeaveRefund, SettleSum
  <2>2. \E k \in RequestPc :
          /\ rpc' = [rpc EXCEPT ![r] = k]
          /\ k \notin {"new", "sum", "commit", "call"}
          /\ k \in Early => rpc[r] \in Early \ {"new"}
          /\ rpc[r] # "new"
    BY <1>3 DEF proceedOrderFlow, proceedWithAmountCheck, proceedWithInProgressCheck,
       AnswerArrives, LeaveRefund, SettleSum, Goto, RequestPc
  <2> QED
    BY <1>1, <2>1, <2>2 DEF ReserveInv
<1>4. CASE LockPayment(r)
  <2>1. /\ UNCHANGED storeVars /\ rpc[r] = "lock" /\ rpc' = [rpc EXCEPT ![r] = "sum"]
        /\ lock[req[r].pay] = "none" /\ lock' = [lock EXCEPT ![req[r].pay] = r]
    BY <1>4 DEF LockPayment, Goto
  <2>2. req[r].pay \in Payments
    BY <1>t, <2>1 DEF RowReserved
  <2>3. lock'[req[r].pay] = r
    BY <1>t, <2>1, <2>2 DEF CreateTypeOK
  <2>4. \A p \in Payments : lock[p] \in Refunds \ {r} => lock'[p] = lock[p]
    BY <1>t, <2>1, <2>2, RefundStoreAssumption DEF CreateTypeOK
  <2> QED
    BY <1>1, <2>1, <2>3, <2>4 DEF ReserveInv, RequestPc
<1>5. CASE CheckSum(r)
  <2>1. \E k \in {"commit", "answered"} :
          /\ UNCHANGED storeVars /\ rpc[r] = "sum" /\ rpc' = [rpc EXCEPT ![r] = k]
          /\ k = "commit" => lock' = lock
          /\ \A p \in Payments : lock[p] \in Refunds \ {r} => lock'[p] = lock[p]
    BY <1>t, <1>5 DEF CheckSum, Goto, Unlock, CreateTypeOK
  <2>2. lock[req[r].pay] = r
    BY <1>t, <2>1 DEF RowReserved
  <2>3. (\A x \in Refunds : RowReserved(x)') /\ SettlersFollow'
    BY <1>1, <2>1, <2>2 DEF RequestPc
  <2> QED
    BY <1>5, <2>3, CheckedSumFits DEF ReserveInv
(* Whatever writes r's row at most, and leaves its request at k. *)
<1>6. ASSUME UNCHANGED <<wtx, req, chan>>,
             \A x \in Refunds \ {r} : refund'[x] = refund[x],
             refund'[r] = refund[r] \/ refund'[r] # "none",
             NEW k \in RequestPc \ Early, rpc' = [rpc EXCEPT ![r] = k],
             k = "call" => refund'[r] # "none",
             rpc[r] # "new",
             \A p \in Payments : lock[p] \in Refunds \ {r} => lock'[p] = lock[p]
      PROVE  /\ \A x \in Refunds : RowReserved(x)'
             /\ SettlersFollow'
             /\ k # "call" => ClaimsFit'
  <2>1. rpc'[r] = k /\ \A x \in Refunds \ {r} : rpc'[x] = rpc[x]
    BY <1>t, <1>6 DEF CreateTypeOK
  <2>2. RowReserved(r)'
    BY <1>t, <1>6, <2>1 DEF RowReserved
  <2>3. (\A x \in Refunds : RowReserved(x)') /\ SettlersFollow'
    BY <1>6, <2>1, <2>2, RequestReserves
  <2>4. k # "call" => ClaimsFit'
    <3>1. k # "call" => Claims' \subseteq Claims
      BY <1>6, <2>1 DEF Claims
    <3>2. \A x \in Refunds : rpc'[x] = "commit" => rpc[x] = "commit"
      BY <1>6, <2>1
    <3> QED
      BY <1>t, <1>6, <3>1, <3>2, NoNewClaim
  <2> QED
    BY <2>3, <2>4
<1>7. CASE CommitRefundRow(r)
  <2>1. /\ UNCHANGED <<wtx, req, chan>> /\ refund' = [refund EXCEPT ![r] = "REFUND_INIT"]
        /\ rpc[r] = "commit" /\ rpc' = [rpc EXCEPT ![r] = "call"]
        /\ \A p \in Payments : lock[p] \in Refunds \ {r} => lock'[p] = lock[p]
    BY <1>t, <1>7 DEF CommitRefundRow, WriteRefund, Goto, Unlock, CreateTypeOK
  <2>2. refund'[r] = "REFUND_INIT" /\ \A x \in Refunds \ {r} : refund'[x] = refund[x]
    BY <1>t, <2>1 DEF StoreTypeOK
  <2>3. (\A x \in Refunds : RowReserved(x)') /\ SettlersFollow'
    BY <1>6, <2>1, <2>2 DEF RequestPc
  <2> QED
    BY <1>7, <2>3, InsertFits DEF ReserveInv
<1>8. CASE CommitAnswerLost(r) \/ updateRefundWithError(r) \/ SettleRow(r)
           \/ writeRefundedOrder(r) \/ RequestFault(r)
  <2>1. /\ UNCHANGED <<wtx, req, chan>> /\ rpc[r] # "new"
        /\ \A p \in Payments : lock[p] \in Refunds \ {r} => lock'[p] = lock[p]
    BY <1>t, <1>8 DEF CommitAnswerLost, updateRefundWithError, SettleRow, writeRefundedOrder,
       RequestFault, WriteRefund, Unlock, CreateTypeOK
  <2>2. \E k \in {"answered", "settleSum"} : rpc' = [rpc EXCEPT ![r] = k]
    BY <1>8 DEF CommitAnswerLost, updateRefundWithError, SettleRow, writeRefundedOrder,
       RequestFault, Goto
  <2>3. \/ refund' = refund
        \/ \E v : refund' = [refund EXCEPT ![r] = v] /\ (v = refund[r] \/ v # "none")
    BY <1>8 DEF CommitAnswerLost, updateRefundWithError, SettleRow, writeRefundedOrder,
       RequestFault, WriteRefund
  <2>4. /\ \A x \in Refunds \ {r} : refund'[x] = refund[x]
        /\ refund'[r] = refund[r] \/ refund'[r] # "none"
    BY <1>t, <2>3 DEF StoreTypeOK
  <2> QED
    BY <1>6, <2>1, <2>2, <2>4 DEF ReserveInv, RequestPc
<1>9. CASE invokeRefundChannel(r)
  <2>1. /\ UNCHANGED <<wtx, req, refund, lock>> /\ rpc[r] = "call" /\ rpc'[r] \in {"await", "book"}
        /\ \A x \in Refunds \ {r} : rpc'[x] = rpc[x] /\ chan'[x] = chan[x]
        /\ chan'[r] \in {chan[r], "sent"}
    BY <1>t, <1>9 DEF invokeRefundChannel, Goto, CreateTypeOK, StoreTypeOK
  <2>2. RowReserved(r)'
    BY <1>t, <2>1 DEF RowReserved
  <2>3. (\A x \in Refunds : RowReserved(x)') /\ SettlersFollow'
    BY <2>1, <2>2, RequestReserves
  <2>4. Claims' \subseteq Claims
    BY <2>1 DEF Claims
  <2>5. ClaimsFit'
    BY <1>t, <2>1, <2>4, NoNewClaim
  <2> QED
    BY <2>3, <2>5 DEF ReserveInv
<1>10. CASE ChannelMoves(r) /\ UNCHANGED createVars
  <2>1. /\ UNCHANGED <<wtx, req, refund, lock, rpc>>
        /\ \A x \in Refunds \ {r} : chan'[x] = chan[x]
        /\ chan[r] \in {"sent", "PROCESSING"} /\ chan'[r] # "none"
    BY <1>t, <1>10 DEF ChannelMoves, StoreTypeOK, createVars
  <2>2. RowReserved(r)'
    BY <1>t, <2>1 DEF RowReserved
  <2>3. (\A x \in Refunds : RowReserved(x)') /\ SettlersFollow'
    BY <2>1, <2>2, RequestReserves
  <2>4. Claims' \subseteq Claims
    BY <2>1 DEF Claims
  <2>5. ClaimsFit'
    BY <1>t, <2>1, <2>4, NoNewClaim
  <2> QED
    BY <2>3, <2>5 DEF ReserveInv
<1> QED
  BY <1>2, <1>3, <1>4, <1>5, <1>7, <1>8, <1>9, <1>10 DEF RequestStep

(* A settler writes rows that have been sent, and claims nothing. *)
LEMMA SettlerReserves ==
  ASSUME IInv, IInv', ReserveInv, NEW w \in Settlers, UNCHANGED <<rpc, lock, req, chan>>,
         \A v \in Settlers \ {w} : wtx'[v] = wtx[v],
         wtx'[w].st # "keep" => chan[wtx'[w].ref] # "none",
         \A q \in Queries : ~At(q, "idle")' => chan[query'[q].ref] # "none",
         \/ refund' = refund
         \/ wtx[w].st # "keep" /\ refund' = [refund EXCEPT ![wtx[w].ref] = wtx[w].st]
  PROVE  ReserveInv'
<1>t. /\ StoreTypeOK /\ ClaimsFit /\ StoreTypeOK' /\ SettlersFollow /\ SettlerAgrees(w)
      /\ wtx[w].st \in RefundStatus \cup {"keep"}
      /\ \A x \in Refunds : RequestAgrees(x) /\ RowReserved(x)
  BY ReserveFacts DEF IInv, TypeOK, StoreTypeOK, RefundTx
<1>1. ASSUME NEW x \in Refunds PROVE RowReserved(x)'
  <2>1. refund'[x] = refund[x] \/ (chan[x] # "none" /\ refund'[x] # "none")
    BY <1>t DEF SettlersFollow, SettlerAgrees, StoreTypeOK, RefundStatus
  <2> QED
    BY <1>t, <2>1 DEF RowReserved, RequestAgrees
<1>2. SettlersFollow'
  BY <1>t DEF SettlersFollow
<1>3. Claims' = Claims
  BY DEF Claims
<1>4. ClaimsFit'
  BY <1>t, <1>3, NoNewClaim
<1> QED
  BY <1>1, <1>2, <1>4 DEF ReserveInv

(* Every statement of a query. *)
LEMMA QueryKeepsReserve ==
  ASSUME IInv, IInv', ReserveInv, NEW q \in Queries, UNCHANGED <<createVars, callbackVars>>,
         \/ \E r \in Refunds : queryRefund(q, r)
         \/ QueryStep(q) \/ QueryFault(q)
  PROVE  ReserveInv'
<1>t. /\ StoreTypeOK /\ SyncTypeOK /\ SettlersFollow /\ q \in Settlers
      /\ wtx[q] \in RefundTx
  BY ReserveFacts, SyncAssumption DEF StoreTypeOK
<1>u. rpc' = rpc /\ lock' = lock
  BY DEF createVars
<1>n. NoTx.st = "keep"
  BY DEF NoTx
<1>1. CASE \E r \in Refunds : queryRefund(q, r)
  <2>1. PICK r \in Refunds : queryRefund(q, r)
    BY <1>1
  <2>2. UNCHANGED storeVars /\ chan[r] # "none" /\ query'[q].ref = r
        /\ \A y \in Queries \ {q} : query'[y] = query[y]
    BY <1>t, <2>1 DEF queryRefund, SyncTypeOK, WechatRefundState
  <2> QED
    BY <1>t, <1>u, <2>2, SettlerReserves DEF storeVars, SettlersFollow, At
(* What is asked about stays, or the query is over. *)
<1>2. ASSUME \/ \E k \in QueryPc : ~At(q, "idle") /\ query' = [query EXCEPT ![q].pc = k]
             \/ query' = [query EXCEPT ![q] = IdleQuery]
      PROVE  \A y \in Queries : ~At(y, "idle")' => chan[query'[y].ref] # "none"
  <2>1. /\ \A y \in Queries \ {q} : query'[y] = query[y]
        /\ \/ ~At(q, "idle") /\ query'[q].ref = query[q].ref
           \/ query'[q].pc = "idle"
    BY <1>t, <1>2 DEF SyncTypeOK, Query, IdleQuery
  <2> QED
    BY <1>t, <2>1 DEF SettlersFollow, At
<1>3. CASE ReadRow(q) \/ SumSettled(q)
  <2>1. /\ UNCHANGED storeVars
        /\ \/ \E k \in QueryPc : ~At(q, "idle") /\ query' = [query EXCEPT ![q].pc = k]
           \/ query' = [query EXCEPT ![q] = IdleQuery]
    BY <1>3 DEF ReadRow, SumSettled, EndQuery, Advance, QueryPc, At
  <2> QED
    BY <1>t, <1>u, <1>2, <2>1, SettlerReserves DEF storeVars, SettlersFollow
<1>4. CASE WriteRow(q)
  <2> DEFINE t == [NoTx EXCEPT !.ref = query[q].ref, !.st = query[q].ans]
  <2>1. /\ UNCHANGED <<refund, req, chan>> /\ wtx' = [wtx EXCEPT ![q] = t]
        /\ ~At(q, "idle") /\ \E k \in QueryPc : query' = [query EXCEPT ![q].pc = k]
    BY <1>4 DEF WriteRow, InTx, Advance, QueryPc, At
  <2>2. t.ref = query[q].ref
    BY DEF NoTx
  <2> HIDE DEF t
  <2>3. wtx'[q] = t /\ \A v \in Settlers \ {q} : wtx'[v] = wtx[v]
    BY <1>t, <2>1 DEF StoreTypeOK
  <2>4. chan[query[q].ref] # "none"
    BY <1>t, <2>1 DEF SettlersFollow
  <2> QED
    BY <1>t, <1>u, <1>2, <2>1, <2>2, <2>3, <2>4, SettlerReserves
(* The ledger entry and the order's status are added to the buffer. *)
<1>5. CASE insertLedgerEntry(q) \/ CloseOrder(q)
  <2>1. /\ UNCHANGED <<refund, req, chan>>
        /\ ~At(q, "idle") /\ \E k \in QueryPc : query' = [query EXCEPT ![q].pc = k]
    BY <1>5 DEF insertLedgerEntry, CloseOrder, InTx, Advance, QueryPc, At
  <2>2. \E b : \/ wtx' = [wtx EXCEPT ![q] = [wtx[q] EXCEPT !.led = b]]
               \/ wtx' = [wtx EXCEPT ![q] = [wtx[q] EXCEPT !.close = b]]
    BY <1>5 DEF insertLedgerEntry, CloseOrder, InTx
  <2>3. /\ wtx'[q].st = wtx[q].st /\ wtx'[q].ref = wtx[q].ref
        /\ \A v \in Settlers \ {q} : wtx'[v] = wtx[v]
    BY <1>t, <2>2 DEF StoreTypeOK, RefundTx
  <2> QED
    BY <1>t, <1>u, <1>2, <2>1, <2>3, SettlerReserves DEF SettlersFollow
<1>6. CASE CommitQuery(q) \/ QueryFault(q)
  <2>1. /\ UNCHANGED <<req, chan>>
        /\ wtx' = [wtx EXCEPT ![q] = NoTx] /\ query' = [query EXCEPT ![q] = IdleQuery]
        /\ \/ refund' = refund
           \/ wtx[q].st # "keep" /\ refund' = [refund EXCEPT ![wtx[q].ref] = wtx[q].st]
    BY <1>6 DEF CommitQuery, QueryFault, Publish, Fault, EndQuery
  <2>2. wtx'[q] = NoTx /\ \A v \in Settlers \ {q} : wtx'[v] = wtx[v]
    BY <1>t, <2>1 DEF StoreTypeOK
  <2> QED
    BY <1>t, <1>u, <1>n, <1>2, <2>1, <2>2, SettlerReserves
<1> QED
  BY <1>1, <1>3, <1>4, <1>5, <1>6 DEF QueryStep

(* Every statement of a delivery. *)
LEMMA DeliveryKeepsReserve ==
  ASSUME IInv, IInv', ReserveInv, NEW d \in Deliveries, UNCHANGED <<createVars, query>>,
         \/ \E r \in Refunds : handleRefundCallback(d, r)
         \/ DeliveryStep(d) \/ DeliveryFault(d)
  PROVE  ReserveInv'
<1>t. /\ StoreTypeOK /\ CallbackTypeOK /\ SettlersFollow /\ d \in Settlers
      /\ wtx[d] \in RefundTx /\ DeliveryAgrees(d)
  BY ReserveFacts, CallbackAssumption DEF StoreTypeOK
<1>u. rpc' = rpc /\ lock' = lock /\ query' = query
  BY DEF createVars
<1>q. \A q \in Queries : ~At(q, "idle")' => chan[query'[q].ref] # "none"
  BY <1>t, <1>u DEF SettlersFollow, At
<1>n. NoTx.st = "keep"
  BY DEF NoTx
<1>1. CASE \/ \E r \in Refunds : handleRefundCallback(d, r)
           \/ LookupReservation(d) \/ dropUnfinalizedReservation(d) \/ AuditDuplicate(d)
           \/ ReserveKey(d) \/ ReadRefund(d) \/ SumInTx(d)
  <2>1. UNCHANGED storeVars
    BY <1>1 DEF handleRefundCallback, LookupReservation, dropUnfinalizedReservation,
       AuditDuplicate, ReserveKey, ReadRefund, SumInTx
  <2> QED
    BY <1>t, <1>u, <1>q, <2>1, SettlerReserves DEF storeVars, SettlersFollow
<1>2. CASE CasRefund(d)
  <2> DEFINE t == [NoTx EXCEPT !.ref = carries[d], !.st = Notified(d),
                               !.led = Notified(d) = "REFUND_SUCCESS"]
  <2>1. /\ UNCHANGED <<refund, req, chan>>
        /\ wtx' = [wtx EXCEPT ![d] = t] \/ wtx' = [wtx EXCEPT ![d] = NoTx]
        /\ dpc[d] = "cas"
    BY <1>2 DEF CasRefund, InTx, Rollback
  <2>2. t.ref = carries[d]
    BY DEF NoTx
  <2> HIDE DEF t
  <2>3. wtx'[d] \in {t, NoTx} /\ \A v \in Settlers \ {d} : wtx'[v] = wtx[v]
    BY <1>t, <2>1 DEF StoreTypeOK
  <2>4. chan[carries[d]] # "none"
    BY <1>t, <2>1 DEF DeliveryAgrees, Failed
  <2> QED
    BY <1>t, <1>u, <1>q, <1>n, <2>1, <2>2, <2>3, <2>4, SettlerReserves
(* The order's status and the stamp are added to the buffer. *)
<1>3. CASE CloseOrderInTx(d) \/ FinalizeInTx(d)
  <2>1. UNCHANGED <<refund, req, chan>>
    BY <1>3 DEF CloseOrderInTx, FinalizeInTx, InTx, Rollback
  <2>2. \/ \E b : \/ wtx' = [wtx EXCEPT ![d] = [wtx[d] EXCEPT !.close = b]]
                  \/ wtx' = [wtx EXCEPT ![d] = [wtx[d] EXCEPT !.fin = b]]
        \/ wtx' = [wtx EXCEPT ![d] = NoTx]
    BY <1>3 DEF CloseOrderInTx, FinalizeInTx, InTx, Rollback
  <2>3. /\ \/ wtx'[d].st = wtx[d].st /\ wtx'[d].ref = wtx[d].ref
           \/ wtx'[d] = NoTx
        /\ \A v \in Settlers \ {d} : wtx'[v] = wtx[v]
    BY <1>t, <2>2 DEF StoreTypeOK, RefundTx
  <2> QED
    BY <1>t, <1>u, <1>q, <1>n, <2>1, <2>3, SettlerReserves DEF SettlersFollow
<1>4. CASE CommitSettlement(d) \/ DeliveryFault(d)
  <2>1. /\ UNCHANGED <<req, chan>> /\ wtx' = [wtx EXCEPT ![d] = NoTx]
        /\ \/ refund' = refund
           \/ wtx[d].st # "keep" /\ refund' = [refund EXCEPT ![wtx[d].ref] = wtx[d].st]
    BY <1>4 DEF CommitSettlement, DeliveryFault, Publish, Fault
  <2>2. wtx'[d] = NoTx /\ \A v \in Settlers \ {d} : wtx'[v] = wtx[v]
    BY <1>t, <2>1 DEF StoreTypeOK
  <2> QED
    BY <1>t, <1>u, <1>q, <1>n, <2>1, <2>2, SettlerReserves
<1> QED
  BY <1>1, <1>2, <1>3, <1>4 DEF DeliveryStep

(* A restart ends the requests and frees the locks; claims already sent stay. *)
LEMMA RestartKeepsReserve ==
  ASSUME IInv, IInv', ReserveInv, Restart
  PROVE  ReserveInv'
<1>t. /\ StoreTypeOK /\ ClaimsFit /\ StoreTypeOK'
      /\ \A x \in Refunds : RowReserved(x)
  BY ReserveFacts DEF IInv, TypeOK
<1>1. \A x \in Refunds : RowReserved(x)'
  BY <1>t DEF Restart, RowReserved
<1>2. SettlersFollow'
  BY DEF Restart, SettlersFollow, NoTx, IdleQuery, At
<1>3. Claims' \subseteq Claims /\ req' = req /\ \A x \in Refunds : rpc'[x] # "commit"
  BY DEF Restart, Claims
<1>4. ClaimsFit'
  BY <1>t, <1>3, NoNewClaim
<1> QED
  BY <1>1, <1>2, <1>4 DEF ReserveInv

LEMMA StutterKeepsReserve ==
  ASSUME IInv, IInv', ReserveInv, UNCHANGED vars
  PROVE  ReserveInv'
<1>u. UNCHANGED <<refund, req, chan, wtx, rpc, lock, query>>
  BY DEF vars, storeVars, createVars
<1>t. /\ StoreTypeOK /\ ClaimsFit /\ StoreTypeOK' /\ SettlersFollow
      /\ \A x \in Refunds : RowReserved(x)
  BY ReserveFacts DEF IInv, TypeOK
<1>1. \A x \in Refunds : RowReserved(x)'
  BY <1>t, <1>u DEF RowReserved
<1>2. SettlersFollow'
  BY <1>t, <1>u DEF SettlersFollow, At
<1>3. Claims' = Claims
  BY <1>u DEF Claims
<1>4. ClaimsFit'
  BY <1>t, <1>u, <1>3, NoNewClaim
<1> QED
  BY <1>1, <1>2, <1>4 DEF ReserveInv

(* Nothing is claimed at first. *)
LEMMA InitReserve == Init => ReserveInv
<1> SUFFICES ASSUME Init PROVE ReserveInv
  OBVIOUS
<1> USE DEF Init, StoreInit, CreateInit, SyncInit
<1>1. \A x \in Refunds : RowReserved(x)
  BY DEF RowReserved
<1>2. SettlersFollow
  BY DEF SettlersFollow, NoTx, IdleQuery, At
<1>3. Claims = {}
  BY DEF Claims
<1>4. SumOf(Claims) = 0
  <2>1. AmountSum(req, {}) = 0
    BY SumRecursion, FS_EmptySet
  <2> QED
    BY <1>3, <2>1, SumOfIs
<1>5. ClaimsFit
  BY <1>4, RefundStoreAssumption DEF ClaimsFit
<1> QED
  BY <1>1, <1>2, <1>5 DEF ReserveInv

(* Whatever answers are lost, statements fail or servers restart, the channel
   never returns more than the order's amount to a WeChat order that was paid
   once: the amount is reserved under the payment's row lock before the
   request leaves (proceedWithAmountCheck). *)
THEOREM NoOverRefund ==
  ASSUME Channel = "wechat", \A p, s \in Payments : p = s
  PROVE  Spec => []NeverOverRefunded
<1>1. Init => ReserveInv
  BY InitReserve
<1>2. ASSUME IInv, IInv', ReserveInv, [Next]_vars
      PROVE  ReserveInv'
  <2>1. CASE CreateNext /\ UNCHANGED <<query, callbackVars>>
    BY <1>2, <2>1, RequestKeepsReserve DEF CreateNext
  <2>2. CASE SyncNext /\ UNCHANGED <<createVars, callbackVars>>
    BY <1>2, <2>2, QueryKeepsReserve DEF SyncNext
  <2>3. CASE CallbackNext /\ UNCHANGED <<createVars, query>>
    BY <1>2, <2>3, DeliveryKeepsReserve DEF CallbackNext
  <2>4. CASE Restart
    BY <1>2, <2>4, RestartKeepsReserve
  <2>5. CASE UNCHANGED vars
    BY <1>2, <2>5, StutterKeepsReserve
  <2> QED
    BY <1>2, <2>1, <2>2, <2>3, <2>4, <2>5 DEF Next
<1>3. IInv /\ ReserveInv => NeverOverRefunded
  <2> SUFFICES ASSUME IInv, ReserveInv PROVE NeverOverRefunded
    OBVIOUS
  <2>1. MovingRefunds \in SUBSET Claims /\ Claims \in SUBSET Refunds
    BY DEF MovingRefunds, Claims
  <2>2. IsFiniteSet(Claims) /\ IsFiniteSet(MovingRefunds)
    BY <2>1, FS_Subset, RefundStoreAssumption
  <2>3. \A r \in Claims : req[r].amt \in Nat
    BY <2>1, AmountsAreNat, ReserveFacts
  <2>4. /\ AmountSum(req, MovingRefunds) <= AmountSum(req, Claims)
        /\ AmountSum(req, MovingRefunds) \in Nat /\ AmountSum(req, Claims) \in Nat
    BY <2>1, <2>2, <2>3, SumMono, SumRemove
  <2>5. SumOf(Claims) <= Total
    BY ReserveFacts DEF ClaimsFit
  <2> QED
    BY <2>4, <2>5, SumOfIs, RefundStoreAssumption DEF NeverOverRefunded
<1> QED
  BY <1>1, <1>2, <1>3, RefundsAgree, PTL DEF Spec

----------------------------------------------------------------------------
(* Nobody waits for ever *)

(* The payment row is held between FOR UPDATE and the end of the transaction,
   and the places of the settlers are their own. *)
LEMMA RequestKeepsLocks ==
  ASSUME IInv, LocksFollowPlaces, NEW r \in Refunds, UNCHANGED <<query, callbackVars>>,
         \/ \E p \in Payments, a \in Amounts : createRefund(r, p, a)
         \/ RequestStep(r) \/ CommitAnswerLost(r) \/ RequestFault(r)
         \/ ChannelMoves(r) /\ UNCHANGED createVars
  PROVE  LocksFollowPlaces'
<1>t. /\ CreateTypeOK
      /\ \A p \in Payments : lock[p] # "none" => rpc[lock[p]] \in {"sum", "commit"}
  BY DEF IInv, TypeOK, LocksFollowPlaces
<1>u. query' = query /\ dpc' = dpc /\ carries' = carries
  BY DEF callbackVars
<1>1. ASSUME wtx' = wtx,
             \A p \in Payments : lock'[p] # "none" => rpc'[lock'[p]] \in {"sum", "commit"}
      PROVE  LocksFollowPlaces'
  BY <1>u, <1>1 DEF LocksFollowPlaces, At
(* A request that holds no lock moves on. *)
<1>2. ASSUME wtx' = wtx, lock' = lock, rpc[r] \notin {"sum", "commit"},
             NEW k, rpc' = [rpc EXCEPT ![r] = k]
      PROVE  LocksFollowPlaces'
  BY <1>t, <1>1, <1>2 DEF CreateTypeOK
(* A request ends its transaction. *)
<1>3. ASSUME wtx' = wtx, Unlock(r), NEW k, rpc' = [rpc EXCEPT ![r] = k]
      PROVE  LocksFollowPlaces'
  <2>1. ASSUME NEW p \in Payments, lock'[p] # "none"
        PROVE  rpc'[lock'[p]] \in {"sum", "commit"}
    <3>1. lock'[p] = lock[p] /\ lock[p] # r /\ lock[p] \in Refunds
      BY <1>t, <1>3, <2>1 DEF Unlock, CreateTypeOK
    <3> QED
      BY <1>t, <1>3, <2>1, <3>1 DEF CreateTypeOK
  <2> QED
    BY <1>1, <1>3, <2>1
<1>4. ASSUME NEW p \in Payments, NEW a \in Amounts, createRefund(r, p, a)
      PROVE  LocksFollowPlaces'
  BY <1>2, <1>4 DEF createRefund, Goto
<1>5. CASE proceedOrderFlow(r) \/ proceedWithAmountCheck(r) \/ proceedWithInProgressCheck(r)
           \/ AnswerArrives(r) \/ LeaveRefund(r) \/ SettleSum(r)
  <2>1. UNCHANGED <<wtx, lock>> /\ rpc[r] \notin {"sum", "commit"}
    BY <1>5 DEF proceedOrderFlow, proceedWithAmountCheck, proceedWithInProgressCheck,
       AnswerArrives, LeaveRefund, SettleSum, storeVars
  <2>2. \E k : rpc' = [rpc EXCEPT ![r] = k]
    BY <1>5 DEF proceedOrderFlow, proceedWithAmountCheck, proceedWithInProgressCheck,
       AnswerArrives, LeaveRefund, SettleSum, Goto
  <2> QED
    BY <1>2, <2>1, <2>2
<1>6. CASE updateRefundWithError(r) \/ SettleRow(r) \/ writeRefundedOrder(r) \/ invokeRefundChannel(r)
  <2>1. UNCHANGED <<wtx, lock>> /\ rpc[r] \notin {"sum", "commit"}
    BY <1>6
    DEF updateRefundWithError, SettleRow, writeRefundedOrder, invokeRefundChannel,
        WriteRefund
  <2>2. \E k : rpc' = [rpc EXCEPT ![r] = k]
    BY <1>6 DEF updateRefundWithError, SettleRow, writeRefundedOrder, invokeRefundChannel, Goto
  <2> QED
    BY <1>2, <2>1, <2>2
<1>7. CASE LockPayment(r)
  <2>1. /\ wtx' = wtx /\ rpc[r] = "lock" /\ rpc'[r] = "sum"
        /\ \A x \in Refunds \ {r} : rpc'[x] = rpc[x]
        /\ lock' = [lock EXCEPT ![req[r].pay] = r]
    BY <1>t, <1>7 DEF LockPayment, Goto, CreateTypeOK, storeVars
  <2>2. \A p \in Payments : lock'[p] # "none" => rpc'[lock'[p]] \in {"sum", "commit"}
    BY <1>t, <2>1 DEF CreateTypeOK
  <2> QED
    BY <1>1, <2>1, <2>2
<1>8. CASE CheckSum(r)
  <2>1. CASE SumOf(LiveRefunds) + req[r].amt > Total
    BY <1>3, <1>8, <2>1 DEF CheckSum, Goto, storeVars
  <2>2. CASE ~(SumOf(LiveRefunds) + req[r].amt > Total)
    <3>1. wtx' = wtx /\ lock' = lock /\ rpc' = [rpc EXCEPT ![r] = "commit"]
      BY <1>8, <2>2 DEF CheckSum, Goto, storeVars
    <3>2. \A p \in Payments : lock'[p] # "none" => rpc'[lock'[p]] \in {"sum", "commit"}
      BY <1>t, <3>1 DEF CreateTypeOK
    <3> QED
      BY <1>1, <3>1, <3>2
  <2> QED
    BY <2>1, <2>2
<1>9. CASE CommitRefundRow(r) \/ CommitAnswerLost(r) \/ RequestFault(r)
  <2>1. wtx' = wtx /\ Unlock(r) /\ \E k : rpc' = [rpc EXCEPT ![r] = k]
    BY <1>9 DEF CommitRefundRow, CommitAnswerLost, RequestFault, WriteRefund, Goto
  <2> QED
    BY <1>3, <2>1
<1>10. CASE ChannelMoves(r) /\ UNCHANGED createVars
  BY <1>t, <1>1, <1>10 DEF ChannelMoves, createVars
<1> QED
  BY <1>4, <1>5, <1>6, <1>7, <1>8, <1>9, <1>10 DEF RequestStep

(* A query takes the refund row before the order. *)
LEMMA QueryKeepsLocks ==
  ASSUME IInv, LocksFollowPlaces, NEW q \in Queries, UNCHANGED <<createVars, callbackVars>>,
         \/ \E r \in Refunds : queryRefund(q, r)
         \/ QueryStep(q) \/ QueryFault(q)
  PROVE  LocksFollowPlaces'
<1>t. /\ StoreTypeOK /\ SyncTypeOK /\ q \in Settlers /\ q \notin Deliveries /\ wtx[q] \in RefundTx
      /\ wtx[q] # NoTx => query[q].pc \in {"lookup", "sum", "order", "commit"}
      /\ wtx[q].close => At(q, "commit")
  BY SyncAssumption, RefundingAssumption DEF IInv, TypeOK, StoreTypeOK, LocksFollowPlaces
<1>u. rpc' = rpc /\ lock' = lock /\ dpc' = dpc
  BY DEF createVars, callbackVars
<1>1. ASSUME \A w \in Settlers \ {q} : wtx'[w] = wtx[w],
             \A y \in Queries \ {q} : query'[y] = query[y],
             wtx'[q] # NoTx => query'[q].pc \in {"lookup", "sum", "order", "commit"},
             wtx'[q].close => query'[q].pc = "commit"
      PROVE  LocksFollowPlaces'
  BY <1>t, <1>u, <1>1, SyncAssumption, CallbackAssumption DEF LocksFollowPlaces, At
<1>2. CASE (\E r \in Refunds : queryRefund(q, r)) \/ ReadRow(q) \/ SumSettled(q)
  <2>1. UNCHANGED storeVars /\ \A y \in Queries \ {q} : query'[y] = query[y]
    BY <1>t, <1>2 DEF queryRefund, ReadRow, SumSettled, EndQuery, Advance, SyncTypeOK
  <2>2. \/ At(q, "idle") \/ At(q, "read")
        \/ At(q, "sum") /\ query'[q].pc \in {"order", "commit"}
    BY <1>t, <1>2 DEF queryRefund, ReadRow, SumSettled, Advance, SyncTypeOK, Query, At
  <2> QED
    BY <1>t, <1>1, <2>1, <2>2 DEF storeVars, At, NoTx
<1>3. CASE WriteRow(q)
  <2> DEFINE t == [NoTx EXCEPT !.ref = query[q].ref, !.st = query[q].ans]
  <2>1. /\ wtx' = [wtx EXCEPT ![q] = t]
        /\ \E k \in {"lookup", "commit"} : query' = [query EXCEPT ![q].pc = k]
    BY <1>3 DEF WriteRow, InTx, Advance
  <2>2. ~t.close
    BY DEF NoTx
  <2> HIDE DEF t
  <2>3. /\ wtx'[q] = t /\ \A w \in Settlers \ {q} : wtx'[w] = wtx[w]
        /\ query'[q].pc \in {"lookup", "commit"} /\ \A y \in Queries \ {q} : query'[y] = query[y]
    BY <1>t, <2>1 DEF StoreTypeOK, SyncTypeOK, Query
  <2> QED
    BY <1>1, <2>2, <2>3
<1>4. CASE insertLedgerEntry(q)
  <2>1. /\ At(q, "lookup")
        /\ \E b : wtx' = [wtx EXCEPT ![q] = [wtx[q] EXCEPT !.led = b]]
        /\ \E k \in {"sum", "commit"} : query' = [query EXCEPT ![q].pc = k]
    BY <1>4 DEF insertLedgerEntry, InTx, Advance
  <2>2. /\ wtx'[q].close = wtx[q].close /\ \A w \in Settlers \ {q} : wtx'[w] = wtx[w]
        /\ query'[q].pc \in {"sum", "commit"} /\ \A y \in Queries \ {q} : query'[y] = query[y]
    BY <1>t, <2>1 DEF StoreTypeOK, SyncTypeOK, Query, RefundTx
  <2> QED
    BY <1>t, <1>1, <2>1, <2>2 DEF At
<1>5. CASE CloseOrder(q)
  <2>1. /\ \E b : wtx' = [wtx EXCEPT ![q] = [wtx[q] EXCEPT !.close = b]]
        /\ query' = [query EXCEPT ![q].pc = "commit"]
    BY <1>5 DEF CloseOrder, InTx, Advance
  <2>2. /\ \A w \in Settlers \ {q} : wtx'[w] = wtx[w]
        /\ query'[q].pc = "commit" /\ \A y \in Queries \ {q} : query'[y] = query[y]
    BY <1>t, <2>1 DEF StoreTypeOK, SyncTypeOK, Query
  <2> QED
    BY <1>1, <2>2
<1>6. CASE CommitQuery(q) \/ QueryFault(q)
  <2>1. wtx' = [wtx EXCEPT ![q] = NoTx] /\ query' = [query EXCEPT ![q] = IdleQuery]
    BY <1>6 DEF CommitQuery, QueryFault, Publish, Fault, EndQuery
  <2>2. /\ wtx'[q] = NoTx /\ \A w \in Settlers \ {q} : wtx'[w] = wtx[w]
        /\ \A y \in Queries \ {q} : query'[y] = query[y]
    BY <1>t, <2>1 DEF StoreTypeOK, SyncTypeOK
  <2>3. ~NoTx.close
    BY DEF NoTx
  <2> QED
    BY <1>1, <2>2, <2>3
<1> QED
  BY <1>2, <1>3, <1>4, <1>5, <1>6 DEF QueryStep

(* A delivery takes refund row, order and reservation in that order, and
   answers only when its transaction is over. *)
LEMMA DeliveryKeepsLocks ==
  ASSUME IInv, LocksFollowPlaces, NEW d \in Deliveries, UNCHANGED <<createVars, query>>,
         \/ \E r \in Refunds : handleRefundCallback(d, r)
         \/ DeliveryStep(d) \/ DeliveryFault(d)
  PROVE  LocksFollowPlaces'
<1>t. /\ StoreTypeOK /\ CallbackTypeOK /\ d \in Settlers /\ d \notin Queries /\ wtx[d] \in RefundTx
      /\ wtx[d] # NoTx => dpc[d] \in Settling
      /\ wtx[d].close => dpc[d] \in {"finalize", "commit"}
      /\ wtx[d].fin => dpc[d] = "commit"
  BY CallbackAssumption, RefundingAssumption DEF IInv, TypeOK, StoreTypeOK, LocksFollowPlaces
<1>u. rpc' = rpc /\ lock' = lock /\ query' = query
  BY DEF createVars
<1>n. ~NoTx.close /\ ~NoTx.fin
  BY DEF NoTx
<1>1. ASSUME \A w \in Settlers \ {d} : wtx'[w] = wtx[w],
             \A e \in Deliveries \ {d} : dpc'[e] = dpc[e],
             wtx'[d] # NoTx => dpc'[d] \in Settling,
             wtx'[d].close => dpc'[d] \in {"finalize", "commit"},
             wtx'[d].fin => dpc'[d] = "commit"
      PROVE  LocksFollowPlaces'
  BY <1>t, <1>u, <1>1, SyncAssumption, CallbackAssumption DEF LocksFollowPlaces, At
<1>2. CASE \/ \E r \in Refunds : handleRefundCallback(d, r)
           \/ LookupReservation(d) \/ dropUnfinalizedReservation(d) \/ AuditDuplicate(d)
           \/ ReserveKey(d) \/ ReadRefund(d)
  <2>1. wtx' = wtx /\ dpc[d] \notin Settling /\ \A e \in Deliveries \ {d} : dpc'[e] = dpc[e]
    BY <1>t, <1>2 DEF handleRefundCallback, LookupReservation, dropUnfinalizedReservation,
       AuditDuplicate, ReserveKey, ReadRefund, MoveTo, Ack, Fail, CallbackTypeOK, storeVars, Settling
  <2> QED
    BY <1>t, <1>n, <1>1, <2>1
<1>3. CASE SumInTx(d)
  <2>1. /\ wtx' = wtx /\ dpc[d] = "sum" /\ dpc'[d] \in {"order", "finalize"}
        /\ \A e \in Deliveries \ {d} : dpc'[e] = dpc[e]
    BY <1>t, <1>3 DEF SumInTx, MoveTo, CallbackTypeOK, storeVars
  <2> QED
    BY <1>t, <1>1, <2>1 DEF Settling
<1>4. CASE CasRefund(d)
  <2> DEFINE t == [NoTx EXCEPT !.ref = carries[d], !.st = Notified(d),
                               !.led = Notified(d) = "REFUND_SUCCESS"]
  <2>1. /\ \/ wtx' = [wtx EXCEPT ![d] = t]
              /\ \E k \in {"sum", "finalize"} : dpc' = [dpc EXCEPT ![d] = k]
           \/ wtx' = [wtx EXCEPT ![d] = NoTx] /\ dpc' = [dpc EXCEPT ![d] = "idle"]
    BY <1>4 DEF CasRefund, InTx, Rollback, MoveTo, Ack
  <2>2. ~t.close /\ ~t.fin
    BY DEF NoTx
  <2> HIDE DEF t
  <2>3. /\ \/ wtx'[d] = t /\ dpc'[d] \in {"sum", "finalize"}
           \/ wtx'[d] = NoTx
        /\ \A w \in Settlers \ {d} : wtx'[w] = wtx[w]
        /\ \A e \in Deliveries \ {d} : dpc'[e] = dpc[e]
    BY <1>t, <2>1 DEF StoreTypeOK, CallbackTypeOK
  <2> QED
    BY <1>1, <1>n, <2>2, <2>3 DEF Settling
<1>5. CASE CloseOrderInTx(d)
  <2>1. /\ \E b : wtx' = [wtx EXCEPT ![d] = [wtx[d] EXCEPT !.close = b]]
        /\ dpc[d] = "order" /\ dpc' = [dpc EXCEPT ![d] = "finalize"]
    BY <1>5 DEF CloseOrderInTx, InTx, MoveTo
  <2>2. /\ wtx'[d].fin = wtx[d].fin /\ \A w \in Settlers \ {d} : wtx'[w] = wtx[w]
        /\ dpc'[d] = "finalize" /\ \A e \in Deliveries \ {d} : dpc'[e] = dpc[e]
    BY <1>t, <2>1 DEF StoreTypeOK, CallbackTypeOK, RefundTx
  <2> QED
    BY <1>t, <1>1, <2>1, <2>2 DEF Settling
<1>6. CASE FinalizeInTx(d)
  <2>1. \/ \E b : wtx' = [wtx EXCEPT ![d] = b] /\ dpc' = [dpc EXCEPT ![d] = "commit"]
        \/ wtx' = [wtx EXCEPT ![d] = NoTx] /\ dpc' = [dpc EXCEPT ![d] = "idle"]
    BY <1>6 DEF FinalizeInTx, InTx, Rollback, MoveTo, Fail
  <2>2. /\ dpc'[d] = "commit" \/ wtx'[d] = NoTx
        /\ \A w \in Settlers \ {d} : wtx'[w] = wtx[w]
        /\ \A e \in Deliveries \ {d} : dpc'[e] = dpc[e]
    BY <1>t, <2>1 DEF StoreTypeOK, CallbackTypeOK
  <2> QED
    BY <1>1, <1>n, <2>2 DEF Settling
<1>7. CASE CommitSettlement(d) \/ DeliveryFault(d)
  <2>1. wtx' = [wtx EXCEPT ![d] = NoTx] /\ dpc' = [dpc EXCEPT ![d] = "idle"]
    BY <1>7 DEF CommitSettlement, DeliveryFault, Publish, Fault, MoveTo, Ack, Fail
  <2>2. /\ wtx'[d] = NoTx /\ \A w \in Settlers \ {d} : wtx'[w] = wtx[w]
        /\ \A e \in Deliveries \ {d} : dpc'[e] = dpc[e]
    BY <1>t, <2>1 DEF StoreTypeOK, CallbackTypeOK
  <2> QED
    BY <1>1, <1>n, <2>2
<1> QED
  BY <1>2, <1>3, <1>4, <1>5, <1>6, <1>7 DEF DeliveryStep

(* Along the lock order somebody can always move: a stamp is held at COMMIT,
   an order by one that at most waits for a stamp, a refund row by one that
   at most waits for the order. *)
LEMMA SomeoneMoves ==
  ASSUME LocksFollowPlaces, NEW w \in Settlers, wtx[w] # NoTx
  PROVE  (\E d \in Deliveries : DeliveryMoves(d)) \/ (\E q \in Queries : QueryMoves(q))
<1> DEFINE Somebody == (\E d \in Deliveries : DeliveryMoves(d)) \/ (\E q \in Queries : QueryMoves(q))
<1>t. \A v \in Settlers : wtx[v] # NoTx => v \in Deliveries \/ v \in Queries
  BY DEF LocksFollowPlaces
<1>n. ~NoTx.close /\ ~NoTx.fin
  BY DEF NoTx
<1>1. ASSUME NEW e \in Deliveries, wtx[e].fin PROVE Somebody
  BY <1>n, <1>1 DEF LocksFollowPlaces, DeliveryMoves
<1>2. ASSUME NEW d \in Deliveries, wtx[d] # NoTx, dpc[d] = "finalize" PROVE Somebody
  <2>1. CASE ReservationFree(d)
    BY <1>2, <2>1 DEF DeliveryMoves
  <2>2. CASE ~ReservationFree(d)
    BY <1>1, <2>2 DEF ReservationFree
  <2> QED
    BY <2>1, <2>2
<1>3. ASSUME NEW v \in Settlers, wtx[v].close PROVE Somebody
  <2>1. wtx[v] # NoTx
    BY <1>n, <1>3
  <2>2. CASE v \in Deliveries
    <3>1. dpc[v] \in {"finalize", "commit"}
      BY <1>3, <2>2 DEF LocksFollowPlaces
    <3> QED
      BY <1>2, <2>1, <2>2, <3>1 DEF DeliveryMoves
  <2>3. CASE v \in Queries
    BY <1>3, <2>1, <2>3 DEF LocksFollowPlaces, QueryMoves, At
  <2> QED
    BY <1>t, <2>1, <2>2, <2>3
<1>4. ASSUME ~OrderFree(w) PROVE Somebody
  BY <1>3, <1>4 DEF OrderFree
<1>5. CASE w \in Deliveries
  <2>1. dpc[w] \in Settling
    BY <1>5 DEF LocksFollowPlaces
  <2> QED
    BY <1>2, <1>4, <1>5, <2>1 DEF DeliveryMoves, Settling
<1>6. CASE w \in Queries
  <2>1. query[w].pc \in {"lookup", "sum", "order", "commit"}
    BY <1>6 DEF LocksFollowPlaces
  <2> QED
    BY <1>4, <1>6, <2>1 DEF QueryMoves, At
<1> QED
  BY <1>t, <1>5, <1>6

(* Two deliveries, a delivery and a query, or two requests never wait for each
   other: the rows they lock are taken in one order, and none is kept by a
   handler that has answered. *)
THEOREM SettlersNeverDeadlock == Spec => []SomeSettlerCanMove
<1>1. Init => LocksFollowPlaces
  BY CallbackAssumption, SyncAssumption
  DEF Init, StoreInit, CreateInit, SyncInit, CallbackInit, LocksFollowPlaces, NoTx
<1>2. ASSUME IInv, LocksFollowPlaces, [Next]_vars
      PROVE  LocksFollowPlaces'
  <2>1. CASE CreateNext /\ UNCHANGED <<query, callbackVars>>
    BY <1>2, <2>1, RequestKeepsLocks DEF CreateNext
  <2>2. CASE SyncNext /\ UNCHANGED <<createVars, callbackVars>>
    BY <1>2, <2>2, QueryKeepsLocks DEF SyncNext
  <2>3. CASE CallbackNext /\ UNCHANGED <<createVars, query>>
    BY <1>2, <2>3, DeliveryKeepsLocks DEF CallbackNext
  <2>4. CASE Restart
    BY <2>4, CallbackAssumption, SyncAssumption DEF Restart, LocksFollowPlaces, NoTx
  <2>5. CASE UNCHANGED vars
    BY <1>2, <2>5 DEF vars, storeVars, createVars, callbackVars, LocksFollowPlaces, At
  <2> QED
    BY <1>2, <2>1, <2>2, <2>3, <2>4, <2>5 DEF Next
<1>3. LocksFollowPlaces => SomeSettlerCanMove
  BY SomeoneMoves DEF LocksFollowPlaces, SomeSettlerCanMove
<1> QED
  BY <1>1, <1>2, <1>3, RefundsAgree, PTL DEF Spec
==============================================================================
