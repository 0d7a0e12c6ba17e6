-------------------------- MODULE KeyedRefundProofs --------------------------
(***************************************************************************)
(* The idempotency key around a refund request, for any number of          *)
(* requests, keys, payments, faults and restarts, while notifications and  *)
(* queries settle the rows: one key has one refund the channel may still   *)
(* grant, and answers what it once answered.                               *)
(***************************************************************************)
EXTENDS KeyedRefund, TLAPS

Called == {"call", "await", "book", "settleSum", "settleOrder"}

(* Past the check for a twin in flight, and not sent yet. *)
Passed == {"lock", "sum", "commit", "call"}

(* What a statement of the refund flow does as far as keys are concerned: r's
   own row and place move, along the order of the flow. *)
FlowMoves(r) ==
  /\ StoreTypeOK' /\ CreateTypeOK' /\ req' = req
  /\ \A x \in Refunds \ {r} : refund'[x] = refund[x] /\ rpc'[x] = rpc[x]
  /\ rpc[r] # "new" /\ rpc'[r] \notin {"new", "order"}
  /\ \/ refund'[r] = refund[r]
     \/ rpc[r] = "commit" /\ refund'[r] = "REFUND_INIT"
     \/ rpc[r] = "book" /\ refund[r] \in InFlight /\ refund'[r] # "none"
  /\ rpc'[r] \in Passed => rpc[r] \in Passed \/ ~TwinIn(r, InFlight)
  /\ rpc'[r] \in Called => rpc[r] \in Called \/ refund'[r] = "REFUND_INIT"

----------------------------------------------------------------------------
(* The statements of the flow *)

(* A statement that moves r's place alone. *)
LEMMA PlaceMoves ==
  ASSUME StoreTypeOK, CreateTypeOK, NEW r \in Refunds, NEW k \in RequestPc,
         rpc' = [rpc EXCEPT ![r] = k], UNCHANGED <<refund, req, entries, wtx, chan>>,
         order' \in {"PAID", "REFUNDED"}, faults' \in 0..MaxFaults,
         lock' \in [Payments -> Refunds \cup {"none"}], ans' \in [Refunds -> Answer]
  PROVE  /\ StoreTypeOK' /\ CreateTypeOK' /\ req' = req /\ refund'[r] = refund[r] /\ rpc'[r] = k
         /\ \A x \in Refunds \ {r} : refund'[x] = refund[x] /\ rpc'[x] = rpc[x]
<1>1. StoreTypeOK'
  BY DEF StoreTypeOK
<1>2. CreateTypeOK'
  BY DEF CreateTypeOK
<1> QED
  BY <1>1, <1>2 DEF CreateTypeOK

(* A statement that writes r's row. *)
LEMMA RowMoves ==
  ASSUME StoreTypeOK, CreateTypeOK, NEW r \in Refunds, NEW k \in RequestPc, NEW st \in RefundStatus \cup {"none"},
         rpc' = [rpc EXCEPT ![r] = k], refund' = [refund EXCEPT ![r] = st],
         UNCHANGED <<order, req, entries, wtx, chan, ans>>, faults' \in 0..MaxFaults,
         lock' \in [Payments -> Refunds \cup {"none"}]
  PROVE  /\ StoreTypeOK' /\ CreateTypeOK' /\ req' = req /\ refund'[r] = st /\ rpc'[r] = k
         /\ \A x \in Refunds \ {r} : refund'[x] = refund[x] /\ rpc'[x] = rpc[x]
<1>1. StoreTypeOK'
  BY DEF StoreTypeOK
<1>2. CreateTypeOK'
  BY DEF CreateTypeOK
<1> QED
  BY <1>1, <1>2 DEF CreateTypeOK, StoreTypeOK

(* Releasing r's payment lock. *)
LEMMA UnlockType ==
  ASSUME CreateTypeOK, NEW r \in Refunds, Unlock(r)
  PROVE  lock' \in [Payments -> Refunds \cup {"none"}]
BY DEF CreateTypeOK, Unlock

LEMMA FaultType ==
  ASSUME StoreTypeOK, UseFault
  PROVE  faults' \in 0..MaxFaults
BY RefundStoreAssumption DEF StoreTypeOK, UseFault

LEMMA FlowStepMoves ==
  ASSUME StoreTypeOK, CreateTypeOK, NEW r \in Refunds,
         RequestStep(r) \/ CommitAnswerLost(r) \/ RequestFault(r)
  PROVE  FlowMoves(r)
<1>t. /\ order \in {"PAID", "REFUNDED"} /\ faults \in 0..MaxFaults
      /\ lock \in [Payments -> Refunds \cup {"none"}] /\ ans \in [Refunds -> Answer]
      /\ refund \in [Refunds -> RefundStatus \cup {"none"}]
      /\ chan \in [Refunds -> ChannelRefund] /\ rpc \in [Refunds -> RequestPc]
  BY DEF StoreTypeOK, CreateTypeOK
<1>1. CASE proceedOrderFlow(r)
  <2>1. /\ rpc[r] = "order" /\ UNCHANGED <<storeVars, lock, ans>>
        /\ \E k \in {"same", "answered"} : rpc' = [rpc EXCEPT ![r] = k]
    BY <1>1 DEF proceedOrderFlow, Goto
  <2>2. PICK k \in RequestPc : k \in {"same", "answered"} /\ rpc' = [rpc EXCEPT ![r] = k]
    BY <2>1 DEF RequestPc
  <2> QED
    BY <1>t, <2>1, <2>2, PlaceMoves DEF FlowMoves, storeVars, Called, Passed
<1>2. CASE proceedWithAmountCheck(r)
  <2>1. /\ rpc[r] = "same" /\ UNCHANGED <<storeVars, lock, ans>>
        /\ \E k \in {"progress", "answered"} : rpc' = [rpc EXCEPT ![r] = k]
    BY <1>2 DEF proceedWithAmountCheck, Goto
  <2>2. PICK k \in RequestPc : k \in {"progress", "answered"} /\ rpc' = [rpc EXCEPT ![r] = k]
    BY <2>1 DEF RequestPc
  <2> QED
    BY <1>t, <2>1, <2>2, PlaceMoves DEF FlowMoves, storeVars, Called, Passed
<1>3. CASE proceedWithInProgressCheck(r)
  <2>1. /\ rpc[r] = "progress" /\ UNCHANGED <<storeVars, lock, ans>>
        /\ \E k \in {"lock", "answered"} :
             rpc' = [rpc EXCEPT ![r] = k] /\ (k = "lock" => ~TwinIn(r, InFlight))
    BY <1>3 DEF proceedWithInProgressCheck, Goto
  <2>2. PICK k \in RequestPc : /\ k \in {"lock", "answered"} /\ rpc' = [rpc EXCEPT ![r] = k]
                               /\ k = "lock" => ~TwinIn(r, InFlight)
    BY <2>1 DEF RequestPc
  <2> QED
    BY <1>t, <2>1, <2>2, PlaceMoves DEF FlowMoves, storeVars, Called, Passed
<1>4. CASE LockPayment(r)
  <2>1. /\ rpc[r] = "lock" /\ UNCHANGED <<storeVars, ans>> /\ rpc' = [rpc EXCEPT ![r] = "sum"]
        /\ lock' \in [Payments -> Refunds \cup {"none"}]
    BY <1>t, <1>4 DEF LockPayment, Goto
  <2> QED
    BY <1>t, <2>1, PlaceMoves DEF FlowMoves, storeVars, Called, Passed, RequestPc
<1>5. CASE CheckSum(r)
  <2>1. /\ rpc[r] = "sum" /\ UNCHANGED <<storeVars, ans>>
        /\ lock' = lock \/ Unlock(r)
        /\ \E k \in {"commit", "answered"} : rpc' = [rpc EXCEPT ![r] = k]
    BY <1>5 DEF CheckSum, Goto
  <2>2. PICK k \in RequestPc : k \in {"commit", "answered"} /\ rpc' = [rpc EXCEPT ![r] = k]
    BY <2>1 DEF RequestPc
  <2>3. lock' \in [Payments -> Refunds \cup {"none"}]
    BY <1>t, <2>1, UnlockType
  <2> QED
    BY <1>t, <2>1, <2>2, <2>3, PlaceMoves DEF FlowMoves, storeVars, Called, Passed
<1>6. CASE CommitRefundRow(r) \/ CommitAnswerLost(r)
  <2>1. /\ rpc[r] = "commit" /\ UNCHANGED <<order, req, entries, wtx, chan, ans>> /\ Unlock(r)
        /\ refund' = [refund EXCEPT ![r] = "REFUND_INIT"] /\ faults' \in 0..MaxFaults
        /\ \E k \in {"call", "answered"} : rpc' = [rpc EXCEPT ![r] = k]
    BY <1>t, <1>6, FaultType DEF CommitRefundRow, CommitAnswerLost, WriteRefund, Goto
  <2>2. PICK k \in RequestPc : k \in {"call", "answered"} /\ rpc' = [rpc EXCEPT ![r] = k]
    BY <2>1 DEF RequestPc
  <2>3. lock' \in [Payments -> Refunds \cup {"none"}] /\ "REFUND_INIT" \in RefundStatus \cup {"none"}
    BY <1>t, <2>1, UnlockType DEF RefundStatus
  <2> QED
    BY <1>t, <2>1, <2>2, <2>3, RowMoves DEF FlowMoves, Passed
<1>7. CASE invokeRefundChannel(r)
  <2>1. /\ rpc[r] = "call" /\ UNCHANGED <<order, refund, req, entries, wtx, faults, lock>>
        /\ chan' = chan \/ chan' = [chan EXCEPT ![r] = "sent"]
        /\ ans' = ans \/ (\E a \in {"refused", "notready"} : ans' = [ans EXCEPT ![r] = a])
        /\ \E k \in {"await", "book"} : rpc' = [rpc EXCEPT ![r] = k]
    BY <1>7 DEF invokeRefundChannel, Goto
  <2>2. /\ chan' \in [Refunds -> ChannelRefund] /\ ans' \in [Refunds -> Answer]
        /\ rpc' \in [Refunds -> RequestPc]
        /\ rpc'[r] \in {"await", "book"} /\ (\A x \in Refunds \ {r} : rpc'[x] = rpc[x])
    BY <1>t, <2>1 DEF ChannelRefund, Answer, RequestPc
  <2>3. StoreTypeOK' /\ CreateTypeOK'
    BY <2>1, <2>2 DEF StoreTypeOK, CreateTypeOK
  <2> QED
    BY <2>1, <2>2, <2>3 DEF FlowMoves, Called, Passed
<1>8. CASE AnswerArrives(r)
  <2>1. /\ rpc[r] = "await" /\ UNCHANGED <<storeVars, lock>> /\ rpc' = [rpc EXCEPT ![r] = "book"]
        /\ \E a \in {"unknown", chan[r]} : a # "sent" /\ ans' = [ans EXCEPT ![r] = a]
    BY <1>8 DEF AnswerArrives, Goto
  <2>2. ans' \in [Refunds -> Answer]
    BY <1>t, <2>1 DEF ChannelRefund, Answer
  <2> QED
    BY <1>t, <2>1, <2>2, PlaceMoves DEF FlowMoves, storeVars, Called, Passed, RequestPc
<1>9. CASE updateRefundWithError(r) \/ SettleRow(r)
  <2>1. /\ rpc[r] = "book" /\ UNCHANGED <<order, req, entries, wtx, chan, faults, lock, ans>>
        /\ \E k \in {"settleSum", "answered"} : rpc' = [rpc EXCEPT ![r] = k]
        /\ \E st \in {"REFUND_FAIL", "REFUNDING", "REFUND_SUCCESS"} :
             refund' = [refund EXCEPT ![r] = IF refund[r] \in InFlight THEN st ELSE refund[r]]
    BY <1>9 DEF updateRefundWithError, SettleRow, WriteRefund, Goto
  <2>2. PICK k \in RequestPc : k \in {"settleSum", "answered"} /\ rpc' = [rpc EXCEPT ![r] = k]
    BY <2>1 DEF RequestPc
  <2>3. PICK st \in RefundStatus \cup {"none"} :
          /\ refund' = [refund EXCEPT ![r] = st]
          /\ st = refund[r] \/ (refund[r] \in InFlight /\ st # "none")
    BY <1>t, <2>1 DEF RefundStatus
  <2> QED
    BY <1>t, <2>1, <2>2, <2>3, RowMoves DEF FlowMoves, Called, Passed
<1>10. CASE LeaveRefund(r) \/ SettleSum(r)
  <2>1. /\ rpc[r] \in {"book", "settleSum"} /\ UNCHANGED <<storeVars, lock, ans>>
        /\ \E k \in {"settleOrder", "answered"} : rpc' = [rpc EXCEPT ![r] = k]
    BY <1>10 DEF LeaveRefund, SettleSum, Goto
  <2>2. PICK k \in RequestPc : k \in {"settleOrder", "answered"} /\ rpc' = [rpc EXCEPT ![r] = k]
    BY <2>1 DEF RequestPc
  <2> QED
    BY <1>t, <2>1, <2>2, PlaceMoves DEF FlowMoves, storeVars, Called, Passed
<1>11. CASE writeRefundedOrder(r)
  <2>1. /\ rpc[r] = "settleOrder" /\ UNCHANGED <<refund, req, entries, wtx, chan, faults, lock, ans>>
        /\ rpc' = [rpc EXCEPT ![r] = "answered"] /\ order' \in {"PAID", "REFUNDED"}
    BY <1>t, <1>11 DEF writeRefundedOrder, Goto
  <2> QED
    BY <1>t, <2>1, PlaceMoves DEF FlowMoves, Called, Passed, RequestPc
<1>12. CASE RequestFault(r)
  <2>1. /\ rpc[r] # "new" /\ UNCHANGED <<order, refund, req, entries, wtx, chan, ans>>
        /\ rpc' = [rpc EXCEPT ![r] = "answered"] /\ Unlock(r) /\ faults' \in 0..MaxFaults
    BY <1>12, FaultType DEF RequestFault, Goto
  <2>2. lock' \in [Payments -> Refunds \cup {"none"}]
    BY <2>1, UnlockType
  <2> QED
    BY <1>t, <2>1, <2>2, PlaceMoves DEF FlowMoves, Called, Passed, RequestPc
<1> QED
  BY <1>1, <1>2, <1>3, <1>4, <1>5, <1>6, <1>7, <1>8, <1>9, <1>10, <1>11, <1>12 DEF RequestStep

----------------------------------------------------------------------------
(* The inductive invariant *)

(* Its parts. *)
LEMMA Facts ==
  ASSUME IInv
  PROVE  /\ StoreTypeOK /\ CreateTypeOK /\ row \in [Keys -> Row]
         /\ key \in [Refunds -> Keys \cup {"none"}] /\ kpc \in [Refunds -> KeyedPc]
         /\ told \in [Refunds -> Refunds \cup {"none"}]
         /\ \A x \in Refunds : KeyHeld(x) /\ PlacesAgree(x)
         /\ SharedKeyIsAnswered /\ ResponseIsBooked
         /\ \A k \in Keys : SnapshotIsBooked(k)
BY DEF IInv, TypeOK, RowsTypeOK

(* A request that works under its key is the only one that relies on it. *)
LEMMA WorksAlone ==
  ASSUME IInv, NEW r \in Refunds, NEW s \in Refunds, r # s, key[r] = key[s], kpc[r] = "work"
  PROVE  kpc[s] \notin Holding
BY Facts DEF SharedKeyIsAnswered, KeyHeld, Holding, At

(* A request that holds its key has arrived, and its row is no empty one. *)
LEMMA Arrived ==
  ASSUME IInv, NEW r \in Refunds, kpc[r] # "new"
  PROVE  /\ rpc[r] # "new" /\ key[r] \in Keys /\ req[r].amt \in Amounts
         /\ requestHash(r) \in Hashes /\ row[key[r]] \in Row
         /\ kpc[r] \in Holding => row[key[r]] # NoRow /\ Matches(key[r], requestHash(r))
<1>1. rpc[r] # "new" /\ key[r] \in Keys /\ req[r].amt \in Amounts
  BY Facts DEF PlacesAgree, At
<1>2. requestHash(r) \in Hashes /\ row[key[r]] \in Row
  BY <1>1, Facts, KeyedAssumption DEF requestHash
<1>3. kpc[r] \in Holding => row[key[r]].hash = requestHash(r)
  BY Facts DEF KeyHeld
<1>4. NoRow.hash \notin Hashes
  BY KeyedAssumption DEF NoRow
<1> QED
  BY <1>1, <1>2, <1>3, <1>4 DEF Matches

(* A statement of the flow leaves booked rows booked. *)
LEMMA FlowKeepsRefunds ==
  ASSUME NEW r \in Refunds, FlowMoves(r)
  PROVE  \A x \in Refunds : refund[x] # "none" => refund'[x] # "none"
BY DEF FlowMoves

(* Responses and snapshots that stay name refunds that stay booked. *)
LEMMA ResponsesStay ==
  ASSUME IInv, req' = req, \A x \in Refunds : refund[x] # "none" => refund'[x] # "none"
  PROVE  /\ \A x \in Refunds : told[x] # "none" =>
              req'[told[x]].amt = req'[x].amt /\ refund'[told[x]] # "none"
         /\ \A k \in Keys : row'[k] = row[k] => SnapshotIsBooked(k)'
<1>1. \A x \in Refunds : told[x] # "none" => told[x] \in Refunds
  BY Facts
<1>2. \A k \in Keys : row[k].snap # "null" => row[k].snap \in Refunds
  BY Facts, KeyedAssumption DEF Row
<1> QED
  BY <1>1, <1>2, Facts DEF ResponseIsBooked, SnapshotIsBooked

----------------------------------------------------------------------------
(* Steps of the flow under the key *)

(* The key's handling stays where it is. *)
LEMMA SilentKeeps ==
  ASSUME IInv, NEW r \in Refunds, FlowMoves(r), UNCHANGED <<row, keyVars>>,
         \/ kpc[r] = "work"
         \/ rpc[r] = "book" /\ kpc[r] # "work" /\ rpc'[r] = "answered"
  PROVE  IInv'
<1> USE DEF keyVars
<1>1. \A x \in Refunds : refund[x] # "none" => refund'[x] # "none"
  BY FlowKeepsRefunds
<1>2. req' = req /\ StoreTypeOK' /\ CreateTypeOK'
  BY DEF FlowMoves
<1>3. ResponseIsBooked' /\ (\A k \in Keys : SnapshotIsBooked(k)')
  BY <1>1, <1>2, ResponsesStay DEF ResponseIsBooked
<1>4. \A x \in Refunds : KeyHeld(x)'
  BY <1>2, Facts DEF KeyHeld, At, requestHash
<1>5. SharedKeyIsAnswered'
  BY Facts DEF SharedKeyIsAnswered
<1>6. ASSUME NEW x \in Refunds PROVE PlacesAgree(x)'
  <2>1. PlacesAgree(x)
    BY Facts
  <2>2. CASE x # r
    BY <1>2, <2>1, <2>2 DEF PlacesAgree, At, FlowMoves
  <2>3. CASE x = r
    <3>1. /\ rpc[r] # "new" /\ rpc'[r] \notin {"new", "order"}
          /\ rpc'[r] \in Called => rpc[r] \in Called \/ refund'[r] = "REFUND_INIT"
      BY DEF FlowMoves
    <3>2. rpc'[r] \in Called => refund'[r] # "none"
      BY <1>1, <2>1, <2>3, <3>1 DEF PlacesAgree, Called
    <3> QED
      BY <1>2, <2>1, <2>3, <3>1, <3>2 DEF PlacesAgree, At, Called
  <2> QED
    BY <2>2, <2>3
<1> QED
  BY <1>1, <1>2, <1>3, <1>4, <1>5, <1>6, Facts DEF IInv, TypeOK, RowsTypeOK

(* The flow has its answer: with data it is to be stored, without the key is
   to be freed. *)
LEMMA RespondKeeps ==
  ASSUME IInv, NEW r \in Refunds, NEW of \in Refunds \cup {"none"},
         FlowMoves(r), kpc[r] = "work", rpc'[r] \in {"answered", "book"}, Respond(r, of),
         of # "none" => req[of].amt = req[r].amt /\ refund'[of] # "none"
  PROVE  IInv'
<1>0. /\ row' = row /\ key' = key
      /\ told' = [told EXCEPT ![r] = of] /\ kpc' = [kpc EXCEPT ![r] = IF of = "none" THEN "clear" ELSE "save"]
  BY DEF Respond, Step
<1>1. \A x \in Refunds : refund[x] # "none" => refund'[x] # "none"
  BY FlowKeepsRefunds
<1>2. req' = req /\ StoreTypeOK' /\ CreateTypeOK'
  BY DEF FlowMoves
<1>3. /\ kpc'[r] \in {"clear", "save"} /\ (kpc'[r] = "save" <=> of # "none") /\ told'[r] = of
      /\ \A x \in Refunds \ {r} : kpc'[x] = kpc[x] /\ told'[x] = told[x]
      /\ kpc' \in [Refunds -> KeyedPc] /\ told' \in [Refunds -> Refunds \cup {"none"}]
  BY <1>0, Facts DEF KeyedPc
<1>4. \A k \in Keys : SnapshotIsBooked(k)'
  BY <1>0, <1>1, <1>2, ResponsesStay
<1>5. ResponseIsBooked'
  BY <1>1, <1>2, <1>3, ResponsesStay DEF ResponseIsBooked
<1>6. row[key[r]].snap = "null"
  BY Facts DEF KeyHeld, Holding, At
<1>7. \A x \in Refunds : KeyHeld(x)'
  <2>1. KeyHeld(r) /\ kpc[r] \in Holding
    BY Facts DEF Holding
  <2> QED
    BY <1>0, <1>2, <1>3, <1>6, <2>1, Facts DEF KeyHeld, At, requestHash
<1>8. SharedKeyIsAnswered'
  BY <1>0, <1>3, Facts DEF SharedKeyIsAnswered, Holding
<1>9. ASSUME NEW x \in Refunds PROVE PlacesAgree(x)'
  <2>1. PlacesAgree(x)
    BY Facts
  <2>2. CASE x # r
    BY <1>0, <1>2, <1>3, <2>1, <2>2 DEF PlacesAgree, At, FlowMoves
  <2>3. CASE x = r
    <3>1. rpc'[r] = "book" => refund'[r] # "none"
      <4>1. rpc'[r] = "book" => rpc[r] \in Called \/ refund'[r] = "REFUND_INIT"
        BY DEF FlowMoves, Called
      <4> QED
        BY <1>1, <2>1, <2>3, <4>1 DEF PlacesAgree, Called
    <3> QED
      BY <1>0, <1>2, <1>3, <2>1, <2>3, <3>1 DEF PlacesAgree, At
  <2> QED
    BY <2>2, <2>3
<1> QED
  BY <1>0, <1>1, <1>2, <1>3, <1>4, <1>5, <1>7, <1>8, <1>9, Facts DEF IInv, TypeOK, RowsTypeOK

(* Every way the flow moves on or ends. *)
LEMMA FlowKeeps ==
  ASSUME IInv, NEW r \in Refunds,
         \/ NoSettledPayment(r) \/ Works(r) \/ Refuses(r) \/ Reports(r) \/ PointsAtTwin(r)
         \/ ReportsFailure(r) \/ WritesFailure(r) \/ FlowFails(r) \/ FailureNotWritten(r)
  PROVE  IInv'
<1>t. /\ StoreTypeOK /\ CreateTypeOK /\ PlacesAgree(r) /\ req \in [Refunds -> [pay: Payments \cup {"none"}, amt: Amounts \cup {0}]]
      /\ "none" \notin Refunds
  BY Facts, KeyedAssumption DEF StoreTypeOK
<1>1. CASE NoSettledPayment(r)
  <2>1. /\ kpc[r] = "work" /\ rpc[r] = "order" /\ rpc' = [rpc EXCEPT ![r] = "answered"]
        /\ Respond(r, "none") /\ UNCHANGED <<storeVars, lock, ans>>
    BY <1>1 DEF NoSettledPayment, At, Goto
  <2>2. /\ StoreTypeOK' /\ CreateTypeOK' /\ req' = req /\ refund'[r] = refund[r] /\ rpc'[r] = "answered"
        /\ \A x \in Refunds \ {r} : refund'[x] = refund[x] /\ rpc'[x] = rpc[x]
    BY <1>t, <2>1, PlaceMoves DEF storeVars, RequestPc, StoreTypeOK, CreateTypeOK
  <2>3. FlowMoves(r)
    BY <2>1, <2>2 DEF FlowMoves, Called, Passed
  <2> QED
    BY <2>1, <2>2, <2>3, RespondKeeps
<1>2. CASE Works(r)
  BY <1>t, <1>2, FlowStepMoves, SilentKeeps DEF Works, At
<1>3. CASE Refuses(r)
  BY <1>t, <1>3, FlowStepMoves, RespondKeeps DEF Refuses, At
<1>4. CASE Reports(r)
  <2>1. FlowMoves(r) /\ kpc[r] = "work" /\ rpc[r] \in Called /\ rpc'[r] = "answered" /\ Respond(r, r)
    BY <1>t, <1>4, FlowStepMoves DEF Reports, At, Called
  <2>2. refund'[r] # "none"
    BY <1>t, <2>1 DEF PlacesAgree, FlowMoves, Called
  <2> QED
    BY <2>1, <2>2, RespondKeeps
<1>5. CASE PointsAtTwin(r)
  <2>1. /\ FlowMoves(r) /\ kpc[r] = "work" /\ rpc'[r] = "answered"
        /\ \E t \in SettledRefunds \ {r} : req[t] = req[r] /\ Respond(r, t)
    BY <1>t, <1>5, FlowStepMoves DEF PointsAtTwin, At, RequestStep
  <2>2. PICK t \in SettledRefunds \ {r} : req[t] = req[r] /\ Respond(r, t)
    BY <2>1
  <2>3. t \in Refunds /\ refund'[t] # "none"
    BY <2>1, <2>2 DEF FlowMoves, SettledRefunds
  <2> QED
    BY <2>1, <2>2, <2>3, RespondKeeps
<1>6. CASE ReportsFailure(r)
  <2>1. kpc[r] = "work" /\ rpc[r] = "book" /\ Respond(r, r) /\ UNCHANGED <<storeVars, createVars>>
    BY <1>6 DEF ReportsFailure, At
  <2>2. FlowMoves(r)
    BY <1>t, <2>1 DEF FlowMoves, Called, storeVars, createVars, StoreTypeOK, CreateTypeOK
  <2>3. refund'[r] # "none" /\ rpc'[r] = "book"
    BY <1>t, <2>1 DEF PlacesAgree, storeVars, createVars
  <2> QED
    BY <2>1, <2>2, <2>3, RespondKeeps
<1>7. CASE WritesFailure(r)
  <2>1. /\ FlowMoves(r) /\ kpc[r] # "work" /\ rpc[r] = "book" /\ UNCHANGED <<row, keyVars>>
        /\ rpc' = [rpc EXCEPT ![r] = "answered"]
        /\ refund' = [refund EXCEPT ![r] = IF refund[r] \in InFlight THEN "REFUND_FAIL" ELSE refund[r]]
    BY <1>t, <1>7, FlowStepMoves
    DEF WritesFailure, At, RequestStep, updateRefundWithError, Goto, WriteRefund
  <2>2. rpc'[r] = "answered" /\ refund'[r] \in {refund[r], "REFUND_FAIL"}
    BY <1>t, <2>1 DEF StoreTypeOK, CreateTypeOK
  <2> QED
    BY <2>1, <2>2, SilentKeeps
<1>8. CASE FlowFails(r)
  <2>1. /\ FlowMoves(r) /\ kpc[r] = "work" /\ Respond(r, "none")
        /\ rpc' = [rpc EXCEPT ![r] = "answered"]
    BY <1>t, <1>8, FlowStepMoves DEF FlowFails, At, RequestFault, CommitAnswerLost, Goto
  <2>2. rpc'[r] = "answered"
    BY <1>t, <2>1 DEF CreateTypeOK
  <2> QED
    BY <2>1, <2>2, RespondKeeps
<1>9. CASE FailureNotWritten(r)
  <2>1. /\ FlowMoves(r) /\ kpc[r] # "work" /\ rpc[r] = "book" /\ UNCHANGED <<row, keyVars>>
        /\ rpc' = [rpc EXCEPT ![r] = "answered"] /\ refund' = refund
    BY <1>t, <1>9, FlowStepMoves DEF FailureNotWritten, At, RequestFault, Goto
  <2>2. rpc'[r] = "answered"
    BY <1>t, <2>1 DEF CreateTypeOK
  <2> QED
    BY <2>1, <2>2, SilentKeeps
<1> QED
  BY <1>1, <1>2, <1>3, <1>4, <1>5, <1>6, <1>7, <1>8, <1>9

----------------------------------------------------------------------------
(* Steps on the key *)

(* The hash of a request does not depend on the keys' rows. *)
LEMMA RefundsStay ==
  ASSUME req' = req
  PROVE  \A x \in Refunds : requestHash(x)' = requestHash(x)
BY DEF requestHash

(* r's place around the flow moves; its key's row stays. *)
LEMMA PlaceKeeps ==
  ASSUME IInv, NEW r \in Refunds, NEW pc \in KeyedPc, NEW of \in Refunds \cup {"none"},
         StoreTypeOK', CreateTypeOK', UNCHANGED <<refund, req, rpc, row, key>>,
         kpc[r] # "new", pc # "new", rpc[r] \in {"order", "book", "answered"},
         kpc' = [kpc EXCEPT ![r] = pc], told' = [told EXCEPT ![r] = of],
         KeyHeld(r)',
         pc \in Holding => kpc[r] \in Holding \/ row[key[r]].snap # "null",
         of # "none" => /\ pc \in {"save", "clear", "told"}
                        /\ req[of].amt = req[r].amt /\ refund[of] # "none",
         pc = "save" => of # "none"
  PROVE  IInv'
<1>1. \A x \in Refunds : requestHash(x)' = requestHash(x)
  BY RefundsStay
<1>2. /\ kpc'[r] = pc /\ told'[r] = of
      /\ \A x \in Refunds \ {r} : kpc'[x] = kpc[x] /\ told'[x] = told[x]
      /\ kpc' \in [Refunds -> KeyedPc] /\ told' \in [Refunds -> Refunds \cup {"none"}]
  BY Facts
<1>3. \A k \in Keys : SnapshotIsBooked(k)'
  BY ResponsesStay
<1>4. ResponseIsBooked'
  BY <1>2, ResponsesStay DEF ResponseIsBooked
<1>5. ASSUME NEW x \in Refunds PROVE KeyHeld(x)'
  BY <1>1, <1>2, Facts DEF KeyHeld, At
<1>6. SharedKeyIsAnswered'
  BY <1>2, Facts DEF SharedKeyIsAnswered
<1>7. ASSUME NEW x \in Refunds PROVE PlacesAgree(x)'
  <2>1. PlacesAgree(x)
    BY Facts
  <2> QED
    BY <1>2, <2>1 DEF PlacesAgree, At
<1> QED
  BY <1>1, <1>2, <1>3, <1>4, <1>5, <1>6, <1>7, Facts DEF IInv, TypeOK, RowsTypeOK

(* checkAndSet reserves a free key, or leaves it. *)
LEMMA ReserveKeeps ==
  ASSUME IInv, NEW r \in Refunds, ReserveKey(r)
  PROVE  IInv'
<1> DEFINE k == key[r]
           h == requestHash(r)
           n == [hash |-> h, snap |-> "null", old |-> FALSE]
<1>0. kpc[r] = "reserve" /\ UNCHANGED <<storeVars, createVars, key, told>>
  BY DEF ReserveKey, At
<1>1. /\ rpc[r] # "new" /\ k \in Keys /\ h \in Hashes /\ PlacesAgree(r)
      /\ rpc[r] \in {"order", "book", "answered"} /\ told[r] = "none"
  BY <1>0, Arrived, Facts DEF PlacesAgree, At, CreateTypeOK
<1>2. UNCHANGED <<refund, req, rpc>> /\ StoreTypeOK' /\ CreateTypeOK'
  BY <1>0, Facts DEF storeVars, createVars, StoreTypeOK, CreateTypeOK
<1>3. CASE ~CanReserve(k)
  <2>1. row' = row /\ kpc' = [kpc EXCEPT ![r] = "check"]
    BY <1>3 DEF ReserveKey, Step
  <2>2. told' = [told EXCEPT ![r] = "none"] /\ kpc'[r] = "check"
    BY <1>0, <1>1, <2>1, Facts
  <2>3. KeyHeld(r)'
    BY <2>2 DEF KeyHeld, Holding
  <2>4. "check" \in KeyedPc /\ "check" \notin Holding
    BY DEF KeyedPc, Holding
  <2> QED
    BY <1>0, <1>1, <1>2, <2>1, <2>2, <2>3, <2>4, PlaceKeeps
<1>4. CASE CanReserve(k)
  <2>0. row[k] = NoRow /\ row' = [row EXCEPT ![k] = n] /\ kpc' = [kpc EXCEPT ![r] = "work"]
    BY <1>4 DEF ReserveKey, Reserve, CanReserve, Step
  <2>1. n \in Row /\ n.hash = h /\ n.snap = "null" /\ n.old = FALSE
    BY <1>1 DEF Row
  <2> HIDE DEF n, h, k
  <2>2. /\ row' \in [Keys -> Row] /\ row'[k] = n /\ (\A j \in Keys \ {k} : row'[j] = row[j])
        /\ kpc' \in [Refunds -> KeyedPc] /\ kpc'[r] = "work"
        /\ \A x \in Refunds \ {r} : kpc'[x] = kpc[x]
    BY <1>1, <2>0, <2>1, Facts DEF KeyedPc
  <2>3. \A x \in Refunds : requestHash(x)' = requestHash(x)
    BY <1>0, <1>2, RefundsStay
  <2>4. \A x \in Refunds \ {r} : kpc[x] \in Holding => key[x] \in Keys \ {k}
    BY <2>0, Arrived DEF Holding
  <2>5. \A j \in Keys : SnapshotIsBooked(j)'
    BY <1>2, <2>1, <2>2, ResponsesStay DEF SnapshotIsBooked
  <2>6. ResponseIsBooked'
    BY <1>0, <1>2, ResponsesStay DEF ResponseIsBooked
  <2>7. ASSUME NEW x \in Refunds PROVE KeyHeld(x)'
    BY <1>0, <2>1, <2>2, <2>3, <2>4, Facts DEF KeyHeld, At, k, h
  <2>8. SharedKeyIsAnswered'
    BY <1>0, <2>2, <2>4, Facts DEF SharedKeyIsAnswered, k
  <2>9. ASSUME NEW x \in Refunds PROVE PlacesAgree(x)'
    <3>1. PlacesAgree(x)
      BY Facts
    <3> QED
      BY <1>0, <1>1, <1>2, <2>2, <3>1 DEF PlacesAgree, At
  <2> QED
    BY <1>0, <1>2, <2>2, <2>3, <2>5, <2>6, <2>7, <2>8, <2>9, Facts DEF IInv, TypeOK, RowsTypeOK
<1> QED
  BY <1>3, <1>4

(* A stored response is replayed; anything else refuses. *)
LEMMA CheckKeeps ==
  ASSUME IInv, NEW r \in Refunds, ApplyCheck(r)
  PROVE  IInv'
<1> DEFINE k == key[r]
           s == row[key[r]].snap
<1>0. kpc[r] = "check" /\ UNCHANGED <<storeVars, createVars, row, key>>
  BY DEF ApplyCheck, At, Respond
<1>1. /\ rpc[r] # "new" /\ k \in Keys /\ PlacesAgree(r) /\ row[k] \in Row
      /\ rpc[r] \in {"order", "book", "answered"} /\ told[r] = "none" /\ req[r].amt \in Amounts
  BY <1>0, Arrived, Facts DEF PlacesAgree, At, CreateTypeOK
<1>2. UNCHANGED <<refund, req, rpc>> /\ StoreTypeOK' /\ CreateTypeOK'
  BY <1>0, Facts DEF storeVars, createVars, StoreTypeOK, CreateTypeOK
<1>3. CASE CheckStatus(k, requestHash(r)) # "Replay"
  <2>1. kpc' = [kpc EXCEPT ![r] = "told"] /\ told' = told
    BY <1>3 DEF ApplyCheck, Step
  <2>2. told' = [told EXCEPT ![r] = "none"] /\ kpc'[r] = "told"
    BY <1>1, <2>1, Facts
  <2>3. KeyHeld(r)'
    BY <2>2 DEF KeyHeld, Holding
  <2>4. "told" \in KeyedPc /\ "told" \notin Holding
    BY DEF KeyedPc, Holding
  <2> QED
    BY <1>0, <1>1, <1>2, <2>1, <2>2, <2>3, <2>4, PlaceKeeps
<1>4. CASE CheckStatus(k, requestHash(r)) = "Replay"
  <2>1. ~row[k].old /\ row[k].hash = requestHash(r) /\ s # "null"
    BY <1>4 DEF CheckStatus
  <2>2. s \in Refunds /\ s # "none"
    BY <1>1, <2>1, KeyedAssumption DEF Row
  <2>3. /\ kpc' = [kpc EXCEPT ![r] = "save"] /\ told' = [told EXCEPT ![r] = s]
    BY <1>4, <2>2 DEF ApplyCheck, Respond, Step
  <2>4. refund[s] # "none" /\ HashOf[req[s].amt] = HashOf[req[r].amt]
    BY <1>1, <2>1, Facts DEF SnapshotIsBooked, requestHash
  <2>5. req[s].amt \in Amounts
    BY <2>2, <2>4, Facts DEF PlacesAgree
  <2>6. req[s].amt = req[r].amt
    BY <1>1, <2>4, <2>5, KeyedAssumption
  <2>7. KeyHeld(r)'
    <3>1. kpc'[r] = "save" /\ told'[r] = s /\ row'[key'[r]] = row[k] /\ requestHash(r)' = requestHash(r)
      BY <1>0, <1>2, <2>3, Facts DEF requestHash
    <3> QED
      BY <2>1, <3>1 DEF KeyHeld, At
  <2>8. "save" \in KeyedPc
    BY DEF KeyedPc
  <2> HIDE DEF s, k
  <2> QED
    BY <1>0, <1>1, <1>2, <2>1, <2>2, <2>3, <2>4, <2>6, <2>7, <2>8, PlaceKeeps DEF s, k
<1> QED
  BY <1>3, <1>4

(* A row that no request relies on any more is written. *)
LEMMA RowWriteKeeps ==
  ASSUME IInv, NEW k \in Keys, NEW n \in Row, StoreTypeOK', CreateTypeOK',
         UNCHANGED <<refund, req, rpc, key, told>>,
         row' = [row EXCEPT ![k] = n], kpc' \in [Refunds -> KeyedPc],
         \A x \in Refunds : kpc'[x] = kpc[x] \/ (kpc[x] \in {"save", "clear"} /\ kpc'[x] = "told"),
         \A x \in Refunds : kpc'[x] \in Holding => key[x] # k,
         n.snap # "null" => refund[n.snap] # "none" /\ n.hash = HashOf[req[n.snap].amt]
  PROVE  IInv'
<1>1. \A x \in Refunds : requestHash(x)' = requestHash(x)
  BY RefundsStay
<1>2. row' \in [Keys -> Row] /\ row'[k] = n /\ (\A j \in Keys \ {k} : row'[j] = row[j])
  BY Facts
<1>3. \A j \in Keys : SnapshotIsBooked(j)'
  BY <1>2, ResponsesStay DEF SnapshotIsBooked
<1>4. ResponseIsBooked'
  BY ResponsesStay DEF ResponseIsBooked
<1>5. \A x \in Refunds : kpc'[x] \in Holding => kpc'[x] = kpc[x] /\ key[x] \in Keys \ {k}
  BY Arrived DEF Holding
<1>6. \A x \in Refunds : KeyHeld(x)'
  BY <1>1, <1>2, <1>5, Facts DEF KeyHeld, At
<1>7. SharedKeyIsAnswered'
  BY <1>2, <1>5, Facts DEF SharedKeyIsAnswered
<1>8. ASSUME NEW x \in Refunds PROVE PlacesAgree(x)'
  <2>1. PlacesAgree(x)
    BY Facts
  <2> QED
    BY <2>1 DEF PlacesAgree, At
<1> QED
  BY <1>1, <1>2, <1>3, <1>4, <1>6, <1>7, <1>8, Facts DEF IInv, TypeOK, RowsTypeOK

(* The only request that relies on a row without a snapshot. *)
LEMMA HoldsAlone ==
  ASSUME IInv, NEW r \in Refunds, NEW x \in Refunds, x # r, kpc[r] \in Holding,
         kpc[x] \in Holding, row[key[r]].snap = "null"
  PROVE  key[x] # key[r]
BY Facts DEF SharedKeyIsAnswered

(* The response is stored, for the first time or again. *)
LEMMA SaveKeeps ==
  ASSUME IInv, NEW r \in Refunds, SaveSnapshot(r)
  PROVE  /\ IInv'
         /\ \A k \in Keys : row[k].snap # "null" => row'[k] = row[k]
<1> DEFINE k == key[r]
<1>0. kpc[r] = "save" /\ kpc[r] \in Holding /\ UNCHANGED <<storeVars, createVars, key, told>>
  BY DEF SaveSnapshot, At, Holding
<1>1. /\ k \in Keys /\ PlacesAgree(r) /\ KeyHeld(r) /\ row[k] \in Row /\ Matches(k, requestHash(r))
      /\ rpc[r] \in {"order", "book", "answered"} /\ told[r] \in Refunds
      /\ rpc[r] # "new" /\ told[r] # "null"
  BY <1>0, Arrived, Facts, KeyedAssumption DEF PlacesAgree, At, CreateTypeOK
<1>2. UNCHANGED <<refund, req, rpc>> /\ StoreTypeOK' /\ CreateTypeOK'
  BY <1>0, Facts DEF storeVars, createVars, StoreTypeOK, CreateTypeOK
<1>3. row' = [row EXCEPT ![k].snap = told[r]] /\ kpc' = [kpc EXCEPT ![r] = "told"]
  BY <1>1 DEF SaveSnapshot, updateResult, Step
<1>4. /\ kpc' \in [Refunds -> KeyedPc] /\ kpc'[r] = "told"
      /\ \A x \in Refunds \ {r} : kpc'[x] = kpc[x]
  BY <1>3, Facts DEF KeyedPc
<1>5. "told" \in KeyedPc /\ "told" \notin Holding
  BY DEF KeyedPc, Holding
<1>6. req[told[r]].amt = req[r].amt /\ refund[told[r]] # "none"
  BY <1>1, Facts, KeyedAssumption DEF ResponseIsBooked
<1>7. CASE row[k].snap # "null"
  <2>1. row[k].snap = told[r]
    BY <1>0, <1>1, <1>7 DEF KeyHeld, At
  <2>2. [row[k] EXCEPT !.snap = told[r]] = row[k]
    BY <1>1, <2>1 DEF Row
  <2>3. row' = row
    BY <1>1, <1>3, <2>2, Facts
  <2>4. told' = [told EXCEPT ![r] = told[r]]
    BY <1>0, Facts
  <2>5. KeyHeld(r)'
    BY <1>4, <1>5 DEF KeyHeld
  <2> QED
    BY <1>0, <1>1, <1>2, <1>3, <1>5, <1>6, <2>3, <2>4, <2>5, PlaceKeeps
<1>8. CASE row[k].snap = "null"
  <2> DEFINE n == [row[k] EXCEPT !.snap = told[r]]
  <2>1. n \in Row /\ n.snap = told[r] /\ n.hash = row[k].hash /\ row' = [row EXCEPT ![k] = n]
    BY <1>1, <1>3, KeyedAssumption DEF Row
  <2>2. row[k].hash = HashOf[req[told[r]].amt]
    BY <1>0, <1>1, <1>6 DEF KeyHeld, requestHash
  <2> HIDE DEF n
  <2>3. \A x \in Refunds : kpc'[x] \in Holding => key[x] # k
    BY <1>0, <1>4, <1>5, <1>8, HoldsAlone
  <2>4. IInv'
    BY <1>0, <1>1, <1>2, <1>4, <1>6, <2>1, <2>2, <2>3, RowWriteKeeps
  <2>5. \A j \in Keys : row[j].snap # "null" => row'[j] = row[j]
    BY <1>8, <2>1, Facts
  <2> QED
    BY <2>4, <2>5
<1> QED
  BY <1>7, <1>8

(* A key without a response is freed. *)
LEMMA ReleaseKeeps ==
  ASSUME IInv, NEW r \in Refunds, ReleaseKey(r)
  PROVE  /\ IInv'
         /\ \A k \in Keys : row[k].snap # "null" => row'[k] = row[k]
<1> DEFINE k == key[r]
<1>0. kpc[r] = "clear" /\ kpc[r] \in Holding /\ UNCHANGED <<storeVars, createVars, key, told>>
  BY DEF ReleaseKey, At, Holding
<1>1. /\ k \in Keys /\ PlacesAgree(r) /\ Matches(k, requestHash(r)) /\ rpc[r] # "new"
      /\ rpc[r] \in {"order", "book", "answered"} /\ told[r] \in Refunds \cup {"none"}
  BY <1>0, Arrived, Facts DEF PlacesAgree, At, CreateTypeOK
<1>2. UNCHANGED <<refund, req, rpc>> /\ StoreTypeOK' /\ CreateTypeOK'
  BY <1>0, Facts DEF storeVars, createVars, StoreTypeOK, CreateTypeOK
<1>3. /\ row' = IF row[k].snap = "null" THEN [row EXCEPT ![k] = NoRow] ELSE row
      /\ kpc' = [kpc EXCEPT ![r] = "told"]
  BY <1>1 DEF ReleaseKey, clearReservation, Step
<1>4. /\ kpc' \in [Refunds -> KeyedPc] /\ kpc'[r] = "told"
      /\ \A x \in Refunds \ {r} : kpc'[x] = kpc[x]
  BY <1>3, Facts DEF KeyedPc
<1>5. "told" \in KeyedPc /\ "told" \notin Holding
  BY DEF KeyedPc, Holding
<1>6. CASE row[k].snap # "null"
  <2>1. told' = [told EXCEPT ![r] = told[r]] /\ row' = row
    BY <1>0, <1>3, <1>6, Facts
  <2>2. KeyHeld(r)'
    BY <1>4, <1>5 DEF KeyHeld
  <2>3. told[r] # "none" => req[told[r]].amt = req[r].amt /\ refund[told[r]] # "none"
    BY Facts DEF ResponseIsBooked
  <2> QED
    BY <1>0, <1>1, <1>2, <1>3, <1>5, <2>1, <2>2, <2>3, PlaceKeeps
<1>7. CASE row[k].snap = "null"
  <2>1. NoRow \in Row /\ NoRow.snap = "null"
    BY DEF NoRow, Row
  <2>2. \A x \in Refunds : kpc'[x] \in Holding => key[x] # k
    BY <1>0, <1>4, <1>5, <1>7, HoldsAlone
  <2>3. IInv'
    BY <1>0, <1>1, <1>2, <1>3, <1>4, <1>7, <2>1, <2>2, RowWriteKeeps
  <2>4. \A j \in Keys : row[j].snap # "null" => row'[j] = row[j]
    BY <1>3, <1>7, Facts
  <2> QED
    BY <2>3, <2>4
<1> QED
  BY <1>6, <1>7

(* A statement on the key fails. *)
LEMMA KeyFailsKeeps ==
  ASSUME IInv, NEW r \in Refunds, KeyFails(r)
  PROVE  IInv' /\ row' = row
<1>0. /\ kpc[r] \in {"reserve", "check", "clear", "save"} /\ UNCHANGED <<refund, req, rpc, row, key, told>>
      /\ UNCHANGED <<order, entries, wtx, chan, lock, ans>> /\ faults' \in 0..MaxFaults
      /\ \/ kpc[r] # "save" /\ kpc' = [kpc EXCEPT ![r] = "told"]
         \/ kpc[r] = "save" /\ kpc' = [kpc EXCEPT ![r] = "clear"]
  BY Facts, FaultType DEF KeyFails, At, Step, createVars
<1>1. StoreTypeOK' /\ CreateTypeOK'
  BY <1>0, Facts DEF StoreTypeOK, CreateTypeOK
<1>2. /\ PlacesAgree(r) /\ KeyHeld(r) /\ rpc[r] \in {"order", "book", "answered"} /\ rpc[r] # "new"
      /\ told[r] \in Refunds \cup {"none"} /\ told' = [told EXCEPT ![r] = told[r]]
  BY <1>0, Arrived, Facts DEF PlacesAgree, At, CreateTypeOK
<1>3. told[r] # "none" => /\ req[told[r]].amt = req[r].amt /\ refund[told[r]] # "none"
                          /\ kpc[r] \in {"save", "clear"}
  BY <1>0, <1>2, Facts DEF ResponseIsBooked, PlacesAgree
<1>4. CASE kpc' = [kpc EXCEPT ![r] = "told"]
  <2>1. kpc'[r] = "told"
    BY <1>4, Facts
  <2>2. KeyHeld(r)'
    BY <2>1 DEF KeyHeld, Holding
  <2>3. "told" \in KeyedPc /\ "told" \notin Holding
    BY DEF KeyedPc, Holding
  <2> QED
    BY <1>0, <1>1, <1>2, <1>3, <1>4, <2>2, <2>3, PlaceKeeps
<1>5. CASE kpc[r] = "save" /\ kpc' = [kpc EXCEPT ![r] = "clear"]
  <2>1. kpc'[r] = "clear"
    BY <1>5, Facts
  <2>2. KeyHeld(r)'
    BY <1>0, <1>2, <1>5, <2>1 DEF KeyHeld, Holding, At, requestHash
  <2>3. "clear" \in KeyedPc /\ kpc[r] \in Holding
    BY <1>5 DEF KeyedPc, Holding
  <2> QED
    BY <1>0, <1>1, <1>2, <1>3, <1>5, <2>2, <2>3, PlaceKeeps
<1> QED
  BY <1>0, <1>4, <1>5

(* Rows outlive the requests that use them, and go when they are old. *)
LEMMA LifetimeKeeps ==
  ASSUME IInv, NEW k \in Keys, RowExpires(k) \/ PurgeRow(k)
  PROVE  /\ IInv'
         /\ \A j \in Keys : row'[j].snap = row[j].snap \/ (row[j].old /\ row'[j] = NoRow)
<1>0. UNCHANGED <<storeVars, createVars, keyVars>>
  BY DEF RowExpires, PurgeRow
<1>1. /\ UNCHANGED <<refund, req, rpc, key, told, kpc>> /\ StoreTypeOK' /\ CreateTypeOK'
      /\ kpc' \in [Refunds -> KeyedPc] /\ row[k] \in Row
  BY <1>0, Facts DEF storeVars, createVars, keyVars, StoreTypeOK, CreateTypeOK
<1>2. CASE RowExpires(k)
  <2> DEFINE n == [row[k] EXCEPT !.old = TRUE]
  <2>1. row' = [row EXCEPT ![k] = n] /\ (\A r \in Refunds : kpc[r] \in {"new", "told"} \/ key[r] # k)
    BY <1>2 DEF RowExpires, Expire
  <2>2. n \in Row /\ n.snap = row[k].snap /\ n.hash = row[k].hash
    BY <1>1 DEF Row
  <2> HIDE DEF n
  <2>3. \A x \in Refunds : kpc'[x] \in Holding => key[x] # k
    BY <1>1, <2>1 DEF Holding
  <2>4. n.snap # "null" => refund[n.snap] # "none" /\ n.hash = HashOf[req[n.snap].amt]
    BY <2>2, Facts DEF SnapshotIsBooked
  <2>5. IInv'
    BY <1>1, <2>1, <2>2, <2>3, <2>4, RowWriteKeeps
  <2> QED
    BY <2>1, <2>2, <2>5, Facts
<1>3. CASE PurgeRow(k)
  <2>1. row[k].old /\ row' = [row EXCEPT ![k] = NoRow]
    BY <1>3 DEF PurgeRow, purgeExpired
  <2>2. NoRow \in Row /\ NoRow.snap = "null"
    BY DEF NoRow, Row
  <2>3. \A x \in Refunds : kpc'[x] \in Holding => key[x] # k
    BY <1>1, <2>1, Facts DEF KeyHeld
  <2>4. IInv'
    BY <1>1, <2>1, <2>2, <2>3, RowWriteKeeps
  <2> QED
    BY <2>1, <2>4, Facts
<1> QED
  BY <1>2, <1>3

(* A request arrives: nothing refers to it yet. *)
LEMMA ArriveKeeps ==
  ASSUME IInv, NEW r \in Refunds, NEW k \in Keys, NEW p \in Payments, NEW a \in Amounts, Arrive(r, k, p, a)
  PROVE  IInv' /\ row' = row
<1>0. /\ rpc[r] = "new" /\ req' = [req EXCEPT ![r] = [pay |-> p, amt |-> a]]
      /\ rpc' = [rpc EXCEPT ![r] = "order"] /\ key' = [key EXCEPT ![r] = k]
      /\ kpc' = [kpc EXCEPT ![r] = "reserve"]
      /\ UNCHANGED <<order, refund, entries, wtx, chan, faults, lock, ans, row, told>>
  BY DEF Arrive, createRefund, Goto, Step
<1>1. PlacesAgree(r) /\ kpc[r] = "new" /\ refund[r] = "none" /\ told[r] = "none"
  BY <1>0, Facts DEF PlacesAgree, At
<1>2. StoreTypeOK' /\ CreateTypeOK'
  BY <1>0, Facts DEF StoreTypeOK, CreateTypeOK, RequestPc
<1>3. /\ rpc'[r] = "order" /\ key'[r] = k /\ kpc'[r] = "reserve" /\ req'[r].amt = a
      /\ \A x \in Refunds \ {r} : /\ rpc'[x] = rpc[x] /\ key'[x] = key[x] /\ kpc'[x] = kpc[x]
                                  /\ req'[x] = req[x]
      /\ key' \in [Refunds -> Keys \cup {"none"}] /\ kpc' \in [Refunds -> KeyedPc]
  BY <1>0, Facts DEF StoreTypeOK, CreateTypeOK, KeyedPc
<1>7. ASSUME NEW x \in Refunds PROVE KeyHeld(x)'
  <2>1. CASE x = r
    BY <1>3, <2>1 DEF KeyHeld, Holding
  <2>2. CASE x # r
    BY <1>0, <1>3, <2>2, Facts DEF KeyHeld, At, requestHash
  <2> QED
    BY <2>1, <2>2
<1>8. SharedKeyIsAnswered'
  BY <1>0, <1>3, Facts DEF SharedKeyIsAnswered, Holding
<1>9. ASSUME NEW x \in Refunds PROVE PlacesAgree(x)'
  <2>1. CASE x = r
    BY <1>0, <1>1, <1>3, <2>1 DEF PlacesAgree, At
  <2>2. CASE x # r
    BY <1>0, <1>3, <2>2, Facts DEF PlacesAgree, At
  <2> QED
    BY <2>1, <2>2
<1>10. \A j \in Keys : SnapshotIsBooked(j)'
  <2>1. \A j \in Keys : row[j].snap # "null" => row[j].snap \in Refunds \ {r}
    BY <1>1, Facts, KeyedAssumption DEF SnapshotIsBooked, Row
  <2> QED
    BY <1>0, <1>3, <2>1, Facts DEF SnapshotIsBooked
<1>11. ResponseIsBooked'
  <2>1. \A x \in Refunds : told[x] # "none" => x # r /\ told[x] \in Refunds \ {r}
    BY <1>1, Facts DEF ResponseIsBooked
  <2> QED
    BY <1>0, <1>3, <2>1, Facts DEF ResponseIsBooked
<1> QED
  BY <1>0, <1>2, <1>3, <1>7, <1>8, <1>9, <1>10, <1>11, Facts DEF IInv, TypeOK, RowsTypeOK

(* The server dies. *)
LEMMA RestartKeeps ==
  ASSUME IInv, Restart
  PROVE  IInv' /\ row' = row
<1>0. /\ rpc' = [r \in Refunds |-> IF rpc[r] = "new" THEN "new" ELSE "answered"]
      /\ kpc' = [r \in Refunds |-> IF kpc[r] = "new" THEN "new" ELSE "told"]
      /\ told' = [r \in Refunds |-> IF kpc[r] = "told" THEN told[r] ELSE "none"]
      /\ UNCHANGED <<order, refund, req, entries, wtx, chan, ans, row, key>>
      /\ lock' = [p \in Payments |-> "none"] /\ faults' \in 0..MaxFaults
  BY Facts, FaultType DEF Restart, At
<1>1. StoreTypeOK' /\ CreateTypeOK'
  BY <1>0, Facts DEF StoreTypeOK, CreateTypeOK, RequestPc
<1>2. /\ kpc' \in [Refunds -> KeyedPc] /\ told' \in [Refunds -> Refunds \cup {"none"}]
      /\ \A x \in Refunds : /\ kpc'[x] \in {"new", "told"} /\ rpc'[x] \in {"new", "answered"}
                            /\ told'[x] \in {"none", told[x]}
  BY <1>0, Facts DEF KeyedPc
<1>4. \A x \in Refunds : KeyHeld(x)'
  BY <1>2 DEF KeyHeld, Holding
<1>5. SharedKeyIsAnswered'
  BY <1>2 DEF SharedKeyIsAnswered, Holding
<1>6. ASSUME NEW x \in Refunds PROVE PlacesAgree(x)'
  <2>1. PlacesAgree(x)
    BY Facts
  <2> QED
    BY <1>0, <2>1 DEF PlacesAgree, At
<1>7. ResponseIsBooked' /\ (\A j \in Keys : SnapshotIsBooked(j)')
  BY <1>0, <1>2, ResponsesStay DEF ResponseIsBooked
<1> QED
  BY <1>0, <1>1, <1>2, <1>4, <1>5, <1>6, <1>7, Facts DEF IInv, TypeOK, RowsTypeOK

(* The channel's moves, settling transactions and stuttering: rows that are
   booked stay booked, and the key's handling reads no more of them. *)
LEMMA OutsideKeeps ==
  ASSUME IInv, StoreTypeOK', CreateTypeOK', UNCHANGED <<req, rpc, row, keyVars>>,
         \A x \in Refunds : refund[x] = "none" <=> refund'[x] = "none"
  PROVE  IInv'
<1> USE DEF keyVars
<1>1. \A x \in Refunds : requestHash(x)' = requestHash(x)
  BY RefundsStay
<1>2. ResponseIsBooked' /\ (\A j \in Keys : SnapshotIsBooked(j)')
  BY ResponsesStay DEF ResponseIsBooked
<1>3. \A x \in Refunds : KeyHeld(x)' /\ PlacesAgree(x)'
  BY <1>1, Facts DEF KeyHeld, PlacesAgree, At
<1>4. SharedKeyIsAnswered'
  BY Facts DEF SharedKeyIsAnswered
<1> QED
  BY <1>1, <1>2, <1>3, <1>4, Facts DEF IInv, TypeOK, RowsTypeOK

(* What a notification or a query writes: a booked row's status. *)
LEMMA SettlerWrites ==
  ASSUME IInv, NEW r \in Refunds, NoticeSettles(r) \/ QuerySettles(r)
  PROVE  /\ refund[r] # "none"
         /\ \E s \in WechatRefundState :
              /\ refund' = [refund EXCEPT ![r] = mapRefundStatus(s)]
              /\ s = chan[r] \/ (s = "PROCESSING" /\ chan[r] \in WechatRefundState)
         /\ UNCHANGED <<req, entries, wtx, chan, faults, createVars, row, keyVars>>
         /\ order' \in {order, "REFUNDED"}
<1>1. CASE NoticeSettles(r)
  BY <1>1 DEF NoticeSettles, Settles, InFlight, WechatRefundState
<1>2. CASE QuerySettles(r)
  BY <1>2 DEF QuerySettles, Settles, WechatRefundState
<1> QED
  BY <1>1, <1>2

LEMMA SettlerKeeps ==
  ASSUME IInv, NEW r \in Refunds, NoticeSettles(r) \/ QuerySettles(r)
  PROVE  IInv' /\ row' = row
<1>1. PICK s \in WechatRefundState : refund' = [refund EXCEPT ![r] = mapRefundStatus(s)]
  BY SettlerWrites
<1>2. /\ UNCHANGED <<req, entries, wtx, chan, faults, createVars, row, keyVars>>
      /\ order' \in {order, "REFUNDED"} /\ refund[r] # "none"
  BY SettlerWrites
<1>3. mapRefundStatus(s) \in RefundStatus
  BY DEF mapRefundStatus, WechatRefundState, RefundStatus
<1>4. "none" \notin RefundStatus
  BY DEF RefundStatus
<1>5. StoreTypeOK' /\ CreateTypeOK'
  BY <1>1, <1>2, <1>3, Facts DEF StoreTypeOK, CreateTypeOK, createVars
<1>6. \A x \in Refunds : refund[x] = "none" <=> refund'[x] = "none"
  BY <1>1, <1>2, <1>3, <1>4, Facts DEF StoreTypeOK
<1> QED
  BY <1>2, <1>5, <1>6, OutsideKeeps DEF createVars

LEMMA ChannelKeeps ==
  ASSUME IInv, NEW r \in Refunds, ChannelDecides(r)
  PROVE  IInv' /\ row' = row
<1>1. StoreTypeOK' /\ CreateTypeOK'
  BY Facts
  DEF ChannelDecides, ChannelMoves, createVars, StoreTypeOK, CreateTypeOK, ChannelRefund,
      WechatRefundState
<1> QED
  BY <1>1, OutsideKeeps DEF ChannelDecides, ChannelMoves, createVars

LEMMA StutterKeeps ==
  ASSUME IInv, UNCHANGED vars
  PROVE  IInv' /\ row' = row
<1>1. StoreTypeOK' /\ CreateTypeOK'
  BY Facts DEF vars, storeVars, createVars, StoreTypeOK, CreateTypeOK
<1> QED
  BY <1>1, OutsideKeeps DEF vars, storeVars, createVars

(* Steps of the flow leave the key's row alone; reserving takes a free key. *)
LEMMA RowStays ==
  ASSUME IInv, NEW r \in Refunds,
         \/ NoSettledPayment(r) \/ Works(r) \/ Refuses(r) \/ Reports(r) \/ PointsAtTwin(r)
         \/ ReportsFailure(r) \/ WritesFailure(r) \/ FlowFails(r) \/ FailureNotWritten(r)
         \/ ApplyCheck(r)
  PROVE  row' = row
BY DEF NoSettledPayment, Works, Refuses, Reports, PointsAtTwin, ReportsFailure, WritesFailure,
       FlowFails, FailureNotWritten, ApplyCheck, Respond

LEMMA ReserveStays ==
  ASSUME IInv, NEW r \in Refunds, ReserveKey(r)
  PROVE  \A j \in Keys : row[j].snap # "null" => row'[j] = row[j]
<1>1. row' = row \/ (row[key[r]] = NoRow /\ row' = [row EXCEPT ![key[r]] =
                       [hash |-> requestHash(r), snap |-> "null", old |-> FALSE]])
  BY DEF ReserveKey, CanReserve, Reserve
<1> QED
  BY <1>1, Facts DEF NoRow

(* Every step. *)
LEMMA NextKeeps ==
  ASSUME IInv, [Next]_vars
  PROVE  /\ IInv'
         /\ \A k \in Keys : row[k].snap # "null" =>
              row'[k].snap = row[k].snap \/ (row[k].old /\ row'[k] = NoRow)
<1>1. ASSUME NEW r \in Refunds, NEW k \in Keys, NEW p \in Payments, NEW a \in Amounts, Arrive(r, k, p, a)
      PROVE  IInv' /\ row' = row
  BY <1>1, ArriveKeeps
<1>2. ASSUME NEW r \in Refunds, KeyedStep(r) \/ FlowFails(r) \/ FailureNotWritten(r) \/ KeyFails(r)
      PROVE  IInv' /\ (\A k \in Keys : row[k].snap # "null" => row'[k].snap = row[k].snap)
  <2>1. CASE \/ NoSettledPayment(r) \/ Works(r) \/ Refuses(r) \/ Reports(r) \/ PointsAtTwin(r)
             \/ ReportsFailure(r) \/ WritesFailure(r) \/ FlowFails(r) \/ FailureNotWritten(r)
    BY <2>1, FlowKeeps, RowStays
  <2>2. CASE ReserveKey(r)
    BY <2>2, ReserveKeeps, ReserveStays
  <2>3. CASE ApplyCheck(r)
    BY <2>3, CheckKeeps, RowStays
  <2>4. CASE SaveSnapshot(r)
    BY <2>4, SaveKeeps
  <2>5. CASE ReleaseKey(r)
    BY <2>5, ReleaseKeeps
  <2>6. CASE KeyFails(r)
    BY <2>6, KeyFailsKeeps
  <2> QED
    BY <1>2, <2>1, <2>2, <2>3, <2>4, <2>5, <2>6 DEF KeyedStep
<1>3. ASSUME NEW r \in Refunds, ChannelDecides(r) \/ NoticeSettles(r) \/ QuerySettles(r)
      PROVE  IInv' /\ row' = row
  BY <1>3, ChannelKeeps, SettlerKeeps
<1>4. ASSUME NEW k \in Keys, RowExpires(k) \/ PurgeRow(k)
      PROVE  IInv' /\ (\A j \in Keys : row'[j].snap = row[j].snap \/ (row[j].old /\ row'[j] = NoRow))
  BY <1>4, LifetimeKeeps
<1>5. CASE Restart
  BY <1>5, RestartKeeps
<1>6. CASE UNCHANGED vars
  BY <1>6, StutterKeeps
<1> QED
  BY <1>1, <1>2, <1>3, <1>4, <1>5, <1>6 DEF Next

LEMMA InitHolds == Init => IInv
<1> SUFFICES ASSUME Init PROVE IInv
  OBVIOUS
<1> USE DEF Init, StoreInit, CreateInit, RowsInit
<1>1. StoreTypeOK
  BY RefundStoreAssumption, KeyedAssumption
  DEF StoreTypeOK, RefundStatus, ChannelRefund, NoTx, RefundTx
<1>2. CreateTypeOK
  BY DEF CreateTypeOK, RequestPc, Answer
<1>3. RowsTypeOK /\ TypeOK
  BY <1>1, <1>2 DEF RowsTypeOK, Row, NoRow, TypeOK, KeyedPc
<1>4. \A r \in Refunds : KeyHeld(r) /\ PlacesAgree(r)
  BY DEF KeyHeld, Holding, PlacesAgree, At
<1>5. SharedKeyIsAnswered
  BY DEF SharedKeyIsAnswered, Holding
<1>6. \A k \in Keys : SnapshotIsBooked(k)
  BY DEF SnapshotIsBooked, NoRow
<1>7. ResponseIsBooked
  BY DEF ResponseIsBooked
<1> QED
  BY <1>3, <1>4, <1>5, <1>6, <1>7 DEF IInv

----------------------------------------------------------------------------
(* The inductive invariant: who relies on a key's row, what it says, and where
   the refund flow behind it is. *)
THEOREM Inductive == Spec => []IInv
<1>1. IInv /\ [Next]_vars => IInv'
  BY NextKeeps
<1> QED
  BY <1>1, InitHolds, PTL DEF Spec

(* Type correctness of the keyed refund request. *)
THEOREM TypeCorrect == Spec => []TypeOK
<1>1. IInv => TypeOK
  BY DEF IInv
<1> QED
  BY <1>1, Inductive, PTL

(* A response, given at once, replayed from the key's snapshot or taken from
   the refund that settled first, names a booked refund of the amount asked. *)
THEOREM ResponsesAreBooked == Spec => []ResponseIsBooked
<1>1. IInv => ResponseIsBooked
  BY DEF IInv
<1> QED
  BY <1>1, Inductive, PTL

(* updateResult and clearReservation never change a response a key has given:
   only expiry ends it. *)
THEOREM AnswersAreStable == Spec => AnswerIsStable
<1>1. IInv /\ [Next]_vars =>
        [\A k \in Keys : row[k].snap # "null" =>
           row'[k].snap = row[k].snap \/ (row[k].old /\ row'[k] = NoRow)]_vars
  BY NextKeeps
<1> QED
  BY <1>1, Inductive, PTL DEF Spec, AnswerIsStable

----------------------------------------------------------------------------
(* Undecided refunds of one key, on WeChat *)

(* What a step of r may do to keep them apart: r's own rows and place move,
   what it was answered still agrees with the channel, nothing opens but the
   row it commits, and it passes the check only without a twin in flight. *)
TwinMoves(r) ==
  /\ key' = key /\ req' = req
  /\ \A x \in Refunds \ {r} : /\ refund'[x] = refund[x] /\ rpc'[x] = rpc[x]
                              /\ chan'[x] = chan[x] /\ ans'[x] = ans[x]
  /\ AnswerAgrees(r)'
  /\ Undecided(r)' => Undecided(r) \/ rpc[r] = "commit"
  /\ rpc'[r] \in Passed => rpc[r] \in Passed \/ ~TwinIn(r, InFlight)

LEMMA TwinStep ==
  ASSUME IInv, TwinInv, NEW r \in Refunds, TwinMoves(r)
  PROVE  TwinInv'
<1>0. /\ key' = key /\ req' = req /\ AnswerAgrees(r)'
      /\ \A x \in Refunds \ {r} : /\ refund'[x] = refund[x] /\ rpc'[x] = rpc[x]
                                  /\ chan'[x] = chan[x] /\ ans'[x] = ans[x]
      /\ Undecided(r)' => Undecided(r) \/ rpc[r] = "commit"
      /\ rpc'[r] \in Passed => rpc[r] \in Passed \/ ~TwinIn(r, InFlight)
  BY DEF TwinMoves
<1>i. /\ \A x \in Refunds : AnswerAgrees(x) /\ NoOpenTwin(x)
      /\ OneUndecidedPerKey
  BY DEF TwinInv
<1>1. \A x \in Refunds \ {r} : Undecided(x)' <=> Undecided(x)
  BY <1>0 DEF Undecided
<1>2. \A x \in Refunds \ {r} : AnswerAgrees(x)'
  BY <1>0, <1>1, <1>i DEF AnswerAgrees
<1>3. \A x \in Refunds : Twins(x)' = Twins(x)
  BY <1>0 DEF Twins
<1>4. NoOpenTwin(r)'
  <2> SUFFICES ASSUME rpc'[r] \in Passed, NEW s \in Twins(r), Undecided(s)' PROVE FALSE
    BY <1>3 DEF NoOpenTwin, Passed
  <2>1. s \in Refunds \ {r} /\ req[s] = req[r] /\ Undecided(s)
    BY <1>1 DEF Twins
  <2>2. refund[s] \in InFlight
    BY <1>i, <2>1 DEF AnswerAgrees
  <2>3. TwinIn(r, InFlight)
    BY <2>1, <2>2 DEF TwinIn
  <2>4. rpc[r] \in Passed
    BY <1>0, <2>3
  <2> QED
    BY <1>i, <2>1, <2>4 DEF NoOpenTwin, Passed
<1>5. ASSUME NEW x \in Refunds, rpc[x] \in Passed, r \in Twins(x), Undecided(r)'
      PROVE  FALSE
  <2>1. ~Undecided(r)
    BY <1>5, <1>i DEF NoOpenTwin, Passed
  <2>2. rpc[r] = "commit" /\ r # x /\ key[r] = key[x]
    BY <1>0, <1>5, <2>1 DEF Twins
  <2>3. kpc[r] = "work" /\ kpc[x] = "work"
    BY <1>5, <2>2, Facts DEF PlacesAgree, At, RequestPc, Passed
  <2> QED
    BY <2>2, <2>3, WorksAlone DEF Holding
<1>6. ASSUME NEW x \in Refunds \ {r} PROVE NoOpenTwin(x)'
  <2> SUFFICES ASSUME rpc[x] \in Passed, NEW s \in Twins(x), Undecided(s)' PROVE FALSE
    BY <1>0, <1>3 DEF NoOpenTwin, Passed
  <2>1. s \in Refunds
    BY DEF Twins
  <2>2. CASE s = r
    BY <1>5, <2>2
  <2>3. CASE s # r
    BY <1>1, <1>i, <2>1, <2>3 DEF NoOpenTwin, Passed
  <2> QED
    BY <2>2, <2>3
<1>7. ASSUME NEW x \in Refunds \ {r}, key[x] = key[r], req[x] = req[r], Undecided(x)', Undecided(r)'
      PROVE  FALSE
  <2>1. Undecided(x) /\ x \in Twins(r)
    BY <1>1, <1>7 DEF Twins
  <2>2. ~Undecided(r)
    BY <1>7, <1>i, <2>1 DEF OneUndecidedPerKey
  <2>3. rpc[r] \in Passed
    BY <1>0, <1>7, <2>2 DEF Passed
  <2> QED
    BY <1>i, <2>1, <2>3 DEF NoOpenTwin, Passed
<1>8. OneUndecidedPerKey'
  <2> SUFFICES ASSUME NEW x \in Refunds, NEW y \in Refunds, key[x] = key[y], req[x] = req[y],
                      Undecided(x)', Undecided(y)'
               PROVE  x = y
    BY <1>0 DEF OneUndecidedPerKey
  <2>1. CASE x # r /\ y # r
    BY <1>1, <1>i, <2>1 DEF OneUndecidedPerKey
  <2>2. CASE x = r \/ y = r
    BY <1>7, <2>2
  <2> QED
    BY <2>1, <2>2
<1> QED
  BY <1>0, <1>2, <1>4, <1>6, <1>8 DEF TwinInv

(* r's place and answer move, its row and the channel do not. *)
LEMMA PlaceAgrees ==
  ASSUME CreateTypeOK, NEW r \in Refunds, NEW k \in RequestPc, AnswerAgrees(r), key' = key, req' = req,
         rpc' = [rpc EXCEPT ![r] = k], UNCHANGED <<refund, chan>>,
         \A x \in Refunds \ {r} : ans'[x] = ans[x],
         k \notin {"await", "book", "settleSum", "settleOrder", "answered"} =>
           rpc[r] \notin {"await", "book", "settleSum", "settleOrder", "answered"},
         k = "book" => ans'[r] \in {"unknown", chan[r]} \/ chan[r] = "none",
         k = "book" => ans'[r] \notin {"SUCCESS", "CLOSED", "ABNORMAL"} \/ ans'[r] = chan[r],
         k # "call", k \in Passed => rpc[r] \in Passed \/ ~TwinIn(r, InFlight)
  PROVE  TwinMoves(r)
<1>1. rpc'[r] = k /\ \A x \in Refunds \ {r} : rpc'[x] = rpc[x]
  BY DEF CreateTypeOK
<1>2. Undecided(r)' => Undecided(r)
  BY <1>1 DEF Undecided
<1>3. AnswerAgrees(r)'
  BY <1>1, <1>2 DEF AnswerAgrees
<1> QED
  BY <1>1, <1>2, <1>3 DEF TwinMoves

LEMMA FlowStepAgrees ==
  ASSUME Channel = "wechat", StoreTypeOK, CreateTypeOK, NEW r \in Refunds, AnswerAgrees(r), key' = key,
         RequestStep(r) \/ CommitAnswerLost(r) \/ RequestFault(r) \/ NoSettledPayment(r)
  PROVE  TwinMoves(r)
<1>t. /\ ans \in [Refunds -> Answer] /\ refund \in [Refunds -> RefundStatus \cup {"none"}]
      /\ chan \in [Refunds -> ChannelRefund] /\ rpc \in [Refunds -> RequestPc]
  BY DEF StoreTypeOK, CreateTypeOK
<1>1. CASE \/ proceedOrderFlow(r) \/ proceedWithAmountCheck(r) \/ proceedWithInProgressCheck(r)
           \/ LockPayment(r) \/ CheckSum(r) \/ LeaveRefund(r) \/ SettleSum(r)
           \/ writeRefundedOrder(r) \/ RequestFault(r) \/ NoSettledPayment(r)
  <2>1. /\ UNCHANGED <<refund, chan, req, ans>>
        /\ \E k \in {"same", "progress", "lock", "sum", "commit", "settleOrder", "answered"} :
             /\ rpc' = [rpc EXCEPT ![r] = k]
             /\ k \notin {"settleOrder", "answered"} =>
                  rpc[r] \in {"order", "same", "progress", "lock", "sum"}
             /\ k \in Passed => rpc[r] \in Passed \/ ~TwinIn(r, InFlight)
    BY <1>1 DEF proceedOrderFlow, proceedWithAmountCheck, proceedWithInProgressCheck, LockPayment,
                CheckSum, LeaveRefund, SettleSum, writeRefundedOrder, RequestFault,
                NoSettledPayment, Goto, storeVars, Passed
  <2>2. PICK k \in {"same", "progress", "lock", "sum", "commit", "settleOrder", "answered"} :
             /\ rpc' = [rpc EXCEPT ![r] = k]
             /\ k \notin {"settleOrder", "answered"} =>
                  rpc[r] \in {"order", "same", "progress", "lock", "sum"}
             /\ k \in Passed => rpc[r] \in Passed \/ ~TwinIn(r, InFlight)
    BY <2>1
  <2>3. k \in RequestPc /\ k # "call" /\ k # "book"
    BY DEF RequestPc
  <2> QED
    BY <2>1, <2>2, <2>3, PlaceAgrees
<1>2. CASE CommitRefundRow(r) \/ CommitAnswerLost(r)
  <2>1. /\ rpc[r] = "commit" /\ UNCHANGED <<req, chan, ans>>
        /\ refund' = [refund EXCEPT ![r] = "REFUND_INIT"]
        /\ \E k \in {"call", "answered"} : rpc' = [rpc EXCEPT ![r] = k]
    BY <1>2 DEF CommitRefundRow, CommitAnswerLost, WriteRefund, Goto
  <2>2. /\ refund'[r] \in InFlight /\ rpc'[r] \in {"call", "answered"} /\ chan'[r] = "none"
        /\ \A x \in Refunds \ {r} : refund'[x] = refund[x] /\ rpc'[x] = rpc[x]
    BY <1>t, <2>1 DEF InFlight, AnswerAgrees
  <2>3. AnswerAgrees(r)'
    BY <2>2 DEF AnswerAgrees
  <2> QED
    BY <2>1, <2>2, <2>3 DEF TwinMoves, Passed
<1>3. CASE invokeRefundChannel(r)
  <2>1. /\ rpc[r] = "call" /\ UNCHANGED <<refund, req>>
        /\ \/ /\ chan' = [chan EXCEPT ![r] = "sent"] /\ rpc' = [rpc EXCEPT ![r] = "await"]
              /\ ans' = ans
           \/ /\ ans' = [ans EXCEPT ![r] = "refused"] /\ rpc' = [rpc EXCEPT ![r] = "book"]
              /\ chan' = chan
    BY <1>3 DEF invokeRefundChannel, Goto
  <2>2. refund[r] \in InFlight /\ chan[r] = "none" /\ Undecided(r)
    BY <2>1 DEF AnswerAgrees, Undecided
  <2>3. CASE chan' = [chan EXCEPT ![r] = "sent"] /\ rpc' = [rpc EXCEPT ![r] = "await"] /\ ans' = ans
    <3>1. rpc'[r] = "await" /\ \A x \in Refunds \ {r} : rpc'[x] = rpc[x] /\ chan'[x] = chan[x]
      BY <1>t, <2>3
    <3>2. AnswerAgrees(r)'
      BY <2>1, <2>2, <3>1 DEF AnswerAgrees
    <3> QED
      BY <2>1, <2>2, <2>3, <3>1, <3>2 DEF TwinMoves, Passed
  <2>4. CASE ans' = [ans EXCEPT ![r] = "refused"] /\ rpc' = [rpc EXCEPT ![r] = "book"] /\ chan' = chan
    <3>1. /\ ans'[r] = "refused" /\ rpc'[r] = "book" /\ chan'[r] = "none"
          /\ \A x \in Refunds \ {r} : rpc'[x] = rpc[x] /\ ans'[x] = ans[x]
      BY <1>t, <2>2, <2>4
    <3>2. AnswerAgrees(r)'
      BY <2>1, <2>2, <3>1 DEF AnswerAgrees, Undecided
    <3> QED
      BY <2>1, <2>2, <2>4, <3>1, <3>2 DEF TwinMoves, Passed
  <2> QED
    BY <2>1, <2>3, <2>4
<1>4. CASE AnswerArrives(r)
  <2>1. /\ rpc[r] = "await" /\ UNCHANGED <<refund, chan, req>> /\ rpc' = [rpc EXCEPT ![r] = "book"]
        /\ \E a \in {"unknown", chan[r]} : ans' = [ans EXCEPT ![r] = a]
    BY <1>4 DEF AnswerArrives, Goto, storeVars
  <2>2. ans'[r] \in {"unknown", chan[r]} /\ \A x \in Refunds \ {r} : ans'[x] = ans[x]
    BY <1>t, <2>1
  <2>3. "book" \in RequestPc /\ "book" \notin Passed
    BY DEF RequestPc, Passed
  <2> QED
    BY <2>1, <2>2, <2>3, PlaceAgrees
<1>5. CASE updateRefundWithError(r) \/ SettleRow(r)
  <2>1. /\ rpc[r] = "book" /\ UNCHANGED <<req, chan, ans>>
        /\ \E k \in {"settleSum", "answered"} : rpc' = [rpc EXCEPT ![r] = k]
        /\ \E st \in {"REFUND_FAIL", "REFUNDING", "REFUND_SUCCESS"} :
             /\ refund' = [refund EXCEPT ![r] = IF refund[r] \in InFlight THEN st ELSE refund[r]]
             /\ st # "REFUNDING" => ans[r] \in {"refused", "SUCCESS", "CLOSED", "ABNORMAL"}
    BY <1>5 DEF updateRefundWithError, SettleRow, WriteRefund, Goto, BooksFailure,
                refundCertainlyDidNotHappen, mapRefundStatus
  <2>2. PICK st \in {"REFUND_FAIL", "REFUNDING", "REFUND_SUCCESS"} :
             /\ refund' = [refund EXCEPT ![r] = IF refund[r] \in InFlight THEN st ELSE refund[r]]
             /\ st # "REFUNDING" => ans[r] \in {"refused", "SUCCESS", "CLOSED", "ABNORMAL"}
    BY <2>1
  <2>3. /\ rpc'[r] \in {"settleSum", "answered"}
        /\ \A x \in Refunds \ {r} : refund'[x] = refund[x] /\ rpc'[x] = rpc[x]
        /\ refund'[r] = IF refund[r] \in InFlight THEN st ELSE refund[r]
    BY <1>t, <2>1, <2>2
  <2>4. Undecided(r)' => Undecided(r) /\ chan[r] \in {"sent", "PROCESSING"}
    BY <2>1, <2>3 DEF Undecided
  <2>5. Undecided(r)' => refund'[r] \in InFlight
    <3>1. Undecided(r)' => refund[r] \in InFlight /\ st = "REFUNDING"
      BY <2>1, <2>2, <2>4 DEF AnswerAgrees
    <3> QED
      BY <2>3, <3>1 DEF InFlight
  <2>6. AnswerAgrees(r)'
    BY <2>1, <2>3, <2>5 DEF AnswerAgrees
  <2> QED
    BY <2>1, <2>3, <2>4, <2>6 DEF TwinMoves, Passed
<1> QED
  BY <1>1, <1>2, <1>3, <1>4, <1>5 DEF RequestStep

(* The channel, a notification or a query moves r's row. *)
LEMMA OutsideAgrees ==
  ASSUME IInv, NEW r \in Refunds, AnswerAgrees(r),
         ChannelDecides(r) \/ NoticeSettles(r) \/ QuerySettles(r)
  PROVE  TwinMoves(r)
<1>1. CASE ChannelDecides(r)
  <2>1. /\ chan[r] \in {"sent", "PROCESSING"} /\ UNCHANGED <<refund, req, rpc, ans, key>>
        /\ \E s \in ChannelRefund \ {"sent"} : chan' = [chan EXCEPT ![r] = s]
    BY <1>1 DEF ChannelDecides, ChannelMoves, createVars, keyVars, ChannelRefund, WechatRefundState
  <2>2. \A x \in Refunds \ {r} : chan'[x] = chan[x]
    BY <2>1, Facts DEF StoreTypeOK
  <2>3. AnswerAgrees(r)'
    BY <2>1 DEF AnswerAgrees, Undecided
  <2> QED
    BY <2>1, <2>2, <2>3 DEF TwinMoves, Undecided
<1>2. CASE NoticeSettles(r) \/ QuerySettles(r)
  <2>1. PICK s \in WechatRefundState :
          /\ refund' = [refund EXCEPT ![r] = mapRefundStatus(s)]
          /\ s = chan[r] \/ (s = "PROCESSING" /\ chan[r] \in WechatRefundState)
    BY <1>2, SettlerWrites
  <2>2. UNCHANGED <<req, chan, rpc, ans, key>>
    BY <1>2, SettlerWrites DEF createVars, keyVars
  <2>3. refund'[r] = mapRefundStatus(s) /\ \A x \in Refunds \ {r} : refund'[x] = refund[x]
    BY <2>1, Facts DEF StoreTypeOK
  <2>4. chan[r] \in WechatRefundState
    BY <2>1
  <2>5. Undecided(r) => chan[r] = "PROCESSING"
    BY <2>4 DEF Undecided, AnswerAgrees, WechatRefundState
  <2>6. Undecided(r) => refund'[r] \in InFlight
    BY <2>1, <2>3, <2>5 DEF mapRefundStatus, InFlight
  <2>7. AnswerAgrees(r)' /\ (Undecided(r)' <=> Undecided(r))
    BY <2>2, <2>6 DEF AnswerAgrees, Undecided
  <2> QED
    BY <2>2, <2>3, <2>7 DEF TwinMoves
<1> QED
  BY <1>1, <1>2

(* Steps on the key alone. *)
LEMMA KeyAgrees ==
  ASSUME TwinInv, UNCHANGED <<refund, rpc, chan, ans, req, key>>
  PROVE  TwinInv'
<1>1. \A x \in Refunds : (Undecided(x)' <=> Undecided(x)) /\ Twins(x)' = Twins(x)
  BY DEF Undecided, Twins
<1>2. \A x \in Refunds : AnswerAgrees(x)'
  BY <1>1 DEF TwinInv, AnswerAgrees
<1>3. ASSUME NEW x \in Refunds PROVE NoOpenTwin(x)'
  <2>1. \A s \in Twins(x) : s \in Refunds
    BY DEF Twins
  <2> QED
    BY <1>1, <2>1 DEF TwinInv, NoOpenTwin
<1>4. OneUndecidedPerKey'
  BY <1>1 DEF TwinInv, OneUndecidedPerKey
<1> QED
  BY <1>2, <1>3, <1>4 DEF TwinInv

(* A request that arrives has sent nothing yet. *)
LEMMA ArriveAgrees ==
  ASSUME IInv, TwinInv, NEW r \in Refunds, NEW k \in Keys, NEW p \in Payments, NEW a \in Amounts,
         Arrive(r, k, p, a)
  PROVE  TwinInv'
<1>0. /\ rpc[r] = "new" /\ UNCHANGED <<refund, chan, ans>> /\ rpc'[r] = "order"
      /\ \A x \in Refunds \ {r} : rpc'[x] = rpc[x] /\ req'[x] = req[x] /\ key'[x] = key[x]
  BY Facts DEF Arrive, createRefund, Goto, StoreTypeOK, CreateTypeOK
<1>1. chan[r] = "none" /\ ~Undecided(r)' /\ ~Undecided(r)
  BY <1>0 DEF TwinInv, AnswerAgrees, Undecided
<1>2. \A x \in Refunds : Undecided(x)' <=> Undecided(x)
  BY <1>0, <1>1 DEF Undecided
<1>3. ASSUME NEW x \in Refunds PROVE AnswerAgrees(x)'
  <2>1. CASE x = r
    BY <1>0, <1>1, <2>1 DEF AnswerAgrees
  <2>2. CASE x # r
    BY <1>0, <1>2, <2>2 DEF TwinInv, AnswerAgrees
  <2> QED
    BY <2>1, <2>2
<1>4. ASSUME NEW x \in Refunds PROVE NoOpenTwin(x)'
  <2>1. CASE x = r
    BY <1>0, <2>1 DEF NoOpenTwin
  <2>2. CASE x # r
    <3>1. \A s \in Twins(x)' : s = r \/ s \in Twins(x)
      BY <1>0, <2>2 DEF Twins
    <3>2. \A s \in Twins(x) : s \in Refunds
      BY DEF Twins
    <3> QED
      BY <1>0, <1>1, <1>2, <2>2, <3>1, <3>2 DEF TwinInv, NoOpenTwin
  <2> QED
    BY <2>1, <2>2
<1>5. OneUndecidedPerKey'
  BY <1>0, <1>1, <1>2 DEF TwinInv, OneUndecidedPerKey
<1> QED
  BY <1>3, <1>4, <1>5 DEF TwinInv

(* A restart opens nothing. *)
LEMMA RestartAgrees ==
  ASSUME IInv, TwinInv, Restart
  PROVE  TwinInv'
<1>0. /\ UNCHANGED <<refund, req, chan, ans, key>>
      /\ \A x \in Refunds : rpc'[x] = IF rpc[x] = "new" THEN "new" ELSE "answered"
  BY DEF Restart
<1>1. \A x \in Refunds : Undecided(x)' => Undecided(x)
  BY <1>0 DEF Undecided
<1>2. \A x \in Refunds : AnswerAgrees(x)'
  BY <1>0, <1>1 DEF TwinInv, AnswerAgrees
<1>3. \A x \in Refunds : NoOpenTwin(x)'
  BY <1>0 DEF NoOpenTwin
<1>4. OneUndecidedPerKey'
  BY <1>0, <1>1 DEF TwinInv, OneUndecidedPerKey
<1> QED
  BY <1>2, <1>3, <1>4 DEF TwinInv

LEMMA NextAgrees ==
  ASSUME Channel = "wechat", IInv, TwinInv, [Next]_vars
  PROVE  TwinInv'
<1>t. StoreTypeOK /\ CreateTypeOK /\ \A r \in Refunds : AnswerAgrees(r)
  BY Facts DEF TwinInv
<1>1. ASSUME NEW r \in Refunds,
             \/ NoSettledPayment(r) \/ Works(r) \/ Refuses(r) \/ Reports(r) \/ PointsAtTwin(r)
             \/ WritesFailure(r) \/ FlowFails(r) \/ FailureNotWritten(r)
      PROVE  TwinInv'
  <2>1. key' = key /\ (RequestStep(r) \/ CommitAnswerLost(r) \/ RequestFault(r) \/ NoSettledPayment(r))
    BY <1>1 DEF NoSettledPayment, Works, Refuses, Reports, PointsAtTwin, WritesFailure, FlowFails,
                FailureNotWritten, Respond, keyVars, RequestStep
  <2>2. TwinMoves(r)
    BY <1>t, <2>1, FlowStepAgrees
  <2> QED
    BY <2>2, TwinStep
<1>2. ASSUME NEW r \in Refunds, ChannelDecides(r) \/ NoticeSettles(r) \/ QuerySettles(r)
      PROVE  TwinInv'
  BY <1>t, <1>2, OutsideAgrees, TwinStep
<1>3. ASSUME NEW r \in Refunds,
             ReserveKey(r) \/ ApplyCheck(r) \/ ReportsFailure(r) \/ SaveSnapshot(r) \/ ReleaseKey(r) \/ KeyFails(r)
      PROVE  TwinInv'
  <2>1. UNCHANGED <<refund, rpc, chan, ans, req, key>>
    BY <1>3 DEF ReserveKey, ApplyCheck, ReportsFailure, SaveSnapshot, ReleaseKey, KeyFails, Respond,
                storeVars, createVars
  <2> QED
    BY <2>1, KeyAgrees
<1>4. ASSUME NEW k \in Keys, RowExpires(k) \/ PurgeRow(k)
      PROVE  TwinInv'
  BY <1>4, KeyAgrees DEF RowExpires, PurgeRow, storeVars, createVars, keyVars
<1>5. CASE Restart
  BY <1>5, RestartAgrees
<1>6. CASE UNCHANGED vars
  BY <1>6, KeyAgrees DEF vars, storeVars, createVars, keyVars
<1>7. ASSUME NEW r \in Refunds, KeyedStep(r) \/ FlowFails(r) \/ FailureNotWritten(r) \/ KeyFails(r)
      PROVE  TwinInv'
  BY <1>1, <1>3, <1>7 DEF KeyedStep
<1> QED
  BY <1>2, <1>4, <1>5, <1>6, <1>7, ArriveAgrees DEF Next

LEMMA InitAgrees == Init => TwinInv
<1> SUFFICES ASSUME Init PROVE TwinInv
  OBVIOUS
<1>1. \A r \in Refunds : chan[r] = "none" /\ rpc[r] = "new"
  BY DEF Init, StoreInit, CreateInit
<1>2. \A r \in Refunds : ~Undecided(r)
  BY <1>1 DEF Undecided
<1> QED
  BY <1>1, <1>2 DEF TwinInv, AnswerAgrees, NoOpenTwin, OneUndecidedPerKey

(* On WeChat, createRefund has at most one request under way, or with the
   channel and not decided, for a payment and an amount under one key, through
   lost answers, snapshots that were not stored, freed and expired keys and
   restarts, whatever notifications and queries write meanwhile: checkAndSet
   keeps repeats apart, the check for a twin in flight stops the later ones. *)
THEOREM OneUndecidedEach ==
  ASSUME Channel = "wechat"
  PROVE  Spec => []OneUndecidedPerKey
<1>1. IInv /\ TwinInv /\ [Next]_vars => TwinInv'
  BY NextAgrees
<1>2. TwinInv => OneUndecidedPerKey
  BY DEF TwinInv
<1> QED
  BY <1>1, <1>2, InitAgrees, Inductive, PTL DEF Spec

----------------------------------------------------------------------------
(* The promise of the key *)

(* A request that relies on a key without an answer works for it alone. *)
LEMMA ServesAlone ==
  ASSUME IInv, NEW r \in Refunds, kpc[r] \in Holding, row[key[r]].snap = "null"
  PROVE  WorksFor(key[r]) = {r}
BY HoldsAlone DEF WorksFor

(* No row changes, and requests leave: at most, a key loses its request. *)
LEMMA LeavesKey ==
  ASSUME row' = row, \A k \in Keys : WorksFor(k)' \in {{}, WorksFor(k)}
  PROVE  Key!Next
<1> DEFINE gone == {k \in Keys : WorksFor(k)' = {}}
<1>1. [k \in Keys |-> WorksFor(k)]'
        = [k \in Keys |-> IF k \in gone THEN {} ELSE [j \in Keys |-> WorksFor(j)][k]]
  OBVIOUS
<1>2. Key!Leave(gone)
  BY <1>1 DEF Key!Leave
<1> HIDE DEF gone
<1>3. gone \in SUBSET Keys
  BY DEF gone
<1> QED BY <1>2, <1>3 DEF Key!Next

(* A statement that leaves the rows alone and lets nobody start to work: who
   begins to rely on a key replays its answer. *)
LEMMA NobodyStarts ==
  ASSUME IInv, row' = row, NEW r \in Refunds,
         \A x \in Refunds \ {r} : kpc'[x] = kpc[x] /\ key'[x] = key[x],
         kpc'[r] \in Holding =>
           key'[r] = key[r] /\ (kpc[r] \in Holding \/ row[key[r]].snap # "null")
  PROVE  Key!Next
<1>1. \A k \in Keys : WorksFor(k)' \in {{}, WorksFor(k)}
  <2> SUFFICES ASSUME NEW k \in Keys PROVE WorksFor(k)' \in {{}, WorksFor(k)}
    OBVIOUS
  <2>1. CASE kpc[r] \in Holding /\ key[r] = k /\ row[k].snap = "null"
    <3>1. WorksFor(k) = {r}
      BY <2>1, ServesAlone
    <3> QED BY <3>1 DEF WorksFor
  <2>2. CASE ~(kpc[r] \in Holding /\ key[r] = k /\ row[k].snap = "null")
    BY <2>2 DEF WorksFor
  <2> QED BY <2>1, <2>2
<1> QED BY <1>1, LeavesKey

(* Reserving a free key takes it. *)
LEMMA ReservingTakes ==
  ASSUME IInv, NEW r \in Refunds, ReserveKey(r), CanReserve(key[r])
  PROVE  Key!Next
<1> DEFINE k == key[r]
           n == [hash |-> requestHash(r), snap |-> "null", old |-> FALSE]
<1>0. /\ kpc[r] = "reserve" /\ row[k] = NoRow /\ row' = [row EXCEPT ![k] = n]
      /\ kpc' = [kpc EXCEPT ![r] = "work"] /\ key' = key
      /\ kpc \in [Refunds -> KeyedPc] /\ row \in [Keys -> Row]
  BY Facts DEF ReserveKey, CanReserve, Reserve, At, Step
<1>1. k \in Keys /\ requestHash(r) \in Hashes
  BY <1>0, Arrived
<1>2. n # NoRow /\ n.snap = "null" /\ NoRow.snap = "null"
  <2>1. n.hash # NoRow.hash
    BY <1>1, KeyedAssumption DEF NoRow
  <2> QED BY <2>1 DEF NoRow
<1> HIDE DEF n
<1>3. WorksFor(k) = {}
  <2> SUFFICES ASSUME NEW x \in Refunds, kpc[x] \in Holding, key[x] = k PROVE FALSE
    BY DEF WorksFor
  <2> QED BY <1>0, Arrived DEF Holding
<1>4. /\ WorksFor(k)' = {r}
      /\ \A j \in Keys \ {k} : WorksFor(j)' = WorksFor(j)
  <2>1. "work" \in Holding /\ "reserve" \notin Holding
    BY DEF Holding
  <2>2. row'[k].snap = "null" /\ row[k].snap = "null"
    BY <1>0, <1>1, <1>2
  <2>3. \A x \in Refunds : kpc[x] \in Holding => key[x] # k
    BY <1>3, <2>2 DEF WorksFor
  <2> QED BY <1>0, <1>1, <2>1, <2>2, <2>3 DEF WorksFor
<1>5. [j \in Keys |-> row[j] # NoRow]' = [[j \in Keys |-> row[j] # NoRow] EXCEPT ![k] = TRUE]
  BY <1>0, <1>1, <1>2
<1>6. [j \in Keys |-> WorksFor(j)]' = [[j \in Keys |-> WorksFor(j)] EXCEPT ![k] = {r}]
  BY <1>0, <1>1, <1>4
<1>7. [j \in Keys |-> row[j].snap]' = [j \in Keys |-> row[j].snap]
  BY <1>0, <1>1, <1>2
<1>8. Key!Take(k, r)
  BY <1>0, <1>1, <1>5, <1>6, <1>7 DEF Key!Take
<1> QED BY <1>1, <1>8, KeyedAssumption DEF Key!Next

(* Storing the first response gives it. *)
LEMMA SavingGives ==
  ASSUME IInv, NEW r \in Refunds, SaveSnapshot(r), row[key[r]].snap = "null"
  PROVE  Key!Next
<1> DEFINE k == key[r]
           n == [row[k] EXCEPT !.snap = told[r]]
<1>0. /\ kpc[r] = "save" /\ kpc[r] \in Holding /\ key' = key
      /\ row \in [Keys -> Row] /\ kpc \in [Refunds -> KeyedPc]
  BY Facts DEF SaveSnapshot, At, Holding
<1>1. /\ k \in Keys /\ row[k] \in Row /\ row[k] # NoRow /\ Matches(k, requestHash(r))
      /\ told[r] \in Refunds
  BY <1>0, Arrived, Facts DEF PlacesAgree, At
<1>2. row' = [row EXCEPT ![k] = n] /\ kpc' = [kpc EXCEPT ![r] = "told"]
  BY <1>1 DEF SaveSnapshot, updateResult, Step
<1>3. n.snap = told[r] /\ told[r] # "null" /\ n # NoRow
  <2>1. n.snap = told[r] /\ told[r] # "null" /\ NoRow.snap = "null"
    BY <1>1, KeyedAssumption DEF Row, NoRow
  <2> QED BY <2>1
<1> HIDE DEF n
<1>4. WorksFor(k) = {r}
  BY <1>0, ServesAlone
<1>5. WorksFor(k)' = {} /\ \A j \in Keys \ {k} : WorksFor(j)' = WorksFor(j)
  <2>1. "told" \notin Holding /\ row'[k].snap # "null"
    BY <1>0, <1>1, <1>2, <1>3 DEF Holding
  <2> QED BY <1>0, <1>1, <1>2, <2>1 DEF WorksFor
<1>6. [j \in Keys |-> row[j] # NoRow]' = [j \in Keys |-> row[j] # NoRow]
  BY <1>0, <1>1, <1>2, <1>3
<1>7. [j \in Keys |-> WorksFor(j)]' = [[j \in Keys |-> WorksFor(j)] EXCEPT ![k] = {}]
  BY <1>0, <1>1, <1>5
<1>8. [j \in Keys |-> row[j].snap]' = [[j \in Keys |-> row[j].snap] EXCEPT ![k] = told[r]]
  BY <1>0, <1>1, <1>2, <1>3
<1>9. PICK response \in Requests : response = told[r]
  BY <1>1, KeyedAssumption
<1>10. Key!Give(k, r, response)
  BY <1>1, <1>4, <1>6, <1>7, <1>8, <1>9 DEF Key!Give
<1> QED BY <1>1, <1>10, KeyedAssumption DEF Key!Next

(* Clearing a reservation that has no response releases the key. *)
LEMMA ClearingReleases ==
  ASSUME IInv, NEW r \in Refunds, ReleaseKey(r), row[key[r]].snap = "null"
  PROVE  Key!Next
<1> DEFINE k == key[r]
<1>0. /\ kpc[r] = "clear" /\ kpc[r] \in Holding /\ key' = key
      /\ row \in [Keys -> Row] /\ kpc \in [Refunds -> KeyedPc]
  BY Facts DEF ReleaseKey, At, Holding
<1>1. k \in Keys /\ row[k] # NoRow /\ Matches(k, requestHash(r))
  BY <1>0, Arrived
<1>2. row' = [row EXCEPT ![k] = NoRow] /\ kpc' = [kpc EXCEPT ![r] = "told"]
  BY <1>1 DEF ReleaseKey, clearReservation, Step
<1>3. NoRow.snap = "null" /\ "told" \notin Holding
  BY DEF NoRow, Holding
<1>4. WorksFor(k) = {r}
  BY <1>0, ServesAlone
<1>5. WorksFor(k)' = {} /\ \A j \in Keys \ {k} : WorksFor(j)' = WorksFor(j)
  <2>1. \A x \in Refunds \ {r} : kpc[x] \in Holding => key[x] # k
    BY <1>0, HoldsAlone
  <2> QED BY <1>0, <1>1, <1>2, <1>3, <2>1 DEF WorksFor
<1>6. [j \in Keys |-> row[j] # NoRow]' = [[j \in Keys |-> row[j] # NoRow] EXCEPT ![k] = FALSE]
  BY <1>0, <1>1, <1>2
<1>7. [j \in Keys |-> WorksFor(j)]' = [[j \in Keys |-> WorksFor(j)] EXCEPT ![k] = {}]
  BY <1>0, <1>1, <1>5
<1>8. [j \in Keys |-> row[j].snap]' = [j \in Keys |-> row[j].snap]
  BY <1>0, <1>1, <1>2, <1>3
<1>9. Key!Release(k, r)
  BY <1>1, <1>4, <1>6, <1>7, <1>8 DEF Key!Release
<1> QED BY <1>1, <1>9, KeyedAssumption DEF Key!Next

(* A replay that stores its response again, or would free the key, changes
   nothing. *)
LEMMA ReplayIsSilent ==
  ASSUME IInv, NEW r \in Refunds, SaveSnapshot(r) \/ ReleaseKey(r), row[key[r]].snap # "null"
  PROVE  row' = row
<1> DEFINE k == key[r]
<1>0. /\ kpc[r] \in {"save", "clear"} /\ kpc[r] \in Holding /\ kpc[r] # "new"
      /\ SaveSnapshot(r) => kpc[r] = "save"
      /\ row \in [Keys -> Row]
  BY Facts DEF SaveSnapshot, ReleaseKey, At, Holding
<1>1. k \in Keys /\ row[k] \in Row /\ Matches(k, requestHash(r)) /\ KeyHeld(r)
  BY <1>0, Arrived, Facts
<1>2. CASE ReleaseKey(r)
  BY <1>2 DEF ReleaseKey, clearReservation
<1>3. CASE SaveSnapshot(r)
  <2>1. row[k].snap = told[r]
    BY <1>0, <1>1, <1>3 DEF KeyHeld, At
  <2>2. [row[k] EXCEPT !.snap = told[r]] = row[k]
    BY <1>1, <2>1 DEF Row
  <2>3. row' = [row EXCEPT ![k].snap = told[r]]
    BY <1>1, <1>3 DEF SaveSnapshot, updateResult
  <2> QED BY <1>0, <1>1, <2>2, <2>3
<1> QED BY <1>2, <1>3

(* A row is purged when nobody relies on it. *)
LEMMA PurgingLapses ==
  ASSUME IInv, NEW k \in Keys, PurgeRow(k)
  PROVE  Key!Next
<1>0. /\ row[k] # NoRow /\ row[k].old /\ row' = [row EXCEPT ![k] = NoRow]
      /\ row \in [Keys -> Row] /\ kpc' = kpc /\ key' = key
  BY Facts DEF PurgeRow, purgeExpired, keyVars
<1>1. \A x \in Refunds : kpc[x] \in Holding => key[x] # k
  BY <1>0, Facts DEF KeyHeld
<1>2. [j \in Keys |-> row[j] # NoRow]' = [[j \in Keys |-> row[j] # NoRow] EXCEPT ![k] = FALSE]
  BY <1>0
<1>3. WorksFor(k) = {} /\ \A j \in Keys : WorksFor(j)' = WorksFor(j)
  BY <1>0, <1>1 DEF WorksFor
<1>4. [j \in Keys |-> WorksFor(j)]' = [j \in Keys |-> WorksFor(j)]
  BY <1>3
<1>5. [j \in Keys |-> row[j].snap]' = [[j \in Keys |-> row[j].snap] EXCEPT ![k] = "null"]
  BY <1>0 DEF NoRow
<1>6. Key!Lapse(k)
  BY <1>0, <1>2, <1>3, <1>4, <1>5 DEF Key!Lapse
<1> QED BY <1>6 DEF Key!Next

(* A row past its lifetime is still the row it was. *)
LEMMA ExpiryIsSilent ==
  ASSUME IInv, NEW k \in Keys, RowExpires(k)
  PROVE  UNCHANGED Key!vars
<1> DEFINE n == [row[k] EXCEPT !.old = TRUE]
<1>0. /\ row[k] # NoRow /\ row' = [row EXCEPT ![k] = n]
      /\ row \in [Keys -> Row] /\ kpc' = kpc /\ key' = key
  BY Facts DEF RowExpires, Expire, keyVars
<1>1. n # NoRow /\ n.snap = row[k].snap
  <2>1. row[k] \in Row /\ n.old /\ ~NoRow.old /\ n.snap = row[k].snap
    BY <1>0 DEF Row, NoRow
  <2> QED BY <2>1
<1> HIDE DEF n
<1>2. [j \in Keys |-> row[j] # NoRow]' = [j \in Keys |-> row[j] # NoRow]
  BY <1>0, <1>1
<1>3. \A j \in Keys : WorksFor(j)' = WorksFor(j)
  BY <1>0, <1>1 DEF WorksFor
<1>4. [j \in Keys |-> WorksFor(j)]' = [j \in Keys |-> WorksFor(j)]
  BY <1>3
<1>5. [j \in Keys |-> row[j].snap]' = [j \in Keys |-> row[j].snap]
  BY <1>0, <1>1
<1> QED BY <1>2, <1>4, <1>5 DEF Key!vars

(* Every step is a step of the key, or none. *)
LEMMA NextKey ==
  ASSUME IInv, [Next]_vars
  PROVE  [Key!Next]_(Key!vars)
<1>t. kpc \in [Refunds -> KeyedPc] /\ key \in [Refunds -> Keys \cup {"none"}]
      /\ Holding = {"work", "save", "clear"}
  BY Facts DEF Holding
<1>u. UNCHANGED <<row, kpc, key>> => UNCHANGED Key!vars
  BY DEF Key!vars, WorksFor
<1>1. ASSUME NEW r \in Refunds, NEW k \in Keys, NEW p \in Payments, NEW a \in Amounts, Arrive(r, k, p, a)
      PROVE  Key!Next
  BY <1>1, <1>t, NobodyStarts DEF Arrive, Step
<1>2. ASSUME NEW r \in Refunds, row' = row, key' = key,
             \E q : kpc' = [kpc EXCEPT ![r] = q],
             kpc'[r] \in Holding => kpc[r] \in Holding \/ row[key[r]].snap # "null"
      PROVE  Key!Next
  BY <1>2, <1>t, NobodyStarts
<1>3. ASSUME NEW r \in Refunds, KeyedStep(r) \/ FlowFails(r) \/ FailureNotWritten(r) \/ KeyFails(r)
      PROVE  Key!Next \/ UNCHANGED Key!vars
  <2>1. CASE Works(r) \/ WritesFailure(r) \/ FailureNotWritten(r)
    BY <1>u, <2>1 DEF Works, WritesFailure, FailureNotWritten, keyVars
  <2>2. CASE \/ NoSettledPayment(r) \/ Refuses(r) \/ Reports(r) \/ PointsAtTwin(r)
             \/ ReportsFailure(r) \/ FlowFails(r)
    <3>1. kpc[r] \in Holding /\ \E of : Respond(r, of)
      BY <2>2, <1>t
      DEF NoSettledPayment, Refuses, Reports, PointsAtTwin, ReportsFailure, FlowFails, At
    <3> QED BY <1>2, <3>1 DEF Respond, Step
  <2>3. CASE ReserveKey(r)
    <3>1. CASE CanReserve(key[r])
      BY <2>3, <3>1, ReservingTakes
    <3>2. CASE ~CanReserve(key[r])
      BY <1>2, <1>t, <2>3, <3>2 DEF ReserveKey, Step
    <3> QED BY <3>1, <3>2
  <2>4. CASE ApplyCheck(r)
    <3>1. CASE CheckStatus(key[r], requestHash(r)) = "Replay"
      <4>1. row[key[r]].snap # "null"
        BY <3>1 DEF CheckStatus
      <4> QED BY <1>2, <2>4, <3>1, <4>1 DEF ApplyCheck, Respond, Step
    <3>2. CASE CheckStatus(key[r], requestHash(r)) # "Replay"
      BY <1>2, <1>t, <2>4, <3>2 DEF ApplyCheck, Step
    <3> QED BY <3>1, <3>2
  <2>5. CASE SaveSnapshot(r) \/ ReleaseKey(r)
    <3>1. CASE row[key[r]].snap = "null"
      BY <2>5, <3>1, SavingGives, ClearingReleases
    <3>2. CASE row[key[r]].snap # "null"
      <4>1. row' = row /\ key' = key /\ (\E q : kpc' = [kpc EXCEPT ![r] = q]) /\ kpc[r] \in Holding
        BY <1>t, <2>5, <3>2, ReplayIsSilent DEF SaveSnapshot, ReleaseKey, Step, At
      <4> QED BY <1>2, <4>1
    <3> QED BY <3>1, <3>2
  <2>6. CASE KeyFails(r)
    <3>1. /\ row' = row /\ key' = key /\ \E q : kpc' = [kpc EXCEPT ![r] = q]
          /\ kpc[r] = "save" \/ kpc' = [kpc EXCEPT ![r] = "told"]
      BY <2>6 DEF KeyFails, Step, At
    <3> QED BY <1>2, <1>t, <3>1
  <2> QED BY <1>3, <2>1, <2>2, <2>3, <2>4, <2>5, <2>6 DEF KeyedStep
<1>4. ASSUME NEW r \in Refunds, ChannelDecides(r) \/ NoticeSettles(r) \/ QuerySettles(r)
      PROVE  UNCHANGED Key!vars
  BY <1>4, <1>u, SettlerWrites DEF ChannelDecides, keyVars
<1>5. CASE Restart
  <2>1. \A k \in Keys : WorksFor(k)' = {}
    BY <1>5, <1>t DEF Restart, WorksFor
  <2> QED BY <1>5, <2>1, LeavesKey DEF Restart
<1>6. CASE UNCHANGED vars
  BY <1>6, <1>u DEF vars, keyVars
<1> QED BY <1>1, <1>3, <1>4, <1>5, <1>6, PurgingLapses, ExpiryIsSilent DEF Next

(* createRefund keeps the promise of its client's key: reserve, answer, clear
   and purge are the steps of ClientKey, and replays leave the key alone. *)
THEOREM KeyKept == Spec => KeyIsKept
<1>1. Init => Key!Init
  <2> SUFFICES ASSUME Init PROVE Key!Init
    OBVIOUS
  <2>1. \A k \in Keys : row[k] = NoRow /\ row[k].snap = "null" /\ WorksFor(k) = {}
    BY DEF Init, RowsInit, NoRow, WorksFor, Holding
  <2> QED BY <2>1 DEF Key!Init
<1>2. IInv /\ [Next]_vars => [Key!Next]_(Key!vars)
  BY NextKey
<1> QED BY <1>1, <1>2, Inductive, PTL DEF Spec, KeyIsKept, Key!Spec
==============================================================================
