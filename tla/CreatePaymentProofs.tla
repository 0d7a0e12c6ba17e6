------------------------- MODULE CreatePaymentProofs -------------------------
(***************************************************************************)
(* What every statement of CreatePayment keeps true, for any number of     *)
(* requests, keys, orders, faults and restarts: a request at work owns its *)
(* key, an order gets one attempt, and an answer proves what is booked.    *)
(***************************************************************************)
EXTENDS CreatePayment, TLAPS

(* The empty tables satisfy the invariant. *)
LEMMA InitIInv == Init => IInv
<1> SUFFICES ASSUME Init PROVE IInv
  OBVIOUS
<1> USE DEF Init, RowsInit, NoRow
<1>1. TypeOK
  BY CreateAssumption DEF TypeOK, RowsTypeOK, Row, RequestPc, ChannelAnswer, NoReply
<1>2. OneAtWorkPerKey /\ OneAttemptPerOrder
  BY DEF OneAtWorkPerKey, AtWork, Working, OneAttemptPerOrder
<1>3. \A r \in Requests : KeyHeld(r) /\ RowsBooked(r) /\ AnswerProves(r) /\ ReplyProved(r)
  BY DEF KeyHeld, RowsBooked, AnswerProves, ReplyProved, Working, Early, Open, NoReply
<1>4. (\A k \in Keys : SnapshotProved(k)) /\ (\A o \in Orders : TradeMatched(o))
  BY DEF SnapshotProved, TradeMatched
<1> QED
  BY <1>1, <1>2, <1>3, <1>4 DEF IInv

(* The row of a request at work, field by field. *)
LEMMA HeldRow ==
  ASSUME NEW r \in Requests, KeyHeld(r), rpc[r] \in Working
  PROVE  /\ row[want[r].key].hash = want[r].order
         /\ row[want[r].key].snap = "null"
         /\ row[want[r].key].old = FALSE
<1>1. row[want[r].key] = [hash |-> want[r].order, snap |-> "null", old |-> FALSE]
  BY DEF KeyHeld, requestHash
<1> QED
  BY <1>1

----------------------------------------------------------------------------
(* What a step that leaves a part of the state alone keeps. *)

(* No request starts to work and no row changes. *)
LEMMA KeysKept ==
  ASSUME IInv, want' = want, row' = row,
         \A x \in Requests : rpc'[x] \in Working => rpc[x] \in Working
  PROVE  OneAtWorkPerKey' /\ (\A x \in Requests : KeyHeld(x)')
<1>1. OneAtWorkPerKey'
  BY DEF IInv, OneAtWorkPerKey, AtWork
<1>2. \A x \in Requests : KeyHeld(x)'
  BY DEF IInv, KeyHeld, requestHash
<1> QED
  BY <1>1, <1>2

(* Calls that got a code keep their answer and their order. *)
LEMMA SnapshotsKept ==
  ASSUME IInv, row' = row,
         \A x \in Requests : ans[x] = "code" => ans'[x] = "code" /\ want'[x] = want[x]
  PROVE  \A k \in Keys : SnapshotProved(k)'
BY DEF IInv, TypeOK, RowsTypeOK, Row, SnapshotProved

(* Nobody is told of a payment. *)
LEMMA RepliesKept ==
  ASSUME IInv, want' = want,
         \A x \in Requests : ans[x] = "code" => ans'[x] = "code",
         \A x \in Requests : rpc[x] # "new" => rpc'[x] # "new",
         \A x \in Requests : reply'[x].kind \in {"created", "replay"} => reply'[x] = reply[x]
  PROVE  \A x \in Requests : ReplyProved(x)'
BY DEF IInv, ReplyProved

(* No attempt is booked. *)
LEMMA AttemptsKept ==
  ASSUME IInv, want' = want, \A x \in Requests : pay'[x] # "none" => pay[x] # "none"
  PROVE  OneAttemptPerOrder'
BY DEF IInv, OneAttemptPerOrder

(* Trades stay as they are, and so do the attempts that may match them. *)
LEMMA TradesKept ==
  ASSUME IInv, want' = want, trade' = trade,
         \A o \in Orders : qr[o] \in Open => qr'[o] \in Open,
         \A x \in Requests : pay[x] \in Open /\ ans[x] \notin {"none", "refused"}
                               => pay'[x] \in Open /\ ans'[x] = ans[x]
  PROVE  \A o \in Orders : TradeMatched(o)'
BY DEF IInv, TradeMatched, Booked, Open, InFlight

----------------------------------------------------------------------------
(* Steps of a request *)

(* The request that names its order now has booked nothing before. *)
LEMMA createPaymentKeeps ==
  ASSUME IInv, NEW r \in Requests, NEW k \in Keys,
         NEW o \in Orders, createPayment(r, k, o)
  PROVE  IInv'
<1>t. /\ TypeOK /\ RowsTypeOK
      /\ OneAtWorkPerKey /\ OneAttemptPerOrder
      /\ \A x \in Requests : KeyHeld(x) /\ RowsBooked(x) /\ AnswerProves(x) /\ ReplyProved(x)
      /\ \A j \in Keys : SnapshotProved(j)
      /\ \A p \in Orders : TradeMatched(p)
  BY DEF IInv, TypeOK
<1>1. TypeOK'
  BY <1>t, CreateAssumption
  DEF createPayment, Goto, tableVars, TypeOK, RowsTypeOK, RequestPc, ChannelAnswer,
      OrderStatus, PaymentStatus
<1>2. OneAtWorkPerKey' /\ (\A x \in Requests : KeyHeld(x)')
  <2>1. /\ rpc'[r] \notin Working /\ row' = row
        /\ \A x \in Requests \ {r} : rpc'[x] = rpc[x] /\ want'[x] = want[x]
    BY <1>t DEF createPayment, Goto, TypeOK, Working
  <2>2. OneAtWorkPerKey'
    BY <1>t, <2>1 DEF OneAtWorkPerKey, AtWork
  <2>3. \A x \in Requests : KeyHeld(x)'
    BY <1>t, <2>1 DEF KeyHeld, requestHash
  <2> QED
    BY <2>2, <2>3
<1>3. OneAttemptPerOrder'
  BY <1>t DEF createPayment, tableVars, TypeOK, OneAttemptPerOrder, RowsBooked, Early
<1>4. \A x \in Requests : RowsBooked(x)'
  BY <1>t DEF createPayment, Goto, tableVars, TypeOK, RowsBooked, Early
<1>5. \A x \in Requests : AnswerProves(x)'
  BY <1>t DEF createPayment, Goto, tableVars, TypeOK, AnswerProves, RowsBooked, Early
<1>6. \A x \in Requests : ReplyProved(x)'
  BY <1>t DEF createPayment, Goto, TypeOK, ReplyProved, RowsBooked, Early
<1>7. \A j \in Keys : SnapshotProved(j)'
  BY <1>t, SnapshotsKept DEF createPayment, TypeOK, RowsBooked, Early
<1>8. \A p \in Orders : TradeMatched(p)'
  BY <1>t
  DEF createPayment, tableVars, TypeOK, TradeMatched, Booked, RowsBooked, Early, Open,
      InFlight
<1> QED
  BY <1>1, <1>2, <1>3, <1>4, <1>5, <1>6, <1>7, <1>8 DEF IInv

(* Only a key that is free is reserved. *)
LEMMA checkDatabaseKeeps ==
  ASSUME IInv, NEW r \in Requests, checkDatabase(r)
  PROVE  IInv'
<1>t. /\ TypeOK /\ RowsTypeOK
      /\ OneAtWorkPerKey /\ OneAttemptPerOrder
      /\ \A x \in Requests : KeyHeld(x) /\ RowsBooked(x) /\ AnswerProves(x) /\ ReplyProved(x)
      /\ \A j \in Keys : SnapshotProved(j)
      /\ \A p \in Orders : TradeMatched(p)
  BY DEF IInv, TypeOK
<1>1. TypeOK'
  <2>1. want[r].key \in Keys /\ want[r].order \in Hashes
    BY <1>t, CreateAssumption DEF checkDatabase, RowsBooked
  <2>2. RowsTypeOK'
    <3>1. [hash |-> want[r].order, snap |-> "null", old |-> FALSE] \in Row
      BY <2>1 DEF Row
    <3> QED
      BY <1>t, <3>1 DEF checkDatabase, Reserve, requestHash, RowsTypeOK
  <2> QED
    BY <1>t, <2>2 DEF checkDatabase, Goto, tableVars, TypeOK, RequestPc
<1>2. OneAtWorkPerKey' /\ (\A x \in Requests : KeyHeld(x)')
  <2>1. row[want[r].key] # NoRow => UNCHANGED row /\ Goto(r, "check")
    BY DEF checkDatabase, CanReserve
  <2>2. ASSUME row[want[r].key] = NoRow
        PROVE  /\ row' = [row EXCEPT ![want[r].key] = [hash |-> requestHash(r), snap |-> "null", old |-> FALSE]]
               /\ rpc' = [rpc EXCEPT ![r] = "validate"]
    BY <2>2 DEF checkDatabase, CanReserve, Reserve, Goto
  <2>3. want' = want /\ rpc[r] = "reserve"
    BY DEF checkDatabase
  <2>4. CASE row[want[r].key] # NoRow
    BY <1>t, <2>1, <2>3, <2>4, KeysKept DEF Goto, TypeOK, Working, RequestPc
  <2>5. CASE row[want[r].key] = NoRow
    <3>0. want[r].key \in Keys /\ want[r].order \in Hashes
      BY <1>t, <2>3, CreateAssumption DEF RowsBooked
    <3>1. ASSUME NEW x \in Requests, x # r, rpc'[x] \in Working
          PROVE  rpc[x] \in Working /\ want[x].key # want[r].key
      <4>1. rpc[x] \in Working
        BY <1>t, <2>2, <2>5, <3>1 DEF TypeOK
      <4>2. row[want[x].key] = [hash |-> requestHash(x), snap |-> "null", old |-> FALSE]
        BY <1>t, <4>1 DEF KeyHeld
      <4>3. want[x].order \in Orders
        BY <1>t, <4>1 DEF RowsBooked, Working
      <4> QED
        BY <2>5, <4>1, <4>2, <4>3, CreateAssumption DEF NoRow, requestHash
    <3>2. OneAtWorkPerKey'
      BY <1>t, <2>3, <3>1 DEF OneAtWorkPerKey, AtWork
    <3>3. ASSUME NEW x \in Requests PROVE KeyHeld(x)'
      <4>1. CASE x = r
        BY <1>t, <2>2, <2>3, <2>5, <3>0, <4>1 DEF KeyHeld, requestHash, RowsTypeOK
      <4>2. CASE x # r
        BY <1>t, <2>2, <2>3, <2>5, <3>1, <4>2
        DEF KeyHeld, requestHash, RowsTypeOK, RowsBooked, Working
      <4> QED
        BY <4>1, <4>2
    <3> QED
      BY <3>2, <3>3
  <2> QED
    BY <2>4, <2>5
<1>3. OneAttemptPerOrder'
  BY <1>t, AttemptsKept DEF checkDatabase, Goto, Reserve, tableVars, TypeOK
<1>4. \A x \in Requests : RowsBooked(x)'
  BY <1>t DEF checkDatabase, Goto, Reserve, tableVars, TypeOK, RowsBooked, Early
<1>5. \A x \in Requests : AnswerProves(x)'
  BY <1>t DEF checkDatabase, Goto, Reserve, tableVars, TypeOK, AnswerProves
<1>6. \A x \in Requests : ReplyProved(x)'
  BY <1>t, RepliesKept DEF checkDatabase, Goto, Reserve, tableVars, TypeOK
<1>7. \A j \in Keys : SnapshotProved(j)'
  BY <1>t DEF checkDatabase, Reserve, tableVars, TypeOK, RowsTypeOK, SnapshotProved
<1>8. \A p \in Orders : TradeMatched(p)'
  BY <1>t, TradesKept DEF checkDatabase, Goto, Reserve, tableVars, TypeOK
<1> QED
  BY <1>1, <1>2, <1>3, <1>4, <1>5, <1>6, <1>7, <1>8 DEF IInv

(* A replay is told what the row proves. *)
LEMMA ApplyCheckKeeps ==
  ASSUME IInv, NEW r \in Requests, ApplyCheck(r)
  PROVE  IInv'
<1>t. /\ TypeOK /\ RowsTypeOK
      /\ OneAtWorkPerKey /\ OneAttemptPerOrder
      /\ \A x \in Requests : KeyHeld(x) /\ RowsBooked(x) /\ AnswerProves(x) /\ ReplyProved(x)
      /\ \A j \in Keys : SnapshotProved(j)
      /\ \A p \in Orders : TradeMatched(p)
  BY DEF IInv, TypeOK
<1>1. TypeOK'
  <2>0. want[r].key \in Keys
    BY <1>t DEF ApplyCheck, RowsBooked
  <2>1. CheckStatus(want[r].key, requestHash(r)) = "Replay" => row[want[r].key].snap \in Requests
    BY <1>t, <2>0 DEF CheckStatus, RowsTypeOK, Row
  <2>2. reply' \in [Requests -> [kind: {"none", "created", "replay", "error"}, of: Requests \cup {"none"}]]
    BY <1>t, <2>1 DEF ApplyCheck, FailThen, Tell, TypeOK
  <2>3. rpc' \in [Requests -> RequestPc]
    BY <1>t DEF ApplyCheck, FailThen, Goto, TypeOK, RequestPc
  <2> QED
    BY <1>t, <2>2, <2>3 DEF ApplyCheck, tableVars, TypeOK, RowsTypeOK
<1>2. OneAtWorkPerKey' /\ (\A x \in Requests : KeyHeld(x)')
  BY <1>t, KeysKept DEF ApplyCheck, FailThen, Tell, Goto, tableVars, TypeOK, Working, RequestPc
<1>3. OneAttemptPerOrder'
  BY <1>t, AttemptsKept DEF ApplyCheck, FailThen, Tell, Goto, tableVars, TypeOK
<1>4. \A x \in Requests : RowsBooked(x)'
  BY <1>t DEF ApplyCheck, FailThen, Tell, Goto, tableVars, TypeOK, RowsBooked, Early
<1>5. \A x \in Requests : AnswerProves(x)'
  BY <1>t DEF ApplyCheck, FailThen, Tell, Goto, tableVars, TypeOK, AnswerProves
<1>6. \A x \in Requests : ReplyProved(x)'
  <2>0. rpc[r] = "check" /\ UNCHANGED <<want, ans>> /\ want[r].key \in Keys
    BY <1>t DEF ApplyCheck, RowsBooked
  <2>1. CASE CheckStatus(want[r].key, requestHash(r)) = "Replay"
    <3>1. row[want[r].key].hash = want[r].order /\ row[want[r].key].snap # "null"
      BY <2>1 DEF CheckStatus, requestHash
    <3>2. /\ row[want[r].key].snap \in Requests
          /\ ans[row[want[r].key].snap] = "code"
          /\ want[row[want[r].key].snap].order = want[r].order
      BY <1>t, <2>0, <3>1 DEF SnapshotProved, RowsTypeOK, Row
    <3>3. /\ rpc' = [rpc EXCEPT ![r] = "answered"]
          /\ reply' = [reply EXCEPT ![r] = [kind |-> "replay", of |-> row[want[r].key].snap]]
      BY <2>1 DEF ApplyCheck, Goto, Tell
    <3> QED
      BY <1>t, <2>0, <3>2, <3>3 DEF TypeOK, ReplyProved
  <2>2. CASE CheckStatus(want[r].key, requestHash(r)) # "Replay"
    BY <1>t, <2>0, <2>2, RepliesKept DEF ApplyCheck, FailThen, Tell, Goto, TypeOK
  <2> QED
    BY <2>1, <2>2
<1>7. \A j \in Keys : SnapshotProved(j)'
  BY <1>t, SnapshotsKept DEF ApplyCheck, FailThen, Tell, Goto, tableVars, TypeOK
<1>8. \A p \in Orders : TradeMatched(p)'
  BY <1>t, TradesKept DEF ApplyCheck, FailThen, Tell, Goto, tableVars, TypeOK
<1> QED
  BY <1>1, <1>2, <1>3, <1>4, <1>5, <1>6, <1>7, <1>8 DEF IInv

(* A request that fails validation has called nobody. *)
LEMMA ValidateKeeps ==
  ASSUME IInv, NEW r \in Requests, Validate(r)
  PROVE  IInv'
<1>t. /\ TypeOK /\ RowsTypeOK
      /\ OneAtWorkPerKey /\ OneAttemptPerOrder
      /\ \A x \in Requests : KeyHeld(x) /\ RowsBooked(x) /\ AnswerProves(x) /\ ReplyProved(x)
      /\ \A j \in Keys : SnapshotProved(j)
      /\ \A p \in Orders : TradeMatched(p)
  BY DEF IInv, TypeOK
<1>1. TypeOK'
  <2>1. reply' \in [Requests -> [kind: {"none", "created", "replay", "error"}, of: Requests \cup {"none"}]]
    BY <1>t DEF Validate, FailThen, Tell, TypeOK, RowsTypeOK, Row
  <2> QED
    BY <1>t, <2>1, CreateAssumption
    DEF Validate, FailThen, Goto, tableVars, TypeOK, RowsTypeOK, RequestPc, ChannelAnswer,
        OrderStatus, PaymentStatus
<1>2. OneAtWorkPerKey' /\ (\A x \in Requests : KeyHeld(x)')
  BY <1>t, KeysKept DEF Validate, FailThen, Tell, Goto, tableVars, TypeOK, Working, RequestPc
<1>3. OneAttemptPerOrder'
  BY <1>t, AttemptsKept DEF Validate, FailThen, Tell, Goto, tableVars, TypeOK
<1>4. \A x \in Requests : RowsBooked(x)'
  BY <1>t DEF Validate, FailThen, Tell, Goto, tableVars, TypeOK, RowsBooked, Early
<1>5. \A x \in Requests : AnswerProves(x)'
  BY <1>t DEF Validate, FailThen, Tell, Goto, tableVars, TypeOK, AnswerProves
<1>6. \A x \in Requests : ReplyProved(x)'
  BY <1>t, RepliesKept DEF Validate, FailThen, Tell, Goto, tableVars, TypeOK
<1>7. \A j \in Keys : SnapshotProved(j)'
  BY <1>t, SnapshotsKept DEF Validate, FailThen, Tell, Goto, tableVars, TypeOK
<1>8. \A p \in Orders : TradeMatched(p)'
  BY <1>t, TradesKept DEF Validate, FailThen, Tell, Goto, tableVars, TypeOK
<1> QED
  BY <1>1, <1>2, <1>3, <1>4, <1>5, <1>6, <1>7, <1>8 DEF IInv

(* The order number is unique, so no other request has an attempt at it. *)
LEMMA InsertRowsKeeps ==
  ASSUME IInv, NEW r \in Requests, InsertRows(r)
  PROVE  IInv'
<1>t. /\ TypeOK /\ RowsTypeOK
      /\ OneAtWorkPerKey /\ OneAttemptPerOrder
      /\ \A x \in Requests : KeyHeld(x) /\ RowsBooked(x) /\ AnswerProves(x) /\ ReplyProved(x)
      /\ \A j \in Keys : SnapshotProved(j)
      /\ \A p \in Orders : TradeMatched(p)
  BY DEF IInv, TypeOK
<1>1. TypeOK'
  <2>1. reply' \in [Requests -> [kind: {"none", "created", "replay", "error"}, of: Requests \cup {"none"}]]
    BY <1>t DEF InsertRows, FailThen, Tell, TypeOK
  <2>2. rpc' \in [Requests -> RequestPc] /\ faults' \in 0..MaxFaults
    BY <1>t, CreateAssumption DEF InsertRows, FailThen, Goto, TypeOK, RequestPc
  <2> QED
    BY <1>t, <2>1, <2>2 DEF InsertRows, TypeOK, RowsTypeOK, OrderStatus, PaymentStatus
<1>2. OneAtWorkPerKey' /\ (\A x \in Requests : KeyHeld(x)')
  BY <1>t, KeysKept DEF InsertRows, FailThen, Tell, Goto, TypeOK, Working, RequestPc
<1>3. OneAttemptPerOrder'
  <2>1. order[want[r].order] = "none" =>
          \A x \in Requests : pay[x] # "none" => want[x].order # want[r].order
    BY <1>t DEF RowsBooked
  <2> QED
    BY <1>t, <2>1 DEF InsertRows, FailThen, Tell, Goto, TypeOK, OneAttemptPerOrder
<1>4. \A x \in Requests : RowsBooked(x)'
  BY <1>t DEF InsertRows, FailThen, Tell, Goto, TypeOK, RowsBooked, Early
<1>5. \A x \in Requests : AnswerProves(x)'
  BY <1>t
  DEF InsertRows, FailThen, Tell, Goto, TypeOK, AnswerProves, RowsBooked, Early, Open,
      InFlight
<1>6. \A x \in Requests : ReplyProved(x)'
  BY <1>t, RepliesKept DEF InsertRows, FailThen, Tell, Goto, TypeOK
<1>7. \A j \in Keys : SnapshotProved(j)'
  BY <1>t, SnapshotsKept DEF InsertRows, FailThen, Tell, Goto, TypeOK
<1>8. \A p \in Orders : TradeMatched(p)'
  <2>1. \A x \in Requests : pay[x] # "none" => pay'[x] = pay[x]
    BY <1>t DEF InsertRows, FailThen, Goto, TypeOK, RowsBooked, Early
  <2> QED
    BY <1>t, <2>1, TradesKept DEF InsertRows, Open, InFlight
<1> QED
  BY <1>1, <1>2, <1>3, <1>4, <1>5, <1>6, <1>7, <1>8 DEF IInv

(* As InsertRows; the call that never left answered nothing. *)
LEMMA CommitAnswerLostKeeps ==
  ASSUME IInv, NEW r \in Requests, CommitAnswerLost(r)
  PROVE  IInv'
<1>t. /\ TypeOK /\ RowsTypeOK
      /\ OneAtWorkPerKey /\ OneAttemptPerOrder
      /\ \A x \in Requests : KeyHeld(x) /\ RowsBooked(x) /\ AnswerProves(x) /\ ReplyProved(x)
      /\ \A j \in Keys : SnapshotProved(j)
      /\ \A p \in Orders : TradeMatched(p)
  BY DEF IInv, TypeOK
<1>1. TypeOK'
  <2>1. reply' \in [Requests -> [kind: {"none", "created", "replay", "error"}, of: Requests \cup {"none"}]]
    BY <1>t DEF CommitAnswerLost, FailThen, Tell, TypeOK
  <2>2. rpc' \in [Requests -> RequestPc] /\ faults' \in 0..MaxFaults
    BY <1>t, CreateAssumption DEF CommitAnswerLost, FailThen, Goto, TypeOK, RequestPc
  <2> QED
    BY <1>t, <2>1, <2>2 DEF CommitAnswerLost, TypeOK, RowsTypeOK, OrderStatus, PaymentStatus
<1>2. OneAtWorkPerKey' /\ (\A x \in Requests : KeyHeld(x)')
  BY <1>t, KeysKept DEF CommitAnswerLost, FailThen, Tell, Goto, TypeOK, Working, RequestPc
<1>3. OneAttemptPerOrder'
  <2>1. order[want[r].order] = "none" =>
          \A x \in Requests : pay[x] # "none" => want[x].order # want[r].order
    BY <1>t DEF RowsBooked
  <2> QED
    BY <1>t, <2>1 DEF CommitAnswerLost, FailThen, Tell, Goto, TypeOK, OneAttemptPerOrder
<1>4. \A x \in Requests : RowsBooked(x)'
  BY <1>t DEF CommitAnswerLost, FailThen, Tell, Goto, TypeOK, RowsBooked, Early
<1>5. \A x \in Requests : AnswerProves(x)'
  BY <1>t
  DEF CommitAnswerLost, FailThen, Tell, Goto, TypeOK, AnswerProves, RowsBooked, Early, Open,
      InFlight
<1>6. \A x \in Requests : ReplyProved(x)'
  BY <1>t, RepliesKept DEF CommitAnswerLost, FailThen, Tell, Goto, TypeOK
<1>7. \A j \in Keys : SnapshotProved(j)'
  BY <1>t, SnapshotsKept DEF CommitAnswerLost, FailThen, Tell, Goto, TypeOK
<1>8. \A p \in Orders : TradeMatched(p)'
  <2>1. \A x \in Requests : pay[x] # "none" => pay'[x] = pay[x]
    BY <1>t DEF CommitAnswerLost, FailThen, Goto, TypeOK, RowsBooked, Early
  <2> QED
    BY <1>t, <2>1, TradesKept DEF CommitAnswerLost, Open, InFlight
<1> QED
  BY <1>1, <1>2, <1>3, <1>4, <1>5, <1>6, <1>7, <1>8 DEF IInv

(* A trade that opens is matched by the attempt that opened it. *)
LEMMA callChannelKeeps ==
  ASSUME IInv, NEW r \in Requests, callChannel(r)
  PROVE  IInv'
<1>t. /\ TypeOK /\ RowsTypeOK
      /\ OneAtWorkPerKey /\ OneAttemptPerOrder
      /\ \A x \in Requests : KeyHeld(x) /\ RowsBooked(x) /\ AnswerProves(x) /\ ReplyProved(x)
      /\ \A j \in Keys : SnapshotProved(j)
      /\ \A p \in Orders : TradeMatched(p)
  BY DEF IInv, TypeOK
<1>1. TypeOK'
  <2>1. want[r].order \in Orders
    BY <1>t DEF callChannel, RowsBooked
  <2>2. trade' \in [Orders -> {"none", "open", "paid"}]
    BY <1>t, <2>1 DEF callChannel, TypeOK
  <2>3. ans' \in [Requests -> ChannelAnswer]
    BY <1>t DEF callChannel, TypeOK, ChannelAnswer
  <2>4. rpc' \in [Requests -> RequestPc]
    BY <1>t DEF callChannel, Goto, TypeOK, RequestPc
  <2>5. sent' \subseteq Requests
    BY <1>t DEF callChannel, TypeOK
  <2>6. UNCHANGED <<row, want, reply, order, pay, qr, faults>>
    BY DEF callChannel
  <2> QED
    BY <1>t, <2>2, <2>3, <2>4, <2>5, <2>6 DEF TypeOK, RowsTypeOK
<1>2. OneAtWorkPerKey' /\ (\A x \in Requests : KeyHeld(x)')
  BY <1>t, KeysKept DEF callChannel, Goto, TypeOK, Working, RequestPc
<1>3. OneAttemptPerOrder'
  BY <1>t, AttemptsKept DEF callChannel, Goto, TypeOK
<1>4. \A x \in Requests : RowsBooked(x)'
  BY <1>t DEF callChannel, Goto, TypeOK, RowsBooked, Early
<1>5. \A x \in Requests : AnswerProves(x)'
  <2>1. pay[r] \in InFlight /\ want[r].order \in Orders
    BY <1>t DEF callChannel, TypeOK, RowsBooked, AnswerProves, Early, Open
  <2>2. /\ ans'[r] = "code" => trade'[want[r].order] # "none"
        /\ rpc'[r] = "answer"
        /\ \A x \in Requests \ {r} : rpc'[x] = rpc[x] /\ ans'[x] = ans[x]
        /\ \A o \in Orders : trade[o] # "none" => trade'[o] # "none"
        /\ UNCHANGED <<want, pay>>
    BY <1>t, <2>1 DEF callChannel, Goto, TypeOK
  <2>3. ASSUME NEW x \in Requests \ {r} PROVE AnswerProves(x)'
    <3>1. ans[x] = "code" => want[x].order \in Orders
      BY <1>t DEF RowsBooked, Early
    <3> QED
      BY <1>t, <2>2, <3>1 DEF AnswerProves
  <2>4. AnswerProves(r)'
    BY <1>t, <2>1, <2>2 DEF AnswerProves, Open, InFlight
  <2> QED
    BY <2>3, <2>4
<1>6. \A x \in Requests : ReplyProved(x)'
  BY <1>t, RepliesKept DEF callChannel, Goto, TypeOK, RowsBooked
<1>7. \A j \in Keys : SnapshotProved(j)'
  BY <1>t, SnapshotsKept DEF callChannel, TypeOK, RowsBooked
<1>8. \A p \in Orders : TradeMatched(p)'
  <2>1. pay[r] \in InFlight /\ want[r].order \in Orders /\ ans[r] = "none"
    BY <1>t DEF callChannel, TypeOK, RowsBooked, AnswerProves, Early, Open
  <2> SUFFICES ASSUME NEW o \in Orders PROVE TradeMatched(o)'
    OBVIOUS
  <2>2. CASE trade' = trade
    BY <1>t, <2>1, <2>2 DEF callChannel, TypeOK, TradeMatched, Booked
  <2>3. CASE trade' # trade
    <3>1. /\ trade' = [trade EXCEPT ![want[r].order] = "open"]
          /\ ans'[r] \in {"code", "nocode", "lost"}
      BY <1>t, <2>3 DEF callChannel, TypeOK
    <3>2. /\ UNCHANGED <<want, pay, qr>>
          /\ \A x \in Requests \ {r} : ans'[x] = ans[x]
      BY <1>t DEF callChannel, TypeOK
    <3>3. CASE o = want[r].order
      BY <2>1, <3>1, <3>2, <3>3 DEF TradeMatched, Booked, Open, InFlight
    <3>4. CASE o # want[r].order
      <4>1. trade'[o] = trade[o]
        BY <1>t, <2>1, <3>1, <3>4 DEF TypeOK
      <4> QED
        BY <1>t, <2>1, <3>2, <4>1 DEF TradeMatched, Booked
    <3> QED
      BY <3>3, <3>4
  <2> QED
    BY <2>2, <2>3
<1> QED
  BY <1>1, <1>2, <1>3, <1>4, <1>5, <1>6, <1>7, <1>8 DEF IInv

(* The branch taken is the one the answer proves. *)
LEMMA paymentCallbackKeeps ==
  ASSUME IInv, NEW r \in Requests, paymentCallback(r)
  PROVE  IInv'
<1>t. /\ TypeOK /\ RowsTypeOK
      /\ OneAtWorkPerKey /\ OneAttemptPerOrder
      /\ \A x \in Requests : KeyHeld(x) /\ RowsBooked(x) /\ AnswerProves(x) /\ ReplyProved(x)
      /\ \A j \in Keys : SnapshotProved(j)
      /\ \A p \in Orders : TradeMatched(p)
  BY DEF IInv, TypeOK
<1>1. TypeOK'
  <2>1. reply' \in [Requests -> [kind: {"none", "created", "replay", "error"}, of: Requests \cup {"none"}]]
    <3>1. reply' = reply \/ Tell(r, "error", "none")
      BY DEF paymentCallback, FailThen, channelResultError, attemptCertainlyNotCreated
    <3> QED
      BY <1>t, <3>1 DEF Tell, TypeOK
  <2>2. rpc' \in [Requests -> RequestPc] /\ faults' \in 0..MaxFaults
    BY <1>t, CreateAssumption DEF paymentCallback, FailThen, Goto, TypeOK, RequestPc
  <2> QED
    BY <1>t, <2>1, <2>2 DEF paymentCallback, tableVars, TypeOK, RowsTypeOK
<1>2. OneAtWorkPerKey' /\ (\A x \in Requests : KeyHeld(x)')
  BY <1>t, KeysKept DEF paymentCallback, FailThen, Tell, Goto, tableVars, TypeOK, Working, RequestPc
<1>3. OneAttemptPerOrder'
  BY <1>t, AttemptsKept DEF paymentCallback, FailThen, Tell, Goto, tableVars, TypeOK
<1>4. \A x \in Requests : RowsBooked(x)'
  BY <1>t DEF paymentCallback, FailThen, Tell, Goto, tableVars, TypeOK, RowsBooked, Early
<1>5. \A x \in Requests : AnswerProves(x)'
  BY <1>t
  DEF paymentCallback, channelResultError, attemptCertainlyNotCreated, FailThen, Tell, Goto,
      tableVars, TypeOK, AnswerProves
<1>6. \A x \in Requests : ReplyProved(x)'
  BY <1>t, RepliesKept DEF paymentCallback, FailThen, Tell, Goto, tableVars, TypeOK
<1>7. \A j \in Keys : SnapshotProved(j)'
  BY <1>t, SnapshotsKept DEF paymentCallback, FailThen, Tell, Goto, tableVars, TypeOK
<1>8. \A p \in Orders : TradeMatched(p)'
  BY <1>t, TradesKept DEF paymentCallback, FailThen, Tell, Goto, tableVars, TypeOK
<1> QED
  BY <1>1, <1>2, <1>3, <1>4, <1>5, <1>6, <1>7, <1>8 DEF IInv

(* Only an attempt whose call was refused is closed. *)
LEMMA FailPaymentKeeps ==
  ASSUME IInv, NEW r \in Requests, FailPayment(r)
  PROVE  IInv'
<1>t. /\ TypeOK /\ RowsTypeOK
      /\ OneAtWorkPerKey /\ OneAttemptPerOrder
      /\ \A x \in Requests : KeyHeld(x) /\ RowsBooked(x) /\ AnswerProves(x) /\ ReplyProved(x)
      /\ \A j \in Keys : SnapshotProved(j)
      /\ \A p \in Orders : TradeMatched(p)
  BY DEF IInv, TypeOK
<1>1. TypeOK'
  BY <1>t, CreateAssumption
  DEF FailPayment, Goto, TypeOK, RowsTypeOK, RequestPc, ChannelAnswer, OrderStatus,
      PaymentStatus
<1>2. OneAtWorkPerKey' /\ (\A x \in Requests : KeyHeld(x)')
  BY <1>t, KeysKept DEF FailPayment, Goto, TypeOK, Working, RequestPc
<1>3. OneAttemptPerOrder'
  BY <1>t, AttemptsKept DEF FailPayment, TypeOK, RowsBooked, Early
<1>4. \A x \in Requests : RowsBooked(x)'
  BY <1>t DEF FailPayment, Goto, TypeOK, RowsBooked, Early
<1>5. \A x \in Requests : AnswerProves(x)'
  BY <1>t DEF FailPayment, Goto, TypeOK, AnswerProves, RowsBooked, Open, InFlight
<1>6. \A x \in Requests : ReplyProved(x)'
  BY <1>t, RepliesKept DEF FailPayment, Goto, TypeOK
<1>7. \A j \in Keys : SnapshotProved(j)'
  BY <1>t, SnapshotsKept DEF FailPayment, Goto, TypeOK
<1>8. \A p \in Orders : TradeMatched(p)'
  BY <1>t, TradesKept DEF FailPayment, TypeOK, AnswerProves
<1> QED
  BY <1>1, <1>2, <1>3, <1>4, <1>5, <1>6, <1>7, <1>8 DEF IInv

(* The order write touches no attempt. *)
LEMMA FailOrderKeeps ==
  ASSUME IInv, NEW r \in Requests, FailOrder(r)
  PROVE  IInv'
<1>t. /\ TypeOK /\ RowsTypeOK
      /\ OneAtWorkPerKey /\ OneAttemptPerOrder
      /\ \A x \in Requests : KeyHeld(x) /\ RowsBooked(x) /\ AnswerProves(x) /\ ReplyProved(x)
      /\ \A j \in Keys : SnapshotProved(j)
      /\ \A p \in Orders : TradeMatched(p)
  BY DEF IInv, TypeOK
<1>1. TypeOK'
  BY <1>t, CreateAssumption
  DEF FailOrder, Goto, TypeOK, RowsTypeOK, RequestPc, ChannelAnswer, OrderStatus,
      PaymentStatus
<1>2. OneAtWorkPerKey' /\ (\A x \in Requests : KeyHeld(x)')
  BY <1>t, KeysKept DEF FailOrder, Goto, TypeOK, Working, RequestPc
<1>3. OneAttemptPerOrder'
  BY <1>t, AttemptsKept DEF FailOrder, Goto, TypeOK
<1>4. \A x \in Requests : RowsBooked(x)'
  BY <1>t DEF FailOrder, Goto, TypeOK, RowsBooked, Early
<1>5. \A x \in Requests : AnswerProves(x)'
  BY <1>t DEF FailOrder, Goto, TypeOK, AnswerProves
<1>6. \A x \in Requests : ReplyProved(x)'
  BY <1>t, RepliesKept DEF FailOrder, Goto, TypeOK
<1>7. \A j \in Keys : SnapshotProved(j)'
  BY <1>t, SnapshotsKept DEF FailOrder, Goto, TypeOK
<1>8. \A p \in Orders : TradeMatched(p)'
  BY <1>t, TradesKept DEF FailOrder, Goto, TypeOK
<1> QED
  BY <1>1, <1>2, <1>3, <1>4, <1>5, <1>6, <1>7, <1>8 DEF IInv

(* The promotion leaves an attempt that was settled alone. *)
LEMMA PromotePaymentKeeps ==
  ASSUME IInv, NEW r \in Requests, PromotePayment(r)
  PROVE  IInv'
<1>t. /\ TypeOK /\ RowsTypeOK
      /\ OneAtWorkPerKey /\ OneAttemptPerOrder
      /\ \A x \in Requests : KeyHeld(x) /\ RowsBooked(x) /\ AnswerProves(x) /\ ReplyProved(x)
      /\ \A j \in Keys : SnapshotProved(j)
      /\ \A p \in Orders : TradeMatched(p)
  BY DEF IInv, TypeOK
<1>1. TypeOK'
  BY <1>t, CreateAssumption
  DEF PromotePayment, Goto, InFlight, TypeOK, RowsTypeOK, RequestPc, ChannelAnswer,
      OrderStatus, PaymentStatus
<1>2. OneAtWorkPerKey' /\ (\A x \in Requests : KeyHeld(x)')
  BY <1>t, KeysKept DEF PromotePayment, Goto, InFlight, TypeOK, Working, RequestPc
<1>3. OneAttemptPerOrder'
  BY <1>t, AttemptsKept DEF PromotePayment, Goto, InFlight, TypeOK
<1>4. \A x \in Requests : RowsBooked(x)'
  BY <1>t DEF PromotePayment, Goto, InFlight, TypeOK, RowsBooked, Early
<1>5. \A x \in Requests : AnswerProves(x)'
  BY <1>t DEF PromotePayment, Goto, TypeOK, AnswerProves, Open, InFlight
<1>6. \A x \in Requests : ReplyProved(x)'
  BY <1>t, RepliesKept DEF PromotePayment, Goto, InFlight, TypeOK
<1>7. \A j \in Keys : SnapshotProved(j)'
  BY <1>t, SnapshotsKept DEF PromotePayment, Goto, InFlight, TypeOK
<1>8. \A p \in Orders : TradeMatched(p)'
  BY <1>t, TradesKept DEF PromotePayment, TypeOK, Open, InFlight
<1> QED
  BY <1>1, <1>2, <1>3, <1>4, <1>5, <1>6, <1>7, <1>8 DEF IInv

(* The order write touches no attempt. *)
LEMMA PromoteOrderKeeps ==
  ASSUME IInv, NEW r \in Requests, PromoteOrder(r)
  PROVE  IInv'
<1>t. /\ TypeOK /\ RowsTypeOK
      /\ OneAtWorkPerKey /\ OneAttemptPerOrder
      /\ \A x \in Requests : KeyHeld(x) /\ RowsBooked(x) /\ AnswerProves(x) /\ ReplyProved(x)
      /\ \A j \in Keys : SnapshotProved(j)
      /\ \A p \in Orders : TradeMatched(p)
  BY DEF IInv, TypeOK
<1>1. TypeOK'
  BY <1>t, CreateAssumption
  DEF PromoteOrder, Goto, TypeOK, RowsTypeOK, RequestPc, ChannelAnswer, OrderStatus,
      PaymentStatus
<1>2. OneAtWorkPerKey' /\ (\A x \in Requests : KeyHeld(x)')
  BY <1>t, KeysKept DEF PromoteOrder, Goto, TypeOK, Working, RequestPc
<1>3. OneAttemptPerOrder'
  BY <1>t, AttemptsKept DEF PromoteOrder, Goto, TypeOK
<1>4. \A x \in Requests : RowsBooked(x)'
  BY <1>t DEF PromoteOrder, Goto, TypeOK, RowsBooked, Early
<1>5. \A x \in Requests : AnswerProves(x)'
  BY <1>t DEF PromoteOrder, Goto, TypeOK, AnswerProves
<1>6. \A x \in Requests : ReplyProved(x)'
  BY <1>t, RepliesKept DEF PromoteOrder, Goto, TypeOK
<1>7. \A j \in Keys : SnapshotProved(j)'
  BY <1>t, SnapshotsKept DEF PromoteOrder, Goto, TypeOK
<1>8. \A p \in Orders : TradeMatched(p)'
  BY <1>t, TradesKept DEF PromoteOrder, Goto, TypeOK
<1> QED
  BY <1>1, <1>2, <1>3, <1>4, <1>5, <1>6, <1>7, <1>8 DEF IInv

(* The response is stored in the row of the request that built it. *)
LEMMA SaveSnapshotKeeps ==
  ASSUME IInv, NEW r \in Requests, SaveSnapshot(r)
  PROVE  IInv'
<1>t. /\ TypeOK /\ RowsTypeOK
      /\ OneAtWorkPerKey /\ OneAttemptPerOrder
      /\ \A x \in Requests : KeyHeld(x) /\ RowsBooked(x) /\ AnswerProves(x) /\ ReplyProved(x)
      /\ \A j \in Keys : SnapshotProved(j)
      /\ \A p \in Orders : TradeMatched(p)
  BY DEF IInv, TypeOK
<1>k. /\ rpc[r] \in Working /\ want[r].key \in Keys /\ want[r].order \in Orders
      /\ row[want[r].key].hash = want[r].order
      /\ Matches(want[r].key, requestHash(r))
  <2>1. rpc[r] \in Working /\ want[r].key \in Keys /\ want[r].order \in Orders
    BY <1>t DEF SaveSnapshot, RequestPc, Working, RowsBooked
  <2>2. row[want[r].key].hash = want[r].order
    BY <1>t, <2>1, HeldRow
  <2>3. row[want[r].key] # NoRow
    BY <2>1, <2>2, CreateAssumption DEF NoRow
  <2> QED
    BY <2>1, <2>2, <2>3 DEF Matches, requestHash
<1>1. TypeOK'
  <2>1. RowsTypeOK'
    BY <1>t, <1>k DEF SaveSnapshot, updateResult, RowsTypeOK, Row
  <2> QED
    BY <1>t, <2>1 DEF SaveSnapshot, Tell, Goto, tableVars, TypeOK, RequestPc
<1>2. OneAtWorkPerKey' /\ (\A x \in Requests : KeyHeld(x)')
  <2>1. want' = want /\ rpc' = [rpc EXCEPT ![r] = rpc'[r]]
    BY <1>t DEF SaveSnapshot, Goto, TypeOK
  <2>2. \A x \in Requests : x # r /\ rpc[x] \in Working => want[x].key # want[r].key /\ want[x].key \in Keys
    BY <1>t, <1>k DEF OneAtWorkPerKey, AtWork, RowsBooked, Working
  <2>3. \A k \in Keys : k # want[r].key => row'[k] = row[k]
    BY <1>t DEF SaveSnapshot, updateResult, TypeOK, RowsTypeOK
  <2>4. OneAtWorkPerKey'
    BY <1>t, <1>k, <2>1 DEF OneAtWorkPerKey, AtWork, TypeOK
  <2>5. ASSUME NEW x \in Requests PROVE KeyHeld(x)'
    <3>1. CASE x # r
      BY <1>t, <2>1, <2>2, <2>3, <3>1 DEF KeyHeld, requestHash, TypeOK
    <3>2. CASE x = r
      BY <1>t, <1>k, <3>2 DEF SaveSnapshot, Goto, KeyHeld, requestHash, TypeOK, Working
    <3> QED
      BY <3>1, <3>2
  <2> QED
    BY <2>4, <2>5
<1>3. OneAttemptPerOrder'
  BY <1>t, AttemptsKept DEF SaveSnapshot, Tell, Goto, updateResult, tableVars, TypeOK
<1>4. \A x \in Requests : RowsBooked(x)'
  BY <1>t DEF SaveSnapshot, Goto, tableVars, TypeOK, RowsBooked, Early
<1>5. \A x \in Requests : AnswerProves(x)'
  BY <1>t DEF SaveSnapshot, Tell, Goto, updateResult, tableVars, TypeOK, AnswerProves
<1>6. \A x \in Requests : ReplyProved(x)'
  BY <1>t, <1>k DEF SaveSnapshot, Tell, Goto, TypeOK, ReplyProved, AnswerProves
<1>7. \A j \in Keys : SnapshotProved(j)'
  <2>1. row' = [row EXCEPT ![want[r].key].snap = r]
    BY <1>k DEF SaveSnapshot, updateResult
  <2>2. ans[r] = "code" /\ UNCHANGED <<want, ans>>
    BY <1>t DEF SaveSnapshot, AnswerProves
  <2> QED
    BY <1>t, <1>k, <2>1, <2>2 DEF SnapshotProved, RowsTypeOK, Row
<1>8. \A p \in Orders : TradeMatched(p)'
  BY <1>t, TradesKept DEF SaveSnapshot, Tell, Goto, updateResult, tableVars, TypeOK
<1> QED
  BY <1>1, <1>2, <1>3, <1>4, <1>5, <1>6, <1>7, <1>8 DEF IInv

(* The row that is deleted is the one the request reserved. *)
LEMMA ReleaseKeyKeeps ==
  ASSUME IInv, NEW r \in Requests, ReleaseKey(r)
  PROVE  IInv'
<1>t. /\ TypeOK /\ RowsTypeOK
      /\ OneAtWorkPerKey /\ OneAttemptPerOrder
      /\ \A x \in Requests : KeyHeld(x) /\ RowsBooked(x) /\ AnswerProves(x) /\ ReplyProved(x)
      /\ \A j \in Keys : SnapshotProved(j)
      /\ \A p \in Orders : TradeMatched(p)
  BY DEF IInv, TypeOK
<1>k. /\ rpc[r] \in Working /\ want[r].key \in Keys /\ want[r].order \in Orders
      /\ row[want[r].key].hash = want[r].order
      /\ Matches(want[r].key, requestHash(r))
  <2>1. rpc[r] \in Working /\ want[r].key \in Keys /\ want[r].order \in Orders
    BY <1>t DEF ReleaseKey, RequestPc, Working, RowsBooked
  <2>2. row[want[r].key].hash = want[r].order
    BY <1>t, <2>1, HeldRow
  <2>3. row[want[r].key] # NoRow
    BY <2>1, <2>2, CreateAssumption DEF NoRow
  <2> QED
    BY <2>1, <2>2, <2>3 DEF Matches, requestHash
<1>1. TypeOK'
  <2>1. RowsTypeOK'
    BY <1>t, <1>k DEF ReleaseKey, clearReservation, RowsTypeOK, Row, NoRow
  <2> QED
    BY <1>t, <2>1 DEF ReleaseKey, Goto, tableVars, TypeOK, RequestPc
<1>2. OneAtWorkPerKey' /\ (\A x \in Requests : KeyHeld(x)')
  <2>1. want' = want /\ rpc' = [rpc EXCEPT ![r] = rpc'[r]]
    BY <1>t DEF ReleaseKey, Goto, TypeOK
  <2>2. \A x \in Requests : x # r /\ rpc[x] \in Working => want[x].key # want[r].key /\ want[x].key \in Keys
    BY <1>t, <1>k DEF OneAtWorkPerKey, AtWork, RowsBooked, Working
  <2>3. \A k \in Keys : k # want[r].key => row'[k] = row[k]
    BY <1>t DEF ReleaseKey, clearReservation, TypeOK, RowsTypeOK
  <2>4. OneAtWorkPerKey'
    BY <1>t, <1>k, <2>1 DEF OneAtWorkPerKey, AtWork, TypeOK
  <2>5. ASSUME NEW x \in Requests PROVE KeyHeld(x)'
    <3>1. CASE x # r
      BY <1>t, <2>1, <2>2, <2>3, <3>1 DEF KeyHeld, requestHash, TypeOK
    <3>2. CASE x = r
      BY <1>t, <1>k, <3>2 DEF ReleaseKey, Goto, KeyHeld, requestHash, TypeOK, Working
    <3> QED
      BY <3>1, <3>2
  <2> QED
    BY <2>4, <2>5
<1>3. OneAttemptPerOrder'
  BY <1>t, AttemptsKept DEF ReleaseKey, Goto, tableVars, TypeOK
<1>4. \A x \in Requests : RowsBooked(x)'
  BY <1>t DEF ReleaseKey, Goto, tableVars, TypeOK, RowsBooked, Early
<1>5. \A x \in Requests : AnswerProves(x)'
  BY <1>t DEF ReleaseKey, Goto, tableVars, TypeOK, AnswerProves
<1>6. \A x \in Requests : ReplyProved(x)'
  BY <1>t, RepliesKept DEF ReleaseKey, Goto, tableVars, TypeOK
<1>7. \A j \in Keys : SnapshotProved(j)'
  <2>1. \A k \in Keys : row'[k] = row[k] \/ row'[k].snap = "null"
    BY <1>t, <1>k DEF ReleaseKey, clearReservation, RowsTypeOK, NoRow
  <2> QED
    BY <1>t, <2>1 DEF ReleaseKey, SnapshotProved
<1>8. \A p \in Orders : TradeMatched(p)'
  BY <1>t, TradesKept DEF ReleaseKey, Goto, tableVars, TypeOK
<1> QED
  BY <1>1, <1>2, <1>3, <1>4, <1>5, <1>6, <1>7, <1>8 DEF IInv

(* A statement that fails leaves the rows and leads to the release or the answer. *)
LEMMA RequestFaultKeeps ==
  ASSUME IInv, NEW r \in Requests, RequestFault(r)
  PROVE  IInv'
<1>t. /\ TypeOK /\ RowsTypeOK
      /\ OneAtWorkPerKey /\ OneAttemptPerOrder
      /\ \A x \in Requests : KeyHeld(x) /\ RowsBooked(x) /\ AnswerProves(x) /\ ReplyProved(x)
      /\ \A j \in Keys : SnapshotProved(j)
      /\ \A p \in Orders : TradeMatched(p)
  BY DEF IInv, TypeOK
<1>1. TypeOK'
  <2>1. reply' \in [Requests -> [kind: {"none", "created", "replay", "error"}, of: Requests \cup {"none"}]]
    BY <1>t DEF RequestFault, FailThen, Tell, TypeOK
  <2>2. rpc' \in [Requests -> RequestPc] /\ faults' \in 0..MaxFaults
    BY <1>t, CreateAssumption DEF RequestFault, FailThen, Goto, TypeOK, RequestPc
  <2> QED
    BY <1>t, <2>1, <2>2 DEF RequestFault, tableVars, TypeOK, RowsTypeOK
<1>2. OneAtWorkPerKey' /\ (\A x \in Requests : KeyHeld(x)')
  BY <1>t, KeysKept DEF RequestFault, FailThen, Tell, Goto, tableVars, TypeOK, Working, RequestPc
<1>3. OneAttemptPerOrder'
  BY <1>t, AttemptsKept DEF RequestFault, FailThen, Tell, Goto, tableVars, TypeOK
<1>4. \A x \in Requests : RowsBooked(x)'
  BY <1>t DEF RequestFault, FailThen, Tell, Goto, tableVars, TypeOK, RowsBooked, Early
<1>5. \A x \in Requests : AnswerProves(x)'
  BY <1>t DEF RequestFault, FailThen, Tell, Goto, tableVars, TypeOK, AnswerProves
<1>6. \A x \in Requests : ReplyProved(x)'
  <2>1. CASE rpc[r] = "snapshot"
    BY <1>t, <2>1 DEF RequestFault, FailThen, Tell, Goto, TypeOK, ReplyProved, AnswerProves
  <2>2. CASE rpc[r] # "snapshot"
    BY <1>t, <2>2, RepliesKept DEF RequestFault, FailThen, Tell, Goto, TypeOK
  <2> QED
    BY <2>1, <2>2
<1>7. \A j \in Keys : SnapshotProved(j)'
  BY <1>t, SnapshotsKept DEF RequestFault, FailThen, Tell, Goto, tableVars, TypeOK
<1>8. \A p \in Orders : TradeMatched(p)'
  BY <1>t, TradesKept DEF RequestFault, FailThen, Tell, Goto, tableVars, TypeOK
<1> QED
  BY <1>1, <1>2, <1>3, <1>4, <1>5, <1>6, <1>7, <1>8 DEF IInv

----------------------------------------------------------------------------
(* Steps of the other actors *)

(* A QR attempt matches the trade it opens. *)
LEMMA QRAttemptKeeps ==
  ASSUME IInv, NEW o \in Orders, QRAttempt(o)
  PROVE  IInv'
<1>t. /\ TypeOK /\ RowsTypeOK
      /\ OneAtWorkPerKey /\ OneAttemptPerOrder
      /\ \A x \in Requests : KeyHeld(x) /\ RowsBooked(x) /\ AnswerProves(x) /\ ReplyProved(x)
      /\ \A j \in Keys : SnapshotProved(j)
      /\ \A p \in Orders : TradeMatched(p)
  BY DEF IInv, TypeOK
<1>1. TypeOK'
  BY <1>t, CreateAssumption
  DEF QRAttempt, requestVars, TypeOK, RowsTypeOK, RequestPc, ChannelAnswer, OrderStatus,
      PaymentStatus
<1>2. OneAtWorkPerKey' /\ (\A x \in Requests : KeyHeld(x)')
  BY <1>t, KeysKept DEF QRAttempt, requestVars, TypeOK, Working, RequestPc
<1>3. OneAttemptPerOrder'
  BY <1>t, AttemptsKept DEF QRAttempt, requestVars, TypeOK
<1>4. \A x \in Requests : RowsBooked(x)'
  BY <1>t DEF QRAttempt, requestVars, TypeOK, RowsBooked, Early
<1>5. \A x \in Requests : AnswerProves(x)'
  <2>1. /\ \A p \in Orders : trade[p] # "none" => trade'[p] # "none"
        /\ UNCHANGED <<requestVars, pay>>
    BY <1>t DEF QRAttempt, TypeOK
  <2>2. \A x \in Requests : ans[x] # "none" => want[x].order \in Orders
    BY <1>t DEF RowsBooked, Early
  <2> QED
    BY <1>t, <2>1, <2>2 DEF requestVars, AnswerProves
<1>6. \A x \in Requests : ReplyProved(x)'
  BY <1>t, RepliesKept DEF QRAttempt, requestVars, TypeOK
<1>7. \A j \in Keys : SnapshotProved(j)'
  BY <1>t, SnapshotsKept DEF QRAttempt, requestVars, TypeOK
<1>8. \A p \in Orders : TradeMatched(p)'
  <2>1. CASE qr'[o] = "FAIL"
    BY <1>t, <2>1 DEF QRAttempt, requestVars, TypeOK, TradeMatched, Booked, Open, InFlight
  <2>2. CASE qr'[o] # "FAIL"
    BY <1>t, <2>2 DEF QRAttempt, requestVars, TypeOK, TradeMatched, Booked, Open, InFlight
  <2> QED
    BY <2>1, <2>2
<1> QED
  BY <1>1, <1>2, <1>3, <1>4, <1>5, <1>6, <1>7, <1>8 DEF IInv

(* The trade that is paid was open, and is matched as before. *)
LEMMA PayerPaysKeeps ==
  ASSUME IInv, NEW o \in Orders, PayerPays(o)
  PROVE  IInv'
<1>t. /\ TypeOK /\ RowsTypeOK
      /\ OneAtWorkPerKey /\ OneAttemptPerOrder
      /\ \A x \in Requests : KeyHeld(x) /\ RowsBooked(x) /\ AnswerProves(x) /\ ReplyProved(x)
      /\ \A j \in Keys : SnapshotProved(j)
      /\ \A p \in Orders : TradeMatched(p)
  BY DEF IInv, TypeOK
<1>1. TypeOK'
  BY <1>t, CreateAssumption
  DEF PayerPays, requestVars, TypeOK, RowsTypeOK, RequestPc, ChannelAnswer, OrderStatus,
      PaymentStatus
<1>2. OneAtWorkPerKey' /\ (\A x \in Requests : KeyHeld(x)')
  BY <1>t, KeysKept DEF PayerPays, requestVars, TypeOK, Working, RequestPc
<1>3. OneAttemptPerOrder'
  BY <1>t, AttemptsKept DEF PayerPays, requestVars, TypeOK
<1>4. \A x \in Requests : RowsBooked(x)'
  BY <1>t DEF PayerPays, requestVars, TypeOK, RowsBooked, Early
<1>5. \A x \in Requests : AnswerProves(x)'
  BY <1>t DEF PayerPays, requestVars, TypeOK, AnswerProves
<1>6. \A x \in Requests : ReplyProved(x)'
  BY <1>t, RepliesKept DEF PayerPays, requestVars, TypeOK
<1>7. \A j \in Keys : SnapshotProved(j)'
  BY <1>t, SnapshotsKept DEF PayerPays, requestVars, TypeOK
<1>8. \A p \in Orders : TradeMatched(p)'
  BY <1>t DEF PayerPays, requestVars, TypeOK, TradeMatched, Booked
<1> QED
  BY <1>1, <1>2, <1>3, <1>4, <1>5, <1>6, <1>7, <1>8 DEF IInv

(* The attempt a notification settles is the one whose call opened the trade. *)
LEMMA NotificationSettlesKeeps ==
  ASSUME IInv, NEW o \in Orders, NotificationSettles(o)
  PROVE  IInv'
<1>t. /\ TypeOK /\ RowsTypeOK
      /\ OneAtWorkPerKey /\ OneAttemptPerOrder
      /\ \A x \in Requests : KeyHeld(x) /\ RowsBooked(x) /\ AnswerProves(x) /\ ReplyProved(x)
      /\ \A j \in Keys : SnapshotProved(j)
      /\ \A p \in Orders : TradeMatched(p)
  BY DEF IInv, TypeOK
<1>1. TypeOK'
  BY <1>t, CreateAssumption
  DEF NotificationSettles, requestVars, Booked, InFlight, TypeOK, RowsTypeOK, RequestPc,
      ChannelAnswer, OrderStatus, PaymentStatus
<1>2. OneAtWorkPerKey' /\ (\A x \in Requests : KeyHeld(x)')
  BY <1>t, KeysKept
  DEF NotificationSettles, requestVars, Booked, InFlight, TypeOK, Working, RequestPc
<1>3. OneAttemptPerOrder'
  BY <1>t, AttemptsKept DEF NotificationSettles, requestVars, Booked, InFlight, TypeOK
<1>4. \A x \in Requests : RowsBooked(x)'
  BY <1>t DEF NotificationSettles, requestVars, Booked, TypeOK, RowsBooked, Early
<1>5. \A x \in Requests : AnswerProves(x)'
  <2>1. \A x \in Requests : pay'[x] # pay[x] =>
          pay'[x] = "SUCCESS" /\ pay[x] \in InFlight /\ ans[x] \notin {"none", "refused"}
    <3>1. CASE pay' = pay
      BY <3>1
    <3>2. CASE pay' # pay
      <4>1. PICK y \in Booked(o) : pay[y] \in InFlight /\ pay' = [pay EXCEPT ![y] = "SUCCESS"]
        BY <3>2 DEF NotificationSettles
      <4>2. qr[o] \notin Open /\ trade[o] # "none"
        BY <3>2 DEF NotificationSettles, Open, InFlight
      <4>3. PICK z \in Booked(o) : pay[z] \in Open /\ ans[z] \notin {"none", "refused"}
        BY <1>t, <4>2 DEF TradeMatched
      <4>4. y = z
        BY <1>t DEF Booked, OneAttemptPerOrder
      <4> QED
        BY <1>t, <4>1, <4>3, <4>4 DEF TypeOK
    <3> QED
      BY <3>1, <3>2
  <2> QED
    BY <1>t, <2>1 DEF NotificationSettles, requestVars, TypeOK, AnswerProves, Open, InFlight
<1>6. \A x \in Requests : ReplyProved(x)'
  BY <1>t, RepliesKept DEF NotificationSettles, requestVars, Booked, InFlight, TypeOK
<1>7. \A j \in Keys : SnapshotProved(j)'
  BY <1>t, SnapshotsKept DEF NotificationSettles, requestVars, Booked, InFlight, TypeOK
<1>8. \A p \in Orders : TradeMatched(p)'
  BY <1>t, TradesKept DEF NotificationSettles, requestVars, TypeOK, Open, InFlight
<1> QED
  BY <1>1, <1>2, <1>3, <1>4, <1>5, <1>6, <1>7, <1>8 DEF IInv

(* A row expires only when nobody works under its key. *)
LEMMA RowExpiresKeeps ==
  ASSUME IInv, NEW k \in Keys, RowExpires(k)
  PROVE  IInv'
<1>t. /\ TypeOK /\ RowsTypeOK
      /\ OneAtWorkPerKey /\ OneAttemptPerOrder
      /\ \A x \in Requests : KeyHeld(x) /\ RowsBooked(x) /\ AnswerProves(x) /\ ReplyProved(x)
      /\ \A j \in Keys : SnapshotProved(j)
      /\ \A p \in Orders : TradeMatched(p)
  BY DEF IInv, TypeOK
<1>1. TypeOK'
  <2>1. RowsTypeOK'
    BY <1>t DEF RowExpires, Expire, RowsTypeOK, Row
  <2> QED
    BY <1>t, <2>1 DEF RowExpires, requestVars, tableVars, TypeOK
<1>2. OneAtWorkPerKey' /\ (\A x \in Requests : KeyHeld(x)')
  <2>0. ASSUME NEW x \in Requests, rpc[x] \in Working
        PROVE  want[x].key \in Keys /\ row[want[x].key].old = FALSE
    BY <1>t, <2>0, HeldRow DEF RowsBooked, Working
  <2>1. \A x \in Requests : rpc[x] \in Working => row'[want[x].key] = row[want[x].key]
    BY <1>t, <2>0 DEF RowExpires, Expire, RowsTypeOK, Working
  <2>2. OneAtWorkPerKey'
    BY <1>t DEF RowExpires, requestVars, OneAtWorkPerKey, AtWork
  <2>3. \A x \in Requests : KeyHeld(x)'
    BY <1>t, <2>1 DEF RowExpires, requestVars, KeyHeld, requestHash
  <2> QED
    BY <2>2, <2>3
<1>3. OneAttemptPerOrder'
  BY <1>t, AttemptsKept DEF RowExpires, requestVars, tableVars, TypeOK
<1>4. \A x \in Requests : RowsBooked(x)'
  BY <1>t DEF RowExpires, requestVars, tableVars, TypeOK, RowsBooked, Early
<1>5. \A x \in Requests : AnswerProves(x)'
  BY <1>t DEF RowExpires, requestVars, tableVars, TypeOK, AnswerProves
<1>6. \A x \in Requests : ReplyProved(x)'
  BY <1>t, RepliesKept DEF RowExpires, requestVars, tableVars, TypeOK
<1>7. \A j \in Keys : SnapshotProved(j)'
  <2>1. \A j \in Keys : row'[j].snap = row[j].snap /\ row'[j].hash = row[j].hash
    BY <1>t DEF RowExpires, Expire, RowsTypeOK, Row
  <2> QED
    BY <1>t, <2>1 DEF RowExpires, requestVars, SnapshotProved
<1>8. \A p \in Orders : TradeMatched(p)'
  BY <1>t, TradesKept DEF RowExpires, requestVars, tableVars, TypeOK
<1> QED
  BY <1>1, <1>2, <1>3, <1>4, <1>5, <1>6, <1>7, <1>8 DEF IInv

(* A row that is purged is past its lifetime, so nobody works under it. *)
LEMMA PurgeRowKeeps ==
  ASSUME IInv, NEW k \in Keys, PurgeRow(k)
  PROVE  IInv'
<1>t. /\ TypeOK /\ RowsTypeOK
      /\ OneAtWorkPerKey /\ OneAttemptPerOrder
      /\ \A x \in Requests : KeyHeld(x) /\ RowsBooked(x) /\ AnswerProves(x) /\ ReplyProved(x)
      /\ \A j \in Keys : SnapshotProved(j)
      /\ \A p \in Orders : TradeMatched(p)
  BY DEF IInv, TypeOK
<1>1. TypeOK'
  <2>1. RowsTypeOK'
    BY <1>t DEF PurgeRow, purgeExpired, RowsTypeOK, Row, NoRow
  <2> QED
    BY <1>t, <2>1 DEF PurgeRow, requestVars, tableVars, TypeOK
<1>2. OneAtWorkPerKey' /\ (\A x \in Requests : KeyHeld(x)')
  <2>0. ASSUME NEW x \in Requests, rpc[x] \in Working
        PROVE  want[x].key \in Keys /\ row[want[x].key].old = FALSE
    BY <1>t, <2>0, HeldRow DEF RowsBooked, Working
  <2>1. \A x \in Requests : rpc[x] \in Working => row'[want[x].key] = row[want[x].key]
    BY <1>t, <2>0 DEF PurgeRow, purgeExpired, RowsTypeOK, Working
  <2>2. OneAtWorkPerKey'
    BY <1>t DEF PurgeRow, requestVars, OneAtWorkPerKey, AtWork
  <2>3. \A x \in Requests : KeyHeld(x)'
    BY <1>t, <2>1 DEF PurgeRow, requestVars, KeyHeld, requestHash
  <2> QED
    BY <2>2, <2>3
<1>3. OneAttemptPerOrder'
  BY <1>t, AttemptsKept DEF PurgeRow, requestVars, tableVars, TypeOK
<1>4. \A x \in Requests : RowsBooked(x)'
  BY <1>t DEF PurgeRow, requestVars, tableVars, TypeOK, RowsBooked, Early
<1>5. \A x \in Requests : AnswerProves(x)'
  BY <1>t DEF PurgeRow, requestVars, tableVars, TypeOK, AnswerProves
<1>6. \A x \in Requests : ReplyProved(x)'
  BY <1>t, RepliesKept DEF PurgeRow, requestVars, tableVars, TypeOK
<1>7. \A j \in Keys : SnapshotProved(j)'
  <2>1. \A j \in Keys : row'[j] = row[j] \/ row'[j].snap = "null"
    BY <1>t DEF PurgeRow, purgeExpired, RowsTypeOK, NoRow
  <2> QED
    BY <1>t, <2>1 DEF PurgeRow, requestVars, SnapshotProved
<1>8. \A p \in Orders : TradeMatched(p)'
  BY <1>t, TradesKept DEF PurgeRow, requestVars, tableVars, TypeOK
<1> QED
  BY <1>1, <1>2, <1>3, <1>4, <1>5, <1>6, <1>7, <1>8 DEF IInv

(* A restart forgets requests and keeps their rows. *)
LEMMA RestartKeeps ==
  ASSUME IInv, Restart
  PROVE  IInv'
<1>t. /\ TypeOK /\ RowsTypeOK
      /\ OneAtWorkPerKey /\ OneAttemptPerOrder
      /\ \A x \in Requests : KeyHeld(x) /\ RowsBooked(x) /\ AnswerProves(x) /\ ReplyProved(x)
      /\ \A j \in Keys : SnapshotProved(j)
      /\ \A p \in Orders : TradeMatched(p)
  BY DEF IInv, TypeOK
<1>1. TypeOK'
  BY <1>t, CreateAssumption
  DEF Restart, NoReply, tableVars, TypeOK, RowsTypeOK, RequestPc, ChannelAnswer
<1>2. OneAtWorkPerKey' /\ (\A x \in Requests : KeyHeld(x)')
  BY <1>t, KeysKept DEF Restart, tableVars, TypeOK, Working, RequestPc
<1>3. OneAttemptPerOrder'
  BY <1>t, AttemptsKept DEF Restart, tableVars, TypeOK
<1>4. \A x \in Requests : RowsBooked(x)'
  BY <1>t DEF Restart, tableVars, TypeOK, RowsBooked, Early
<1>5. \A x \in Requests : AnswerProves(x)'
  BY <1>t DEF Restart, tableVars, TypeOK, AnswerProves
<1>6. \A x \in Requests : ReplyProved(x)'
  BY <1>t, RepliesKept DEF Restart, NoReply, TypeOK
<1>7. \A j \in Keys : SnapshotProved(j)'
  BY <1>t, SnapshotsKept DEF Restart, tableVars, TypeOK
<1>8. \A p \in Orders : TradeMatched(p)'
  BY <1>t, TradesKept DEF Restart, tableVars, TypeOK
<1> QED
  BY <1>1, <1>2, <1>3, <1>4, <1>5, <1>6, <1>7, <1>8 DEF IInv

(* Nothing changes. *)
LEMMA StutterKeeps ==
  ASSUME IInv, UNCHANGED vars
  PROVE  IInv'
<1>t. /\ TypeOK /\ RowsTypeOK
      /\ OneAtWorkPerKey /\ OneAttemptPerOrder
      /\ \A x \in Requests : KeyHeld(x) /\ RowsBooked(x) /\ AnswerProves(x) /\ ReplyProved(x)
      /\ \A j \in Keys : SnapshotProved(j)
      /\ \A p \in Orders : TradeMatched(p)
  BY DEF IInv, TypeOK
<1>1. TypeOK'
  BY <1>t DEF vars, requestVars, tableVars, TypeOK, RowsTypeOK
<1>2. OneAtWorkPerKey' /\ (\A x \in Requests : KeyHeld(x)')
  BY <1>t, KeysKept DEF vars, requestVars, tableVars, TypeOK, Working, RequestPc
<1>3. OneAttemptPerOrder'
  BY <1>t, AttemptsKept DEF vars, requestVars, tableVars, TypeOK
<1>4. \A x \in Requests : RowsBooked(x)'
  BY <1>t DEF vars, requestVars, tableVars, TypeOK, RowsBooked, Early
<1>5. \A x \in Requests : AnswerProves(x)'
  BY <1>t DEF vars, requestVars, tableVars, TypeOK, AnswerProves
<1>6. \A x \in Requests : ReplyProved(x)'
  BY <1>t, RepliesKept DEF vars, requestVars, tableVars, TypeOK
<1>7. \A j \in Keys : SnapshotProved(j)'
  BY <1>t, SnapshotsKept DEF vars, requestVars, tableVars, TypeOK
<1>8. \A p \in Orders : TradeMatched(p)'
  BY <1>t, TradesKept DEF vars, requestVars, tableVars, TypeOK
<1> QED
  BY <1>1, <1>2, <1>3, <1>4, <1>5, <1>6, <1>7, <1>8 DEF IInv

----------------------------------------------------------------------------
(* The inductive invariant holds in every behaviour. *)
THEOREM AnswersProveBookings == Spec => []IInv
<1>1. Init => IInv
  BY InitIInv
<1>2. ASSUME IInv, [Next]_vars
      PROVE  IInv'
  <2>1. ASSUME NEW r \in Requests, RequestStep(r) PROVE IInv'
    BY <1>2, <2>1, checkDatabaseKeeps, ApplyCheckKeeps, ValidateKeeps, InsertRowsKeeps,
       callChannelKeeps, paymentCallbackKeeps, FailPaymentKeeps, FailOrderKeeps,
       PromotePaymentKeeps, PromoteOrderKeeps, SaveSnapshotKeeps, ReleaseKeyKeeps
    DEF RequestStep
  <2>2. ASSUME NEW r \in Requests,
               \/ \E k \in Keys, o \in Orders : createPayment(r, k, o)
               \/ RequestFault(r)
               \/ CommitAnswerLost(r)
        PROVE  IInv'
    BY <1>2, <2>2, createPaymentKeeps, RequestFaultKeeps, CommitAnswerLostKeeps
  <2>3. ASSUME NEW o \in Orders, QRAttempt(o) \/ PayerPays(o) \/ NotificationSettles(o)
        PROVE  IInv'
    BY <1>2, <2>3, QRAttemptKeeps, PayerPaysKeeps, NotificationSettlesKeeps
  <2>4. ASSUME NEW k \in Keys, RowExpires(k) \/ PurgeRow(k) PROVE IInv'
    BY <1>2, <2>4, RowExpiresKeeps, PurgeRowKeeps
  <2>5. CASE Restart
    BY <1>2, <2>5, RestartKeeps
  <2>6. CASE UNCHANGED vars
    BY <1>2, <2>6, StutterKeeps
  <2> QED
    BY <1>2, <2>1, <2>2, <2>3, <2>4, <2>5, <2>6 DEF Next
<1> QED
  BY <1>1, <1>2, PTL DEF Spec

(* Type correctness. *)
THEOREM CreateTypes == Spec => []TypeOK
<1>1. IInv => TypeOK
  BY DEF IInv
<1> QED
  BY <1>1, AnswersProveBookings, PTL

(* A client key admits one request at a time, although neither updateResult
   nor clearReservation names the request that reserved it. *)
THEOREM KeyHasOneRequest == Spec => []OneAtWorkPerKey
<1>1. IInv => OneAtWorkPerKey
  BY DEF IInv
<1> QED
  BY <1>1, AnswersProveBookings, PTL

(* The channel is asked once for an order by createPayment, whatever is
   repeated, lost, restarted, expired or purged. *)
THEOREM OrderIsOfferedOnce == Spec => []OneOfferPerOrder
<1>1. IInv => OneOfferPerOrder
  BY DEF IInv, TypeOK, OneOfferPerOrder, RowsBooked, OneAttemptPerOrder
<1> QED
  BY <1>1, AnswersProveBookings, PTL

(* Whoever is told of a created payment, at once or by a replay, has a trade
   at the channel and an attempt a notification can settle. *)
THEOREM CreatedPaymentsArePayable == Spec => []CreatedIsPayable
<1>1. IInv => CreatedIsPayable
  <2> SUFFICES ASSUME IInv, NEW r \in Requests, reply[r].kind \in {"created", "replay"}
               PROVE  /\ trade[want[r].order] # "none"
                      /\ pay[reply[r].of] \in Open
    BY DEF CreatedIsPayable, Open
  <2>1. /\ reply[r].of \in Requests
        /\ ans[reply[r].of] = "code"
        /\ want[reply[r].of].order = want[r].order
    BY DEF IInv, ReplyProved
  <2> QED
    BY <2>1 DEF IInv, AnswerProves
<1> QED
  BY <1>1, AnswersProveBookings, PTL

(* Whatever the payer can pay has an open or settled attempt: neither a lost
   answer nor a refusal of one call closes the attempt of an open trade. *)
THEOREM OpenTradesAreMatched == Spec => []OpenTradeHasOpenAttempt
<1>1. IInv => OpenTradeHasOpenAttempt
  BY DEF IInv, OpenTradeHasOpenAttempt, TradeMatched, Open
<1> QED
  BY <1>1, AnswersProveBookings, PTL

(* A settled attempt is final: neither the promotion nor the refusal of the
   call that booked it takes it back. *)
THEOREM SettledAttemptsAreFinal == Spec => SettledAttemptIsFinal
<1>1. ASSUME IInv, [Next]_vars
      PROVE  [\A r \in Requests : pay[r] = "SUCCESS" => pay'[r] = "SUCCESS"]_vars
  <2> SUFFICES ASSUME NEW r \in Requests, pay[r] = "SUCCESS", Next PROVE pay'[r] = "SUCCESS"
    BY <1>1
  <2>0. /\ pay \in [Requests -> PaymentStatus \cup {"none"}]
        /\ \A x \in Requests : AnswerProves(x) /\ RowsBooked(x)
    BY <1>1 DEF IInv, TypeOK
  <2>1. ASSUME NEW x \in Requests, RequestStep(x) PROVE pay'[r] = "SUCCESS"
    <3>1. CASE checkDatabase(x) \/ ApplyCheck(x) \/ Validate(x) \/ callChannel(x) \/ paymentCallback(x)
               \/ FailOrder(x) \/ PromoteOrder(x) \/ SaveSnapshot(x) \/ ReleaseKey(x)
      BY <3>1 DEF checkDatabase, ApplyCheck, Validate, callChannel, paymentCallback, FailOrder,
                  PromoteOrder, SaveSnapshot, ReleaseKey, tableVars
    <3>2. CASE InsertRows(x)
      BY <2>0, <3>2 DEF InsertRows, RowsBooked, Early
    <3>3. CASE FailPayment(x)
      BY <2>0, <3>3 DEF FailPayment, AnswerProves
    <3>4. CASE PromotePayment(x)
      BY <2>0, <3>4 DEF PromotePayment, InFlight
    <3> QED
      BY <2>1, <3>1, <3>2, <3>3, <3>4 DEF RequestStep
  <2>2. ASSUME NEW x \in Requests, CommitAnswerLost(x) PROVE pay'[r] = "SUCCESS"
    BY <2>0, <2>2 DEF CommitAnswerLost, RowsBooked, Early
  <2>3. ASSUME NEW o \in Orders, NotificationSettles(o) PROVE pay'[r] = "SUCCESS"
    BY <2>0, <2>3 DEF NotificationSettles, Booked
  <2>4. ASSUME \/ \E x \in Requests :
                    \/ \E k \in Keys, o \in Orders : createPayment(x, k, o)
                    \/ RequestFault(x)
               \/ \E o \in Orders : QRAttempt(o) \/ PayerPays(o)
               \/ \E k \in Keys : RowExpires(k) \/ PurgeRow(k)
               \/ Restart
        PROVE  pay'[r] = "SUCCESS"
    BY <2>4
    DEF createPayment, RequestFault, QRAttempt, PayerPays, RowExpires, PurgeRow, Restart,
        tableVars
  <2> QED
    BY <2>1, <2>2, <2>3, <2>4 DEF Next
<1> QED
  BY <1>1, AnswersProveBookings, PTL DEF Spec, SettledAttemptIsFinal

----------------------------------------------------------------------------
(* The promise of the key *)

(* A request holds its key alone. *)
LEMMA ServesAlone ==
  ASSUME IInv, NEW r \in Requests, rpc[r] \in Working
  PROVE  want[r].key \in Keys /\ AtWork(want[r].key) = {r}
<1>1. want[r].key \in Keys
  BY DEF IInv, RowsBooked, Working
<1> QED BY <1>1 DEF IInv, OneAtWorkPerKey, AtWork

(* No row changes, and requests leave: at most, a key loses its request. *)
LEMMA LeavesKey ==
  ASSUME row' = row, \A k \in Keys : AtWork(k)' \in {{}, AtWork(k)}
  PROVE  Key!Next
<1> DEFINE gone == {k \in Keys : AtWork(k)' = {}}
<1>1. [k \in Keys |-> AtWork(k)]' = [k \in Keys |-> IF k \in gone THEN {} ELSE [j \in Keys |-> AtWork(j)][k]]
  OBVIOUS
<1>2. Key!Leave(gone)
  BY <1>1 DEF Key!Leave
<1> HIDE DEF gone
<1>3. gone \in SUBSET Keys
  BY DEF gone
<1> QED BY <1>2, <1>3 DEF Key!Next

(* A statement that leaves the rows alone and lets nobody start to work. *)
LEMMA NobodyStarts ==
  ASSUME IInv, row' = row, NEW r \in Requests,
         \A x \in Requests \ {r} : rpc'[x] = rpc[x] /\ want'[x] = want[x],
         rpc'[r] \in Working => rpc[r] \in Working /\ want'[r] = want[r]
  PROVE  Key!Next
<1>1. \A k \in Keys : AtWork(k)' \in {{}, AtWork(k)}
  <2> SUFFICES ASSUME NEW k \in Keys PROVE AtWork(k)' \in {{}, AtWork(k)}
    OBVIOUS
  <2>1. CASE rpc[r] \in Working /\ want[r].key = k
    <3>1. AtWork(k) = {r}
      BY <2>1, ServesAlone
    <3> QED BY <3>1 DEF AtWork
  <2>2. CASE ~(rpc[r] \in Working /\ want[r].key = k)
    BY <2>2 DEF AtWork
  <2> QED BY <2>1, <2>2
<1> QED BY <1>1, LeavesKey

(* Reserving a free key takes it. *)
LEMMA ReservingTakes ==
  ASSUME IInv, NEW r \in Requests, checkDatabase(r), CanReserve(want[r].key)
  PROVE  Key!Next
<1> DEFINE k == want[r].key
           n == [hash |-> requestHash(r), snap |-> "null", old |-> FALSE]
<1>0. /\ rpc[r] = "reserve" /\ k \in Keys /\ row[k] = NoRow /\ row \in [Keys -> Row]
      /\ row' = [row EXCEPT ![k] = n] /\ want' = want
      /\ rpc' = [rpc EXCEPT ![r] = "validate"] /\ rpc \in [Requests -> RequestPc]
      /\ requestHash(r) \in Hashes
  BY CreateAssumption
  DEF checkDatabase, CanReserve, Reserve, Goto, IInv, TypeOK, RowsTypeOK, RowsBooked,
      requestHash
<1>1. n # NoRow /\ n.snap = "null" /\ NoRow.snap = "null"
  <2>1. n.hash # NoRow.hash
    BY <1>0, CreateAssumption DEF NoRow
  <2> QED BY <2>1 DEF NoRow
<1> HIDE DEF n
<1>2. AtWork(k) = {}
  <2> SUFFICES ASSUME NEW x \in Requests, rpc[x] \in Working, want[x].key = k PROVE FALSE
    BY DEF AtWork
  <2>1. row[k].hash = want[x].order /\ want[x].order \in Hashes
    BY HeldRow, CreateAssumption DEF IInv, RowsBooked, Working
  <2> QED BY <1>0, <2>1, CreateAssumption DEF NoRow
<1>3. /\ AtWork(k)' = {r}
      /\ \A j \in Keys \ {k} : AtWork(j)' = AtWork(j)
  <2>1. "validate" \in Working /\ "reserve" \notin Working
    BY DEF Working, RequestPc
  <2> QED BY <1>0, <1>2, <2>1 DEF AtWork
<1>4. [j \in Keys |-> row[j] # NoRow]' = [[j \in Keys |-> row[j] # NoRow] EXCEPT ![k] = TRUE]
  BY <1>0, <1>1
<1>5. [j \in Keys |-> AtWork(j)]' = [[j \in Keys |-> AtWork(j)] EXCEPT ![k] = {r}]
  BY <1>0, <1>3
<1>6. [j \in Keys |-> row[j].snap]' = [j \in Keys |-> row[j].snap]
  BY <1>0, <1>1
<1>7. Key!Take(k, r)
  BY <1>0, <1>4, <1>5, <1>6 DEF Key!Take
<1> QED BY <1>0, <1>7 DEF Key!Next

(* Storing the response gives it. *)
LEMMA SavingGives ==
  ASSUME IInv, NEW r \in Requests, SaveSnapshot(r)
  PROVE  Key!Next
<1> DEFINE k == want[r].key
           n == [row[k] EXCEPT !.snap = r]
<1>0. rpc[r] = "snapshot" /\ rpc[r] \in Working /\ row \in [Keys -> Row] /\ want' = want
      /\ rpc \in [Requests -> RequestPc] /\ KeyHeld(r)
  BY DEF SaveSnapshot, Working, RequestPc, IInv, TypeOK, RowsTypeOK
<1>1. k \in Keys /\ AtWork(k) = {r}
  BY <1>0, ServesAlone
<1>2. row[k].hash = want[r].order /\ row[k].snap = "null" /\ want[r].order \in Hashes /\ row[k] # NoRow
  <2>1. row[k].hash = want[r].order /\ row[k].snap = "null" /\ want[r].order \in Hashes
    BY <1>0, HeldRow, CreateAssumption DEF IInv, RowsBooked
  <2>2. NoRow.hash \notin Hashes
    BY CreateAssumption DEF NoRow
  <2> QED BY <2>1, <2>2
<1>3. Matches(k, requestHash(r))
  BY <1>2 DEF Matches, requestHash
<1>4. row' = [row EXCEPT ![k] = n] /\ rpc' = [rpc EXCEPT ![r] = "answered"]
  BY <1>3 DEF SaveSnapshot, updateResult, Goto
<1>5. n.snap = r /\ n # NoRow
  <2>1. row[k] \in Row /\ n.hash = row[k].hash /\ n.snap = r
    BY <1>0, <1>1 DEF Row
  <2> QED BY <1>2, <2>1, CreateAssumption DEF NoRow
<1> HIDE DEF n
<1>6. AtWork(k)' = {} /\ \A j \in Keys \ {k} : AtWork(j)' = AtWork(j)
  <2>1. "answered" \notin Working
    BY DEF Working
  <2> QED BY <1>0, <1>1, <1>4, <2>1 DEF AtWork
<1>7. [j \in Keys |-> row[j] # NoRow]' = [j \in Keys |-> row[j] # NoRow]
  BY <1>0, <1>1, <1>2, <1>4, <1>5
<1>8. [j \in Keys |-> AtWork(j)]' = [[j \in Keys |-> AtWork(j)] EXCEPT ![k] = {}]
  BY <1>0, <1>1, <1>6
<1>9. [j \in Keys |-> row[j].snap]' = [[j \in Keys |-> row[j].snap] EXCEPT ![k] = r]
  BY <1>0, <1>1, <1>4, <1>5
<1>10. Key!Give(k, r, r)
  BY <1>1, <1>2, <1>7, <1>8, <1>9 DEF Key!Give
<1> QED BY <1>1, <1>10 DEF Key!Next

(* Clearing the reservation releases the key. *)
LEMMA ClearingReleases ==
  ASSUME IInv, NEW r \in Requests, ReleaseKey(r)
  PROVE  Key!Next
<1> DEFINE k == want[r].key
<1>0. rpc[r] = "clear" /\ rpc[r] \in Working /\ row \in [Keys -> Row] /\ want' = want
      /\ rpc \in [Requests -> RequestPc] /\ KeyHeld(r)
  BY DEF ReleaseKey, Working, RequestPc, IInv, TypeOK, RowsTypeOK
<1>1. k \in Keys /\ AtWork(k) = {r}
  BY <1>0, ServesAlone
<1>2. row[k].hash = want[r].order /\ row[k].snap = "null" /\ want[r].order \in Hashes /\ row[k] # NoRow
  <2>1. row[k].hash = want[r].order /\ row[k].snap = "null" /\ want[r].order \in Hashes
    BY <1>0, HeldRow, CreateAssumption DEF IInv, RowsBooked
  <2>2. NoRow.hash \notin Hashes
    BY CreateAssumption DEF NoRow
  <2> QED BY <2>1, <2>2
<1>3. Matches(k, requestHash(r))
  BY <1>2 DEF Matches, requestHash
<1>4. row' = [row EXCEPT ![k] = NoRow] /\ rpc' = [rpc EXCEPT ![r] = "answered"]
  BY <1>2, <1>3 DEF ReleaseKey, clearReservation, Goto
<1>5. NoRow.snap = "null"
  BY DEF NoRow
<1>6. AtWork(k)' = {} /\ \A j \in Keys \ {k} : AtWork(j)' = AtWork(j)
  <2>1. "answered" \notin Working
    BY DEF Working
  <2> QED BY <1>0, <1>1, <1>4, <2>1 DEF AtWork
<1>7. [j \in Keys |-> row[j] # NoRow]' = [[j \in Keys |-> row[j] # NoRow] EXCEPT ![k] = FALSE]
  BY <1>0, <1>1, <1>4
<1>8. [j \in Keys |-> AtWork(j)]' = [[j \in Keys |-> AtWork(j)] EXCEPT ![k] = {}]
  BY <1>0, <1>1, <1>6
<1>9. [j \in Keys |-> row[j].snap]' = [j \in Keys |-> row[j].snap]
  BY <1>0, <1>1, <1>2, <1>4, <1>5
<1>10. Key!Release(k, r)
  BY <1>1, <1>2, <1>7, <1>8, <1>9 DEF Key!Release
<1> QED BY <1>1, <1>10 DEF Key!Next

(* A row is purged when nobody works under its key. *)
LEMMA PurgingLapses ==
  ASSUME IInv, NEW k \in Keys, PurgeRow(k)
  PROVE  Key!Next
<1>0. /\ row[k] # NoRow /\ row[k].old /\ row' = [row EXCEPT ![k] = NoRow]
      /\ row \in [Keys -> Row] /\ rpc' = rpc /\ want' = want
  BY DEF PurgeRow, purgeExpired, requestVars, IInv, TypeOK, RowsTypeOK
<1>1. AtWork(k) = {}
  BY <1>0, HeldRow DEF AtWork, IInv
<1>2. [j \in Keys |-> row[j] # NoRow]' = [[j \in Keys |-> row[j] # NoRow] EXCEPT ![k] = FALSE]
  BY <1>0
<1>3. [j \in Keys |-> AtWork(j)]' = [j \in Keys |-> AtWork(j)]
  BY <1>0 DEF AtWork
<1>4. [j \in Keys |-> row[j].snap]' = [[j \in Keys |-> row[j].snap] EXCEPT ![k] = "null"]
  BY <1>0 DEF NoRow
<1>5. Key!Lapse(k)
  BY <1>0, <1>1, <1>2, <1>3, <1>4 DEF Key!Lapse
<1> QED BY <1>5 DEF Key!Next

(* A row past its lifetime is still the row it was. *)
LEMMA ExpiryIsSilent ==
  ASSUME IInv, NEW k \in Keys, RowExpires(k)
  PROVE  UNCHANGED Key!vars
<1> DEFINE n == [row[k] EXCEPT !.old = TRUE]
<1>0. /\ row[k] # NoRow /\ row' = [row EXCEPT ![k] = n]
      /\ row \in [Keys -> Row] /\ rpc' = rpc /\ want' = want
  BY DEF RowExpires, Expire, requestVars, IInv, TypeOK, RowsTypeOK
<1>1. n # NoRow /\ n.snap = row[k].snap
  <2>1. row[k] \in Row /\ n.old /\ ~NoRow.old /\ n.snap = row[k].snap
    BY <1>0 DEF Row, NoRow
  <2> QED BY <2>1
<1> HIDE DEF n
<1>2. [j \in Keys |-> row[j] # NoRow]' = [j \in Keys |-> row[j] # NoRow]
  BY <1>0, <1>1
<1>3. [j \in Keys |-> AtWork(j)]' = [j \in Keys |-> AtWork(j)]
  BY <1>0 DEF AtWork
<1>4. [j \in Keys |-> row[j].snap]' = [j \in Keys |-> row[j].snap]
  BY <1>0, <1>1
<1> QED BY <1>2, <1>3, <1>4 DEF Key!vars

(* Every step is a step of the key, or none. *)
LEMMA NextKey ==
  ASSUME IInv, [Next]_vars
  PROVE  [Key!Next]_(Key!vars)
<1>t. /\ rpc \in [Requests -> RequestPc] /\ want \in [Requests -> [key: Keys \cup {"none"}, order: Orders \cup {"none"}]]
      /\ Working = {"validate", "insert", "call", "answer", "failPayment", "failOrder",
                    "promotePayment", "promoteOrder", "snapshot", "clear"}
  BY DEF IInv, TypeOK, Working, RequestPc
<1>1. ASSUME NEW r \in Requests, NEW k \in Keys, NEW o \in Orders, createPayment(r, k, o)
      PROVE  Key!Next
  BY <1>1, <1>t, NobodyStarts DEF createPayment, Goto
<1>2. ASSUME NEW r \in Requests, RequestStep(r) PROVE Key!Next
  <2>1. CASE checkDatabase(r)
    <3>1. CASE CanReserve(want[r].key)
      BY <2>1, <3>1, ReservingTakes
    <3>2. CASE ~CanReserve(want[r].key)
      BY <1>t, <2>1, <3>2, NobodyStarts DEF checkDatabase, Goto
    <3> QED BY <3>1, <3>2
  <2>2. CASE SaveSnapshot(r) \/ ReleaseKey(r)
    BY <2>2, SavingGives, ClearingReleases
  <2>3. CASE ApplyCheck(r) \/ Validate(r) \/ InsertRows(r) \/ callChannel(r) \/ paymentCallback(r)
             \/ FailPayment(r) \/ FailOrder(r) \/ PromotePayment(r) \/ PromoteOrder(r)
    <3>1. row' = row /\ want' = want
      BY <2>3 DEF ApplyCheck, Validate, InsertRows, callChannel, paymentCallback, FailPayment,
                  FailOrder, PromotePayment, PromoteOrder
    <3>2. (\E p : rpc' = [rpc EXCEPT ![r] = p]) /\ (rpc[r] = "check" => rpc' = [rpc EXCEPT ![r] = "answered"])
      BY <2>3 DEF ApplyCheck, Validate, InsertRows, callChannel, paymentCallback, FailPayment,
                  FailOrder, PromotePayment, PromoteOrder, Goto, FailThen
    <3>3. rpc[r] = "check" \/ rpc[r] \in Working
      BY <1>t, <2>3 DEF ApplyCheck, Validate, InsertRows, callChannel, paymentCallback, FailPayment,
                  FailOrder, PromotePayment, PromoteOrder
    <3> QED BY <1>t, <3>1, <3>2, <3>3, NobodyStarts
  <2> QED BY <1>2, <2>1, <2>2, <2>3 DEF RequestStep
<1>3. ASSUME NEW r \in Requests, RequestFault(r) \/ CommitAnswerLost(r) PROVE Key!Next
  <2>1. /\ row' = row /\ want' = want /\ \E p : rpc' = [rpc EXCEPT ![r] = p]
        /\ rpc[r] \in {"reserve", "check"} => rpc' = [rpc EXCEPT ![r] = "answered"]
        /\ rpc[r] \in Working \cup {"reserve", "check"}
    BY <1>3, <1>t DEF RequestFault, CommitAnswerLost, Goto, FailThen
  <2> QED BY <1>t, <2>1, NobodyStarts
<1>4. ASSUME NEW o \in Orders, QRAttempt(o) \/ PayerPays(o) \/ NotificationSettles(o)
      PROVE  UNCHANGED <<row, rpc, want>>
  BY <1>4 DEF QRAttempt, PayerPays, NotificationSettles, requestVars
<1>5. UNCHANGED <<row, rpc, want>> => UNCHANGED Key!vars
  BY DEF Key!vars, AtWork
<1>6. CASE Restart
  <2>1. \A k \in Keys : AtWork(k)' = {}
    BY <1>6, <1>t DEF Restart, AtWork
  <2> QED BY <1>6, <2>1, LeavesKey DEF Restart
<1>7. CASE UNCHANGED vars
  BY <1>5, <1>7 DEF vars, requestVars
<1> QED BY <1>1, <1>2, <1>3, <1>4, <1>5, <1>6, <1>7, PurgingLapses, ExpiryIsSilent DEF Next

(* createPayment keeps the promise of its client's key: reserve, answer, clear
   and purge are the steps of ClientKey, everything else leaves the key alone. *)
THEOREM KeyKept == Spec => KeyIsKept
<1>1. Init => Key!Init
  <2> SUFFICES ASSUME Init PROVE Key!Init
    OBVIOUS
  <2>1. \A k \in Keys : row[k] = NoRow /\ row[k].snap = "null" /\ AtWork(k) = {}
    BY DEF Init, RowsInit, NoRow, AtWork, Working
  <2> QED BY <2>1 DEF Key!Init
<1>2. IInv /\ [Next]_vars => [Key!Next]_(Key!vars)
  BY NextKey
<1> QED BY <1>1, <1>2, AnswersProveBookings, PTL DEF Spec, KeyIsKept, Key!Spec
==============================================================================
