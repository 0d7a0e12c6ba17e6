-------------------------- MODULE SettlementProofs ---------------------------
(***************************************************************************)
(* The safety properties of Settlement for any number of attempts, faults, *)
(* deliveries, rounds and requests.                                        *)
(***************************************************************************)
EXTENDS Settlement, PaymentStoreProofs, TLAPS

USE DEF Attempts

(* The verdicts stay inside the status vocabularies. *)
LEMMA MappingTypes ==
  ASSUME NEW s
  PROVE  /\ mapTradeState(s).order \in OrderStatus
         /\ mapTradeState(s).payment \in {"PROCESSING", "SUCCESS", "FAIL"}
         /\ MoneyArrived(mapTradeState(s).order) <=> mapTradeState(s).payment = "SUCCESS"
         /\ MoneyArrived(mapTradeState(s).order) <=> MoneyNotice(s)
BY DEF mapTradeState, OrderStatus, MoneyArrived, MoneyNotice

(* Weighing a claim keeps it a claim about money, or not. *)
LEMMA ResolvedType ==
  ASSUME NEW st \in OrderStatus, NEW t, NEW s
  PROVE  /\ resolveRefundedOrderStatus(st, s, t) \in OrderStatus
         /\ MoneyArrived(resolveRefundedOrderStatus(st, s, t)) <=> MoneyArrived(st)
BY DEF resolveRefundedOrderStatus, OrderStatus, MoneyArrived

----------------------------------------------------------------------------
(* Handlers that do not move keep what they hold. *)

LEMMA DeliveryFrame ==
  ASSUME StoreTypeOK, Grows, NEW e \in Deliveries, DeliveryHolds(e),
         cpc'[e] = cpc[e], notice'[e] = notice[e], verdict'[e] = verdict[e], tx'[e] = tx[e]
  PROVE  DeliveryHolds(e)'
BY BookedStays DEF DeliveryHolds

(* A round that takes no step keeps what it relies on. *)
LEMMA RoundFrame ==
  ASSUME StoreTypeOK, Grows, NEW r \in Rounds, RoundHolds(r),
         round'[r] = round[r], tx'[r] = tx[r]
  PROVE  RoundHolds(r)'
<1>1. tx[r] \in Tx
  BY SyncAssumption DEF StoreTypeOK
<1>2. tx[r].att # 0 => tx[r].att \in Attempts
  BY <1>1, StoreAssumption DEF Tx
<1>3. Booked => Booked'
  BY BookedStays
<1> QED BY <1>2, <1>3 DEF RoundHolds, Grows

----------------------------------------------------------------------------
(* Steps of a delivery *)

ProofsAgree == StampedMoneyIsBooked /\ AckedMoneyIsBooked

(* Nobody but delivery d moves, and only its own transaction. *)
OnlyDelivery(d) ==
  /\ \A e \in Deliveries \ {d} :
       cpc'[e] = cpc[e] /\ notice'[e] = notice[e] /\ verdict'[e] = verdict[e] /\ tx'[e] = tx[e]
  /\ \A r \in Rounds : tx'[r] = tx[r]
  /\ UNCHANGED <<round, qrVars>>

(* What is left to show of a delivery's step. *)
LEMMA DeliveryStepKeeps ==
  ASSUME IInv, NEW d \in Deliveries, OnlyDelivery(d),
         StoreTypeOK', CallbackTypeOK', LocksProtect', Grows, BooksAgree',
         DeliveryHolds(d)', ProofsAgree'
  PROVE  IInv'
<1>1. TypeOK'
  BY DEF IInv, TypeOK, OnlyDelivery, SyncTypeOK, QRTypeOK, qrVars
<1>2. \A e \in Deliveries : DeliveryHolds(e)'
  BY DeliveryFrame DEF IInv, TypeOK, OnlyDelivery
<1>3. \A r \in Rounds : RoundHolds(r)'
  BY RoundFrame DEF IInv, TypeOK, OnlyDelivery
<1> QED BY <1>1, <1>2, <1>3 DEF IInv, BooksAgree, ProofsAgree

(* Steps that read or write pay_idempotency only. *)
LEMMA QuietDeliveryKeeps ==
  ASSUME IInv, NEW d \in Deliveries, UNCHANGED storeVars, UNCHANGED <<round, qrVars>>,
         \A e \in Deliveries \ {d} :
           cpc'[e] = cpc[e] /\ notice'[e] = notice[e] /\ verdict'[e] = verdict[e],
         CallbackTypeOK', DeliveryHolds(d)', ProofsAgree'
  PROVE  IInv'
<1>1. StoreTypeOK' /\ LocksProtect' /\ Grows
  BY DEF IInv, TypeOK, storeVars, StoreTypeOK, LocksProtect, Grows
<1>2. BooksAgree'
  BY SameRowsAgree DEF IInv, BooksAgree, storeVars
<1>3. OnlyDelivery(d)
  BY DEF OnlyDelivery, storeVars
<1> QED BY <1>1, <1>2, <1>3, DeliveryStepKeeps

(* Stamps and acknowledgements of money stay justified when none is added. *)
LEMMA SameProofsAgree ==
  ASSUME IInv, Grows, CallbackTypeOK',
         \A n \in Notices : MoneyNotice(n) /\ res'[n].done => res[n].done,
         \A n \in acked' : MoneyNotice(n) => n \in acked
  PROVE  ProofsAgree'
<1>1. Booked => Booked'
  BY BookedStays DEF IInv, TypeOK
<1> QED BY <1>1 DEF IInv, ProofsAgree, StampedMoneyIsBooked, AckedMoneyIsBooked, MoneyNotice

(* ... or when the money is booked by now. *)
LEMMA BookedProofsAgree ==
  ASSUME Booked'
  PROVE  ProofsAgree'
BY DEF ProofsAgree, StampedMoneyIsBooked, AckedMoneyIsBooked

(* handlePaymentCallback keeps the invariant. *)
LEMMA handlePaymentCallbackKeeps ==
  ASSUME IInv, NEW d \in Deliveries, NEW n \in Notices, handlePaymentCallback(d, n),
         UNCHANGED <<round, qrVars>>
  PROVE  IInv'
<1> USE DEF handlePaymentCallback, Goto
<1>1. CallbackTypeOK'
  BY DEF IInv, TypeOK, CallbackTypeOK, DeliveryPc, OrderStatus
<1>2. DeliveryHolds(d)'
  BY DEF IInv, TypeOK, CallbackTypeOK, DeliveryHolds, storeVars,
         StampedMoneyIsBooked, MoneyNotice, Booked
<1>3. ProofsAgree'
  BY <1>1, SameProofsAgree DEF Grows, storeVars
<1> QED BY <1>1, <1>2, <1>3, QuietDeliveryKeeps DEF IInv, TypeOK, CallbackTypeOK

(* LookupReservation keeps the invariant. *)
LEMMA LookupReservationKeeps ==
  ASSUME IInv, NEW d \in Deliveries, LookupReservation(d), UNCHANGED <<round, qrVars>>
  PROVE  IInv'
<1> USE DEF LookupReservation, Goto
<1>1. CallbackTypeOK'
  BY DEF IInv, TypeOK, CallbackTypeOK, DeliveryPc
<1>2. DeliveryHolds(d)'
  BY DEF IInv, TypeOK, CallbackTypeOK, DeliveryHolds, storeVars,
         StampedMoneyIsBooked, MoneyNotice, Booked
<1>3. ProofsAgree'
  BY <1>1, SameProofsAgree DEF Grows, storeVars
<1> QED BY <1>1, <1>2, <1>3, QuietDeliveryKeeps DEF IInv, TypeOK, CallbackTypeOK

(* dropUnfinalizedReservation keeps the invariant. *)
LEMMA dropUnfinalizedReservationKeeps ==
  ASSUME IInv, NEW d \in Deliveries, dropUnfinalizedReservation(d), UNCHANGED <<round, qrVars>>
  PROVE  IInv'
<1> USE DEF dropUnfinalizedReservation, Goto, Ack, Fail
<1>1. CallbackTypeOK'
  BY DEF IInv, TypeOK, CallbackTypeOK, DeliveryPc, Reservation, NoRes
<1>2. DeliveryHolds(d)'
  BY DEF IInv, TypeOK, CallbackTypeOK, DeliveryHolds, storeVars
<1>3. ProofsAgree'
  <2>1. \A n \in Notices : res'[n].done => res[n].done
    BY DEF IInv, TypeOK, CallbackTypeOK, NoRes
  <2> QED BY <1>1, <2>1, SameProofsAgree DEF Grows, storeVars
<1> QED BY <1>1, <1>2, <1>3, QuietDeliveryKeeps DEF IInv, TypeOK, CallbackTypeOK

(* AuditDuplicate keeps the invariant. *)
LEMMA AuditDuplicateKeeps ==
  ASSUME IInv, NEW d \in Deliveries, AuditDuplicate(d), UNCHANGED <<round, qrVars>>
  PROVE  IInv'
<1> USE DEF AuditDuplicate, Goto, Ack, Fail
<1>1. CallbackTypeOK'
  BY DEF IInv, TypeOK, CallbackTypeOK, DeliveryPc
<1>2. DeliveryHolds(d)'
  BY DEF IInv, TypeOK, CallbackTypeOK, DeliveryHolds, storeVars
<1>3. ProofsAgree'
  <2>1. CASE MoneyNotice(notice[d])
    BY <2>1, BookedProofsAgree DEF IInv, DeliveryHolds, Booked, storeVars
  <2>2. CASE ~MoneyNotice(notice[d])
    BY <1>1, <2>2, SameProofsAgree DEF Grows, storeVars
  <2> QED BY <2>1, <2>2
<1> QED BY <1>1, <1>2, <1>3, QuietDeliveryKeeps DEF IInv, TypeOK, CallbackTypeOK

(* ReserveKey keeps the invariant. *)
LEMMA ReserveKeyKeeps ==
  ASSUME IInv, NEW d \in Deliveries, ReserveKey(d), UNCHANGED <<round, qrVars>>
  PROVE  IInv'
<1> USE DEF ReserveKey, Goto, Ack, Fail
<1>1. CallbackTypeOK'
  BY DEF IInv, TypeOK, CallbackTypeOK, DeliveryPc, Reservation
<1>2. DeliveryHolds(d)'
  BY DEF IInv, TypeOK, CallbackTypeOK, DeliveryHolds, storeVars
<1>3. ProofsAgree'
  <2>1. \A n \in Notices : res'[n].done => res[n].done
    BY DEF IInv, TypeOK, CallbackTypeOK
  <2> QED BY <1>1, <2>1, SameProofsAgree DEF Grows, storeVars
<1> QED BY <1>1, <1>2, <1>3, QuietDeliveryKeeps DEF IInv, TypeOK, CallbackTypeOK

(* StampAfterCommit keeps the invariant. *)
LEMMA StampAfterCommitKeeps ==
  ASSUME IInv, NEW d \in Deliveries, StampAfterCommit(d), UNCHANGED <<round, qrVars>>
  PROVE  IInv'
<1> USE DEF StampAfterCommit, Goto, Ack, Fail
<1>1. CallbackTypeOK'
  BY DEF IInv, TypeOK, CallbackTypeOK, DeliveryPc, Reservation
<1>2. DeliveryHolds(d)'
  BY DEF IInv, TypeOK, CallbackTypeOK, DeliveryHolds, storeVars
<1>3. ProofsAgree'
  <2>1. ~MoneyNotice(notice[d])
    BY DEF IInv, DeliveryHolds
  <2>2. \A n \in Notices : n # notice[d] => res'[n] = res[n]
    BY DEF IInv, TypeOK, CallbackTypeOK
  <2> QED BY <1>1, <2>1, <2>2, SameProofsAgree DEF Grows, storeVars
<1> QED BY <1>1, <1>2, <1>3, QuietDeliveryKeeps DEF IInv, TypeOK, CallbackTypeOK

(* Steps inside, or at the end of, the delivery's transaction. *)
LEMMA DeliveryTxFrame ==
  ASSUME IInv, NEW d \in Deliveries, NEW t, tx' = [tx EXCEPT ![d] = t],
         NEW pc, cpc' = [cpc EXCEPT ![d] = pc], UNCHANGED notice,
         \A e \in Deliveries \ {d} : verdict'[e] = verdict[e], UNCHANGED <<round, qrVars>>
  PROVE  /\ OnlyDelivery(d)
         /\ tx'[d] = t /\ cpc'[d] = pc
         /\ d \in Workers /\ tx[d] \in Tx
         /\ cpc[d] # "idle" => notice[d] \in Notices
BY CallbackAssumption, SyncAssumption, SettlementAssumption
   DEF IInv, TypeOK, StoreTypeOK, CallbackTypeOK, OnlyDelivery

(* LockLatestAttempt keeps the invariant. *)
LEMMA LockLatestAttemptKeeps ==
  ASSUME IInv, NEW d \in Deliveries, LockLatestAttempt(d), UNCHANGED <<round, qrVars>>
  PROVE  IInv'
<1>0. d \in Workers /\ tx[d] = NoTx
  BY CallbackAssumption DEF IInv, DeliveryHolds, LockLatestAttempt, AmountAgrees
<1>1. CallbackTypeOK'
  BY DEF IInv, TypeOK, CallbackTypeOK, DeliveryPc, LockLatestAttempt, AmountAgrees, Goto, Ack, Fail
<1>2. ASSUME Rollback(d), Fail(d) \/ (Ack(d) /\ \E a \in Attempts : payment[a] = "SUCCESS")
      PROVE  IInv'
  <2>1. StoreTypeOK' /\ LocksProtect' /\ Grows /\ BooksAgree'
    BY <1>0, <1>2, RollbackType, RollbackLocks, SameRowsAgree DEF IInv, TypeOK, Rollback, BooksAgree
  <2>2. OnlyDelivery(d) /\ tx'[d] = NoTx /\ cpc'[d] = "idle"
    BY <1>2, DeliveryTxFrame DEF Rollback, LockLatestAttempt, AmountAgrees, Goto, Ack, Fail
  <2>3. DeliveryHolds(d)'
    BY <2>2 DEF DeliveryHolds
  <2>4. ProofsAgree'
    <3>1. CASE Fail(d)
      BY <1>1, <2>1, <3>1, SameProofsAgree DEF LockLatestAttempt, AmountAgrees, Fail
    <3>2. CASE \E a \in Attempts : payment[a] = "SUCCESS"
      BY <2>1, <3>2, BookedStays, BookedProofsAgree DEF IInv, TypeOK, SettledMeansBooked
    <3> QED BY <1>2, <3>1, <3>2
  <2> QED BY <1>1, <2>1, <2>2, <2>3, <2>4, DeliveryStepKeeps
<1>3. ASSUME NEW a \in openAttemptsOfOrder, PaymentFree(d, a), payment[a] \in InFlight,
             cpc' = [cpc EXCEPT ![d] = "cas"], UNCHANGED <<notice, verdict, res, acked>>,
             InTx(d, [tx[d] EXCEPT !.att = a, !.lock = TRUE])
      PROVE  IInv'
  <2> DEFINE t == [NoTx EXCEPT !.att = a, !.lock = TRUE]
  <2>1. a \in Attempts /\ t \in Tx /\ InTx(d, t)
    <3>1. a \in Attempts /\ a \in 0..MaxAttempts
      BY StoreAssumption DEF openAttemptsOfOrder
    <3>2. t \in Tx
      BY <3>1, NoTxType DEF Tx
    <3> QED BY <1>0, <1>3, <3>1, <3>2
  <2>2. t.att = a /\ t.lock /\ t.pay = "keep" /\ t.order = "keep" /\ ~t.led
    BY DEF NoTx
  <2> HIDE DEF t
  <2>3. StoreTypeOK' /\ LocksProtect' /\ Grows /\ BooksAgree'
    <3>1. StoreTypeOK /\ LocksProtect /\ BooksAgree
      BY DEF IInv, TypeOK, BooksAgree
    <3>2. t.att # 0 /\ payment[t.att] \in InFlight
          /\ \A v \in Workers \ {d} : ~(tx[v].lock /\ tx[v].att = t.att)
      BY <1>3, <2>1, <2>2, StoreAssumption DEF PaymentFree
    <3>3. UNCHANGED <<order, payment, ledger>>
      BY <2>1 DEF InTx
    <3> QED BY <1>0, <2>1, <2>2, <3>1, <3>2, <3>3, InTxType, InTxLocks, SameRowsAgree
  <2>4. OnlyDelivery(d) /\ tx'[d] = t /\ cpc'[d] = "cas"
    BY <1>3, <2>1, DeliveryTxFrame DEF InTx
  <2>5. DeliveryHolds(d)'
    BY <2>2, <2>4 DEF DeliveryHolds
  <2>6. ProofsAgree'
    BY <1>1, <1>3, <2>3, SameProofsAgree
  <2> QED BY <1>1, <2>3, <2>4, <2>5, <2>6, DeliveryStepKeeps
<1>4. \A a \in openAttemptsOfOrder : a \in Attempts /\ (payment[a] \in InFlight \/ payment[a] = "SUCCESS")
  BY DEF openAttemptsOfOrder, IInv, LocksProtect
<1>5. ASSUME NEW a \in openAttemptsOfOrder, payment[a] \notin InFlight, Ack(d), Rollback(d)
      PROVE  IInv'
  BY <1>2, <1>4, <1>5
<1> QED BY <1>2, <1>3, <1>5 DEF LockLatestAttempt, AmountAgrees, Goto

(* CasAttempt keeps the invariant. *)
LEMMA CasAttemptKeeps ==
  ASSUME IInv, NEW d \in Deliveries, CasAttempt(d), UNCHANGED <<round, qrVars>>
  PROVE  IInv'
<1> DEFINE m == mapTradeState(notice[d])
           o == resolveRefundedOrderStatus(m.order, settled, Total)
           t == [tx[d] EXCEPT !.pay = m.payment]
<1>1. /\ cpc[d] = "cas" /\ d \in Workers /\ tx[d] \in Tx /\ tx[d].lock /\ ~tx[d].led
      /\ tx[d].att # 0 /\ payment[tx[d].att] \in InFlight /\ tx[d].order = "keep"
  BY CallbackAssumption
  DEF IInv, TypeOK, StoreTypeOK, LocksProtect, DeliveryHolds, CasAttempt, LostRace
<1>2. InTx(d, t) /\ cpc' = [cpc EXCEPT ![d] = "order"] /\ verdict' = [verdict EXCEPT ![d] = o]
      /\ UNCHANGED <<acked, res, notice, notified>>
  BY <1>1 DEF CasAttempt, LostRace, Goto
<1>3. /\ o \in OrderStatus /\ m.payment \in {"PROCESSING", "SUCCESS", "FAIL"}
      /\ MoneyArrived(o) <=> m.payment = "SUCCESS"
      /\ MoneyArrived(o) <=> MoneyNotice(notice[d])
  BY MappingTypes, ResolvedType
<1>4. /\ t \in Tx /\ t.att = tx[d].att /\ t.lock /\ t.pay = m.payment
      /\ t.order = "keep" /\ ~t.led
  BY <1>1, <1>3 DEF Tx, PaymentStatus
<1> HIDE DEF m, o, t
<1>5. StoreTypeOK' /\ LocksProtect' /\ Grows /\ BooksAgree'
  <2>1. \A v \in Workers \ {d} : ~(tx[v].lock /\ tx[v].att = t.att)
    BY <1>1, <1>4 DEF IInv, LocksProtect
  <2>2. StoreTypeOK /\ LocksProtect /\ BooksAgree /\ UNCHANGED <<order, payment, ledger>>
    BY <1>2 DEF IInv, TypeOK, BooksAgree, InTx
  <2> QED BY <1>1, <1>2, <1>3, <1>4, <2>1, <2>2, InTxType, InTxLocks, SameRowsAgree
<1>6. CallbackTypeOK'
  BY <1>1, <1>2, <1>3 DEF IInv, TypeOK, CallbackTypeOK, DeliveryPc
<1>7. OnlyDelivery(d) /\ tx'[d] = t /\ cpc'[d] = "order" /\ verdict'[d] = o
  BY <1>2, DeliveryTxFrame DEF InTx, IInv, TypeOK, CallbackTypeOK
<1>8. DeliveryHolds(d)'
  BY <1>2, <1>3, <1>4, <1>7 DEF DeliveryHolds, OrderStatus
<1>9. ProofsAgree'
  BY <1>2, <1>5, <1>6, SameProofsAgree
<1> QED BY <1>5, <1>6, <1>7, <1>8, <1>9, DeliveryStepKeeps

(* A step that only extends the buffer of a transaction holding its lock. *)
LEMMA DeliveryBufferKeeps ==
  ASSUME IInv, NEW d \in Deliveries, UNCHANGED <<round, qrVars>>, tx[d].lock,
         NEW t \in Tx, InTx(d, t), t.att = tx[d].att, t.lock, t.pay = tx[d].pay,
         NEW pc \in DeliveryPc, cpc' = [cpc EXCEPT ![d] = pc], cpc[d] # "idle",
         UNCHANGED <<res, notice, verdict, notified, acked>>,
         DeliveryHolds(d)'
  PROVE  IInv'
<1>1. d \in Workers /\ tx[d].att # 0 /\ payment[tx[d].att] \in InFlight /\ t.pay # "REFUNDED"
      /\ \A v \in Workers \ {d} : ~(tx[v].lock /\ tx[v].att = t.att)
  BY CallbackAssumption DEF IInv, LocksProtect
<1>2. StoreTypeOK /\ LocksProtect /\ BooksAgree /\ UNCHANGED <<order, payment, ledger>>
  BY DEF IInv, TypeOK, BooksAgree, InTx
<1>3. StoreTypeOK' /\ LocksProtect' /\ Grows /\ BooksAgree'
  BY <1>1, <1>2, InTxType, InTxLocks, SameRowsAgree
<1>4. CallbackTypeOK'
  BY DEF IInv, TypeOK, CallbackTypeOK
<1>5. OnlyDelivery(d)
  BY DeliveryTxFrame DEF InTx
<1>6. ProofsAgree'
  BY <1>3, <1>4, SameProofsAgree
<1> QED BY <1>3, <1>4, <1>5, <1>6, DeliveryStepKeeps

(* UpdateOrder keeps the invariant. *)
LEMMA UpdateOrderKeeps ==
  ASSUME IInv, NEW d \in Deliveries, UpdateOrder(d), UNCHANGED <<round, qrVars>>
  PROVE  IInv'
<1> DEFINE t == [tx[d] EXCEPT !.order = verdict[d]]
           pc == IF MoneyArrived(verdict[d]) THEN "ledger" ELSE "commitPlain"
<1>1. /\ cpc[d] = "order" /\ d \in Workers /\ tx[d] \in Tx /\ tx[d].lock /\ ~tx[d].led
      /\ verdict[d] \in OrderStatus \cup {"none"}
      /\ InTx(d, t) /\ cpc' = [cpc EXCEPT ![d] = pc]
      /\ UNCHANGED <<res, notice, verdict, notified, acked>>
  BY CallbackAssumption
  DEF IInv, TypeOK, StoreTypeOK, CallbackTypeOK, DeliveryHolds, UpdateOrder, Goto
<1>2. verdict[d] \in OrderStatus
  BY <1>1 DEF IInv, DeliveryHolds
<1>3. /\ t \in Tx /\ t.att = tx[d].att /\ t.lock /\ t.pay = tx[d].pay
      /\ t.order = verdict[d] /\ ~t.led
  BY <1>1, <1>2 DEF Tx
<1>4. tx'[d] = t /\ cpc'[d] = pc
  BY <1>1, DeliveryTxFrame DEF InTx
<1>5. pc \in DeliveryPc
  BY DEF DeliveryPc
<1>6. DeliveryHolds(d)'
  BY <1>1, <1>3, <1>4 DEF IInv, DeliveryHolds
<1> HIDE DEF t, pc
<1> QED BY <1>1, <1>3, <1>5, <1>6, DeliveryBufferKeeps

(* InsertLedger keeps the invariant. *)
LEMMA InsertLedgerKeeps ==
  ASSUME IInv, NEW d \in Deliveries, InsertLedger(d), UNCHANGED <<round, qrVars>>
  PROVE  IInv'
<1> DEFINE l == tx[d].att \notin ledger
           x == tx[d].att \in ledger
           t == [tx[d] EXCEPT !.led = l, !.dead = x]
<1>1. /\ cpc[d] = "ledger" /\ d \in Workers /\ tx[d] \in Tx /\ tx[d].lock
      /\ tx[d].pay = "SUCCESS" /\ MoneyNotice(notice[d])
      /\ InTx(d, t) /\ cpc' = [cpc EXCEPT ![d] = "finalize"]
      /\ UNCHANGED <<res, notice, verdict, notified, acked>>
  BY CallbackAssumption
  DEF IInv, TypeOK, StoreTypeOK, CallbackTypeOK, DeliveryHolds, InsertLedger, Goto
<1>2. /\ t \in Tx /\ t.att = tx[d].att /\ t.lock /\ t.pay = tx[d].pay /\ t.order = tx[d].order
      /\ t.led \/ t.dead
  <2>1. l \in BOOLEAN /\ x \in BOOLEAN /\ (l \/ x)
    OBVIOUS
  <2>2. tx[d] \in Tx /\ tx[d].lock
    BY <1>1
  <2> HIDE DEF l, x
  <2> QED BY <2>1, <2>2 DEF Tx
<1> HIDE DEF t
<1>3. tx'[d] = t /\ cpc'[d] = "finalize" /\ MoneyArrived(tx[d].order)
  BY <1>1, DeliveryTxFrame DEF InTx, IInv, DeliveryHolds
<1>4. "finalize" \in DeliveryPc
  BY DEF DeliveryPc
<1>5. DeliveryHolds(d)'
  BY <1>1, <1>2, <1>3 DEF DeliveryHolds
<1> QED BY <1>1, <1>2, <1>4, <1>5, DeliveryBufferKeeps

(* A delivery that rolls back and answers FAIL. *)
LEMMA FailedDeliveryKeeps ==
  ASSUME IInv, NEW d \in Deliveries, UNCHANGED <<round, qrVars>>,
         tx' = [tx EXCEPT ![d] = NoTx], UNCHANGED <<order, payment, ledger>>, StoreTypeOK',
         cpc' = [cpc EXCEPT ![d] = "idle"], UNCHANGED <<res, notice, verdict, notified>>,
         acked' \subseteq Notices, \A n \in acked' : MoneyNotice(n) => n \in acked
  PROVE  IInv'
<1>1. LocksProtect' /\ Grows /\ BooksAgree'
  BY RollbackLocks, SameRowsAgree, CallbackAssumption DEF IInv, TypeOK, BooksAgree
<1>2. CallbackTypeOK'
  BY DEF IInv, TypeOK, CallbackTypeOK, DeliveryPc
<1>3. OnlyDelivery(d) /\ tx'[d] = NoTx /\ cpc'[d] = "idle"
  BY DeliveryTxFrame
<1>4. DeliveryHolds(d)'
  BY <1>3 DEF DeliveryHolds
<1>5. ProofsAgree'
  BY <1>1, <1>2, SameProofsAgree
<1> QED BY <1>1, <1>2, <1>3, <1>4, <1>5, DeliveryStepKeeps

(* FinalizeInTx keeps the invariant. *)
LEMMA FinalizeInTxKeeps ==
  ASSUME IInv, NEW d \in Deliveries, FinalizeInTx(d), UNCHANGED <<round, qrVars>>
  PROVE  IInv'
<1>1. /\ cpc[d] = "finalize" /\ d \in Workers /\ tx[d] \in Tx /\ tx[d].lock
      /\ tx[d].pay = "SUCCESS" /\ MoneyNotice(notice[d]) /\ (tx[d].led \/ tx[d].dead)
      /\ MoneyArrived(tx[d].order)
  BY CallbackAssumption DEF IInv, TypeOK, StoreTypeOK, CallbackTypeOK, DeliveryHolds, FinalizeInTx
<1>2. CASE Rollback(d) /\ Fail(d)
  <2>1. StoreTypeOK'
    BY <1>1, <1>2, RollbackType DEF IInv, TypeOK
  <2>2. acked' = acked /\ acked \subseteq Notices
    BY <1>2 DEF Fail, IInv, TypeOK, CallbackTypeOK
  <2> QED BY <1>2, <2>1, <2>2, FailedDeliveryKeeps DEF Rollback, Fail, Goto, FinalizeInTx
<1>3. CASE ~tx[d].dead /\ InTx(d, [tx[d] EXCEPT !.fin = TRUE]) /\ Goto(d, "commit") /\ UNCHANGED acked
  <2> DEFINE t == [tx[d] EXCEPT !.fin = TRUE]
  <2>1. /\ t \in Tx /\ t.att = tx[d].att /\ t.lock /\ t.pay = tx[d].pay
        /\ t.led /\ ~t.dead /\ t.order = tx[d].order
    BY <1>1, <1>3 DEF Tx
  <2>2. InTx(d, t) /\ cpc' = [cpc EXCEPT ![d] = "commit"]
        /\ UNCHANGED <<res, notice, verdict, notified, acked>>
    BY <1>3 DEF Goto, FinalizeInTx
  <2>3. tx'[d] = t /\ cpc'[d] = "commit"
    BY <2>2, DeliveryTxFrame DEF InTx
  <2>4. "commit" \in DeliveryPc
    BY DEF DeliveryPc
  <2>5. DeliveryHolds(d)'
    BY <1>1, <2>1, <2>2, <2>3 DEF DeliveryHolds
  <2> HIDE DEF t
  <2> QED BY <1>1, <2>1, <2>2, <2>4, <2>5, DeliveryBufferKeeps
<1> QED BY <1>2, <1>3 DEF FinalizeInTx

(* COMMIT of a booking: order, attempt, ledger entry and stamp together. *)
LEMMA PublishBookingKeeps ==
  ASSUME IInv, NEW d \in Deliveries, UNCHANGED <<round, qrVars>>, cpc[d] = "commit",
         Publish(d), UNCHANGED <<settled, trade, exact>>, faults' \in 0..MaxFaults,
         res' = [res EXCEPT ![notice[d]].done = TRUE],
         cpc' = [cpc EXCEPT ![d] = "idle"], UNCHANGED <<notice, verdict, notified>>,
         acked' \subseteq Notices
  PROVE  IInv'
<1>1. /\ d \in Workers /\ tx[d] \in Tx /\ tx[d].led /\ ~tx[d].dead /\ tx[d].pay = "SUCCESS"
      /\ notice[d] \in Notices
  BY CallbackAssumption DEF IInv, TypeOK, StoreTypeOK, CallbackTypeOK, DeliveryHolds
<1>2. StoreTypeOK /\ LocksProtect /\ BooksAgree
  BY DEF IInv, TypeOK, BooksAgree
<1>3. StoreTypeOK' /\ LocksProtect' /\ Grows /\ BooksAgree'
  <2>1. StoreTypeOK'
    BY <1>1, <1>2, CommitType
  <2>2. LocksProtect' /\ Grows
    BY <1>1, <1>2, CommitLocks
  <2>3. BooksAgree'
    BY <1>1, <1>2, CommitAgrees
  <2> QED BY <2>1, <2>2, <2>3
<1>4. Booked'
  <2>1. tx[d].att \in ledger'
    BY <1>1 DEF Publish
  <2> QED BY <1>3, <2>1 DEF BooksAgree, LedgerOnlyForSettled, Booked
<1>5. CallbackTypeOK'
  BY <1>1 DEF IInv, TypeOK, CallbackTypeOK, DeliveryPc, Reservation
<1>6. OnlyDelivery(d) /\ tx'[d] = NoTx /\ cpc'[d] = "idle"
  BY DeliveryTxFrame DEF Publish
<1>7. DeliveryHolds(d)'
  BY <1>6 DEF DeliveryHolds
<1>8. ProofsAgree'
  BY <1>4, BookedProofsAgree
<1> QED BY <1>3, <1>5, <1>6, <1>7, <1>8, DeliveryStepKeeps

(* CommitBooking keeps the invariant. *)
LEMMA CommitBookingKeeps ==
  ASSUME IInv, NEW d \in Deliveries, CommitBooking(d), UNCHANGED <<round, qrVars>>
  PROVE  IInv'
<1>1. notice[d] \in Notices /\ acked \subseteq Notices /\ faults \in 0..MaxFaults
  BY DEF IInv, TypeOK, StoreTypeOK, CallbackTypeOK, CommitBooking
<1> QED BY <1>1, PublishBookingKeeps DEF CommitBooking, Commit, Ack, Goto

(* CommitAnswerLost keeps the invariant. *)
LEMMA CommitAnswerLostKeeps ==
  ASSUME IInv, NEW d \in Deliveries, CommitAnswerLost(d), UNCHANGED <<round, qrVars>>
  PROVE  IInv'
<1>1. acked \subseteq Notices /\ faults' \in 0..MaxFaults
  BY StoreAssumption DEF IInv, TypeOK, StoreTypeOK, CallbackTypeOK, CommitAnswerLost
<1> QED BY <1>1, PublishBookingKeeps DEF CommitAnswerLost, Fail, Goto

(* CommitPlain keeps the invariant. *)
LEMMA CommitPlainKeeps ==
  ASSUME IInv, NEW d \in Deliveries, CommitPlain(d), UNCHANGED <<round, qrVars>>
  PROVE  IInv'
<1>1. /\ cpc[d] = "commitPlain" /\ d \in Workers /\ tx[d] \in Tx /\ ~tx[d].led
      /\ tx[d].pay # "SUCCESS" /\ ~MoneyArrived(tx[d].order) /\ ~MoneyNotice(notice[d])
      /\ notice[d] \in Notices /\ faults \in 0..MaxFaults
  BY CallbackAssumption
     DEF IInv, TypeOK, StoreTypeOK, CallbackTypeOK, DeliveryHolds, CommitPlain
<1>2. StoreTypeOK /\ LocksProtect /\ BooksAgree
  BY DEF IInv, TypeOK, BooksAgree
<1>3. Publish(d) /\ UNCHANGED <<settled, trade, exact, faults>>
      /\ cpc' = [cpc EXCEPT ![d] = "stamp"] /\ UNCHANGED <<res, notice, verdict, notified, acked>>
  BY DEF CommitPlain, Commit, Goto
<1>4. StoreTypeOK' /\ LocksProtect' /\ Grows /\ BooksAgree'
  BY <1>1, <1>2, <1>3, CommitType, CommitLocks, CommitAgrees
<1>5. CallbackTypeOK'
  BY <1>1, <1>3 DEF IInv, TypeOK, CallbackTypeOK, DeliveryPc
<1>6. OnlyDelivery(d) /\ tx'[d] = NoTx /\ cpc'[d] = "stamp"
  BY <1>3, DeliveryTxFrame DEF Publish
<1>7. DeliveryHolds(d)'
  BY <1>1, <1>3, <1>6 DEF DeliveryHolds
<1>8. ProofsAgree'
  BY <1>3, <1>4, <1>5, SameProofsAgree
<1> QED BY <1>4, <1>5, <1>6, <1>7, <1>8, DeliveryStepKeeps

(* DeliveryFault keeps the invariant. *)
LEMMA DeliveryFaultKeeps ==
  ASSUME IInv, NEW d \in Deliveries, DeliveryFault(d), UNCHANGED <<round, qrVars>>
  PROVE  IInv'
<1>1. StoreTypeOK'
  BY FaultType, CallbackAssumption DEF IInv, TypeOK, DeliveryFault
<1>2. notice[d] \in Notices /\ acked \subseteq Notices /\ (cpc[d] = "stamp" => ~MoneyNotice(notice[d]))
  BY DEF IInv, TypeOK, CallbackTypeOK, DeliveryHolds, DeliveryFault
<1>3. acked' \subseteq Notices /\ \A n \in acked' : MoneyNotice(n) => n \in acked
  BY <1>2 DEF DeliveryFault, Ack, Fail
<1> QED BY <1>1, <1>3, FailedDeliveryKeeps DEF DeliveryFault, Fault, Ack, Fail, Goto

----------------------------------------------------------------------------
(* Steps of the channel and of the sweep *)

(* Nothing but reservations, notifications and the channel moves. *)
LEMMA QuietKeeps ==
  ASSUME IInv, UNCHANGED <<order, payment, ledger, tx, cpc, notice, verdict, acked, round, qrVars>>,
         StoreTypeOK', CallbackTypeOK',
         \A n \in Notices : res'[n].done => res[n].done
  PROVE  IInv'
<1>1. LocksProtect' /\ Grows
  BY DEF IInv, LocksProtect, Grows
<1>2. BooksAgree'
  BY SameRowsAgree DEF IInv, BooksAgree
<1>3. TypeOK'
  BY DEF IInv, TypeOK, SyncTypeOK, QRTypeOK, qrVars
<1>4. \A d \in Deliveries : DeliveryHolds(d)'
  BY <1>1, DeliveryFrame DEF IInv, TypeOK
<1>5. \A r \in Rounds : RoundHolds(r)'
  BY <1>1, RoundFrame DEF IInv, TypeOK
<1>6. ProofsAgree'
  BY <1>1, SameProofsAgree
<1> QED BY <1>1, <1>2, <1>3, <1>4, <1>5, <1>6 DEF IInv, BooksAgree, ProofsAgree

(* ChannelNotifies keeps the invariant. *)
LEMMA ChannelNotifiesKeeps ==
  ASSUME IInv, ChannelNotifies, UNCHANGED <<round, qrVars>>
  PROVE  IInv'
BY QuietKeeps DEF ChannelNotifies, storeVars, IInv, TypeOK, StoreTypeOK, CallbackTypeOK

(* purgeExpired keeps the invariant. *)
LEMMA purgeExpiredKeeps ==
  ASSUME IInv, NEW n \in Notices, purgeExpired(n), UNCHANGED <<round, qrVars>>
  PROVE  IInv'
<1>1. StoreTypeOK'
  BY DEF purgeExpired, storeVars, IInv, TypeOK, StoreTypeOK
<1>2. CallbackTypeOK' /\ \A k \in Notices : res'[k].done => res[k].done
  BY DEF purgeExpired, IInv, TypeOK, CallbackTypeOK, Reservation, NoRes
<1> QED BY <1>1, <1>2, QuietKeeps DEF purgeExpired, storeVars

----------------------------------------------------------------------------
(* Steps of a round *)

(* Nobody but round r moves, and only its own transaction. *)
OnlyRound(r) ==
  /\ \A s \in Rounds \ {r} : round'[s] = round[s] /\ tx'[s] = tx[s]
  /\ \A d \in Deliveries : tx'[d] = tx[d]
  /\ UNCHANGED <<callbackVars, qrVars>>

(* What is left to show of a round's step. *)
LEMMA RoundStepKeeps ==
  ASSUME IInv, NEW r \in Rounds, OnlyRound(r),
         StoreTypeOK', SyncTypeOK', LocksProtect', Grows, BooksAgree', RoundHolds(r)'
  PROVE  IInv'
<1>1. CallbackTypeOK' /\ QRTypeOK'
  BY DEF IInv, TypeOK, OnlyRound, CallbackTypeOK, QRTypeOK, callbackVars, qrVars
<1>2. \A e \in Deliveries : DeliveryHolds(e)'
  BY DeliveryFrame DEF IInv, TypeOK, OnlyRound, callbackVars
<1>3. \A s \in Rounds : RoundHolds(s)'
  BY RoundFrame DEF IInv, TypeOK, OnlyRound
<1>4. ProofsAgree'
  BY <1>1, SameProofsAgree DEF OnlyRound, callbackVars
<1> QED BY <1>1, <1>2, <1>3, <1>4 DEF IInv, TypeOK, BooksAgree, ProofsAgree

(* A step of one round leaves the other transactions alone. *)
LEMMA RoundTxFrame ==
  ASSUME IInv, NEW r \in Rounds, NEW t, tx' = [tx EXCEPT ![r] = t],
         \A s \in Rounds \ {r} : round'[s] = round[s], UNCHANGED <<callbackVars, qrVars>>
  PROVE  OnlyRound(r) /\ tx'[r] = t /\ r \in Workers
BY CallbackAssumption, SyncAssumption, SettlementAssumption
   DEF IInv, TypeOK, StoreTypeOK, OnlyRound

(* Steps that read, and steps that end a round without a transaction. *)
LEMMA QuietRoundKeeps ==
  ASSUME IInv, NEW r \in Rounds, UNCHANGED <<storeVars, callbackVars, qrVars>>,
         NEW c \in Round, round' = [round EXCEPT ![r] = c], RoundHolds(r)'
  PROVE  IInv'
<1>1. StoreTypeOK' /\ LocksProtect' /\ Grows
  BY DEF IInv, TypeOK, storeVars, StoreTypeOK, LocksProtect, Grows
<1>2. BooksAgree'
  BY SameRowsAgree DEF IInv, BooksAgree, storeVars
<1>3. OnlyRound(r) /\ SyncTypeOK'
  BY DEF OnlyRound, storeVars, IInv, TypeOK, SyncTypeOK
<1> QED BY <1>1, <1>2, <1>3, RoundStepKeeps

(* Steps that extend the buffer. *)
LEMMA RoundBufferKeeps ==
  ASSUME IInv, NEW r \in Rounds, UNCHANGED <<callbackVars, qrVars>>, NEW t \in Tx, InTx(r, t),
         t.lock => /\ t.att # 0
                   /\ payment[t.att] \in InFlight
                   /\ \A v \in Workers \ {r} : ~(tx[v].lock /\ tx[v].att = t.att),
         t.pay # "keep" => t.lock,
         t.pay # "REFUNDED",
         t.led => t.att # 0,
         NEW c \in Round, round' = [round EXCEPT ![r] = c], RoundHolds(r)'
  PROVE  IInv'
<1>1. r \in Workers /\ StoreTypeOK /\ LocksProtect /\ BooksAgree /\ UNCHANGED <<order, payment, ledger>>
  BY SyncAssumption DEF IInv, TypeOK, BooksAgree, InTx
<1>2. StoreTypeOK' /\ BooksAgree'
  BY <1>1, InTxType, SameRowsAgree
<1>3. LocksProtect' /\ Grows
  BY <1>1, InTxLocks
<1>4. SyncTypeOK' /\ \A s \in Rounds \ {r} : round'[s] = round[s]
  BY DEF IInv, TypeOK, SyncTypeOK
<1>5. OnlyRound(r)
  BY <1>4, RoundTxFrame DEF InTx
<1> QED BY <1>2, <1>3, <1>4, <1>5, RoundStepKeeps

(* An idle round relies on nothing. *)
LEMMA IdleRoundHolds ==
  ASSUME NEW r \in Rounds, round'[r] = IdleRound, tx'[r] = NoTx
  PROVE  RoundHolds(r)'
BY DEF RoundHolds, IdleRound, NoTx

(* A round that ends with nothing published. *)
LEMMA EndedRoundKeeps ==
  ASSUME IInv, NEW r \in Rounds, UNCHANGED <<callbackVars, qrVars>>,
         tx' = [tx EXCEPT ![r] = NoTx], UNCHANGED <<order, payment, ledger>>, StoreTypeOK',
         EndRound(r)
  PROVE  IInv'
<1>1. r \in Workers /\ StoreTypeOK /\ LocksProtect /\ BooksAgree
  BY SyncAssumption DEF IInv, TypeOK, BooksAgree
<1>2. LocksProtect' /\ Grows /\ BooksAgree'
  BY <1>1, RollbackLocks, SameRowsAgree
<1>3. SyncTypeOK' /\ round'[r] = IdleRound /\ \A s \in Rounds \ {r} : round'[s] = round[s]
  BY DEF IInv, TypeOK, SyncTypeOK, EndRound, IdleRound, Round, RoundPc
<1>4. OnlyRound(r) /\ tx'[r] = NoTx
  BY <1>3, RoundTxFrame
<1>5. RoundHolds(r)'
  BY <1>3, <1>4, IdleRoundHolds
<1> QED BY <1>2, <1>3, <1>4, <1>5, RoundStepKeeps

(* RoundFault keeps the invariant. *)
LEMMA RoundFaultKeeps ==
  ASSUME IInv, NEW r \in Rounds, RoundFault(r), UNCHANGED <<callbackVars, qrVars>>
  PROVE  IInv'
<1>1. StoreTypeOK'
  BY FaultType, SyncAssumption DEF IInv, TypeOK, RoundFault
<1> QED BY <1>1, EndedRoundKeeps DEF RoundFault, Fault

(* What a round's bookkeeping looks like after it moves to another place. *)
LEMMA AdvanceType ==
  ASSUME SyncTypeOK, NEW r \in Rounds, NEW pc \in RoundPc, Advance(r, pc)
  PROVE  \E c \in Round :
           /\ round' = [round EXCEPT ![r] = c] /\ round'[r] = c /\ c.pc = pc
           /\ c.ans = round[r].ans /\ c.snap = round[r].snap /\ c.final = round[r].final
<1> DEFINE c == [round[r] EXCEPT !.pc = pc]
<1>1. round[r] \in Round
  BY DEF SyncTypeOK
<1>2. /\ c \in Round /\ c.pc = pc
      /\ c.ans = round[r].ans /\ c.snap = round[r].snap /\ c.final = round[r].final
  BY <1>1 DEF Round
<1>3. round' = [round EXCEPT ![r] = c]
  BY DEF Advance
<1> HIDE DEF c
<1>4. round'[r] = c
  BY <1>3 DEF SyncTypeOK
<1> QED BY <1>2, <1>3, <1>4

(* ReadSettledOrder keeps the invariant. *)
LEMMA ReadSettledOrderKeeps ==
  ASSUME IInv, NEW r \in Rounds, ReadSettledOrder(r), UNCHANGED <<callbackVars, qrVars>>
  PROVE  IInv'
<1> DEFINE pc == IF OrderSeenBy(r) = "PAID" THEN "commit" ELSE "write"
<1>1. SyncTypeOK /\ RoundHolds(r) /\ pc \in RoundPc /\ pc \in {"commit", "write"} /\ Advance(r, pc)
      /\ round[r].pc = "readSettled" /\ UNCHANGED storeVars
  BY DEF IInv, TypeOK, ReadSettledOrder, RoundPc, At
<1> HIDE DEF pc
<1>2. PICK c \in Round :
           /\ round' = [round EXCEPT ![r] = c] /\ round'[r] = c /\ c.pc = pc
           /\ c.ans = round[r].ans /\ c.snap = round[r].snap /\ c.final = round[r].final
  BY <1>1, AdvanceType
<1>3. tx'[r] = tx[r] /\ payment' = payment
  BY <1>1 DEF storeVars
<1>4. tx[r].order = "keep" /\ tx[r].pay = "keep" /\ ~tx[r].led
  BY <1>1 DEF RoundHolds, NoTx
<1>5. RoundHolds(r)'
  BY <1>1, <1>2, <1>3, <1>4 DEF RoundHolds, MoneyArrived
<1> QED BY <1>1, <1>2, <1>5, QuietRoundKeeps

(* ReadOrder keeps the invariant. *)
LEMMA ReadOrderKeeps ==
  ASSUME IInv, NEW r \in Rounds, ReadOrder(r), UNCHANGED <<callbackVars, qrVars>>
  PROVE  IInv'
<1> DEFINE pc == IF OrderSeenBy(r) = "PAID" THEN "commit" ELSE "write"
<1>1. SyncTypeOK /\ RoundHolds(r) /\ pc \in RoundPc /\ pc \in {"commit", "write"} /\ Advance(r, pc)
      /\ round[r].pc = "readOrder" /\ UNCHANGED storeVars
  BY DEF IInv, TypeOK, ReadOrder, RoundPc, At
<1>2. tx[r].order = "keep" /\ ~tx[r].led
  BY <1>1 DEF RoundHolds
<1>3. pc = "commit" => Booked'
  BY <1>1, <1>2 DEF OrderSeenBy, IInv, PaidOrderIsBooked, MoneyArrived, Booked, storeVars
<1> HIDE DEF pc
<1>4. PICK c \in Round :
           /\ round' = [round EXCEPT ![r] = c] /\ round'[r] = c /\ c.pc = pc
           /\ c.ans = round[r].ans /\ c.snap = round[r].snap /\ c.final = round[r].final
  BY <1>1, AdvanceType
<1>5. tx'[r] = tx[r] /\ payment' = payment
  BY <1>1 DEF storeVars
<1>6. RoundHolds(r)'
  BY <1>1, <1>2, <1>3, <1>4, <1>5 DEF RoundHolds, MoneyArrived
<1> QED BY <1>1, <1>4, <1>6, QuietRoundKeeps

(* LookupLedger keeps the invariant. *)
LEMMA LookupLedgerKeeps ==
  ASSUME IInv, NEW r \in Rounds, LookupLedger(r), UNCHANGED <<callbackVars, qrVars>>
  PROVE  IInv'
<1> DEFINE pc == IF tx[r].att \in ledger THEN "commit" ELSE "insert"
<1>1. SyncTypeOK /\ RoundHolds(r) /\ pc \in RoundPc /\ pc \in {"commit", "insert"} /\ Advance(r, pc)
      /\ round[r].pc = "lookup" /\ UNCHANGED storeVars
      /\ (pc = "commit" => tx[r].att \in ledger)
  BY DEF IInv, TypeOK, LookupLedger, RoundPc, At
<1> HIDE DEF pc
<1>2. PICK c \in Round :
           /\ round' = [round EXCEPT ![r] = c] /\ round'[r] = c /\ c.pc = pc
           /\ c.ans = round[r].ans /\ c.snap = round[r].snap /\ c.final = round[r].final
  BY <1>1, AdvanceType
<1>3. tx'[r] = tx[r] /\ payment' = payment /\ ledger' = ledger
  BY <1>1 DEF storeVars
<1>4. RoundHolds(r)'
  BY <1>1, <1>2, <1>3 DEF RoundHolds, MoneyArrived
<1> QED BY <1>1, <1>2, <1>4, QuietRoundKeeps

(* queryOrder keeps the invariant. *)
LEMMA queryOrderKeeps ==
  ASSUME IInv, NEW r \in Rounds, queryOrder(r), UNCHANGED <<callbackVars, qrVars>>
  PROVE  IInv'
<1> DEFINE c == [round[r] EXCEPT !.pc = "pick", !.ans = trade]
<1>1. round[r] \in Round /\ trade \in TradeState \cup {"none"} /\ RoundHolds(r) /\ round[r].pc = "idle"
  BY DEF IInv, TypeOK, SyncTypeOK, StoreTypeOK, queryOrder, At
<1>2. c \in Round /\ c.pc = "pick"
  BY <1>1 DEF Round, RoundPc
<1>3. round' = [round EXCEPT ![r] = c] /\ UNCHANGED storeVars
  BY DEF queryOrder
<1> HIDE DEF c
<1>4. round'[r] = c /\ tx'[r] = NoTx
  BY <1>1, <1>3 DEF RoundHolds, storeVars, IInv, TypeOK, SyncTypeOK
<1>5. RoundHolds(r)'
  BY <1>2, <1>4 DEF RoundHolds, NoTx
<1> QED BY <1>2, <1>3, <1>5, QuietRoundKeeps

(* PickAttempt keeps the invariant. *)
LEMMA PickAttemptKeeps ==
  ASSUME IInv, NEW r \in Rounds, PickAttempt(r), UNCHANGED <<callbackVars, qrVars>>
  PROVE  IInv'
<1>1. round[r] \in Round /\ RoundHolds(r) /\ round[r].pc = "pick" /\ tx[r] = NoTx
  BY DEF IInv, TypeOK, SyncTypeOK, PickAttempt, At, RoundHolds
<1>2. ASSUME EndRound(r), UNCHANGED storeVars
      PROVE  IInv'
  <2>1. IdleRound \in Round
    BY DEF IdleRound, Round, RoundPc
  <2>2. round' = [round EXCEPT ![r] = IdleRound] /\ round'[r] = IdleRound /\ tx'[r] = NoTx
    BY <1>1, <1>2 DEF EndRound, storeVars, IInv, TypeOK, SyncTypeOK
  <2>3. RoundHolds(r)'
    BY <2>2, IdleRoundHolds
  <2> QED BY <1>2, <2>1, <2>2, <2>3, QuietRoundKeeps
<1>3. ASSUME NEW a \in openAttemptsOfOrder, InTx(r, [NoTx EXCEPT !.att = a]),
             round' = [round EXCEPT ![r].pc = "sum", ![r].snap = payment[a]]
      PROVE  IInv'
  <2> DEFINE t == [NoTx EXCEPT !.att = a]
             c == [round[r] EXCEPT !.pc = "sum", !.snap = payment[a]]
  <2>1. a \in Attempts /\ a \in 0..MaxAttempts /\ a # 0 /\ payment[a] \in InFlight \cup {"SUCCESS"}
    BY StoreAssumption DEF openAttemptsOfOrder, IInv, LocksProtect
  <2>2. /\ t \in Tx /\ t.att = a /\ ~t.lock /\ t.pay = "keep" /\ t.order = "keep" /\ ~t.led
        /\ t = [NoTx EXCEPT !.att = t.att]
    BY <2>1, NoTxType DEF Tx, NoTx
  <2>3. c \in Round /\ c.pc = "sum" /\ c.snap = payment[a] /\ c.ans = round[r].ans
    BY <1>1, <2>1 DEF Round, RoundPc, PaymentStatus, InFlight
  <2>4. InTx(r, t) /\ round' = [round EXCEPT ![r] = c]
    BY <1>3
  <2> HIDE DEF t, c
  <2>5. tx'[r] = t /\ round'[r] = c /\ payment' = payment
    BY <2>4, SyncAssumption DEF InTx, IInv, TypeOK, StoreTypeOK, SyncTypeOK
  <2>6. RoundHolds(r)'
    BY <2>1, <2>2, <2>3, <2>5 DEF RoundHolds
  <2> QED BY <2>1, <2>2, <2>3, <2>4, <2>6, RoundBufferKeeps
<1> QED BY <1>2, <1>3 DEF PickAttempt

(* ReadSettledRefunds keeps the invariant. *)
LEMMA ReadSettledRefundsKeeps ==
  ASSUME IInv, NEW r \in Rounds, ReadSettledRefunds(r), UNCHANGED <<callbackVars, qrVars>>
  PROVE  IInv'
<1> DEFINE m == mapTradeState(round[r].ans)
           f == resolveRefundedOrderStatus(m.order, settled, Total)
           pc == CASE round[r].snap = "SUCCESS"  -> "readSettled"
                   [] round[r].snap = "REFUNDED" -> "commit"
                   [] OTHER                      -> "cas"
           c == [round[r] EXCEPT !.final = f, !.pc = pc]
<1>1. round[r] \in Round /\ RoundHolds(r) /\ round[r].pc = "sum"
  BY DEF IInv, TypeOK, SyncTypeOK, ReadSettledRefunds, At
<1>2. f \in OrderStatus /\ (MoneyArrived(f) <=> mapTradeState(round[r].ans).payment = "SUCCESS")
  BY MappingTypes, ResolvedType
<1>3. round[r].snap \in InFlight \cup {"SUCCESS"}
  BY <1>1 DEF RoundHolds
<1>4. /\ pc \in RoundPc /\ pc \in {"readSettled", "cas"}
      /\ pc = "readSettled" <=> round[r].snap = "SUCCESS"
  BY <1>3 DEF RoundPc, InFlight
<1>5. round' = [round EXCEPT ![r] = c] /\ UNCHANGED storeVars
  BY DEF ReadSettledRefunds
<1> HIDE DEF m, f, pc
<1>6. /\ c \in Round /\ c.pc = pc /\ c.final = f
      /\ c.ans = round[r].ans /\ c.snap = round[r].snap
  BY <1>1, <1>2, <1>4 DEF Round
<1> HIDE DEF c
<1>7. round'[r] = c /\ tx'[r] = tx[r] /\ payment' = payment
  BY <1>5 DEF storeVars, IInv, TypeOK, SyncTypeOK
<1>8. RoundHolds(r)'
  BY <1>1, <1>2, <1>4, <1>6, <1>7 DEF RoundHolds
<1> QED BY <1>5, <1>6, <1>8, QuietRoundKeeps

(* CasPickedAttempt keeps the invariant. *)
LEMMA CasPickedAttemptKeeps ==
  ASSUME IInv, NEW r \in Rounds, CasPickedAttempt(r), UNCHANGED <<callbackVars, qrVars>>
  PROVE  IInv'
<1>1. /\ SyncTypeOK /\ RoundHolds(r) /\ round[r].pc = "cas" /\ r \in Workers /\ tx[r] \in Tx
      /\ PaymentFree(r, tx[r].att)
  BY SyncAssumption DEF IInv, TypeOK, StoreTypeOK, SyncTypeOK, CasPickedAttempt, At
<1>2. CASE Rollback(r) /\ EndRound(r)
  <2>1. StoreTypeOK'
    BY <1>1, <1>2, RollbackType DEF IInv, TypeOK
  <2> QED BY <1>2, <2>1, EndedRoundKeeps DEF Rollback
<1>3. ASSUME payment[tx[r].att] \in InFlight, Advance(r, "readOrder"),
             InTx(r, [tx[r] EXCEPT !.lock = TRUE, !.pay = mapTradeState(round[r].ans).payment])
      PROVE  IInv'
  <2> DEFINE p == mapTradeState(round[r].ans).payment
             t == [tx[r] EXCEPT !.lock = TRUE, !.pay = p]
  <2>1. p \in {"PROCESSING", "SUCCESS", "FAIL"}
    BY MappingTypes
  <2>2. InTx(r, t)
    BY <1>3
  <2>3. tx[r].order = "keep" /\ ~tx[r].led /\ tx[r].att # 0
    BY <1>1 DEF RoundHolds, NoTx
  <2>4. p = mapTradeState(round[r].ans).payment
    OBVIOUS
  <2> HIDE DEF p
  <2>5. /\ t \in Tx /\ t.att = tx[r].att /\ t.lock /\ t.pay = p /\ t.order = "keep" /\ ~t.led
    BY <1>1, <2>1, <2>3 DEF Tx, PaymentStatus
  <2> HIDE DEF t
  <2>6. PICK c \in Round :
           /\ round' = [round EXCEPT ![r] = c] /\ round'[r] = c /\ c.pc = "readOrder"
           /\ c.ans = round[r].ans /\ c.snap = round[r].snap /\ c.final = round[r].final
    BY <1>1, <1>3, AdvanceType DEF RoundPc
  <2>7. tx'[r] = t /\ payment' = payment
    BY <1>1, <2>2 DEF InTx, IInv, TypeOK, StoreTypeOK
  <2>8. RoundHolds(r)'
    BY <1>1, <2>3, <2>4, <2>5, <2>6, <2>7 DEF RoundHolds
  <2>9. /\ t.att # 0 /\ payment[t.att] \in InFlight
        /\ \A v \in Workers \ {r} : ~(tx[v].lock /\ tx[v].att = t.att)
    BY <1>1, <1>3, <2>3, <2>5 DEF PaymentFree
  <2> QED BY <2>1, <2>2, <2>5, <2>6, <2>8, <2>9, RoundBufferKeeps
<1> QED BY <1>2, <1>3 DEF CasPickedAttempt

(* Steps that leave the attempt of the transaction as it is. *)
LEMMA RoundWriteKeeps ==
  ASSUME IInv, NEW r \in Rounds, UNCHANGED <<callbackVars, qrVars>>, NEW t \in Tx, InTx(r, t),
         t.att = tx[r].att, t.lock = tx[r].lock, t.pay = tx[r].pay, tx[r].att # 0,
         NEW pc \in RoundPc, Advance(r, pc), RoundHolds(r)'
  PROVE  IInv'
<1>1. r \in Workers /\ SyncTypeOK
  BY SyncAssumption DEF IInv, TypeOK
<1>2. /\ tx[r].lock => payment[tx[r].att] \in InFlight
      /\ tx[r].lock => \A v \in Workers \ {r} : ~(tx[v].lock /\ tx[v].att = tx[r].att)
      /\ tx[r].pay # "keep" => tx[r].lock
      /\ tx[r].pay # "REFUNDED"
  BY <1>1 DEF IInv, LocksProtect
<1>3. PICK c \in Round : round' = [round EXCEPT ![r] = c]
  BY <1>1, AdvanceType
<1>4. /\ t.lock => /\ t.att # 0
                    /\ payment[t.att] \in InFlight
                    /\ \A v \in Workers \ {r} : ~(tx[v].lock /\ tx[v].att = t.att)
      /\ t.pay # "keep" => t.lock
      /\ t.pay # "REFUNDED"
      /\ t.led => t.att # 0
  BY <1>2
<1> QED BY <1>3, <1>4, RoundBufferKeeps

(* WriteOrder keeps the invariant. *)
LEMMA WriteOrderKeeps ==
  ASSUME IInv, NEW r \in Rounds, WriteOrder(r), UNCHANGED <<callbackVars, qrVars>>
  PROVE  IInv'
<1> DEFINE t == [tx[r] EXCEPT !.order = round[r].final]
           pc == IF MoneyArrived(round[r].final) THEN "lookup" ELSE "commit"
<1>1. /\ SyncTypeOK /\ RoundHolds(r) /\ round[r].pc = "write" /\ r \in Workers /\ tx[r] \in Tx
      /\ InTx(r, t) /\ Advance(r, pc) /\ pc \in RoundPc
  BY SyncAssumption DEF IInv, TypeOK, StoreTypeOK, SyncTypeOK, WriteOrder, At, RoundPc
<1>2. round[r].final \in OrderStatus /\ tx[r].att # 0 /\ ~tx[r].led
  BY <1>1 DEF RoundHolds
<1>3. /\ t \in Tx /\ t.att = tx[r].att /\ t.lock = tx[r].lock /\ t.pay = tx[r].pay
      /\ t.order = round[r].final /\ ~t.led
  BY <1>1, <1>2 DEF Tx
<1>4. /\ pc \in {"lookup", "commit"}
      /\ pc = "lookup" <=> MoneyArrived(round[r].final)
      /\ round[r].final # "keep"
  BY <1>2 DEF OrderStatus
<1> HIDE DEF t, pc
<1>5. PICK c \in Round :
           /\ round' = [round EXCEPT ![r] = c] /\ round'[r] = c /\ c.pc = pc
           /\ c.ans = round[r].ans /\ c.snap = round[r].snap /\ c.final = round[r].final
  BY <1>1, AdvanceType
<1>6. tx'[r] = t /\ payment' = payment
  BY <1>1 DEF InTx, IInv, TypeOK, StoreTypeOK
<1>7. RoundHolds(r)'
  BY <1>1, <1>2, <1>3, <1>4, <1>5, <1>6 DEF RoundHolds
<1> QED BY <1>1, <1>2, <1>3, <1>7, RoundWriteKeeps

(* InsertLedgerEntry keeps the invariant. *)
LEMMA InsertLedgerEntryKeeps ==
  ASSUME IInv, NEW r \in Rounds, InsertLedgerEntry(r), UNCHANGED <<callbackVars, qrVars>>
  PROVE  IInv'
<1> DEFINE l == tx[r].att \notin ledger
           x == tx[r].att \in ledger
           t == [tx[r] EXCEPT !.led = l, !.dead = x]
<1>1. /\ SyncTypeOK /\ RoundHolds(r) /\ round[r].pc = "insert" /\ r \in Workers /\ tx[r] \in Tx
      /\ InTx(r, t) /\ Advance(r, "commit") /\ "commit" \in RoundPc
  BY SyncAssumption
     DEF IInv, TypeOK, StoreTypeOK, SyncTypeOK, InsertLedgerEntry, At, RoundPc
<1>2. /\ t \in Tx /\ t.att = tx[r].att /\ t.lock = tx[r].lock /\ t.pay = tx[r].pay
      /\ t.order = tx[r].order /\ (t.led \/ t.dead)
  <2>1. l \in BOOLEAN /\ x \in BOOLEAN /\ (l \/ x)
    OBVIOUS
  <2>2. tx[r] \in Tx
    BY <1>1
  <2> HIDE DEF l, x
  <2> QED BY <2>1, <2>2 DEF Tx
<1> HIDE DEF t
<1>3. PICK c \in Round :
           /\ round' = [round EXCEPT ![r] = c] /\ round'[r] = c /\ c.pc = "commit"
           /\ c.ans = round[r].ans /\ c.snap = round[r].snap /\ c.final = round[r].final
  BY <1>1, AdvanceType
<1>4. tx'[r] = t /\ payment' = payment /\ tx[r].att # 0
  BY <1>1 DEF InTx, IInv, TypeOK, StoreTypeOK, RoundHolds
<1>5. RoundHolds(r)'
  BY <1>1, <1>2, <1>3, <1>4 DEF RoundHolds, MoneyArrived
<1> QED BY <1>1, <1>2, <1>4, <1>5, RoundWriteKeeps

(* CommitRound keeps the invariant. *)
LEMMA CommitRoundKeeps ==
  ASSUME IInv, NEW r \in Rounds, CommitRound(r), UNCHANGED <<callbackVars, qrVars>>
  PROVE  IInv'
<1>1. /\ RoundHolds(r) /\ round[r].pc = "commit" /\ r \in Workers /\ faults \in 0..MaxFaults
      /\ Publish(r) /\ UNCHANGED <<settled, trade, exact, faults>> /\ EndRound(r)
  BY SyncAssumption DEF IInv, TypeOK, StoreTypeOK, CommitRound, Commit, At
<1>2. StoreTypeOK /\ LocksProtect /\ BooksAgree
  BY DEF IInv, TypeOK, BooksAgree
<1>3. StoreTypeOK'
  BY <1>1, <1>2, CommitType
<1>4. LocksProtect' /\ Grows
  BY <1>1, <1>2, CommitLocks
<1>5. /\ tx[r].led => tx[r].pay = "SUCCESS" \/ (tx[r].pay = "keep" /\ payment[tx[r].att] = "SUCCESS")
      /\ ~tx[r].dead /\ MoneyArrived(tx[r].order) => tx[r].led \/ tx[r].att \in ledger
      /\ ~tx[r].dead /\ tx[r].pay = "SUCCESS" => tx[r].led \/ tx[r].att \in ledger \/ Booked
  BY <1>1 DEF RoundHolds
<1>6. BooksAgree'
  BY <1>1, <1>2, <1>5, CommitAgrees
<1>7. SyncTypeOK' /\ round'[r] = IdleRound /\ \A s \in Rounds \ {r} : round'[s] = round[s]
  BY <1>1 DEF IInv, TypeOK, SyncTypeOK, EndRound, IdleRound, Round, RoundPc
<1>8. OnlyRound(r) /\ tx'[r] = NoTx
  BY <1>1, <1>7, RoundTxFrame DEF Publish
<1>9. RoundHolds(r)'
  BY <1>7, <1>8, IdleRoundHolds
<1> QED BY <1>3, <1>4, <1>6, <1>7, <1>8, <1>9, RoundStepKeeps

----------------------------------------------------------------------------
(* Steps of a QR request, of the channel and of the refund service *)

(* Whoever keeps the books and leaves the handlers alone keeps the invariant. *)
LEMMA OthersKeep ==
  ASSUME IInv, StoreInv', Grows, QRTypeOK', UNCHANGED <<tx, callbackVars, round>>
  PROVE  IInv'
<1>1. CallbackTypeOK' /\ SyncTypeOK'
  BY DEF IInv, TypeOK, CallbackTypeOK, SyncTypeOK, callbackVars
<1>2. \A d \in Deliveries : DeliveryHolds(d)'
  BY DeliveryFrame DEF IInv, TypeOK, callbackVars
<1>3. \A r \in Rounds : RoundHolds(r)'
  BY RoundFrame DEF IInv, TypeOK
<1>4. ProofsAgree'
  BY <1>1, SameProofsAgree DEF callbackVars
<1> QED BY <1>1, <1>2, <1>3, <1>4 DEF IInv, TypeOK, StoreInv, BooksAgree, ProofsAgree

----------------------------------------------------------------------------
(* A restart forgets transactions and keeps the rows. *)
LEMMA RestartKeeps ==
  ASSUME IInv, Restart
  PROVE  IInv'
<1>1. /\ \A w \in Workers : tx'[w] = NoTx
      /\ \A d \in Deliveries : tx'[d] = NoTx /\ cpc'[d] = "idle"
      /\ \A r \in Rounds : tx'[r] = NoTx /\ round'[r] = IdleRound
  BY CallbackAssumption, SyncAssumption DEF Restart
<1>2. StoreTypeOK'
  BY NoTxType, StoreAssumption DEF IInv, TypeOK, StoreTypeOK, Restart
<1>3. CallbackTypeOK' /\ SyncTypeOK' /\ QRTypeOK'
  BY DEF IInv, TypeOK, CallbackTypeOK, SyncTypeOK, QRTypeOK, Restart, DeliveryPc, RequestPc,
         IdleRound, Round, RoundPc
<1>4. LocksProtect'
  BY <1>1 DEF IInv, LocksProtect, NoTx, Restart
<1>5. Grows
  BY DEF Grows, Restart
<1>6. BooksAgree'
  BY SameRowsAgree DEF IInv, BooksAgree, Restart
<1>7. \A d \in Deliveries : DeliveryHolds(d)'
  BY <1>1 DEF DeliveryHolds
<1>8. \A r \in Rounds : RoundHolds(r)'
  BY <1>1, IdleRoundHolds
<1>9. ProofsAgree'
  BY <1>3, <1>5, SameProofsAgree DEF Restart
<1> QED BY <1>2, <1>3, <1>4, <1>6, <1>7, <1>8, <1>9 DEF IInv, TypeOK, BooksAgree, ProofsAgree

(* The first states satisfy the invariant. *)
LEMMA InitIInv ==
  ASSUME Init
  PROVE  IInv
<1>1. StoreTypeOK
  BY NoTxType, StoreAssumption DEF Init, StoreInit, StoreTypeOK
<1>2. CallbackTypeOK /\ SyncTypeOK /\ QRTypeOK
  BY StoreAssumption
     DEF Init, CallbackInit, SyncInit, QRInit, CallbackTypeOK, SyncTypeOK, QRTypeOK, NoRes,
         Reservation, DeliveryPc, RequestPc, IdleRound, Round, RoundPc
<1>3. LocksProtect
  BY DEF Init, StoreInit, LocksProtect, NoTx
<1>4. \A d \in Deliveries : DeliveryHolds(d)
  BY CallbackAssumption DEF Init, StoreInit, CallbackInit, DeliveryHolds
<1>5. \A r \in Rounds : RoundHolds(r)
  BY SyncAssumption DEF Init, StoreInit, SyncInit, RoundHolds, IdleRound, NoTx
<1>6. LedgerOnlyForSettled /\ PaidOrderIsBooked /\ SettledMeansBooked
  BY DEF Init, StoreInit, LedgerOnlyForSettled, PaidOrderIsBooked, SettledMeansBooked, MoneyArrived
<1>7. StampedMoneyIsBooked /\ AckedMoneyIsBooked
  BY DEF Init, CallbackInit, StampedMoneyIsBooked, AckedMoneyIsBooked, NoRes
<1> QED BY <1>1, <1>2, <1>3, <1>4, <1>5, <1>6, <1>7 DEF IInv, TypeOK

(* Every step keeps the invariant. *)
LEMMA NextKeeps ==
  ASSUME IInv, [Next]_vars
  PROVE  IInv'
<1>1. CASE StoreNext /\ UNCHANGED <<callbackVars, round, qrVars>>
  <2>1. StoreInv /\ QRTypeOK'
    BY <1>1 DEF IInv, TypeOK, StoreInv, BooksAgree, QRTypeOK, qrVars
  <2> QED BY <1>1, <2>1, StoreNextKeepsStore, OthersKeep DEF StoreKept
<1>2. CASE CallbackNext /\ UNCHANGED <<round, qrVars>>
  <2>1. CASE ChannelNotifies
    BY <1>2, <2>1, ChannelNotifiesKeeps
  <2>2. ASSUME NEW n \in Notices, purgeExpired(n)
        PROVE  IInv'
    BY <1>2, <2>2, purgeExpiredKeeps
  <2>3. ASSUME NEW d \in Deliveries, NEW n \in Notices, handlePaymentCallback(d, n)
        PROVE  IInv'
    BY <1>2, <2>3, handlePaymentCallbackKeeps
  <2>4. ASSUME NEW d \in Deliveries, DeliveryStep(d)
        PROVE  IInv'
    BY <1>2, <2>4, LookupReservationKeeps, dropUnfinalizedReservationKeeps, AuditDuplicateKeeps,
       ReserveKeyKeeps, LockLatestAttemptKeeps, CasAttemptKeeps, UpdateOrderKeeps,
       InsertLedgerKeeps, FinalizeInTxKeeps, CommitBookingKeeps, CommitPlainKeeps,
       StampAfterCommitKeeps DEF DeliveryStep
  <2>5. ASSUME NEW d \in Deliveries, DeliveryFault(d) \/ CommitAnswerLost(d)
        PROVE  IInv'
    BY <1>2, <2>5, DeliveryFaultKeeps, CommitAnswerLostKeeps
  <2> QED BY <1>2, <2>1, <2>2, <2>3, <2>4, <2>5 DEF CallbackNext
<1>3. CASE SyncNext /\ UNCHANGED <<callbackVars, qrVars>>
  <2>1. ASSUME NEW r \in Rounds, RoundStep(r)
        PROVE  IInv'
    BY <1>3, <2>1, PickAttemptKeeps, ReadSettledRefundsKeeps, ReadSettledOrderKeeps,
       CasPickedAttemptKeeps, ReadOrderKeeps, WriteOrderKeeps, LookupLedgerKeeps,
       InsertLedgerEntryKeeps, CommitRoundKeeps DEF RoundStep
  <2>2. ASSUME NEW r \in Rounds, queryOrder(r) \/ RoundFault(r)
        PROVE  IInv'
    BY <1>3, <2>2, queryOrderKeeps, RoundFaultKeeps
  <2> QED BY <1>3, <2>1, <2>2 DEF SyncNext
<1>4. CASE QRNext /\ UNCHANGED <<callbackVars, round>>
  <2>1. StoreInv /\ QRTypeOK
    BY DEF IInv, TypeOK, StoreInv, BooksAgree
  <2> QED BY <1>4, <2>1, RequestKeepsStore, OthersKeep DEF StoreKept
<1>5. CASE Restart
  BY <1>5, RestartKeeps
<1>6. CASE UNCHANGED vars
  <2>1. StoreTypeOK' /\ CallbackTypeOK'
    BY <1>6 DEF IInv, TypeOK, StoreTypeOK, CallbackTypeOK, vars, storeVars, callbackVars
  <2> QED BY <1>6, <2>1, QuietKeeps DEF vars, storeVars, callbackVars
<1> QED BY <1>1, <1>2, <1>3, <1>4, <1>5, <1>6 DEF Next

(* No step takes a settled attempt or a ledger entry back. *)
LEMMA NextGrows ==
  ASSUME IInv, [Next]_vars
  PROVE  Grows
<1>0. /\ StoreTypeOK /\ LocksProtect /\ StoreInv /\ QRTypeOK
      /\ Deliveries \subseteq Workers /\ Rounds \subseteq Workers
  BY CallbackAssumption, SyncAssumption DEF IInv, TypeOK, StoreInv, BooksAgree
<1>1. CASE UNCHANGED <<payment, ledger>>
  BY <1>1 DEF Grows
<1>2. ASSUME NEW w \in Workers, Publish(w)
      PROVE  Grows
  BY <1>0, <1>2, CommitLocks
<1>3. CASE StoreNext
  BY <1>0, <1>3, StoreNextKeepsStore DEF StoreKept
<1>4. CASE CallbackNext
  <2>1. ASSUME NEW d \in Deliveries, CommitBooking(d) \/ CommitPlain(d) \/ CommitAnswerLost(d)
        PROVE  Grows
    BY <1>0, <1>2, <2>1 DEF CommitBooking, CommitPlain, CommitAnswerLost, Commit
  <2>2. ASSUME NEW d \in Deliveries,
               LockLatestAttempt(d) \/ CasAttempt(d) \/ UpdateOrder(d) \/ InsertLedger(d)
                 \/ FinalizeInTx(d) \/ DeliveryFault(d)
        PROVE  Grows
    BY <1>1, <2>2
    DEF LockLatestAttempt, AmountAgrees, CasAttempt, LostRace, UpdateOrder, InsertLedger,
        FinalizeInTx, DeliveryFault, InTx, Rollback, Fault
  <2>3. ASSUME UNCHANGED storeVars
        PROVE  Grows
    BY <1>1, <2>3 DEF storeVars
  <2> QED BY <1>4, <2>1, <2>2, <2>3
          DEF CallbackNext, DeliveryStep, ChannelNotifies, purgeExpired, handlePaymentCallback,
              LookupReservation, dropUnfinalizedReservation, AuditDuplicate, ReserveKey,
              StampAfterCommit
<1>5. CASE SyncNext
  <2>1. ASSUME NEW r \in Rounds, CommitRound(r)
        PROVE  Grows
    BY <1>0, <1>2, <2>1 DEF CommitRound, Commit
  <2>2. ASSUME NEW r \in Rounds,
               queryOrder(r) \/ PickAttempt(r) \/ ReadSettledRefunds(r) \/ ReadSettledOrder(r)
                 \/ CasPickedAttempt(r) \/ ReadOrder(r) \/ WriteOrder(r) \/ LookupLedger(r)
                 \/ InsertLedgerEntry(r) \/ RoundFault(r)
        PROVE  Grows
    <3>1. UNCHANGED <<payment, ledger>>
      BY <2>2 DEF queryOrder, PickAttempt, ReadSettledRefunds, ReadSettledOrder, CasPickedAttempt,
                  ReadOrder, WriteOrder, LookupLedger, InsertLedgerEntry, RoundFault,
                  InTx, Rollback, Fault, storeVars
    <3> QED BY <1>1, <3>1
  <2> QED BY <1>5, <2>1, <2>2 DEF SyncNext, RoundStep
<1>6. CASE QRNext
  BY <1>0, <1>6, RequestKeepsStore DEF StoreKept
<1>7. CASE Restart
  BY <1>1, <1>7 DEF Restart
<1>8. CASE UNCHANGED vars
  BY <1>1, <1>8 DEF vars, storeVars
<1> QED BY <1>3, <1>4, <1>5, <1>6, <1>7, <1>8 DEF Next

----------------------------------------------------------------------------
(* Amounts and refund claims *)

(* The rows and the buffers hold no money. *)
NoMoneyAnywhere ==
  /\ ledger = {} /\ ~MoneyArrived(order)
  /\ \A w \in Workers : ~tx[w].led /\ ~MoneyArrived(tx[w].order)

(* Buffering anything but money, publishing such buffers, and dropping them
   leave the rows without money. *)
LEMMA NoMoneyStays ==
  ASSUME IInv, NoMoneyAnywhere, NEW w \in Workers,
         \/ \E t \in Tx : InTx(w, t) /\ ~t.led /\ ~MoneyArrived(t.order)
         \/ Publish(w) \/ Rollback(w) \/ Fault(w)
  PROVE  NoMoneyAnywhere'
<1>0. tx \in [Workers -> Tx] /\ ~NoTx.led /\ ~MoneyArrived(NoTx.order)
  BY DEF IInv, TypeOK, StoreTypeOK, NoTx, MoneyArrived
<1>1. CASE \E t \in Tx : InTx(w, t) /\ ~t.led /\ ~MoneyArrived(t.order)
  BY <1>0, <1>1 DEF NoMoneyAnywhere, InTx
<1>2. CASE Publish(w)
  BY <1>0, <1>2 DEF NoMoneyAnywhere, Publish
<1>3. CASE Rollback(w) \/ Fault(w)
  BY <1>0, <1>3 DEF NoMoneyAnywhere, Rollback, Fault
<1> QED BY <1>1, <1>2, <1>3

(* A delivery of another amount turns back at its lock. *)
LEMMA DeliveryDropsInexact ==
  ASSUME IInv, InexactMoneyIsDropped, ~exact, NEW d \in Deliveries,
         \/ \E n \in Notices : handlePaymentCallback(d, n)
         \/ DeliveryStep(d) \/ DeliveryFault(d) \/ CommitAnswerLost(d)
  PROVE  /\ NoMoneyAnywhere' /\ ~exact'
         /\ \A e \in Deliveries :
              cpc'[e] \in {"idle", "lookup", "drop", "audit", "reserve", "lock", "stamp"}
<1> DEFINE Early == {"idle", "lookup", "drop", "audit", "reserve", "lock", "stamp"}
<1>0. d \in Workers /\ cpc[d] \in Early /\ NoMoneyAnywhere /\ cpc \in [Deliveries -> DeliveryPc]
  BY CallbackAssumption DEF InexactMoneyIsDropped, NoMoneyAnywhere, IInv, TypeOK, CallbackTypeOK
<1>1. CASE \/ \E n \in Notices : handlePaymentCallback(d, n)
           \/ LookupReservation(d) \/ dropUnfinalizedReservation(d) \/ AuditDuplicate(d)
           \/ ReserveKey(d) \/ StampAfterCommit(d)
  <2>1. UNCHANGED storeVars
    BY <1>1 DEF handlePaymentCallback, LookupReservation, dropUnfinalizedReservation,
                AuditDuplicate, ReserveKey, StampAfterCommit
  <2>2. \E pc \in Early : Goto(d, pc)
    BY <1>1 DEF handlePaymentCallback, LookupReservation, dropUnfinalizedReservation,
                AuditDuplicate, ReserveKey, StampAfterCommit, Ack, Fail
  <2> QED BY <1>0, <2>1, <2>2 DEF storeVars, NoMoneyAnywhere, Goto, InexactMoneyIsDropped
<1>2. CASE LockLatestAttempt(d)
  <2>1. Rollback(d) /\ Goto(d, "idle")
    BY <1>2 DEF LockLatestAttempt, AmountAgrees, Ack, Fail
  <2> QED BY <1>0, <2>1, NoMoneyStays DEF Goto, InexactMoneyIsDropped, Rollback
<1>3. CASE DeliveryFault(d)
  <2>1. Fault(d) /\ Goto(d, "idle")
    BY <1>3 DEF DeliveryFault, Ack, Fail
  <2> QED BY <1>0, <2>1, NoMoneyStays DEF Goto, InexactMoneyIsDropped, Fault
<1> QED BY <1>0, <1>1, <1>2, <1>3
        DEF DeliveryStep, CasAttempt, UpdateOrder, InsertLedger, FinalizeInTx, CommitBooking,
            CommitPlain, CommitAnswerLost

(* A round that passed its pick carries no claim of money. *)
LEMMA RoundDropsInexact ==
  ASSUME IInv, InexactMoneyIsDropped, ~exact, NEW r \in Rounds,
         queryOrder(r) \/ RoundStep(r) \/ RoundFault(r)
  PROVE  /\ NoMoneyAnywhere' /\ ~exact'
         /\ \A s \in Rounds : round'[s].pc \notin {"idle", "pick"} =>
              ~MoneyArrived(mapTradeState(round'[s].ans).order)
<1>0. /\ r \in Workers /\ NoMoneyAnywhere
      /\ round \in [Rounds -> Round] /\ tx[r] \in Tx /\ round[r] \in Round
      /\ \A s \in Rounds : round[s].pc \notin {"idle", "pick"} =>
           ~MoneyArrived(mapTradeState(round[s].ans).order)
  BY SyncAssumption
     DEF InexactMoneyIsDropped, NoMoneyAnywhere, IInv, TypeOK, SyncTypeOK, StoreTypeOK
<1>1. CASE queryOrder(r)
  BY <1>0, <1>1 DEF queryOrder, storeVars, NoMoneyAnywhere, Round
<1>2. CASE PickAttempt(r)
  <2>1. CASE EndRound(r) /\ UNCHANGED storeVars
    BY <1>0, <2>1 DEF EndRound, IdleRound, storeVars, NoMoneyAnywhere
  <2>2. CASE \E a \in openAttemptsOfOrder :
               /\ ~MoneyArrived(mapTradeState(round[r].ans).order)
               /\ round' = [round EXCEPT ![r].pc = "sum", ![r].snap = payment[a]]
               /\ InTx(r, [NoTx EXCEPT !.att = a])
    <3>1. PICK a \in Attempts :
            /\ ~MoneyArrived(mapTradeState(round[r].ans).order)
            /\ round' = [round EXCEPT ![r].pc = "sum", ![r].snap = payment[a]]
            /\ InTx(r, [NoTx EXCEPT !.att = a])
      BY <2>2 DEF openAttemptsOfOrder
    <3> DEFINE t == [NoTx EXCEPT !.att = a]
    <3>2. t \in Tx
      BY NoTxType, StoreAssumption DEF Tx
    <3>3. ~t.led /\ ~MoneyArrived(t.order)
      BY DEF NoTx, MoneyArrived
    <3>4. InTx(r, t)
      BY <3>1
    <3> HIDE DEF t
    <3>5. NoMoneyAnywhere' /\ ~exact'
      BY <1>0, <3>2, <3>3, <3>4, NoMoneyStays DEF InTx
    <3> QED BY <1>0, <3>1, <3>5 DEF Round
  <2> QED BY <1>2, <2>1, <2>2 DEF PickAttempt
<1>3. CASE ReadSettledRefunds(r) \/ ReadSettledOrder(r) \/ ReadOrder(r) \/ LookupLedger(r)
  <2>1. UNCHANGED storeVars /\ round[r].pc \notin {"idle", "pick"}
    BY <1>3 DEF ReadSettledRefunds, ReadSettledOrder, ReadOrder, LookupLedger, At
  <2>2. \A s \in Rounds : round'[s].ans = round[s].ans
    BY <1>0, <1>3 DEF ReadSettledRefunds, ReadSettledOrder, ReadOrder, LookupLedger, Advance, Round
  <2>3. \A s \in Rounds : s # r => round'[s] = round[s]
    BY <1>0, <1>3 DEF ReadSettledRefunds, ReadSettledOrder, ReadOrder, LookupLedger, Advance
  <2> QED BY <1>0, <2>1, <2>2, <2>3 DEF storeVars, NoMoneyAnywhere
<1>4. CASE CommitRound(r) \/ RoundFault(r) \/ (Rollback(r) /\ EndRound(r))
  <2>1. NoMoneyAnywhere' /\ ~exact'
    BY <1>0, <1>4, NoMoneyStays DEF CommitRound, RoundFault, Commit, Fault, Rollback
  <2>2. EndRound(r)
    BY <1>4 DEF CommitRound, RoundFault
  <2> QED BY <1>0, <2>1, <2>2 DEF EndRound, IdleRound
<1>5. ASSUME NEW t \in Tx, NEW pc, InTx(r, t), ~t.led, ~MoneyArrived(t.order), Advance(r, pc),
             round[r].pc \notin {"idle", "pick"}
      PROVE  /\ NoMoneyAnywhere' /\ ~exact'
             /\ \A s \in Rounds : round'[s].pc \notin {"idle", "pick"} =>
                  ~MoneyArrived(mapTradeState(round'[s].ans).order)
  <2>1. NoMoneyAnywhere' /\ ~exact'
    BY <1>0, <1>5, NoMoneyStays DEF InTx
  <2>2. \A s \in Rounds : /\ round'[s].ans = round[s].ans
                          /\ s # r => round'[s] = round[s]
    BY <1>0, <1>5 DEF Advance, Round
  <2> QED BY <1>0, <1>5, <2>1, <2>2
<1>6. ~tx[r].led /\ ~MoneyArrived(tx[r].order)
  BY <1>0 DEF NoMoneyAnywhere
<1>7. CASE CasPickedAttempt(r)
  <2> DEFINE t == [tx[r] EXCEPT !.lock = TRUE, !.pay = mapTradeState(round[r].ans).payment]
  <2>1. t \in Tx /\ ~t.led /\ ~MoneyArrived(t.order)
    BY <1>0, <1>6, MappingTypes DEF Tx, PaymentStatus
  <2>2. CASE InTx(r, t) /\ Advance(r, "readOrder")
    <3> HIDE DEF t
    <3> QED BY <1>5, <1>7, <2>1, <2>2 DEF CasPickedAttempt, At
  <2> QED BY <1>4, <1>7, <2>2 DEF CasPickedAttempt
<1>8. CASE WriteOrder(r)
  <2> DEFINE t == [tx[r] EXCEPT !.order = round[r].final]
  <2>1. RoundHolds(r) /\ round[r].pc = "write"
    BY <1>8 DEF IInv, WriteOrder, At
  <2>2. round[r].final \in OrderStatus /\ ~MoneyArrived(round[r].final)
    BY <1>0, <2>1, MappingTypes DEF RoundHolds
  <2>3. t \in Tx /\ ~t.led /\ ~MoneyArrived(t.order)
    BY <1>0, <1>6, <2>2 DEF Tx
  <2>4. InTx(r, t)
    BY <1>8 DEF WriteOrder
  <2>5. Advance(r, "commit")
    BY <1>8, <2>2 DEF WriteOrder
  <2> HIDE DEF t
  <2> QED BY <1>5, <2>1, <2>3, <2>4, <2>5
<1>9. CASE InsertLedgerEntry(r)
  <2>1. RoundHolds(r) /\ round[r].pc = "insert"
    BY <1>9 DEF IInv, InsertLedgerEntry, At
  <2> QED BY <1>0, <2>1, MappingTypes DEF RoundHolds
<1> QED BY <1>1, <1>2, <1>3, <1>4, <1>7, <1>8, <1>9 DEF RoundStep

(* Money of another amount is dropped by every step. *)
LEMMA InexactMoneyStaysDropped ==
  ASSUME IInv, InexactMoneyIsDropped, [Next]_vars
  PROVE  InexactMoneyIsDropped'
<1>0. SUFFICES ASSUME ~exact \/ ~exact'
              PROVE  InexactMoneyIsDropped'
  BY DEF InexactMoneyIsDropped
<1>1. CASE UNCHANGED vars
  <2>1. UNCHANGED <<exact, ledger, order, tx, cpc, round>>
    BY <1>1 DEF vars, storeVars, callbackVars
  <2> QED BY <2>1 DEF InexactMoneyIsDropped
<1>2. exact' = exact
  BY <1>1 DEF Next, StoreNext, ChannelMoves, RefundSettles, RefundClosesOrder,
         CallbackNext, ChannelNotifies, purgeExpired, handlePaymentCallback, DeliveryStep,
         DeliveryFault, CommitAnswerLost, LookupReservation, dropUnfinalizedReservation,
         AuditDuplicate, ReserveKey, LockLatestAttempt, CasAttempt, LostRace, UpdateOrder,
         InsertLedger, FinalizeInTx, CommitBooking, CommitPlain, StampAfterCommit,
         SyncNext, queryOrder, RoundStep, RoundFault, PickAttempt, ReadSettledRefunds,
         ReadSettledOrder, CasPickedAttempt, ReadOrder, WriteOrder, LookupLedger,
         InsertLedgerEntry, CommitRound, QRNext, RequestStep, RequestFault, ProbeOrder,
         insertQrOrder, refuseIfAlreadySettled, bookQrPayment, offerQrChannel, PromotePayment,
         PromoteOrder, markQrPaymentFailed, Restart, InTx, Commit, Rollback, Fault, storeVars,
         vars
<1>3. ~exact
  BY <1>0, <1>2
<1>4. CASE StoreNext /\ UNCHANGED <<callbackVars, round, qrVars>>
  BY <1>3, <1>4 DEF StoreNext, ChannelMoves, RefundSettles, RefundClosesOrder, callbackVars,
                   InexactMoneyIsDropped, MoneyArrived
<1>5. CASE CallbackNext /\ UNCHANGED <<round, qrVars>>
  <2>1. CASE ChannelNotifies \/ \E n \in Notices : purgeExpired(n)
    BY <1>5, <2>1 DEF ChannelNotifies, purgeExpired, storeVars, InexactMoneyIsDropped
  <2>2. ASSUME NEW d \in Deliveries,
               \/ \E n \in Notices : handlePaymentCallback(d, n)
               \/ DeliveryStep(d) \/ DeliveryFault(d) \/ CommitAnswerLost(d)
        PROVE  InexactMoneyIsDropped'
    BY <1>3, <1>5, <2>2, DeliveryDropsInexact DEF InexactMoneyIsDropped, NoMoneyAnywhere
  <2> QED BY <1>5, <2>1, <2>2 DEF CallbackNext
<1>6. CASE SyncNext /\ UNCHANGED <<callbackVars, qrVars>>
  <2>1. ASSUME NEW r \in Rounds, queryOrder(r) \/ RoundStep(r) \/ RoundFault(r)
        PROVE  InexactMoneyIsDropped'
    BY <1>3, <1>6, <2>1, RoundDropsInexact
       DEF InexactMoneyIsDropped, NoMoneyAnywhere, callbackVars
  <2> QED BY <1>6, <2>1 DEF SyncNext
<1>7. CASE QRNext /\ UNCHANGED <<callbackVars, round>>
  <2>1. UNCHANGED <<ledger, tx>> /\ order' \in {order, "CREATED", "PAYING"}
    BY <1>7 DEF QRNext, RequestStep, RequestFault, ProbeOrder, insertQrOrder,
                refuseIfAlreadySettled, bookQrPayment, offerQrChannel, PromotePayment,
                PromoteOrder, markQrPaymentFailed, storeVars
  <2> QED BY <1>2, <1>3, <1>7, <2>1 DEF InexactMoneyIsDropped, MoneyArrived, callbackVars
<1>8. CASE Restart
  BY <1>3, <1>8 DEF Restart, InexactMoneyIsDropped, NoTx, MoneyArrived, IdleRound
<1> QED BY <1>1, <1>4, <1>5, <1>6, <1>7, <1>8 DEF Next

(* Nobody holds or has written an unweighed REFUNDED. *)
NoRefundedRows ==
  /\ order # "REFUNDED"
  /\ \A w \in Workers : tx[w].order # "REFUNDED"

(* Buffering, publishing and dropping anything but REFUNDED writes none. *)
LEMMA NoRefundedStays ==
  ASSUME IInv, NoRefundedRows, NEW w \in Workers,
         \/ \E t \in Tx : InTx(w, t) /\ t.order # "REFUNDED"
         \/ Publish(w) \/ Rollback(w) \/ Fault(w)
  PROVE  NoRefundedRows'
<1>0. tx \in [Workers -> Tx] /\ NoTx.order # "REFUNDED"
  BY DEF IInv, TypeOK, StoreTypeOK, NoTx
<1>1. CASE \E t \in Tx : InTx(w, t) /\ t.order # "REFUNDED"
  BY <1>0, <1>1 DEF NoRefundedRows, InTx
<1>2. CASE Publish(w)
  BY <1>0, <1>2 DEF NoRefundedRows, Publish
<1>3. CASE Rollback(w) \/ Fault(w)
  BY <1>0, <1>3 DEF NoRefundedRows, Rollback, Fault
<1> QED BY <1>1, <1>2, <1>3

(* An uncovered claim resolves to PAID. *)
LEMMA UncoveredResolves ==
  ASSUME ~refundsCoverOrderAmount(settled, Total), NEW st
  PROVE  resolveRefundedOrderStatus(st, settled, Total) # "REFUNDED"
BY DEF resolveRefundedOrderStatus

(* A delivery weighs the claim before it writes the order. *)
LEMMA DeliveryWeighsClaim ==
  ASSUME IInv, NoRefundedRows, \A e \in Deliveries : verdict[e] # "REFUNDED",
         ~refundsCoverOrderAmount(settled, Total), NEW d \in Deliveries,
         \/ \E n \in Notices : handlePaymentCallback(d, n)
         \/ DeliveryStep(d) \/ DeliveryFault(d) \/ CommitAnswerLost(d)
  PROVE  NoRefundedRows' /\ \A e \in Deliveries : verdict'[e] # "REFUNDED"
<1>0. /\ d \in Workers /\ tx[d] \in Tx /\ DeliveryHolds(d)
      /\ verdict \in [Deliveries -> OrderStatus \cup {"none"}] /\ tx[d].order # "REFUNDED"
  BY CallbackAssumption DEF IInv, TypeOK, StoreTypeOK, CallbackTypeOK, NoRefundedRows
<1>1. CASE UNCHANGED storeVars
  <2>1. verdict' = verdict \/ verdict' = [verdict EXCEPT ![d] = "none"]
           \/ \E st : verdict' = [verdict EXCEPT ![d] = resolveRefundedOrderStatus(st, settled, Total)]
    BY DEF handlePaymentCallback, DeliveryStep, DeliveryFault, CommitAnswerLost,
           LookupReservation, dropUnfinalizedReservation, AuditDuplicate, ReserveKey,
           LockLatestAttempt, CasAttempt, LostRace, UpdateOrder, InsertLedger, FinalizeInTx,
           CommitBooking, CommitPlain, StampAfterCommit
  <2> QED BY <1>0, <1>1, <2>1, UncoveredResolves DEF storeVars, NoRefundedRows
<1>2. CASE Publish(d) \/ Rollback(d) \/ Fault(d)
  <2>1. NoRefundedRows'
    BY <1>0, <1>2, NoRefundedStays
  <2>2. verdict' = verdict \/ verdict' = [verdict EXCEPT ![d] = "none"]
           \/ \E st : verdict' = [verdict EXCEPT ![d] = resolveRefundedOrderStatus(st, settled, Total)]
    BY DEF handlePaymentCallback, DeliveryStep, DeliveryFault, CommitAnswerLost,
           LookupReservation, dropUnfinalizedReservation, AuditDuplicate, ReserveKey,
           LockLatestAttempt, CasAttempt, LostRace, UpdateOrder, InsertLedger, FinalizeInTx,
           CommitBooking, CommitPlain, StampAfterCommit
  <2> QED BY <1>0, <2>1, <2>2, UncoveredResolves
<1>3. ASSUME NEW t \in Tx, InTx(d, t), t.order # "REFUNDED"
      PROVE  NoRefundedRows'
  BY <1>0, <1>3, NoRefundedStays
<1>4. CASE LockLatestAttempt(d)
  <2>1. CASE Rollback(d)
    BY <1>2, <2>1
  <2>2. ASSUME NEW a \in openAttemptsOfOrder, InTx(d, [tx[d] EXCEPT !.att = a, !.lock = TRUE])
        PROVE  NoRefundedRows'
    <3> DEFINE t == [tx[d] EXCEPT !.att = a, !.lock = TRUE]
    <3>1. a \in 0..MaxAttempts
      BY StoreAssumption DEF openAttemptsOfOrder
    <3>2. t \in Tx /\ t.order # "REFUNDED"
      BY <1>0, <3>1 DEF Tx
    <3>3. InTx(d, t)
      BY <2>2
    <3> HIDE DEF t
    <3> QED BY <1>3, <3>2, <3>3
  <2>3. UNCHANGED verdict
    BY <1>4 DEF LockLatestAttempt
  <2> QED BY <1>4, <2>1, <2>2, <2>3 DEF LockLatestAttempt
<1>5. CASE CasAttempt(d)
  <2>1. CASE Rollback(d)
    BY <1>2, <2>1
  <2> DEFINE m == mapTradeState(notice[d])
             t == [tx[d] EXCEPT !.pay = m.payment]
  <2>2. CASE /\ InTx(d, t)
             /\ verdict' = [verdict EXCEPT
                  ![d] = resolveRefundedOrderStatus(m.order, settled, Total)]
    <3>1. t \in Tx /\ t.order # "REFUNDED"
      BY <1>0, MappingTypes DEF Tx, PaymentStatus
    <3>2. \A e \in Deliveries : verdict'[e] # "REFUNDED"
      BY <1>0, <2>2, UncoveredResolves
    <3> HIDE DEF t
    <3> QED BY <1>3, <2>2, <3>1, <3>2
  <2> QED BY <1>5, <2>1, <2>2 DEF CasAttempt, LostRace
<1>6. CASE UpdateOrder(d)
  <2> DEFINE t == [tx[d] EXCEPT !.order = verdict[d]]
  <2>1. verdict[d] \in OrderStatus /\ verdict[d] # "REFUNDED"
    BY <1>0, <1>6 DEF UpdateOrder, DeliveryHolds
  <2>2. t \in Tx /\ t.order # "REFUNDED"
    BY <1>0, <2>1 DEF Tx
  <2>3. InTx(d, t) /\ UNCHANGED verdict
    BY <1>6 DEF UpdateOrder
  <2> HIDE DEF t
  <2> QED BY <1>3, <2>2, <2>3
<1>7. CASE InsertLedger(d)
  <2> DEFINE l == tx[d].att \notin ledger
             k == tx[d].att \in ledger
             t == [tx[d] EXCEPT !.led = l, !.dead = k]
  <2>1. t \in Tx /\ t.order # "REFUNDED"
    <3>1. l \in BOOLEAN /\ k \in BOOLEAN
      OBVIOUS
    <3> HIDE DEF l, k
    <3> QED BY <1>0, <3>1 DEF Tx
  <2>2. InTx(d, t) /\ UNCHANGED verdict
    BY <1>7 DEF InsertLedger
  <2> HIDE DEF t
  <2> QED BY <1>3, <2>1, <2>2
<1>8. CASE FinalizeInTx(d)
  <2>1. CASE Rollback(d)
    BY <1>2, <2>1
  <2> DEFINE t == [tx[d] EXCEPT !.fin = TRUE]
  <2>2. CASE InTx(d, t)
    <3>1. t \in Tx /\ t.order # "REFUNDED"
      BY <1>0 DEF Tx
    <3>2. UNCHANGED verdict
      BY <1>8 DEF FinalizeInTx
    <3> HIDE DEF t
    <3> QED BY <1>3, <2>2, <3>1, <3>2
  <2> QED BY <1>8, <2>1, <2>2 DEF FinalizeInTx
<1>9. CASE \/ \E n \in Notices : handlePaymentCallback(d, n)
           \/ LookupReservation(d) \/ dropUnfinalizedReservation(d) \/ AuditDuplicate(d)
           \/ ReserveKey(d) \/ StampAfterCommit(d)
  BY <1>1, <1>9 DEF handlePaymentCallback, LookupReservation, dropUnfinalizedReservation,
                    AuditDuplicate, ReserveKey, StampAfterCommit
<1>10. CASE CommitBooking(d) \/ CommitPlain(d) \/ DeliveryFault(d) \/ CommitAnswerLost(d)
  BY <1>2, <1>10 DEF CommitBooking, CommitPlain, DeliveryFault, CommitAnswerLost, Commit
<1> QED BY <1>4, <1>5, <1>6, <1>7, <1>8, <1>9, <1>10 DEF DeliveryStep

(* A round weighs the claim before it touches the rows. *)
LEMMA RoundWeighsClaim ==
  ASSUME IInv, NoRefundedRows, \A s \in Rounds : round[s].final # "REFUNDED",
         ~refundsCoverOrderAmount(settled, Total), NEW r \in Rounds,
         queryOrder(r) \/ RoundStep(r) \/ RoundFault(r)
  PROVE  NoRefundedRows' /\ \A s \in Rounds : round'[s].final # "REFUNDED"
<1>0. /\ r \in Workers /\ tx[r] \in Tx /\ RoundHolds(r) /\ tx[r].order # "REFUNDED"
      /\ round \in [Rounds -> Round] /\ round[r] \in Round
  BY SyncAssumption DEF IInv, TypeOK, StoreTypeOK, SyncTypeOK, NoRefundedRows
<1>1. \A s \in Rounds : round'[s].final # "REFUNDED"
  <2>1. CASE EndRound(r)
    BY <1>0, <2>1 DEF EndRound, IdleRound
  <2>2. CASE ReadSettledRefunds(r)
    <3>1. \A s \in Rounds : s # r => round'[s] = round[s]
      BY <1>0, <2>2 DEF ReadSettledRefunds
    <3>2. round'[r].final
            = resolveRefundedOrderStatus(mapTradeState(round[r].ans).order, settled, Total)
      BY <1>0, <2>2 DEF ReadSettledRefunds, Round
    <3> QED BY <3>1, <3>2, UncoveredResolves
  <2>3. ASSUME NEW pc, Advance(r, pc)
        PROVE  \A s \in Rounds : round'[s].final # "REFUNDED"
    BY <1>0, <2>3 DEF Advance, Round
  <2>4. CASE queryOrder(r)
    BY <1>0, <2>4 DEF queryOrder, Round
  <2>5. CASE PickAttempt(r)
    <3>1. ASSUME NEW v, round' = [round EXCEPT ![r].pc = "sum", ![r].snap = v]
          PROVE  \A s \in Rounds : round'[s].final # "REFUNDED"
      BY <1>0, <3>1 DEF Round
    <3> QED BY <2>1, <2>5, <3>1 DEF PickAttempt
  <2>6. CASE ReadSettledOrder(r) \/ ReadOrder(r) \/ WriteOrder(r) \/ LookupLedger(r)
               \/ InsertLedgerEntry(r)
    BY <2>3, <2>6 DEF ReadSettledOrder, ReadOrder, WriteOrder, LookupLedger, InsertLedgerEntry
  <2>7. CASE CasPickedAttempt(r)
    BY <2>1, <2>3, <2>7 DEF CasPickedAttempt
  <2> QED BY <2>1, <2>2, <2>4, <2>5, <2>6, <2>7 DEF RoundStep, CommitRound, RoundFault
<1>2. CASE UNCHANGED storeVars
  BY <1>1, <1>2 DEF storeVars, NoRefundedRows
<1>3. CASE Publish(r) \/ Rollback(r) \/ Fault(r)
  BY <1>0, <1>1, <1>3, NoRefundedStays
<1>4. ASSUME NEW t \in Tx, InTx(r, t), t.order # "REFUNDED"
      PROVE  NoRefundedRows'
  BY <1>0, <1>4, NoRefundedStays
<1>5. CASE PickAttempt(r)
  <2>1. ASSUME NEW a \in openAttemptsOfOrder, InTx(r, [NoTx EXCEPT !.att = a])
        PROVE  NoRefundedRows'
    <3> DEFINE t == [NoTx EXCEPT !.att = a]
    <3>1. a \in 0..MaxAttempts
      BY StoreAssumption DEF openAttemptsOfOrder
    <3>2. t \in Tx
      BY <3>1, NoTxType DEF Tx
    <3>3. t.order # "REFUNDED"
      BY DEF NoTx
    <3>4. InTx(r, t)
      BY <2>1
    <3> HIDE DEF t
    <3> QED BY <1>4, <3>2, <3>3, <3>4
  <2> QED BY <1>1, <1>2, <1>5, <2>1 DEF PickAttempt
<1>6. CASE CasPickedAttempt(r)
  <2> DEFINE t == [tx[r] EXCEPT !.lock = TRUE, !.pay = mapTradeState(round[r].ans).payment]
  <2>1. t \in Tx /\ t.order # "REFUNDED"
    BY <1>0, MappingTypes DEF Tx, PaymentStatus
  <2>2. CASE InTx(r, t)
    <3> HIDE DEF t
    <3> QED BY <1>1, <1>4, <2>1, <2>2
  <2> QED BY <1>3, <1>6, <2>2 DEF CasPickedAttempt
<1>7. CASE WriteOrder(r)
  <2> DEFINE t == [tx[r] EXCEPT !.order = round[r].final]
  <2>1. round[r].final \in OrderStatus
    BY <1>0, <1>7 DEF WriteOrder, At, RoundHolds
  <2>2. t \in Tx /\ t.order # "REFUNDED"
    BY <1>0, <2>1 DEF Tx
  <2>3. InTx(r, t)
    BY <1>7 DEF WriteOrder
  <2> HIDE DEF t
  <2> QED BY <1>1, <1>4, <2>2, <2>3
<1>8. CASE InsertLedgerEntry(r)
  <2> DEFINE l == tx[r].att \notin ledger
             k == tx[r].att \in ledger
             t == [tx[r] EXCEPT !.led = l, !.dead = k]
  <2>1. t \in Tx /\ t.order # "REFUNDED"
    <3>1. l \in BOOLEAN /\ k \in BOOLEAN
      OBVIOUS
    <3> HIDE DEF l, k
    <3> QED BY <1>0, <3>1 DEF Tx
  <2>2. InTx(r, t)
    BY <1>8 DEF InsertLedgerEntry
  <2> HIDE DEF t
  <2> QED BY <1>1, <1>4, <2>1, <2>2
<1>9. CASE queryOrder(r) \/ ReadSettledRefunds(r) \/ ReadSettledOrder(r) \/ ReadOrder(r)
             \/ LookupLedger(r)
  BY <1>2, <1>9 DEF queryOrder, ReadSettledRefunds, ReadSettledOrder, ReadOrder, LookupLedger
<1>10. CASE CommitRound(r) \/ RoundFault(r)
  BY <1>3, <1>10 DEF CommitRound, RoundFault, Commit
<1> QED BY <1>5, <1>6, <1>7, <1>8, <1>9, <1>10 DEF RoundStep

(* The settled refunds only grow, so a claim once covered stays covered. *)
LEMMA CoverStays ==
  ASSUME IInv, [Next]_vars
  PROVE  /\ settled' \in {settled, settled + 1}
         /\ refundsCoverOrderAmount(settled, Total) => refundsCoverOrderAmount(settled, Total)'
<1>1. settled' \in {settled, settled + 1}
  BY DEF Next, StoreNext, ChannelMoves, RefundSettles, RefundClosesOrder,
         CallbackNext, ChannelNotifies, purgeExpired, handlePaymentCallback, DeliveryStep,
         DeliveryFault, CommitAnswerLost, LookupReservation, dropUnfinalizedReservation,
         AuditDuplicate, ReserveKey, LockLatestAttempt, CasAttempt, LostRace, UpdateOrder,
         InsertLedger, FinalizeInTx, CommitBooking, CommitPlain, StampAfterCommit,
         SyncNext, queryOrder, RoundStep, RoundFault, PickAttempt, ReadSettledRefunds,
         ReadSettledOrder, CasPickedAttempt, ReadOrder, WriteOrder, LookupLedger,
         InsertLedgerEntry, CommitRound, QRNext, RequestStep, RequestFault, ProbeOrder,
         insertQrOrder, refuseIfAlreadySettled, bookQrPayment, offerQrChannel, PromotePayment,
         PromoteOrder, markQrPaymentFailed, Restart, InTx, Commit, Rollback, Fault, storeVars,
         vars
<1>2. settled \in Int /\ Total \in Int
  BY StoreAssumption DEF IInv, TypeOK, StoreTypeOK
<1> QED BY <1>1, <1>2 DEF refundsCoverOrderAmount

(* Every writer of REFUNDED has weighed the claim. *)
LEMMA RefundClaimsStayWeighed ==
  ASSUME IInv, RefundClaimsAreWeighed, [Next]_vars
  PROVE  RefundClaimsAreWeighed'
<1>0. SUFFICES ASSUME ~refundsCoverOrderAmount(settled, Total)
              PROVE  RefundClaimsAreWeighed'
  BY CoverStays DEF RefundClaimsAreWeighed
<1>1. /\ NoRefundedRows /\ order # "REFUNDED"
      /\ \A d \in Deliveries : verdict[d] # "REFUNDED"
      /\ \A r \in Rounds : round[r].final # "REFUNDED"
  BY <1>0 DEF RefundClaimsAreWeighed, NoRefundedRows
<1>2. SUFFICES /\ NoRefundedRows'
               /\ \A d \in Deliveries : verdict'[d] # "REFUNDED"
               /\ \A r \in Rounds : round'[r].final # "REFUNDED"
  BY DEF RefundClaimsAreWeighed, NoRefundedRows
<1>3. CASE StoreNext /\ UNCHANGED <<callbackVars, round, qrVars>>
  BY <1>0, <1>1, <1>3 DEF StoreNext, ChannelMoves, RefundSettles, RefundClosesOrder,
                          callbackVars, NoRefundedRows
<1>4. CASE CallbackNext /\ UNCHANGED <<round, qrVars>>
  <2>1. CASE ChannelNotifies \/ \E n \in Notices : purgeExpired(n)
    BY <1>1, <1>4, <2>1 DEF ChannelNotifies, purgeExpired, storeVars, NoRefundedRows
  <2> QED BY <1>0, <1>1, <1>4, <2>1, DeliveryWeighsClaim DEF CallbackNext
<1>5. CASE SyncNext /\ UNCHANGED <<callbackVars, qrVars>>
  BY <1>0, <1>1, <1>5, RoundWeighsClaim DEF SyncNext, callbackVars
<1>6. CASE QRNext /\ UNCHANGED <<callbackVars, round>>
  <2>1. UNCHANGED tx /\ order' \in {order, "CREATED", "PAYING"}
    BY <1>6 DEF QRNext, RequestStep, RequestFault, ProbeOrder, insertQrOrder,
                refuseIfAlreadySettled, bookQrPayment, offerQrChannel, PromotePayment,
                PromoteOrder, markQrPaymentFailed, storeVars
  <2> QED BY <1>1, <1>6, <2>1 DEF callbackVars, NoRefundedRows
<1>7. CASE Restart
  BY <1>1, <1>7 DEF Restart, NoRefundedRows, NoTx, IdleRound
<1>8. CASE UNCHANGED vars
  BY <1>1, <1>8 DEF vars, storeVars, callbackVars, NoRefundedRows
<1> QED BY <1>3, <1>4, <1>5, <1>6, <1>7, <1>8 DEF Next

(* No claim is held before the first handler runs. *)
LEMMA InitClaims ==
  ASSUME Init
  PROVE  ClaimsInv
<1>1. InexactMoneyIsDropped
  BY DEF Init, StoreInit, CallbackInit, SyncInit, InexactMoneyIsDropped, NoTx, MoneyArrived,
         IdleRound
<1>2. RefundClaimsAreWeighed
  BY DEF Init, StoreInit, CallbackInit, SyncInit, RefundClaimsAreWeighed, NoTx, IdleRound
<1> QED BY <1>1, <1>2 DEF ClaimsInv

----------------------------------------------------------------------------
(* The inductive invariant holds of the whole system: callbacks, query rounds,
   QR requests, refunds, faults and restarts in any interleaving. *)
THEOREM Inductive == Spec => []IInv
BY InitIInv, NextKeeps, PTL DEF Spec

(* Every variable keeps to its vocabulary: no writer puts an order word into
   pay_payment.status or the reverse. *)
THEOREM TypeCorrect == Spec => []TypeOK
<1>1. IInv => TypeOK
  BY DEF IInv
<1> QED BY <1>1, Inductive, PTL

(* An order reads PAID or REFUNDED only when a settled attempt owns its PAYMENT
   ledger entry. *)
THEOREM PaidOrderBooked == Spec => []PaidOrderIsBooked
<1>1. IInv => PaidOrderIsBooked
  BY DEF IInv
<1> QED BY <1>1, Inductive, PTL

(* The channel hears SUCCESS for a notification of money only when the money is
   booked, however its deliveries overlap. *)
THEOREM AckedMoneyBooked == Spec => []AckedMoneyIsBooked
<1>1. IInv => AckedMoneyIsBooked
  BY DEF IInv
<1> QED BY <1>1, Inductive, PTL

(* A stamped reservation of a notification of money proves the booking. *)
THEOREM StampedMoneyBooked == Spec => []StampedMoneyIsBooked
<1>1. IInv => StampedMoneyIsBooked
  BY DEF IInv
<1> QED BY <1>1, Inductive, PTL

(* No ledger entry without its settled attempt. *)
THEOREM LedgerForSettled == Spec => []LedgerOnlyForSettled
<1>1. IInv => LedgerOnlyForSettled
  BY DEF IInv
<1> QED BY <1>1, Inductive, PTL

(* Settled attempts and ledger entries are never taken back. *)
THEOREM SettledFinal == Spec => SettledIsFinal
<1> DEFINE A == \A a \in Attempts :
                  /\ payment[a] = "SUCCESS" => payment'[a] = "SUCCESS"
                  /\ a \in ledger => a \in ledger'
<1>1. IInv /\ [Next]_vars => [A]_vars
  BY NextGrows DEF Grows
<1> QED BY <1>1, Inductive, PTL DEF Spec, SettledIsFinal

(* Amount gates and weighed claims hold together with the inductive invariant. *)
THEOREM ClaimsInductive == Spec => []ClaimsInv
<1>1. IInv /\ ClaimsInv /\ [Next]_vars => ClaimsInv'
  BY InexactMoneyStaysDropped, RefundClaimsStayWeighed DEF ClaimsInv
<1> QED BY <1>1, InitClaims, Inductive, PTL DEF Spec

(* Money of another amount is never booked: both the delivery's lock and the
   round's pick stop it, and neither can be outrun. *)
THEOREM InexactNeverBooked == Spec => []InexactMoneyNeverBooked
<1>1. ClaimsInv => InexactMoneyNeverBooked
  BY DEF ClaimsInv, InexactMoneyIsDropped, InexactMoneyNeverBooked
<1> QED BY <1>1, ClaimsInductive, PTL

(* An order reads REFUNDED only when the settled refunds cover it, whoever
   wrote it and however stale the answer it acted on. *)
THEOREM RefundedCovered == Spec => []RefundedOrderIsCovered
<1>1. ClaimsInv => RefundedOrderIsCovered
  BY DEF ClaimsInv, RefundClaimsAreWeighed, RefundedOrderIsCovered
<1> QED BY <1>1, ClaimsInductive, PTL

----------------------------------------------------------------------------
(* Refinement: the rows are the books of BookedMoney. *)

(* Every step of the system is a step of BookedMoney, or none. *)
LEMMA NextMoney ==
  ASSUME IInv, [Next]_vars
  PROVE  MoneyStep
<1>0. /\ StoreTypeOK /\ LocksProtect /\ BooksAgree /\ StoreInv /\ QRTypeOK
      /\ Deliveries \subseteq Workers /\ Rounds \subseteq Workers
  BY CallbackAssumption, SyncAssumption DEF IInv, TypeOK, BooksAgree, StoreInv
<1>1. CASE UNCHANGED <<order, payment, ledger>>
  BY <1>1, SameMoney
<1>2. CASE StoreNext
  BY <1>0, <1>2, StoreNextKeepsStore DEF StoreKept
<1>3. CASE CallbackNext
  <2>1. ASSUME NEW d \in Deliveries, CommitBooking(d) \/ CommitPlain(d) \/ CommitAnswerLost(d)
        PROVE  MoneyStep
    <3>1. DeliveryHolds(d) /\ d \in Workers /\ Publish(d) /\ cpc[d] \in {"commit", "commitPlain"}
      BY <1>0, <2>1 DEF IInv, CommitBooking, CommitPlain, CommitAnswerLost, Commit
    <3>2. /\ cpc[d] = "commit" =>
               tx[d].pay = "SUCCESS" /\ MoneyArrived(tx[d].order) /\ tx[d].led
          /\ cpc[d] = "commitPlain" =>
               tx[d].pay # "SUCCESS" /\ ~MoneyArrived(tx[d].order) /\ ~tx[d].led
      BY <3>1 DEF DeliveryHolds
    <3> QED BY <1>0, <3>1, <3>2, PublishMoney
  <2>2. ASSUME NEW d \in Deliveries,
               LockLatestAttempt(d) \/ CasAttempt(d) \/ UpdateOrder(d) \/ InsertLedger(d)
                 \/ FinalizeInTx(d) \/ DeliveryFault(d)
        PROVE  MoneyStep
    BY <1>1, <2>2
    DEF LockLatestAttempt, AmountAgrees, CasAttempt, LostRace, UpdateOrder, InsertLedger,
        FinalizeInTx, DeliveryFault, InTx, Rollback, Fault
  <2>3. ASSUME UNCHANGED storeVars
        PROVE  MoneyStep
    BY <1>1, <2>3 DEF storeVars
  <2> QED BY <1>3, <2>1, <2>2, <2>3
          DEF CallbackNext, DeliveryStep, ChannelNotifies, purgeExpired, handlePaymentCallback,
              LookupReservation, dropUnfinalizedReservation, AuditDuplicate, ReserveKey,
              StampAfterCommit
<1>4. CASE SyncNext
  <2>1. ASSUME NEW r \in Rounds, CommitRound(r)
        PROVE  MoneyStep
    <3>1. RoundHolds(r) /\ r \in Workers /\ Publish(r) /\ round[r].pc = "commit"
      BY <1>0, <2>1 DEF IInv, CommitRound, Commit, At
    <3>2. CASE round[r].snap = "SUCCESS"
      <4>1. /\ tx[r].pay = "keep" /\ payment[tx[r].att] = "SUCCESS"
            /\ tx[r].led => MoneyArrived(tx[r].order)
            /\ MoneyArrived(tx[r].order) => tx[r].dead \/ tx[r].led \/ tx[r].att \in ledger
        BY <3>1, <3>2 DEF RoundHolds
      <4> QED BY <1>0, <3>1, <4>1, PublishMoney
    <3>3. CASE round[r].snap # "SUCCESS"
      <4>1. /\ tx[r].lock /\ tx[r].pay = mapTradeState(round[r].ans).payment
            /\ MoneyArrived(round[r].final) <=> mapTradeState(round[r].ans).payment = "SUCCESS"
            /\ tx[r].led => mapTradeState(round[r].ans).payment = "SUCCESS"
            /\ tx[r].led => MoneyArrived(tx[r].order)
            /\ tx[r].order = "keep" => Booked \/ tx[r].pay # "SUCCESS"
            /\ tx[r].order # "keep" => tx[r].order = round[r].final
            /\ MoneyArrived(tx[r].order) => tx[r].dead \/ tx[r].led \/ tx[r].att \in ledger
        BY <3>1, <3>3 DEF RoundHolds
      <4>2. tx[r].att \notin ledger
        BY <1>0, <3>1, <4>1 DEF LocksProtect, BooksAgree, LedgerOnlyForSettled, InFlight
      <4> QED BY <1>0, <3>1, <4>1, <4>2, PublishMoney
    <3> QED BY <3>2, <3>3
  <2>2. ASSUME NEW r \in Rounds,
               queryOrder(r) \/ PickAttempt(r) \/ ReadSettledRefunds(r) \/ ReadSettledOrder(r)
                 \/ CasPickedAttempt(r) \/ ReadOrder(r) \/ WriteOrder(r) \/ LookupLedger(r)
                 \/ InsertLedgerEntry(r) \/ RoundFault(r)
        PROVE  MoneyStep
    <3>1. UNCHANGED <<order, payment, ledger>>
      BY <2>2 DEF queryOrder, PickAttempt, ReadSettledRefunds, ReadSettledOrder, CasPickedAttempt,
                  ReadOrder, WriteOrder, LookupLedger, InsertLedgerEntry, RoundFault,
                  InTx, Rollback, Fault, storeVars
    <3> QED BY <1>1, <3>1
  <2> QED BY <1>4, <2>1, <2>2 DEF SyncNext, RoundStep
<1>5. CASE QRNext
  BY <1>0, <1>5, RequestKeepsStore DEF StoreKept
<1>6. CASE Restart
  BY <1>1, <1>6 DEF Restart
<1>7. CASE UNCHANGED vars
  BY <1>1, <1>7 DEF vars, storeVars
<1> QED BY <1>2, <1>3, <1>4, <1>5, <1>6, <1>7 DEF Next

(* Settlement implements BookedMoney: whatever callbacks, rounds, requests,
   faults and restarts do to the rows, seen from outside an attempt settles
   together with its entry and its order row or joins money already booked,
   and nothing is taken back. *)
THEOREM MoneyKept == Spec => MoneyIsKept
<1>1. Init => Money!Init
  BY DEF Init, StoreInit, Money!Init, MoneyArrived
<1>2. IInv /\ [Next]_vars => [Money!Next]_(Money!vars)
  BY NextMoney DEF MoneyStep
<1> QED BY <1>1, <1>2, Inductive, PTL DEF Spec, MoneyIsKept, Money!Spec

----------------------------------------------------------------------------
(* Nobody waits for ever *)

(* A delivery stamps its reservation last. *)
LEMMA DeliveryStampsLast ==
  ASSUME IInv, StampsComeLast, NEW d \in Deliveries,
         \/ \E n \in Notices : handlePaymentCallback(d, n)
         \/ DeliveryStep(d) \/ DeliveryFault(d) \/ CommitAnswerLost(d)
  PROVE  StampsComeLast'
<1>0. /\ d \in Workers /\ tx \in [Workers -> Tx] /\ cpc \in [Deliveries -> DeliveryPc]
      /\ tx[d].fin => cpc[d] = "commit"
      /\ ~NoTx.fin
  BY CallbackAssumption
     DEF IInv, TypeOK, StoreTypeOK, CallbackTypeOK, StampsComeLast, NoTx
<1>1. ASSUME \A w \in Workers \ {d} : tx'[w] = tx[w],
             \A e \in Deliveries \ {d} : cpc'[e] = cpc[e],
             tx'[d].fin => cpc'[d] = "commit"
      PROVE  StampsComeLast'
  BY <1>0, <1>1, CallbackAssumption DEF StampsComeLast
<1>2. ASSUME NEW t, tx' = [tx EXCEPT ![d] = t], NEW k, cpc' = [cpc EXCEPT ![d] = k],
             t.fin => k = "commit"
      PROVE  StampsComeLast'
  BY <1>0, <1>1, <1>2
<1>3. CASE \/ \E n \in Notices : handlePaymentCallback(d, n)
           \/ LookupReservation(d) \/ dropUnfinalizedReservation(d) \/ AuditDuplicate(d)
           \/ ReserveKey(d) \/ StampAfterCommit(d)
  <2>1. UNCHANGED storeVars /\ cpc[d] # "commit"
    BY <1>3 DEF handlePaymentCallback, LookupReservation, dropUnfinalizedReservation,
                AuditDuplicate, ReserveKey, StampAfterCommit
  <2>2. \E k : Goto(d, k)
    BY <1>3 DEF handlePaymentCallback, LookupReservation, dropUnfinalizedReservation,
                AuditDuplicate, ReserveKey, StampAfterCommit, Ack, Fail
  <2> QED BY <1>0, <1>1, <2>1, <2>2 DEF storeVars, Goto
<1>4. CASE LockLatestAttempt(d)
  <2>1. \/ Rollback(d) /\ Goto(d, "idle")
        \/ \E a : InTx(d, [tx[d] EXCEPT !.att = a, !.lock = TRUE]) /\ Goto(d, "cas")
    BY <1>4 DEF LockLatestAttempt, Ack, Fail
  <2>2. CASE Rollback(d) /\ Goto(d, "idle")
    BY <1>0, <1>2, <2>2 DEF Rollback, Goto
  <2>3. ASSUME NEW a, InTx(d, [tx[d] EXCEPT !.att = a, !.lock = TRUE]), Goto(d, "cas")
        PROVE  StampsComeLast'
    <3> DEFINE t == [tx[d] EXCEPT !.att = a, !.lock = TRUE]
    <3>1. t.fin = tx[d].fin /\ cpc[d] # "commit"
      BY <1>0, <1>4 DEF Tx, LockLatestAttempt
    <3>2. tx' = [tx EXCEPT ![d] = t] /\ cpc' = [cpc EXCEPT ![d] = "cas"]
      BY <2>3 DEF InTx, Goto
    <3> HIDE DEF t
    <3> QED BY <1>0, <1>2, <3>1, <3>2
  <2> QED BY <2>1, <2>2, <2>3
<1>5. CASE CasAttempt(d)
  <2> DEFINE p == mapTradeState(notice[d]).payment
             t == [tx[d] EXCEPT !.pay = p]
  <2>1. \/ InTx(d, t) /\ Goto(d, "order")
        \/ Rollback(d) /\ Goto(d, "idle")
    BY <1>5 DEF CasAttempt, LostRace, Ack
  <2>2. t.fin = tx[d].fin /\ cpc[d] # "commit"
    BY <1>0, <1>5 DEF Tx, CasAttempt
  <2> HIDE DEF t
  <2> QED BY <1>0, <1>2, <2>1, <2>2 DEF InTx, Rollback, Goto
<1>6. CASE UpdateOrder(d)
  <2> DEFINE t == [tx[d] EXCEPT !.order = verdict[d]]
  <2>1. InTx(d, t) /\ \E k : Goto(d, k)
    BY <1>6 DEF UpdateOrder
  <2>2. t.fin = tx[d].fin /\ cpc[d] # "commit"
    BY <1>0, <1>6 DEF Tx, UpdateOrder
  <2> HIDE DEF t
  <2> QED BY <1>0, <1>2, <2>1, <2>2 DEF InTx, Goto
<1>7. CASE InsertLedger(d)
  <2> DEFINE b == tx[d].att \notin ledger
             c == tx[d].att \in ledger
             t == [tx[d] EXCEPT !.led = b, !.dead = c]
  <2>1. InTx(d, t) /\ Goto(d, "finalize")
    BY <1>7 DEF InsertLedger
  <2> HIDE DEF b, c
  <2>2. t.fin = tx[d].fin /\ cpc[d] # "commit"
    BY <1>0, <1>7 DEF Tx, InsertLedger
  <2> HIDE DEF t
  <2> QED BY <1>0, <1>2, <2>1, <2>2 DEF InTx, Goto
<1>8. CASE FinalizeInTx(d)
  <2>1. \/ (\E t : InTx(d, t)) /\ Goto(d, "commit")
        \/ Rollback(d) /\ Goto(d, "idle")
    BY <1>8 DEF FinalizeInTx, Fail
  <2> QED BY <1>0, <1>2, <2>1 DEF InTx, Rollback, Goto
<1>9. CASE CommitBooking(d) \/ CommitPlain(d) \/ DeliveryFault(d) \/ CommitAnswerLost(d)
  <2>1. tx' = [tx EXCEPT ![d] = NoTx] /\ \E k : Goto(d, k)
    BY <1>9 DEF CommitBooking, CommitPlain, DeliveryFault, CommitAnswerLost, Commit, Publish,
                Fault, Ack, Fail
  <2> QED BY <1>0, <1>2, <2>1 DEF Goto
<1> QED BY <1>3, <1>4, <1>5, <1>6, <1>7, <1>8, <1>9 DEF DeliveryStep

(* A round's transaction is its own. *)
LEMMA RoundStampsLast ==
  ASSUME IInv, StampsComeLast, NEW r \in Rounds, UNCHANGED callbackVars,
         queryOrder(r) \/ RoundStep(r) \/ RoundFault(r)
  PROVE  StampsComeLast'
<1>0. r \in Workers /\ r \notin Deliveries /\ tx \in [Workers -> Tx]
  BY SyncAssumption, SettlementAssumption DEF IInv, TypeOK, StoreTypeOK
<1>1. tx' = tx \/ \E t : tx' = [tx EXCEPT ![r] = t]
  <2>1. CASE queryOrder(r) \/ PickAttempt(r) \/ ReadSettledRefunds(r) \/ ReadSettledOrder(r)
             \/ ReadOrder(r) \/ LookupLedger(r)
    BY <2>1 DEF queryOrder, PickAttempt, ReadSettledRefunds, ReadSettledOrder, ReadOrder,
                LookupLedger, InTx, storeVars
  <2>2. CASE CasPickedAttempt(r) \/ WriteOrder(r) \/ InsertLedgerEntry(r) \/ CommitRound(r)
             \/ RoundFault(r)
    BY <2>2 DEF CasPickedAttempt, WriteOrder, InsertLedgerEntry, CommitRound, RoundFault, InTx,
                Rollback, Commit, Publish, Fault
  <2> QED BY <2>1, <2>2 DEF RoundStep
<1>2. \A w \in Workers \ {r} : tx'[w] = tx[w]
  BY <1>0, <1>1
<1> QED BY <1>0, <1>2, CallbackAssumption DEF StampsComeLast, callbackVars

(* Every step. *)
LEMMA StampsStayLast ==
  ASSUME IInv, StampsComeLast, [Next]_vars
  PROVE  StampsComeLast'
<1>1. CASE StoreNext /\ UNCHANGED <<callbackVars, round, qrVars>>
  BY <1>1
  DEF StoreNext, ChannelMoves, RefundSettles, RefundClosesOrder, callbackVars,
      StampsComeLast
<1>2. CASE CallbackNext /\ UNCHANGED <<round, qrVars>>
  <2>1. CASE ChannelNotifies \/ \E n \in Notices : purgeExpired(n)
    BY <2>1 DEF ChannelNotifies, purgeExpired, storeVars, StampsComeLast
  <2> QED BY <1>2, <2>1, DeliveryStampsLast DEF CallbackNext
<1>3. CASE SyncNext /\ UNCHANGED <<callbackVars, qrVars>>
  BY <1>3, RoundStampsLast DEF SyncNext
<1>4. CASE QRNext /\ UNCHANGED <<callbackVars, round>>
  <2>1. tx' = tx
    BY <1>4 DEF QRNext, RequestStep, RequestFault, ProbeOrder, insertQrOrder,
       refuseIfAlreadySettled, bookQrPayment, offerQrChannel, PromotePayment, PromoteOrder,
       markQrPaymentFailed, storeVars
  <2> QED BY <1>4, <2>1 DEF callbackVars, StampsComeLast
<1>5. CASE Restart
  BY <1>5, CallbackAssumption DEF Restart, StampsComeLast, NoTx
<1>6. CASE UNCHANGED vars
  BY <1>6 DEF vars, storeVars, callbackVars, StampsComeLast
<1> QED BY <1>1, <1>2, <1>3, <1>4, <1>5, <1>6 DEF Next

(* Along the lock order somebody can always move: a stamp is held at COMMIT, a
   ledger entry by one that at most waits for a stamp, an order by one that at
   most waits for a ledger entry, an attempt by one that at most waits for the
   order. *)
LEMMA SomeoneMoves ==
  ASSUME IInv, StampsComeLast, NEW w \in Workers, tx[w] # NoTx
  PROVE  (\E d \in Deliveries : DeliveryMoves(d)) \/ (\E r \in Rounds : RoundMoves(r))
<1> DEFINE Somebody == (\E d \in Deliveries : DeliveryMoves(d)) \/ (\E r \in Rounds : RoundMoves(r))
<1>t. /\ \A v \in Workers : tx[v] # NoTx => v \in Deliveries \/ v \in Rounds
      /\ \A d \in Deliveries : DeliveryHolds(d) /\ cpc[d] \in DeliveryPc
      /\ \A r \in Rounds : RoundHolds(r) /\ round[r].pc \in RoundPc
  BY DEF StampsComeLast, IInv, TypeOK, CallbackTypeOK, SyncTypeOK, Round
<1>n. ~NoTx.fin /\ ~NoTx.led /\ ~NoTx.lock /\ NoTx.order = "keep"
  BY DEF NoTx
<1>d. ASSUME NEW d \in Deliveries, tx[d] # NoTx
      PROVE  /\ cpc[d] \in {"cas", "order", "ledger", "finalize", "commit", "commitPlain"}
             /\ tx[d].led => cpc[d] \in {"finalize", "commit"}
             /\ tx[d].order # "keep" => cpc[d] \in {"ledger", "finalize", "commit", "commitPlain"}
  BY <1>t, <1>d DEF DeliveryHolds, DeliveryPc
<1>r. ASSUME NEW r \in Rounds, tx[r] # NoTx
      PROVE  /\ round[r].pc \in RoundPc \ {"idle", "pick"}
             /\ tx[r].led => round[r].pc = "commit"
             /\ tx[r].order # "keep" => round[r].pc \in {"lookup", "insert", "commit"}
             /\ tx[r].lock => round[r].pc \in {"readOrder", "write", "lookup", "insert", "commit"}
  <2>1. RoundHolds(r) /\ round[r].pc \in RoundPc
    BY <1>t
  <2>2. round[r].pc \in RoundPc \ {"idle", "pick"}
    BY <1>r, <2>1 DEF RoundHolds
  <2>3. round[r].pc \in {"sum", "cas", "readSettled"} =>
          ~tx[r].led /\ tx[r].order = "keep" /\ ~tx[r].lock
    <3> DEFINE a == tx[r].att
               t == [NoTx EXCEPT !.att = a]
    <3>1. ~t.led /\ t.order = "keep" /\ ~t.lock
      BY DEF NoTx
    <3>2. round[r].pc \in {"sum", "cas", "readSettled"} => tx[r] = t
      BY <2>1 DEF RoundHolds
    <3> HIDE DEF t
    <3> QED BY <3>1, <3>2
  <2>4. round[r].pc \in {"readOrder", "write"} => ~tx[r].led /\ tx[r].order = "keep"
    BY <2>1 DEF RoundHolds
  <2>5. round[r].pc \in {"lookup", "insert"} => ~tx[r].led
    BY <2>1 DEF RoundHolds
  <2> QED BY <2>2, <2>3, <2>4, <2>5 DEF RoundPc
<1>1. ASSUME NEW e \in Deliveries, tx[e].fin PROVE Somebody
  BY <1>n, <1>1 DEF StampsComeLast, DeliveryMoves
<1>2. ASSUME NEW d \in Deliveries, tx[d] # NoTx, cpc[d] \in {"finalize", "commit", "commitPlain"}
      PROVE  Somebody
  <2>1. CASE cpc[d] = "finalize" /\ ~ReservationFree(d, notice[d])
    BY <1>1, <2>1 DEF ReservationFree
  <2> QED BY <1>2, <2>1 DEF DeliveryMoves
<1>3. ASSUME NEW v \in Workers, tx[v].led PROVE Somebody
  <2>1. tx[v] # NoTx
    BY <1>n, <1>3
  <2>2. CASE v \in Deliveries
    BY <1>2, <1>3, <1>d, <2>1, <2>2
  <2>3. CASE v \in Rounds
    BY <1>3, <1>r, <2>1, <2>3 DEF RoundMoves
  <2> QED BY <1>t, <2>1, <2>2, <2>3
<1>4. ASSUME NEW v \in Workers, ~LedgerFree(v, tx[v].att) PROVE Somebody
  BY <1>3, <1>4 DEF LedgerFree
<1>5. ASSUME NEW v \in Workers, tx[v].order # "keep" PROVE Somebody
  <2>1. tx[v] # NoTx
    BY <1>n, <1>5
  <2>2. CASE v \in Deliveries
    BY <1>2, <1>4, <1>5, <1>d, <2>1, <2>2 DEF DeliveryMoves
  <2>3. CASE v \in Rounds
    BY <1>4, <1>5, <1>r, <2>1, <2>3 DEF RoundMoves, At
  <2> QED BY <1>t, <2>1, <2>2, <2>3
<1>6. ASSUME NEW v \in Workers, ~OrderFree(v) PROVE Somebody
  BY <1>5, <1>6 DEF OrderFree
<1>7. ASSUME NEW d \in Deliveries, tx[d] # NoTx PROVE Somebody
  <2>1. d \in Workers
    BY CallbackAssumption
  <2> QED BY <1>2, <1>4, <1>6, <1>7, <1>d, <2>1 DEF DeliveryMoves
<1>8. ASSUME NEW r \in Rounds, tx[r] # NoTx, round[r].pc # "cas" PROVE Somebody
  <2>1. r \in Workers
    BY SyncAssumption
  <2> QED BY <1>4, <1>6, <1>8, <1>r, <2>1 DEF RoundMoves, At, RoundPc
<1>9. ASSUME NEW v \in Workers, tx[v].lock PROVE Somebody
  <2>1. tx[v] # NoTx
    BY <1>n, <1>9
  <2> QED BY <1>t, <1>7, <1>8, <1>9, <1>r, <2>1
<1>10. ASSUME NEW r \in Rounds, tx[r] # NoTx, round[r].pc = "cas" PROVE Somebody
  <2>1. CASE ~PaymentFree(r, tx[r].att)
    BY <1>9, <2>1 DEF PaymentFree
  <2> QED BY <1>10, <2>1 DEF RoundMoves, At
<1> QED BY <1>t, <1>7, <1>8, <1>10

(* Deliveries and rounds that wait for each other's rows always leave one that
   can move, whatever their number. *)
THEOREM HandlersNeverDeadlock == Spec => []SomeHandlerCanMove
<1>1. Init => StampsComeLast
  BY CallbackAssumption DEF Init, StoreInit, StampsComeLast, NoTx
<1>2. IInv /\ StampsComeLast /\ [Next]_vars => StampsComeLast'
  BY StampsStayLast
<1>3. IInv /\ StampsComeLast => SomeHandlerCanMove
  BY SomeoneMoves DEF SomeHandlerCanMove
<1> QED BY <1>1, <1>2, <1>3, Inductive, PTL DEF Spec
==============================================================================
