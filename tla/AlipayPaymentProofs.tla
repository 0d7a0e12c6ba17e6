------------------------- MODULE AlipayPaymentProofs --------------------------
(***************************************************************************)
(* The safety properties of AlipayPayment for any number of attempts,      *)
(* faults, rounds, notifications and requests.                             *)
(***************************************************************************)
EXTENDS AlipayPayment, PaymentStoreProofs, TLAPS

USE DEF Attempts

(* The verdicts stay inside the status vocabularies, and only a paid trade
   settles. *)
LEMMA MappingTypes ==
  ASSUME NEW w \in AlipayStatus
  PROVE  /\ mapAlipayStatus(w).order \in {"PAID", "PAYING", "FAILED"}
         /\ mapAlipayStatus(w).payment \in {"PROCESSING", "SUCCESS", "FAIL"}
         /\ mapAlipayStatus(w).order = "PAID" <=> mapAlipayStatus(w).payment = "SUCCESS"
         /\ mapAlipayStatus(w).order = "PAID" <=> w = "TRADE_SUCCESS"
         /\ mapAlipayStatus(w).payment = "FAIL" <=> w = "TRADE_CLOSED"
BY DEF mapAlipayStatus, AlipayStatus

(* The parts of the invariant a proof about one round starts from. *)
LEMMA Facts ==
  ASSUME IInv, NEW s \in Syncs
  PROVE  /\ StoreInv /\ StoreTypeOK /\ LocksProtect /\ BooksAgree /\ QRTypeOK
         /\ sync \in [Syncs -> Sync] /\ sync[s] \in Sync /\ acked \in BOOLEAN
         /\ s \in Workers /\ tx[s] \in Tx /\ SyncHolds(s)
         /\ faults \in 0..MaxFaults
BY SyncAssumption DEF IInv, TypeOK, SyncTypeOK, StoreTypeOK, StoreInv

(* A round that takes no step keeps what it relies on. *)
LEMMA SyncFrame ==
  ASSUME IInv, Grows, NEW s \in Syncs, sync'[s] = sync[s], tx'[s] = tx[s]
  PROVE  SyncHolds(s)'
<1>1. tx[s].att # 0 => tx[s].att \in Attempts
  BY Facts, StoreAssumption DEF Tx
<1>2. Booked => Booked'
  BY Facts, BookedStays
<1> QED BY <1>1, <1>2, Facts DEF SyncHolds, Order, Grows

(* What is left to show of a round's step. *)
LEMMA SyncStepKeeps ==
  ASSUME IInv, NEW s \in Syncs, NEW c \in Sync, sync' = [sync EXCEPT ![s] = c],
         NEW t, tx' = [tx EXCEPT ![s] = t], acked' \in BOOLEAN, UNCHANGED qrVars,
         StoreTypeOK', LocksProtect', BooksAgree', Grows, SyncHolds(s)'
  PROVE  IInv'
<1>1. SyncTypeOK' /\ \A r \in Syncs \ {s} : sync'[r] = sync[r]
  BY DEF IInv, TypeOK, SyncTypeOK
<1>2. \A r \in Syncs \ {s} : tx'[r] = tx[r]
  BY SyncAssumption DEF IInv, TypeOK, StoreTypeOK
<1>3. QRTypeOK'
  BY DEF IInv, TypeOK, QRTypeOK, qrVars
<1>4. \A r \in Syncs : SyncHolds(r)'
  BY <1>1, <1>2, SyncFrame
<1> QED BY <1>1, <1>3, <1>4 DEF IInv, TypeOK

(* Steps that only read. *)
LEMMA QuietSyncKeeps ==
  ASSUME IInv, NEW s \in Syncs, NEW c \in Sync, sync' = [sync EXCEPT ![s] = c],
         UNCHANGED <<storeVars, qrVars>>, acked' \in BOOLEAN, SyncHolds(s)'
  PROVE  IInv'
<1>1. StoreTypeOK' /\ LocksProtect' /\ Grows
  BY Facts DEF storeVars, StoreTypeOK, LocksProtect, Grows
<1>2. BooksAgree'
  BY Facts, SameRowsAgree DEF storeVars
<1>3. tx' = [tx EXCEPT ![s] = tx[s]]
  BY Facts DEF storeVars, StoreTypeOK
<1> QED BY <1>1, <1>2, <1>3, SyncStepKeeps

(* Steps that extend the buffer. *)
LEMMA SyncBufferKeeps ==
  ASSUME IInv, NEW s \in Syncs, NEW t \in Tx, InTx(s, t),
         t.lock => /\ t.att # 0
                   /\ payment[t.att] \in InFlight
                   /\ \A v \in Workers \ {s} : ~(tx[v].lock /\ tx[v].att = t.att),
         t.pay # "keep" => t.lock,
         t.pay # "REFUNDED",
         t.led => t.att # 0,
         NEW c \in Sync, sync' = [sync EXCEPT ![s] = c], acked' \in BOOLEAN, UNCHANGED qrVars,
         SyncHolds(s)'
  PROVE  IInv'
<1>1. StoreTypeOK' /\ BooksAgree'
  BY Facts, InTxType, SameRowsAgree DEF InTx
<1>2. LocksProtect' /\ Grows
  BY Facts, InTxLocks
<1>3. tx' = [tx EXCEPT ![s] = t]
  BY DEF InTx
<1> QED BY <1>1, <1>2, <1>3, SyncStepKeeps

(* Steps that leave the attempt of the transaction as it is. *)
LEMMA SyncWriteKeeps ==
  ASSUME IInv, NEW s \in Syncs, NEW t \in Tx, InTx(s, t),
         t.att = tx[s].att, t.lock = tx[s].lock, t.pay = tx[s].pay, tx[s].att # 0,
         NEW c \in Sync, sync' = [sync EXCEPT ![s] = c], acked' \in BOOLEAN, UNCHANGED qrVars,
         SyncHolds(s)'
  PROVE  IInv'
<1>1. /\ tx[s].lock => payment[tx[s].att] \in InFlight
      /\ tx[s].lock => \A v \in Workers \ {s} : ~(tx[v].lock /\ tx[v].att = tx[s].att)
      /\ tx[s].pay # "keep" => tx[s].lock
      /\ tx[s].pay # "REFUNDED"
  BY Facts DEF LocksProtect
<1>2. /\ t.lock => /\ t.att # 0
                    /\ payment[t.att] \in InFlight
                    /\ \A v \in Workers \ {s} : ~(tx[v].lock /\ tx[v].att = t.att)
      /\ t.pay # "keep" => t.lock
      /\ t.pay # "REFUNDED"
      /\ t.led => t.att # 0
  BY <1>1
<1> QED BY <1>2, SyncBufferKeeps

(* A round that is over is idle and holds nothing. *)
LEMMA IdleSyncHolds ==
  /\ IdleSync \in Sync
  /\ \A s \in Syncs : sync'[s] = IdleSync /\ tx'[s] = NoTx => SyncHolds(s)'
BY DEF IdleSync, Sync, SyncPc, SyncHolds, NoTx

(* A round that ends with nothing published. *)
LEMMA EndedSyncKeeps ==
  ASSUME IInv, NEW s \in Syncs, tx' = [tx EXCEPT ![s] = NoTx], UNCHANGED <<order, payment, ledger>>,
         StoreTypeOK', EndSync(s), acked' \in BOOLEAN, UNCHANGED qrVars
  PROVE  IInv'
<1>1. LocksProtect' /\ Grows /\ BooksAgree'
  BY Facts, RollbackLocks, SameRowsAgree
<1>2. sync'[s] = IdleSync /\ tx'[s] = NoTx
  BY Facts DEF EndSync, StoreTypeOK
<1>3. SyncHolds(s)'
  BY <1>2, IdleSyncHolds
<1> QED BY <1>1, <1>3, IdleSyncHolds, SyncStepKeeps DEF EndSync

(* The round's bookkeeping after it moves to another place. *)
LEMMA AdvanceType ==
  ASSUME IInv, NEW s \in Syncs, NEW pc \in SyncPc, Advance(s, pc)
  PROVE  \E c \in Sync :
           /\ sync' = [sync EXCEPT ![s] = c] /\ sync'[s] = c /\ c.pc = pc
           /\ c.word = sync[s].word
<1> DEFINE c == [sync[s] EXCEPT !.pc = pc]
<1>1. c \in Sync /\ c.pc = pc /\ c.word = sync[s].word
  BY Facts DEF Sync
<1>2. sync' = [sync EXCEPT ![s] = c]
  BY DEF Advance
<1> HIDE DEF c
<1>3. sync'[s] = c
  BY <1>2, Facts
<1> QED BY <1>1, <1>2, <1>3

----------------------------------------------------------------------------
(* Steps of a round *)

(* queryOrder and notify keep the invariant. *)
LEMMA StartKeeps ==
  ASSUME IInv, NEW s \in Syncs, queryOrder(s) \/ (\E w \in AlipayStatus : notify(s, w)),
         UNCHANGED qrVars
  PROVE  IInv'
<1>1. PICK by \in {"sweep", "notify"}, w \in AlipayStatus :
        sync' = [sync EXCEPT ![s] = [pc |-> "pick", by |-> by, word |-> w]]
  BY DEF queryOrder, notify, Reported, AlipayStatus
<1>2. sync[s].pc = "idle" /\ UNCHANGED storeVars /\ acked' = acked
  BY DEF queryOrder, notify, At, NoAnswer
<1> DEFINE c == [pc |-> "pick", by |-> by, word |-> w]
<1>3. c \in Sync /\ c.pc = "pick" /\ c.word = w
  BY DEF Sync, SyncPc
<1>4. sync' = [sync EXCEPT ![s] = c]
  BY <1>1
<1> HIDE DEF c
<1>5. sync'[s] = c /\ tx'[s] = NoTx
  BY <1>2, <1>4, Facts DEF SyncHolds, storeVars
<1>6. SyncHolds(s)'
  BY <1>3, <1>5 DEF SyncHolds, NoTx
<1> QED BY <1>2, <1>3, <1>4, <1>6, Facts, QuietSyncKeeps

(* Answering, or not, leaves a Boolean. *)
LEMMA AnswerType ==
  ASSUME NEW s \in Syncs, acked \in BOOLEAN, Answer(s) \/ NoAnswer
  PROVE  acked' \in BOOLEAN
BY DEF Answer, NoAnswer

(* PickAttempt keeps the invariant. *)
LEMMA PickAttemptKeeps ==
  ASSUME IInv, NEW s \in Syncs, PickAttempt(s), UNCHANGED qrVars
  PROVE  IInv'
<1>1. sync[s].pc = "pick" /\ tx[s] = NoTx
  BY Facts DEF PickAttempt, At, SyncHolds
<1>2. acked' \in BOOLEAN
  BY Facts, AnswerType DEF PickAttempt
<1>3. ASSUME EndSync(s), UNCHANGED storeVars
      PROVE  IInv'
  <2>1. sync'[s] = IdleSync /\ tx'[s] = NoTx
    BY <1>1, <1>3, Facts DEF EndSync, storeVars
  <2> QED BY <1>2, <1>3, <2>1, IdleSyncHolds, QuietSyncKeeps DEF EndSync
<1>4. ASSUME NEW a \in openAttemptsOfOrder,
             Advance(s, IF payment[a] = "SUCCESS" THEN "readSettled" ELSE "cas"),
             InTx(s, [NoTx EXCEPT !.att = a])
      PROVE  IInv'
  <2> DEFINE t == [NoTx EXCEPT !.att = a]
             pc == IF payment[a] = "SUCCESS" THEN "readSettled" ELSE "cas"
  <2>1. a \in Attempts /\ a \in 0..MaxAttempts /\ a # 0
    BY StoreAssumption DEF openAttemptsOfOrder
  <2>2. /\ t \in Tx /\ t.att = a /\ ~t.lock /\ t.pay = "keep" /\ t.order = "keep" /\ ~t.led
        /\ t = [NoTx EXCEPT !.att = t.att]
    BY <2>1, NoTxType DEF Tx, NoTx
  <2>3. /\ InTx(s, t) /\ Advance(s, pc) /\ pc \in SyncPc /\ pc \in {"readSettled", "cas"}
        /\ pc = "readSettled" => payment[a] = "SUCCESS"
    BY <1>4 DEF SyncPc
  <2> HIDE DEF t, pc
  <2>4. PICK c \in Sync : /\ sync' = [sync EXCEPT ![s] = c] /\ sync'[s] = c /\ c.pc = pc
                          /\ c.word = sync[s].word
    BY <2>3, AdvanceType
  <2>5. tx'[s] = t /\ payment' = payment
    BY <2>3, Facts DEF InTx, StoreTypeOK
  <2>6. sync[s].word \in AlipayStatus
    BY <1>1, Facts DEF SyncHolds
  <2>7. SyncHolds(s)'
    BY <2>1, <2>2, <2>3, <2>4, <2>5, <2>6 DEF SyncHolds
  <2> QED BY <1>2, <2>2, <2>3, <2>4, <2>7, SyncBufferKeeps
<1> QED BY <1>3, <1>4 DEF PickAttempt

(* Reading the order keeps the invariant: a PAID order is booked. *)
LEMMA ReadOrderKeeps ==
  ASSUME IInv, NEW s \in Syncs, ReadSettledOrder(s) \/ ReadOrder(s), UNCHANGED qrVars
  PROVE  IInv'
<1>1. sync[s].pc \in {"readSettled", "readOrder"} /\ UNCHANGED storeVars
  BY DEF ReadSettledOrder, ReadOrder, At
<1>2. acked' \in BOOLEAN
  BY Facts, AnswerType DEF ReadSettledOrder, ReadOrder
<1>3. PICK pc \in {"commit", "write"} : Advance(s, pc) /\ (pc = "commit" => OrderSeenBy(s) = "PAID")
  BY DEF ReadSettledOrder, ReadOrder
<1>4. tx[s].order = "keep" /\ ~tx[s].led /\ tx[s].att # 0 /\ sync[s].word \in AlipayStatus
  BY <1>1, Facts DEF SyncHolds, NoTx
<1>5. pc = "commit" => Booked'
  BY <1>1, <1>3, <1>4, Facts
     DEF OrderSeenBy, BooksAgree, PaidOrderIsBooked, MoneyArrived, Booked, storeVars
<1>6. pc \in SyncPc
  BY DEF SyncPc
<1>7. PICK c \in Sync : /\ sync' = [sync EXCEPT ![s] = c] /\ sync'[s] = c /\ c.pc = pc
                        /\ c.word = sync[s].word
  BY <1>3, <1>6, AdvanceType
<1>8. tx'[s] = tx[s] /\ payment' = payment
  BY <1>1 DEF storeVars
<1>9. SyncHolds(s)'
  BY <1>1, <1>4, <1>5, <1>7, <1>8, Facts DEF SyncHolds
<1> QED BY <1>1, <1>2, <1>7, <1>9, QuietSyncKeeps

(* CasAttempt keeps the invariant. *)
LEMMA CasAttemptKeeps ==
  ASSUME IInv, NEW s \in Syncs, CasAttempt(s), UNCHANGED qrVars
  PROVE  IInv'
<1>1. sync[s].pc = "cas" /\ PaymentFree(s, tx[s].att)
  BY DEF CasAttempt, At
<1>2. acked' \in BOOLEAN
  BY Facts, AnswerType DEF CasAttempt
<1>3. CASE Rollback(s) /\ EndSync(s)
  <2>1. StoreTypeOK'
    BY <1>3, Facts, RollbackType
  <2> QED BY <1>2, <1>3, <2>1, EndedSyncKeeps DEF Rollback
<1> DEFINE p == mapAlipayStatus(sync[s].word).payment
           t == [tx[s] EXCEPT !.lock = TRUE, !.pay = p]
<1>4. ASSUME payment[tx[s].att] \in InFlight, InTx(s, t), Advance(s, "readOrder")
      PROVE  IInv'
  <2>1. tx[s].order = "keep" /\ ~tx[s].led /\ tx[s].att # 0 /\ sync[s].word \in AlipayStatus
    BY <1>1, Facts DEF SyncHolds, NoTx
  <2>2. p \in {"PROCESSING", "SUCCESS", "FAIL"} /\ p = mapAlipayStatus(sync[s].word).payment
    BY <2>1, MappingTypes
  <2> HIDE DEF p
  <2>3. t \in Tx /\ t.att = tx[s].att /\ t.lock /\ t.pay = p /\ t.order = "keep" /\ ~t.led
    BY <2>1, <2>2, Facts DEF Tx, PaymentStatus
  <2> HIDE DEF t
  <2>4. PICK c \in Sync : /\ sync' = [sync EXCEPT ![s] = c] /\ sync'[s] = c /\ c.pc = "readOrder"
                          /\ c.word = sync[s].word
    BY <1>4, AdvanceType DEF SyncPc
  <2>5. tx'[s] = t
    BY <1>4, Facts DEF InTx, StoreTypeOK
  <2>6. SyncHolds(s)'
    BY <2>1, <2>2, <2>3, <2>4, <2>5 DEF SyncHolds
  <2>7. /\ t.att # 0 /\ payment[t.att] \in InFlight
        /\ \A v \in Workers \ {s} : ~(tx[v].lock /\ tx[v].att = t.att)
    BY <1>1, <1>4, <2>1, <2>3 DEF PaymentFree
  <2> QED BY <1>2, <1>4, <2>2, <2>3, <2>4, <2>6, <2>7, SyncBufferKeeps
<1> QED BY <1>3, <1>4 DEF CasAttempt

(* WriteOrder keeps the invariant. *)
LEMMA WriteOrderKeeps ==
  ASSUME IInv, NEW s \in Syncs, WriteOrder(s), UNCHANGED qrVars
  PROVE  IInv'
<1> DEFINE t == [tx[s] EXCEPT !.order = Order(s)]
           pc == IF Order(s) = "PAID" THEN "lookup" ELSE "commit"
<1>1. sync[s].pc = "write" /\ InTx(s, t) /\ Advance(s, pc) /\ pc \in SyncPc
  BY DEF WriteOrder, At, SyncPc
<1>2. acked' \in BOOLEAN
  BY Facts, AnswerType DEF WriteOrder
<1>3. sync[s].word \in AlipayStatus /\ tx[s].att # 0 /\ ~tx[s].led
  BY <1>1, Facts DEF SyncHolds
<1>4. Order(s) \in OrderStatus /\ Order(s) # "keep"
  BY <1>3, MappingTypes DEF Order, OrderStatus
<1>5. /\ t \in Tx /\ t.att = tx[s].att /\ t.lock = tx[s].lock /\ t.pay = tx[s].pay
      /\ t.order = Order(s) /\ ~t.led
  BY <1>3, <1>4, Facts DEF Tx
<1>6. pc \in {"lookup", "commit"} /\ (pc = "lookup" <=> Order(s) = "PAID")
  OBVIOUS
<1> HIDE DEF t, pc
<1>7. PICK c \in Sync : /\ sync' = [sync EXCEPT ![s] = c] /\ sync'[s] = c /\ c.pc = pc
                        /\ c.word = sync[s].word
  BY <1>1, AdvanceType
<1>8. tx'[s] = t /\ payment' = payment /\ Order(s)' = Order(s)
  BY <1>1, <1>7, Facts DEF InTx, StoreTypeOK, Order
<1>9. SyncHolds(s)'
  BY <1>1, <1>3, <1>4, <1>5, <1>6, <1>7, <1>8, Facts DEF SyncHolds
<1> QED BY <1>1, <1>2, <1>3, <1>5, <1>7, <1>9, SyncWriteKeeps

(* LookupLedger keeps the invariant. *)
LEMMA LookupLedgerKeeps ==
  ASSUME IInv, NEW s \in Syncs, LookupLedger(s), UNCHANGED qrVars
  PROVE  IInv'
<1>1. sync[s].pc = "lookup" /\ UNCHANGED storeVars /\ acked' = acked
  BY DEF LookupLedger, At, NoAnswer
<1>2. PICK pc \in {"commit", "insert"} : Advance(s, pc) /\ (pc = "commit" => tx[s].att \in ledger)
  BY DEF LookupLedger
<1>3. pc \in SyncPc
  BY DEF SyncPc
<1>4. PICK c \in Sync : /\ sync' = [sync EXCEPT ![s] = c] /\ sync'[s] = c /\ c.pc = pc
                        /\ c.word = sync[s].word
  BY <1>2, <1>3, AdvanceType
<1>5. tx'[s] = tx[s] /\ payment' = payment /\ ledger' = ledger /\ Order(s)' = Order(s)
  BY <1>1, <1>4 DEF storeVars, Order
<1>6. SyncHolds(s)'
  BY <1>1, <1>2, <1>4, <1>5, Facts DEF SyncHolds
<1> QED BY <1>1, <1>4, <1>6, Facts, QuietSyncKeeps

(* InsertLedgerEntry keeps the invariant. *)
LEMMA InsertLedgerEntryKeeps ==
  ASSUME IInv, NEW s \in Syncs, InsertLedgerEntry(s), UNCHANGED qrVars
  PROVE  IInv'
<1> DEFINE l == tx[s].att \notin ledger
           x == tx[s].att \in ledger
           t == [tx[s] EXCEPT !.led = l, !.dead = x]
<1>1. sync[s].pc = "insert" /\ InTx(s, t) /\ Advance(s, "commit") /\ acked' = acked
  BY DEF InsertLedgerEntry, At, NoAnswer
<1>2. /\ t \in Tx /\ t.att = tx[s].att /\ t.lock = tx[s].lock /\ t.pay = tx[s].pay
      /\ t.order = tx[s].order /\ (t.led \/ t.dead)
  <2>1. l \in BOOLEAN /\ x \in BOOLEAN /\ (l \/ x)
    OBVIOUS
  <2>2. tx[s] \in Tx
    BY Facts
  <2> HIDE DEF l, x
  <2> QED BY <2>1, <2>2 DEF Tx
<1> HIDE DEF t
<1>3. PICK c \in Sync : /\ sync' = [sync EXCEPT ![s] = c] /\ sync'[s] = c /\ c.pc = "commit"
                        /\ c.word = sync[s].word
  BY <1>1, AdvanceType DEF SyncPc
<1>4. tx'[s] = t /\ payment' = payment /\ tx[s].att # 0 /\ Order(s)' = Order(s)
  BY <1>1, <1>3, Facts DEF InTx, StoreTypeOK, SyncHolds, Order
<1>5. /\ t.order = "PAID" /\ Order(s) = "PAID" /\ sync[s].word \in AlipayStatus
      /\ IF t.lock THEN t.pay = mapAlipayStatus(sync[s].word).payment
                   ELSE t.pay = "keep" /\ payment[t.att] = "SUCCESS"
  BY <1>1, <1>2, Facts DEF SyncHolds
<1>6. SyncHolds(s)'
  BY <1>2, <1>3, <1>4, <1>5 DEF SyncHolds
<1> QED BY <1>1, <1>2, <1>3, <1>4, <1>6, Facts, SyncWriteKeeps

(* What a round publishes carries its entry, its attempt and its order row
   together. *)
LEMMA CommitCarries ==
  ASSUME IInv, NEW s \in Syncs, sync[s].pc = "commit"
  PROVE  /\ tx[s].led => MoneyArrived(tx[s].order)
         /\ tx[s].led => tx[s].pay = "SUCCESS" \/ (tx[s].pay = "keep" /\ payment[tx[s].att] = "SUCCESS")
         /\ tx[s].pay = "SUCCESS" /\ ~tx[s].led /\ ~tx[s].dead => tx[s].order = "keep" /\ Booked
         /\ MoneyArrived(tx[s].order) /\ ~tx[s].led /\ ~tx[s].dead => tx[s].att \in ledger
<1>1. /\ sync[s].word \in AlipayStatus
      /\ IF tx[s].lock THEN tx[s].pay = mapAlipayStatus(sync[s].word).payment
                       ELSE tx[s].pay = "keep" /\ payment[tx[s].att] = "SUCCESS"
      /\ tx[s].led => tx[s].order = "PAID" /\ Order(s) = "PAID"
      /\ tx[s].order = "keep" => Booked \/ tx[s].pay # "SUCCESS"
      /\ tx[s].order # "keep" => tx[s].order = Order(s)
      /\ tx[s].order = "PAID" => tx[s].dead \/ tx[s].led \/ tx[s].att \in ledger
  BY Facts DEF SyncHolds
<1>2. /\ Order(s) \in {"PAID", "PAYING", "FAILED"}
      /\ Order(s) = "PAID" <=> mapAlipayStatus(sync[s].word).payment = "SUCCESS"
  BY <1>1, MappingTypes DEF Order
<1>3. tx[s].lock => tx[s].att \notin ledger
  BY Facts DEF LocksProtect, BooksAgree, LedgerOnlyForSettled, InFlight
<1> QED BY <1>1, <1>2, <1>3 DEF MoneyArrived

(* CommitSync keeps the invariant. *)
LEMMA CommitSyncKeeps ==
  ASSUME IInv, NEW s \in Syncs, CommitSync(s), UNCHANGED qrVars
  PROVE  IInv'
<1>1. /\ sync[s].pc = "commit" /\ Publish(s) /\ UNCHANGED <<settled, trade, exact, faults>>
      /\ EndSync(s) /\ acked' = acked
  BY DEF CommitSync, Commit, At, NoAnswer
<1>2. StoreTypeOK' /\ LocksProtect' /\ Grows
  BY <1>1, Facts, CommitType, CommitLocks
<1>3. BooksAgree'
  BY <1>1, Facts, CommitCarries, CommitAgrees
<1>4. sync'[s] = IdleSync /\ tx' = [tx EXCEPT ![s] = NoTx] /\ tx'[s] = NoTx
  BY <1>1, Facts DEF EndSync, Publish, StoreTypeOK
<1> QED BY <1>1, <1>2, <1>3, <1>4, Facts, IdleSyncHolds, SyncStepKeeps DEF EndSync

(* SyncFault keeps the invariant. *)
LEMMA SyncFaultKeeps ==
  ASSUME IInv, NEW s \in Syncs, SyncFault(s), UNCHANGED qrVars
  PROVE  IInv'
<1>1. StoreTypeOK'
  BY FaultType, Facts DEF SyncFault
<1> QED BY <1>1, Facts, EndedSyncKeeps DEF SyncFault, Fault, NoAnswer

----------------------------------------------------------------------------
(* The whole system *)

(* Whoever keeps the books and leaves the rounds alone keeps the invariant. *)
LEMMA OthersKeep ==
  ASSUME IInv, StoreInv', Grows, QRTypeOK', UNCHANGED <<tx, syncVars>>
  PROVE  IInv'
<1>1. SyncTypeOK'
  BY DEF IInv, TypeOK, SyncTypeOK, syncVars
<1>2. \A s \in Syncs : SyncHolds(s)'
  BY SyncFrame DEF syncVars
<1> QED BY <1>1, <1>2 DEF IInv, TypeOK, StoreInv

(* A restart forgets transactions and keeps the rows. *)
LEMMA RestartKeeps ==
  ASSUME IInv, Restart
  PROVE  IInv'
<1>1. /\ \A w \in Workers : tx'[w] = NoTx
      /\ \A s \in Syncs : tx'[s] = NoTx /\ sync'[s] = IdleSync
  BY SyncAssumption DEF Restart
<1>2. StoreTypeOK'
  BY NoTxType, StoreAssumption DEF IInv, TypeOK, StoreTypeOK, Restart
<1>3. SyncTypeOK' /\ QRTypeOK'
  BY IdleSyncHolds DEF IInv, TypeOK, SyncTypeOK, QRTypeOK, Restart, RequestPc
<1>4. LocksProtect'
  BY <1>1 DEF IInv, LocksProtect, NoTx, Restart
<1>5. BooksAgree'
  BY SameRowsAgree DEF IInv, Restart
<1> QED BY <1>1, <1>2, <1>3, <1>4, <1>5, IdleSyncHolds DEF IInv, TypeOK

(* The first states satisfy the invariant. *)
LEMMA InitIInv ==
  ASSUME Init
  PROVE  IInv
<1>1. StoreTypeOK
  BY NoTxType, StoreAssumption DEF Init, StoreInit, StoreTypeOK
<1>2. SyncTypeOK
  BY IdleSyncHolds DEF Init, SyncInit, SyncTypeOK
<1>3. QRTypeOK
  BY StoreAssumption DEF Init, QRInit, QRTypeOK, RequestPc
<1>4. LocksProtect
  BY DEF Init, StoreInit, LocksProtect, NoTx
<1>5. \A s \in Syncs : SyncHolds(s)
  BY SyncAssumption DEF Init, StoreInit, SyncInit, SyncHolds, IdleSync, NoTx
<1>6. BooksAgree
  BY DEF Init, StoreInit, BooksAgree, LedgerOnlyForSettled, PaidOrderIsBooked, SettledMeansBooked,
         MoneyArrived
<1> QED BY <1>1, <1>2, <1>3, <1>4, <1>5, <1>6 DEF IInv, TypeOK

(* The facts about the rows a proof about anybody else starts from. *)
LEMMA StoreFacts ==
  ASSUME IInv
  PROVE  StoreInv /\ QRTypeOK
BY DEF IInv, TypeOK, StoreInv

(* Every step keeps the invariant. *)
LEMMA NextKeeps ==
  ASSUME IInv, [Next]_vars
  PROVE  IInv'
<1>1. CASE StoreNext /\ UNCHANGED <<syncVars, qrVars>>
  <2>1. QRTypeOK'
    BY <1>1 DEF IInv, TypeOK, QRTypeOK, qrVars
  <2> QED BY <1>1, <2>1, StoreFacts, StoreNextKeepsStore, OthersKeep DEF StoreKept
<1>2. CASE SyncNext /\ UNCHANGED qrVars
  <2>1. ASSUME NEW s \in Syncs, SyncStep(s)
        PROVE  IInv'
    BY <1>2, <2>1, PickAttemptKeeps, ReadOrderKeeps, CasAttemptKeeps, WriteOrderKeeps,
       LookupLedgerKeeps, InsertLedgerEntryKeeps, CommitSyncKeeps DEF SyncStep
  <2> QED BY <1>2, <2>1, StartKeeps, SyncFaultKeeps DEF SyncNext
<1>3. CASE QRNext /\ UNCHANGED syncVars
  BY <1>3, StoreFacts, RequestKeepsStore, OthersKeep DEF StoreKept
<1>4. CASE Restart
  BY <1>4, RestartKeeps
<1>5. CASE UNCHANGED vars
  <2>1. StoreTypeOK' /\ LocksProtect' /\ QRTypeOK' /\ Grows
    BY <1>5 DEF IInv, TypeOK, StoreTypeOK, LocksProtect, QRTypeOK, Grows, vars, storeVars, qrVars
  <2>2. BooksAgree'
    BY <1>5, SameRowsAgree DEF IInv, vars, storeVars
  <2> QED BY <1>5, <2>1, <2>2, OthersKeep DEF StoreInv, vars, storeVars
<1> QED BY <1>1, <1>2, <1>3, <1>4, <1>5 DEF Next

(* The inductive invariant holds of the whole system. *)
THEOREM Inductive == Spec => []IInv
BY InitIInv, NextKeeps, PTL DEF Spec

(* Every variable keeps to its vocabulary. *)
THEOREM TypeCorrect == Spec => []TypeOK
<1>1. IInv => TypeOK
  BY DEF IInv
<1> QED BY <1>1, Inductive, PTL

(* An order paid through Alipay reads PAID or REFUNDED only when a settled
   attempt owns its PAYMENT ledger entry. *)
THEOREM PaidOrderBooked == Spec => []PaidOrderIsBooked
<1>1. IInv => PaidOrderIsBooked
  BY DEF IInv, BooksAgree
<1> QED BY <1>1, Inductive, PTL

----------------------------------------------------------------------------
(* Refinement: the rows are the books of BookedMoney. *)

(* A round writes no row before it commits. *)
LEMMA SyncWritesAtCommit ==
  ASSUME NEW s \in Syncs,
         \/ queryOrder(s) \/ (\E w \in AlipayStatus : notify(s, w)) \/ SyncFault(s)
         \/ PickAttempt(s) \/ ReadSettledOrder(s) \/ CasAttempt(s) \/ ReadOrder(s)
         \/ WriteOrder(s) \/ LookupLedger(s) \/ InsertLedgerEntry(s)
  PROVE  UNCHANGED <<order, payment, ledger, trade, exact>>
BY DEF queryOrder, notify, SyncFault, PickAttempt, ReadSettledOrder, CasAttempt, ReadOrder,
       WriteOrder, LookupLedger, InsertLedgerEntry, InTx, Rollback, Fault, storeVars

(* Every step of the system is a step of BookedMoney, or none. *)
LEMMA NextMoney ==
  ASSUME IInv, [Next]_vars
  PROVE  MoneyStep /\ Grows
<1>1. CASE UNCHANGED <<order, payment, ledger>>
  BY <1>1, SameMoney DEF Grows
<1>2. CASE StoreNext \/ QRNext
  BY <1>2, StoreFacts, StoreNextKeepsStore, RequestKeepsStore DEF StoreKept
<1>3. ASSUME NEW s \in Syncs, CommitSync(s)
      PROVE  MoneyStep /\ Grows
  <2>1. sync[s].pc = "commit" /\ Publish(s)
    BY <1>3 DEF CommitSync, Commit, At
  <2> QED BY <2>1, Facts, CommitCarries, CommitLocks, PublishMoney
<1>4. CASE SyncNext
  BY <1>1, <1>3, <1>4, SyncWritesAtCommit DEF SyncNext, SyncStep
<1>5. CASE Restart
  BY <1>1, <1>5 DEF Restart
<1>6. CASE UNCHANGED vars
  BY <1>1, <1>6 DEF vars, storeVars
<1> QED BY <1>2, <1>4, <1>5, <1>6 DEF Next

(* AlipayPayment implements BookedMoney: an attempt settles together with its
   entry and its order row, or joins money already booked, and nothing is
   taken back, though the caller is answered before the COMMIT. *)
THEOREM MoneyKept == Spec => MoneyIsKept
<1>1. Init => Money!Init
  BY DEF Init, StoreInit, Money!Init, MoneyArrived
<1>2. IInv /\ [Next]_vars => [Money!Next]_(Money!vars)
  BY NextMoney DEF MoneyStep
<1> QED BY <1>1, <1>2, Inductive, PTL DEF Spec, MoneyIsKept, Money!Spec

----------------------------------------------------------------------------
(* Amounts *)

(* The trade moves forward only, and only the channel and a first offer move
   it. *)
LEMMA TradeMoves ==
  ASSUME IInv, [Next]_vars
  PROVE  /\ trade # "none" => trade' # "none"
         /\ trade \in {"SUCCESS", "REFUND"} => trade' \in {"SUCCESS", "REFUND"}
         /\ trade \in {"CLOSED", "REFUND"} => trade' = trade
<1>1. CASE StoreNext
  BY <1>1 DEF StoreNext, ChannelMoves, RefundSettles, RefundClosesOrder
<1>2. CASE SyncNext \/ Restart \/ UNCHANGED vars
  <2>1. trade' = trade
    BY <1>2, SyncWritesAtCommit DEF SyncNext, SyncStep, CommitSync, Commit, Restart, vars, storeVars
  <2> QED BY <2>1
<1>3. CASE QRNext
  <2>1. trade' = trade \/ (trade = "none" /\ trade' = "NOTPAY")
    BY <1>3 DEF QRNext, RequestStep, RequestFault, ProbeOrder, insertQrOrder,
                refuseIfAlreadySettled, bookQrPayment, offerQrChannel, PromotePayment,
                PromoteOrder, markQrPaymentFailed, storeVars
  <2> QED BY <1>2, <2>1
<1> QED BY <1>1, <1>2, <1>3 DEF Next

(* What a round carries after a step was carried before, or is what the trade
   has reported. *)
LEMMA WordMoves ==
  ASSUME IInv, NEW s \in Syncs,
         queryOrder(s) \/ SyncStep(s) \/ SyncFault(s) \/ (\E w \in AlipayStatus : notify(s, w))
  PROVE  /\ trade' = trade
         /\ \A r \in Syncs \ {s} : sync'[r] = sync[r]
         /\ sync'[s].pc # "idle" =>
              \/ sync[s].pc # "idle" /\ sync'[s].word = sync[s].word
              \/ sync[s].pc = "idle" /\ sync'[s].word \in Notified
<1>0. sync \in [Syncs -> Sync] /\ sync[s] \in Sync
  BY Facts
<1>1. trade' = trade
  BY SyncWritesAtCommit DEF SyncStep, CommitSync, Commit
<1>2. CASE EndSync(s)
  BY <1>0, <1>1, <1>2 DEF EndSync, IdleSync
<1>3. ASSUME NEW pc, Advance(s, pc), sync[s].pc # "idle"
      PROVE  /\ \A r \in Syncs \ {s} : sync'[r] = sync[r]
             /\ sync'[s].word = sync[s].word
  BY <1>0, <1>3 DEF Advance, Sync
<1>4. CASE queryOrder(s) \/ (\E w \in AlipayStatus : notify(s, w))
  <2>1. PICK by \in {"sweep", "notify"}, w \in Notified :
          sync' = [sync EXCEPT ![s] = [pc |-> "pick", by |-> by, word |-> w]]
    BY <1>4 DEF queryOrder, notify, Notified
  <2>2. sync[s].pc = "idle"
    BY <1>4 DEF queryOrder, notify, At
  <2> QED BY <1>0, <1>1, <2>1, <2>2
<1>5. CASE SyncStep(s) /\ ~EndSync(s)
  <2>1. sync[s].pc # "idle" /\ \E pc : Advance(s, pc)
    BY <1>5 DEF SyncStep, PickAttempt, ReadSettledOrder, CasAttempt, ReadOrder, WriteOrder,
                LookupLedger, InsertLedgerEntry, CommitSync, At
  <2> QED BY <1>1, <1>3, <2>1
<1> QED BY <1>2, <1>4, <1>5 DEF SyncFault

(* A round never carries a verdict the trade does not have. *)
LEMMA WordsStayReported ==
  ASSUME IInv, WordsAreReported, [Next]_vars
  PROVE  WordsAreReported'
<1>1. CASE UNCHANGED sync
  BY <1>1, TradeMoves DEF WordsAreReported
<1>2. CASE SyncNext
  <2>1. PICK s \in Syncs :
          queryOrder(s) \/ SyncStep(s) \/ SyncFault(s) \/ (\E w \in AlipayStatus : notify(s, w))
    BY <1>2 DEF SyncNext
  <2>2. \A w \in Notified :
          /\ trade # "none"
          /\ w = "TRADE_SUCCESS" => trade \in {"SUCCESS", "REFUND"}
          /\ w = "TRADE_CLOSED" => trade \in {"CLOSED", "REFUND"}
    BY DEF Notified, Reported
  <2> QED BY <2>1, <2>2, WordMoves DEF WordsAreReported
<1>3. CASE Restart
  BY <1>3 DEF Restart, WordsAreReported, IdleSync
<1> QED BY <1>1, <1>2, <1>3 DEF Next, syncVars, vars

(* The fourth conjunct of TradeHasAttempt: an attempt to book the money on. *)
Bookable(a) ==
  \/ payment[a] = "SUCCESS"
  \/ /\ payment[a] \in InFlight
     /\ \A q \in Requests : booked[q] = a => qpc[q] \notin {"offer", "markFailed"}

(* A COMMIT leaves an attempt to book the money on: it closes one only for a
   trade that is over, or that has settled another. *)
LEMMA CommitKeepsAttempt ==
  ASSUME IInv, WordsAreReported, TradeHasAttempt, NEW s \in Syncs, CommitSync(s), UNCHANGED qrVars
  PROVE  TradeHasAttempt'
<1>1. /\ sync[s].pc = "commit" /\ Publish(s) /\ trade' = trade /\ trade # "none"
      /\ UNCHANGED <<qpc, booked>>
  BY DEF CommitSync, Commit, At, WordsAreReported, qrVars
<1>2. tx[s].pay # "keep" =>
        /\ tx[s].att \in Attempts /\ payment[tx[s].att] \in InFlight
        /\ tx[s].pay = mapAlipayStatus(sync[s].word).payment /\ sync[s].word \in AlipayStatus
  <2>1. tx[s].pay # "keep" => tx[s].lock /\ tx[s].att # 0 /\ payment[tx[s].att] \in InFlight
    BY Facts DEF LocksProtect
  <2>2. tx[s].att # 0 => tx[s].att \in Attempts
    BY Facts, StoreAssumption DEF Tx
  <2>3. tx[s].lock =>
          tx[s].pay = mapAlipayStatus(sync[s].word).payment /\ sync[s].word \in AlipayStatus
    BY <1>1, Facts DEF SyncHolds
  <2> QED BY <2>1, <2>2, <2>3
<1>3. \A a \in Attempts :
        payment'[a] = IF ~tx[s].dead /\ tx[s].pay # "keep" /\ a = tx[s].att
                        THEN tx[s].pay ELSE payment[a]
  BY <1>1, Facts DEF StoreTypeOK, Publish
<1>4. tx[s].pay # "keep" => tx[s].pay \in {"PROCESSING", "SUCCESS", "FAIL"}
  BY <1>2, MappingTypes
<1>5. tx[s].pay = "FAIL" => trade \in {"CLOSED", "REFUND"}
  BY <1>1, <1>2, MappingTypes DEF WordsAreReported
<1>6. Booked => Booked'
  BY <1>1, Facts, CommitLocks, BookedStays
<1>7. \A q \in Requests : booked[q] # 0 => booked[q] \in Attempts /\ payment'[booked[q]] # "none"
  BY <1>3, <1>4, Facts, StoreAssumption DEF QRTypeOK, TradeHasAttempt
<1>8. trade \in {"NOTPAY", "USERPAYING", "SUCCESS", "REFUND"} => \E a \in Attempts : Bookable(a)'
  <2>1. SUFFICES ASSUME trade \in {"NOTPAY", "USERPAYING", "SUCCESS", "REFUND"}
                 PROVE  \E a \in Attempts : Bookable(a)'
    OBVIOUS
  <2>2. CASE tx[s].pay = "FAIL"
    <3>1. PICK a \in ledger : payment[a] = "SUCCESS"
      BY <1>5, <2>1, <2>2 DEF TradeHasAttempt, Booked
    <3>2. a \in Attempts /\ payment'[a] = "SUCCESS"
      BY <1>2, <1>3, <2>2, <3>1, Facts DEF StoreTypeOK, InFlight
    <3> QED BY <3>2 DEF Bookable
  <2>3. CASE tx[s].pay # "FAIL"
    <3>1. PICK a \in Attempts : Bookable(a)
      BY <2>1 DEF TradeHasAttempt, Bookable
    <3>2. payment'[a] = payment[a] \/ (payment[a] \in InFlight /\ payment'[a] \in {"PROCESSING", "SUCCESS"})
      BY <1>2, <1>3, <1>4, <2>3
    <3>3. Bookable(a)'
      BY <1>1, <3>1, <3>2 DEF Bookable, InFlight
    <3> QED BY <3>3
  <2> QED BY <2>2, <2>3
<1> QED BY <1>1, <1>6, <1>7, <1>8 DEF TradeHasAttempt, Bookable

(* Requests keep to their own attempts, and the first offer opens the trade on
   one that is in flight. *)
LEMMA RequestKeepsAttempt ==
  ASSUME IInv, TradeHasAttempt, QRNext
  PROVE  TradeHasAttempt'
<1>0. PICK q \in Requests : RequestStep(q) \/ RequestFault(q)
  BY DEF QRNext
<1>1. /\ StoreTypeOK /\ LocksProtect /\ QRTypeOK /\ qpc \in [Requests -> RequestPc]
      /\ payment \in [Attempts -> PaymentStatus \cup {"none"}]
      /\ booked \in [Requests -> 0..MaxAttempts]
      /\ \A p \in Requests : booked[p] # 0 => booked[p] \in Attempts
  BY StoreAssumption DEF IInv, TypeOK, StoreTypeOK, QRTypeOK
<1>2. (Booked => Booked') /\ (trade = "REFUND" <=> trade' = "REFUND")
  <2>1. Grows
    BY StoreFacts, RequestKeepsStore DEF StoreKept
  <2>2. trade' = trade \/ (trade = "none" /\ trade' = "NOTPAY")
    BY <1>0 DEF RequestStep, RequestFault, ProbeOrder, insertQrOrder,
                refuseIfAlreadySettled, bookQrPayment, offerQrChannel, PromotePayment,
                PromoteOrder, markQrPaymentFailed, storeVars
  <2> QED BY <1>1, <2>1, <2>2, BookedStays
<1>3. ASSUME UNCHANGED <<payment, booked, trade>>,
             NEW pc \in RequestPc \ {"offer"}, RequestGoto(q, pc), pc = "markFailed" => qpc[q] = "offer"
      PROVE  TradeHasAttempt'
  <2>1. \A p \in Requests : qpc'[p] = IF p = q THEN pc ELSE qpc[p]
    BY <1>1, <1>3 DEF RequestGoto
  <2>2. \A a \in Attempts : Bookable(a) => Bookable(a)'
    BY <1>3, <2>1 DEF Bookable
  <2> QED BY <1>2, <1>3, <2>1, <2>2 DEF TradeHasAttempt, Bookable
<1>4. CASE ProbeOrder(q) \/ refuseIfAlreadySettled(q) \/ insertQrOrder(q) \/ PromoteOrder(q)
             \/ RequestFault(q)
  <2>1. /\ UNCHANGED <<payment, booked, trade>>
        /\ \E pc \in RequestPc \ {"offer", "markFailed"} : RequestGoto(q, pc)
    BY <1>4 DEF ProbeOrder, refuseIfAlreadySettled, insertQrOrder, PromoteOrder, RequestFault,
                storeVars, RequestPc
  <2> QED BY <1>3, <2>1
<1>5. CASE bookQrPayment(q)
  <2>1. PICK a \in Attempts :
          /\ payment[a] = "none" /\ payment' = [payment EXCEPT ![a] = "INIT"]
          /\ booked' = [booked EXCEPT ![q] = a] /\ qpc' = [qpc EXCEPT ![q] = "offer"]
          /\ trade' = trade
    BY <1>5 DEF bookQrPayment, RequestGoto
  <2>2. /\ \A b \in Attempts : payment'[b] = IF b = a THEN "INIT" ELSE payment[b]
        /\ \A p \in Requests : /\ booked'[p] = IF p = q THEN a ELSE booked[p]
                               /\ qpc'[p] = IF p = q THEN "offer" ELSE qpc[p]
    BY <1>1, <2>1
  <2>3. \A p \in Requests : booked[p] # a
    BY <1>1, <2>1, StoreAssumption DEF TradeHasAttempt
  <2>4. \A b \in Attempts : Bookable(b) => Bookable(b)'
    BY <2>1, <2>2 DEF Bookable, InFlight
  <2>5. /\ \A p \in Requests : booked'[p] # 0 => payment'[booked'[p]] # "none"
        /\ \A p, r \in Requests : booked'[p] = booked'[r] /\ booked'[p] # 0 => p = r
    BY <1>1, <2>2, <2>3 DEF TradeHasAttempt
  <2>6. \A p \in Requests : trade' = "none" /\ qpc'[p] = "offer" => payment'[booked'[p]] \in InFlight
    <3>1. \A p \in Requests : qpc[p] = "offer" => booked[p] # 0
      BY <1>1 DEF QRTypeOK
    <3> QED BY <1>1, <2>1, <2>2, <2>3, <3>1 DEF TradeHasAttempt, InFlight
  <2> QED BY <1>2, <2>1, <2>4, <2>5, <2>6 DEF TradeHasAttempt, Bookable
<1>6. CASE offerQrChannel(q)
  <2>1. CASE trade' = trade
    <3>1. /\ UNCHANGED <<payment, booked, trade>> /\ qpc[q] = "offer"
          /\ \E pc \in RequestPc \ {"offer"} : RequestGoto(q, pc)
      BY <1>6, <2>1 DEF offerQrChannel, RequestPc
    <3> QED BY <1>3, <3>1
  <2>2. CASE trade' # trade
    <3>1. /\ trade = "none" /\ trade' = "NOTPAY" /\ UNCHANGED <<payment, booked>> /\ qpc[q] = "offer"
          /\ \E pc \in {"promotePayment", "refused"} : qpc' = [qpc EXCEPT ![q] = pc]
      BY <1>6, <2>2 DEF offerQrChannel, RequestGoto
    <3>2. booked[q] \in Attempts /\ payment[booked[q]] \in InFlight
      BY <1>1, <3>1, BookedAttempt DEF TradeHasAttempt
    <3>3. \A p \in Requests : booked[p] = booked[q] => p = q
      BY <3>2, StoreAssumption DEF TradeHasAttempt
    <3>4. Bookable(booked[q])'
      BY <1>1, <3>1, <3>2, <3>3 DEF Bookable
    <3>5. \E a \in Attempts : Bookable(a)'
      BY <3>1, <3>2, <3>4
    <3> QED BY <1>2, <3>1, <3>5 DEF TradeHasAttempt, Bookable
  <2> QED BY <2>1, <2>2
<1>7. CASE PromotePayment(q) \/ markQrPaymentFailed(q)
  <2>1. booked[q] \in Attempts /\ UNCHANGED <<booked, trade>>
    BY <1>1, <1>7, BookedAttempt DEF PromotePayment, markQrPaymentFailed
  <2>2. CASE payment' = payment
    <3>1. \E pc \in RequestPc \ {"offer", "markFailed"} : RequestGoto(q, pc)
      BY <1>7 DEF PromotePayment, markQrPaymentFailed, RequestPc
    <3> QED BY <1>3, <2>1, <2>2, <3>1
  <2>3. CASE payment' # payment
    <3>1. /\ payment[booked[q]] \in InFlight
          /\ \/ /\ payment' = [payment EXCEPT ![booked[q]] = "PROCESSING"]
                /\ qpc' = [qpc EXCEPT ![q] = "promoteOrder"]
             \/ /\ payment' = [payment EXCEPT ![booked[q]] = "FAIL"] /\ qpc[q] = "markFailed"
                /\ qpc' = [qpc EXCEPT ![q] = "refused"]
      BY <1>7, <2>3 DEF PromotePayment, markQrPaymentFailed, RequestGoto
    <3>2. \A p \in Requests : p # q => booked[p] # booked[q] /\ qpc'[p] = qpc[p]
      BY <1>1, <2>1, <3>1, StoreAssumption DEF TradeHasAttempt
    <3>3. \A a \in Attempts : a # booked[q] => payment'[a] = payment[a]
      BY <1>1, <3>1
    <3>4. payment'[booked[q]] \in {"PROCESSING", "FAIL"} /\ qpc'[q] \in {"promoteOrder", "refused"}
      BY <1>1, <2>1, <3>1
    <3>5. \A a \in Attempts : Bookable(a) => Bookable(a)'
      <4> SUFFICES ASSUME NEW a \in Attempts, Bookable(a)
                   PROVE  Bookable(a)'
        OBVIOUS
      <4>1. CASE a # booked[q]
        BY <2>1, <3>2, <3>3, <3>4, <4>1 DEF Bookable
      <4>2. CASE a = booked[q]
        <5>1. qpc[q] # "markFailed"
          BY <3>1, <4>2 DEF Bookable, InFlight
        <5>2. payment'[a] = "PROCESSING" /\ qpc'[q] = "promoteOrder"
          BY <1>1, <2>1, <3>1, <4>2, <5>1
        <5> QED BY <2>1, <3>2, <4>2, <5>2 DEF Bookable, InFlight
      <4> QED BY <4>1, <4>2
    <3>6. \A p \in Requests : booked'[p] # 0 => payment'[booked'[p]] # "none"
      BY <1>1, <2>1, <3>2, <3>3, <3>4 DEF TradeHasAttempt
    <3>7. \A p \in Requests : trade' = "none" /\ qpc'[p] = "offer" => payment'[booked'[p]] \in InFlight
      <4>1. \A p \in Requests : qpc[p] = "offer" => booked[p] # 0
        BY <1>1 DEF QRTypeOK
      <4> QED BY <1>1, <2>1, <3>2, <3>3, <3>4, <4>1 DEF TradeHasAttempt
    <3> QED BY <1>2, <2>1, <3>5, <3>6, <3>7 DEF TradeHasAttempt, Bookable
  <2> QED BY <2>2, <2>3
<1> QED BY <1>0, <1>4, <1>5, <1>6, <1>7 DEF RequestStep

(* While the trade can bring money there is an attempt to book it on. *)
LEMMA AttemptStays ==
  ASSUME IInv, WordsAreReported, TradeHasAttempt, [Next]_vars
  PROVE  TradeHasAttempt'
<1>1. CASE UNCHANGED <<payment, ledger, trade, qrVars>>
  BY <1>1 DEF TradeHasAttempt, Booked, qrVars
<1>2. CASE StoreNext /\ UNCHANGED <<syncVars, qrVars>>
  <2>1. CASE ChannelMoves
    <3>1. UNCHANGED <<payment, ledger, qpc, booked>> /\ trade # "none" /\ trade' # "none"
      BY <1>2, <2>1 DEF ChannelMoves, qrVars
    <3>2. trade' = "REFUND" => Booked
      BY <2>1, Facts DEF ChannelMoves, IInv, BooksAgree, PaidOrderIsBooked, MoneyArrived
    <3>3. trade' \in {"NOTPAY", "USERPAYING", "SUCCESS", "REFUND"} =>
            trade \in {"NOTPAY", "USERPAYING", "SUCCESS", "REFUND"}
      BY <2>1 DEF ChannelMoves
    <3> QED BY <3>1, <3>2, <3>3 DEF TradeHasAttempt, Booked
  <2> QED BY <1>1, <1>2, <2>1 DEF StoreNext, RefundSettles, RefundClosesOrder
<1>3. CASE SyncNext /\ UNCHANGED qrVars
  <2>1. ASSUME NEW s \in Syncs, CommitSync(s)
        PROVE  TradeHasAttempt'
    BY <1>3, <2>1, CommitKeepsAttempt
  <2> QED BY <1>1, <1>3, <2>1, SyncWritesAtCommit DEF SyncNext, SyncStep
<1>4. CASE Restart
  BY <1>4 DEF Restart, TradeHasAttempt, Booked, IInv, TypeOK, QRTypeOK
<1>5. CASE UNCHANGED vars
  BY <1>1, <1>5 DEF vars, storeVars
<1> QED BY <1>2, <1>3, <1>4, <1>5, RequestKeepsAttempt DEF Next

(* A round about money of another amount ends at its pick without an answer. *)
LEMMA InexactMoneyStaysDropped ==
  ASSUME IInv, WordsAreReported, TradeHasAttempt, InexactMoneyIsDropped, [Next]_vars
  PROVE  InexactMoneyIsDropped'
<1>1. exact' = exact
  BY SyncWritesAtCommit
     DEF Next, StoreNext, ChannelMoves, RefundSettles, RefundClosesOrder, SyncNext, SyncStep,
         CommitSync, Commit, QRNext, RequestStep, RequestFault, ProbeOrder, insertQrOrder,
         refuseIfAlreadySettled, bookQrPayment, offerQrChannel, PromotePayment, PromoteOrder,
         markQrPaymentFailed, Restart, storeVars, vars
<1>2. SUFFICES ASSUME ~exact
              PROVE  InexactMoneyIsDropped'
  BY <1>1 DEF InexactMoneyIsDropped
<1>3. /\ ledger = {} /\ ~acked
      /\ \A s \in Syncs : sync[s].pc \notin {"idle", "pick"} => Order(s) # "PAID"
  BY <1>2 DEF InexactMoneyIsDropped
<1>4. CASE ledger' = ledger /\ UNCHANGED syncVars
  BY <1>1, <1>3, <1>4 DEF InexactMoneyIsDropped, syncVars, Order
<1>5. ASSUME NEW s \in Syncs,
             queryOrder(s) \/ SyncStep(s) \/ SyncFault(s) \/ (\E w \in AlipayStatus : notify(s, w))
      PROVE  InexactMoneyIsDropped'
  <2>1. ledger' = {}
    <3>1. CASE CommitSync(s)
      <4>1. sync[s].pc = "commit" /\ Publish(s)
        BY <3>1 DEF CommitSync, Commit, At
      <4>2. ~tx[s].led
        BY <1>3, <4>1, Facts DEF SyncHolds
      <4> QED BY <1>3, <4>1, <4>2 DEF Publish
    <3> QED BY <1>3, <1>5, <3>1, SyncWritesAtCommit DEF SyncStep
  <2>2. ~acked'
    <3>1. CASE NoAnswer
      BY <1>3, <3>1 DEF NoAnswer
    <3>2. CASE Answer(s) /\ Order(s) # "PAID"
      BY <1>3, <3>2 DEF Answer
    <3>3. CASE PickAttempt(s)
      <4>1. CASE openAttemptsOfOrder = {} /\ Order(s) = "PAID"
        <5>1. sync[s].pc = "pick" /\ sync[s].word \in AlipayStatus
          BY <3>3, Facts DEF PickAttempt, At, SyncHolds
        <5>2. trade \in {"SUCCESS", "REFUND"}
          BY <4>1, <5>1, MappingTypes DEF Order, WordsAreReported
        <5>3. \E a \in Attempts : payment[a] \in InFlight \cup {"SUCCESS"}
          BY <5>2 DEF TradeHasAttempt
        <5> QED BY <4>1, <5>3 DEF openAttemptsOfOrder
      <4> QED BY <1>2, <3>1, <3>2, <3>3, <4>1 DEF PickAttempt
    <3>4. CASE ReadSettledOrder(s) \/ CasAttempt(s) \/ ReadOrder(s) \/ WriteOrder(s)
      <4>1. Order(s) # "PAID"
        BY <1>3, <3>4 DEF ReadSettledOrder, CasAttempt, ReadOrder, WriteOrder, At
      <4> QED BY <3>1, <3>2, <3>4, <4>1 DEF ReadSettledOrder, CasAttempt, ReadOrder, WriteOrder
    <3> QED BY <1>5, <3>1, <3>3, <3>4
            DEF SyncStep, queryOrder, notify, SyncFault, LookupLedger, InsertLedgerEntry, CommitSync
  <2>3. \A r \in Syncs : sync'[r].pc \notin {"idle", "pick"} => Order(r)' # "PAID"
    <3>1. \A r \in Syncs \ {s} : sync'[r] = sync[r]
      BY <1>5, WordMoves
    <3>2. CASE sync'[s].pc \in {"idle", "pick"}
      BY <1>3, <3>1, <3>2 DEF Order
    <3>3. CASE sync'[s].pc \notin {"idle", "pick"}
      <4>1. sync[s].pc # "idle" /\ sync'[s].word = sync[s].word
        <5>1. sync[s].pc # "idle"
          BY <1>5, <3>3, Facts
             DEF SyncStep, queryOrder, notify, SyncFault, PickAttempt, ReadSettledOrder, CasAttempt,
                 ReadOrder, WriteOrder, LookupLedger, InsertLedgerEntry, CommitSync, At
        <5> QED BY <1>5, <3>3, <5>1, WordMoves
      <4>2. Order(s) # "PAID"
        <5>1. CASE PickAttempt(s)
          <6>1. ~EndSync(s)
            BY <3>3, Facts DEF EndSync, IdleSync
          <6> QED BY <1>2, <5>1, <6>1 DEF PickAttempt
        <5>2. CASE ~PickAttempt(s)
          <6>1. sync[s].pc # "pick"
            <7>1. ~EndSync(s)
              BY <3>3, Facts DEF EndSync, IdleSync
            <7> QED BY <1>5, <4>1, <5>2, <7>1
                    DEF SyncStep, queryOrder, notify, SyncFault, ReadSettledOrder, CasAttempt,
                        ReadOrder, WriteOrder, LookupLedger, InsertLedgerEntry, CommitSync, At
          <6> QED BY <1>3, <4>1, <6>1
        <5> QED BY <5>1, <5>2
      <4>3. Order(s)' = Order(s)
        BY <4>1 DEF Order
      <4> QED BY <1>3, <3>1, <4>2, <4>3 DEF Order
    <3> QED BY <3>2, <3>3
  <2> QED BY <1>1, <2>1, <2>2, <2>3 DEF InexactMoneyIsDropped
<1>6. CASE Restart
  BY <1>3, <1>6 DEF Restart, InexactMoneyIsDropped, IdleSync
<1>7. CASE StoreNext \/ QRNext
  <2>1. ledger' = ledger
    BY <1>7, StoreFacts, StoreNextKeepsStore, RequestKeepsStore
  <2>2. CASE UNCHANGED syncVars
    BY <1>4, <2>1, <2>2
  <2> QED BY <1>5, <1>6, <2>2 DEF Next, SyncNext, vars
<1>8. CASE UNCHANGED vars
  BY <1>4, <1>8 DEF vars, storeVars
<1> QED BY <1>5, <1>6, <1>7, <1>8 DEF Next, SyncNext

(* Money of another amount is never booked through Alipay, and Alipay is never
   told that it was: the one answer given without an attempt in hand needs a
   trade that nobody was offered. *)
THEOREM InexactNeverBooked == Spec => []InexactMoneyNeverBooked
<1>1. Init => AmountInv
  BY DEF Init, StoreInit, SyncInit, QRInit, AmountInv, WordsAreReported, TradeHasAttempt,
         InexactMoneyIsDropped, IdleSync
<1>2. IInv /\ AmountInv /\ [Next]_vars => AmountInv'
  BY WordsStayReported, AttemptStays, InexactMoneyStaysDropped DEF AmountInv
<1>3. IInv /\ AmountInv => InexactMoneyNeverBooked
  BY DEF IInv, AmountInv, BooksAgree, PaidOrderIsBooked, Booked, InexactMoneyIsDropped,
         InexactMoneyNeverBooked
<1> QED BY <1>1, <1>2, <1>3, Inductive, PTL DEF Spec

----------------------------------------------------------------------------
(* Nobody waits for ever *)

(* A transaction is opened by a round, for itself. *)
LEMMA TransactionsAreOwn ==
  ASSUME IInv, OnlySyncs, [Next]_vars
  PROVE  OnlySyncs'
<1>0. tx \in [Workers -> Tx] /\ Syncs \subseteq Workers
  BY SyncAssumption DEF IInv, TypeOK, StoreTypeOK
<1>1. tx' = tx => OnlySyncs'
  BY DEF OnlySyncs
<1>2. ASSUME NEW s \in Syncs, tx' = tx \/ \E t : tx' = [tx EXCEPT ![s] = t]
      PROVE  OnlySyncs'
  BY <1>0, <1>2 DEF OnlySyncs
<1>3. CASE StoreNext
  BY <1>1, <1>3 DEF StoreNext, ChannelMoves, RefundSettles, RefundClosesOrder
<1>4. CASE SyncNext
  <2> SUFFICES ASSUME NEW s \in Syncs,
                      \/ queryOrder(s) \/ SyncStep(s) \/ SyncFault(s)
                      \/ \E w \in AlipayStatus : notify(s, w)
               PROVE  OnlySyncs'
    BY <1>4 DEF SyncNext
  <2>1. CASE \/ queryOrder(s) \/ \E w \in AlipayStatus : notify(s, w)
             \/ ReadSettledOrder(s) \/ ReadOrder(s) \/ LookupLedger(s)
    BY <1>1, <2>1 DEF queryOrder, notify, ReadSettledOrder, ReadOrder, LookupLedger, storeVars
  <2>2. CASE PickAttempt(s) \/ CasAttempt(s) \/ WriteOrder(s) \/ InsertLedgerEntry(s)
             \/ CommitSync(s) \/ SyncFault(s)
    <3>1. tx' = tx \/ \E t : tx' = [tx EXCEPT ![s] = t]
      BY <2>2 DEF PickAttempt, CasAttempt, WriteOrder, InsertLedgerEntry, CommitSync, SyncFault,
                  InTx, Rollback, Commit, Publish, Fault, storeVars
    <3> QED BY <1>2, <3>1
  <2> QED BY <2>1, <2>2 DEF SyncStep
<1>5. CASE QRNext
  BY <1>1, <1>5 DEF QRNext, RequestStep, RequestFault, ProbeOrder, insertQrOrder,
     refuseIfAlreadySettled, bookQrPayment, offerQrChannel, PromotePayment, PromoteOrder,
     markQrPaymentFailed, storeVars
<1>6. CASE Restart
  BY <1>6 DEF Restart, OnlySyncs
<1>7. CASE UNCHANGED vars
  BY <1>1, <1>7 DEF vars, storeVars
<1> QED BY <1>3, <1>4, <1>5, <1>6, <1>7 DEF Next

(* Along the lock order somebody can always move: an entry is held at COMMIT,
   the order row by one that at most waits for an entry, an attempt by one that
   at most waits for the order row. *)
LEMMA SomeoneMoves ==
  ASSUME IInv, OnlySyncs, NEW w \in Workers, tx[w] # NoTx
  PROVE  \E s \in Syncs : SyncMoves(s)
<1> DEFINE Somebody == \E s \in Syncs : SyncMoves(s)
<1>t. /\ \A v \in Workers : tx[v] # NoTx => v \in Syncs
      /\ \A s \in Syncs : SyncHolds(s) /\ sync[s].pc \in SyncPc
      /\ Syncs \subseteq Workers
  BY SyncAssumption DEF OnlySyncs, IInv, TypeOK, SyncTypeOK, Sync
<1>n. ~NoTx.led /\ ~NoTx.lock /\ NoTx.order = "keep"
  BY DEF NoTx
<1>s. ASSUME NEW s \in Syncs, tx[s] # NoTx
      PROVE  /\ sync[s].pc \in SyncPc \ {"idle", "pick"}
             /\ tx[s].led => sync[s].pc = "commit"
             /\ tx[s].order # "keep" => sync[s].pc \in {"lookup", "insert", "commit"}
             /\ tx[s].lock => sync[s].pc \in {"readOrder", "write", "lookup", "insert", "commit"}
  <2>1. SyncHolds(s) /\ sync[s].pc \in SyncPc
    BY <1>t
  <2>2. sync[s].pc \in SyncPc \ {"idle", "pick"}
    BY <1>s, <2>1 DEF SyncHolds
  <2>3. sync[s].pc \in {"cas", "readSettled"} => ~tx[s].led /\ tx[s].order = "keep" /\ ~tx[s].lock
    <3> DEFINE a == tx[s].att
               t == [NoTx EXCEPT !.att = a]
    <3>1. ~t.led /\ t.order = "keep" /\ ~t.lock
      BY DEF NoTx
    <3>2. sync[s].pc \in {"cas", "readSettled"} => tx[s] = t
      BY <2>1 DEF SyncHolds
    <3> HIDE DEF t
    <3> QED BY <3>1, <3>2
  <2>4. sync[s].pc \in {"readOrder", "write"} => ~tx[s].led /\ tx[s].order = "keep"
    BY <2>1 DEF SyncHolds
  <2>5. sync[s].pc \in {"lookup", "insert"} => ~tx[s].led
    BY <2>1 DEF SyncHolds
  <2> QED BY <2>2, <2>3, <2>4, <2>5 DEF SyncPc
<1>1. ASSUME NEW v \in Workers, tx[v].led PROVE Somebody
  BY <1>1, <1>n, <1>s, <1>t DEF SyncMoves
<1>2. ASSUME NEW v \in Workers, ~LedgerFree(v, tx[v].att) PROVE Somebody
  BY <1>1, <1>2 DEF LedgerFree
<1>3. ASSUME NEW v \in Workers, tx[v].order # "keep" PROVE Somebody
  <2>1. tx[v] # NoTx
    BY <1>3, <1>n
  <2> QED BY <1>2, <1>3, <1>s, <1>t, <2>1 DEF SyncMoves, At
<1>4. ASSUME NEW v \in Workers, ~OrderFree(v) PROVE Somebody
  BY <1>3, <1>4 DEF OrderFree
<1>5. ASSUME NEW s \in Syncs, tx[s] # NoTx, sync[s].pc # "cas" PROVE Somebody
  BY <1>2, <1>4, <1>5, <1>s, <1>t DEF SyncMoves, At, SyncPc
<1>6. ASSUME NEW v \in Workers, tx[v].lock PROVE Somebody
  <2>1. tx[v] # NoTx
    BY <1>6, <1>n
  <2> QED BY <1>5, <1>6, <1>s, <1>t, <2>1
<1>7. ASSUME NEW s \in Syncs, tx[s] # NoTx, sync[s].pc = "cas" PROVE Somebody
  <2>1. CASE ~PaymentFree(s, tx[s].att)
    BY <1>6, <2>1 DEF PaymentFree
  <2> QED BY <1>7, <2>1 DEF SyncMoves, At
<1> QED BY <1>5, <1>7, <1>t

(* Rounds and notifications of the Alipay route that wait for each other's
   rows always leave one that can move, whatever their number. *)
THEOREM SyncsNeverDeadlock == Spec => []SomeSyncCanMove
<1>1. Init => OnlySyncs
  BY DEF Init, StoreInit, OnlySyncs
<1>2. IInv /\ OnlySyncs /\ [Next]_vars => OnlySyncs'
  BY TransactionsAreOwn
<1>3. IInv /\ OnlySyncs => SomeSyncCanMove
  BY SomeoneMoves DEF SomeSyncCanMove
<1> QED BY <1>1, <1>2, <1>3, Inductive, PTL DEF Spec
==============================================================================
