-------------------------- MODULE PaymentStoreProofs -------------------------
(***************************************************************************)
(* What every handler of either channel relies on: row locks, COMMIT and   *)
(* rollback, and the QR requests and refunds that write the same rows keep *)
(* the books in agreement and implement BookedMoney.                       *)
(***************************************************************************)
EXTENDS QRPayment, TLAPS

USE DEF Attempts

(* An idle transaction buffer is typed. *)
LEMMA NoTxType == NoTx \in Tx
BY StoreAssumption DEF NoTx, Tx, PaymentStatus, OrderStatus

(* A COMMIT keeps the store typed. *)
LEMMA CommitType ==
  ASSUME StoreTypeOK, LocksProtect, NEW w \in Workers, Publish(w),
         UNCHANGED <<settled, trade, exact>>, faults' \in 0..MaxFaults
  PROVE  StoreTypeOK'
<1>1. tx[w] \in Tx /\ tx' \in [Workers -> Tx]
  BY NoTxType DEF StoreTypeOK, Publish
<1>2. payment' \in [Attempts -> PaymentStatus \cup {"none"}]
  BY <1>1 DEF StoreTypeOK, Publish, Tx
<1>3. order' \in OrderStatus \cup {"none"}
  BY <1>1 DEF StoreTypeOK, Publish, Tx
<1>4. tx[w].led => tx[w].att \in Attempts
  BY <1>1, StoreAssumption DEF LocksProtect, Tx
<1>5. ledger' \subseteq Attempts
  BY <1>4 DEF StoreTypeOK, Publish
<1> QED BY <1>1, <1>2, <1>3, <1>5 DEF StoreTypeOK, Publish

(* A rollback keeps the store typed. *)
LEMMA RollbackType ==
  ASSUME StoreTypeOK, NEW w \in Workers, Rollback(w)
  PROVE  StoreTypeOK'
BY NoTxType DEF StoreTypeOK, Rollback

(* A fault rolls back and stays within its bound. *)
LEMMA FaultType ==
  ASSUME StoreTypeOK, NEW w \in Workers, Fault(w)
  PROVE  StoreTypeOK'
BY NoTxType, StoreAssumption DEF StoreTypeOK, Fault

(* A buffered write keeps the store typed. *)
LEMMA InTxType ==
  ASSUME StoreTypeOK, NEW w \in Workers, NEW t \in Tx, InTx(w, t)
  PROVE  StoreTypeOK'
BY DEF StoreTypeOK, InTx

----------------------------------------------------------------------------
(* Locks *)

(* Settled attempts and ledger entries only accumulate. *)
Grows ==
  /\ \A a \in Attempts : payment[a] = "SUCCESS" => payment'[a] = "SUCCESS"
  /\ ledger \subseteq ledger'

(* A buffered write goes to an attempt only its own worker has locked. *)
LEMMA InTxLocks ==
  ASSUME StoreTypeOK, LocksProtect, NEW w \in Workers, NEW t \in Tx, InTx(w, t),
         t.lock => /\ t.att # 0
                   /\ payment[t.att] \in InFlight
                   /\ \A v \in Workers \ {w} : ~(tx[v].lock /\ tx[v].att = t.att),
         t.pay # "keep" => t.lock,
         t.pay # "REFUNDED",
         t.led => t.att # 0
  PROVE  LocksProtect' /\ Grows
<1>1. \A v \in Workers : tx'[v] = IF v = w THEN t ELSE tx[v]
  BY DEF StoreTypeOK, InTx
<1> QED BY <1>1 DEF LocksProtect, InTx, Grows, StoreTypeOK

(* A transaction that ends leaves the locks of others. *)
LEMMA RollbackLocks ==
  ASSUME StoreTypeOK, LocksProtect, NEW w \in Workers, tx' = [tx EXCEPT ![w] = NoTx],
         UNCHANGED <<payment, ledger>>
  PROVE  LocksProtect' /\ Grows
<1>1. \A v \in Workers : tx'[v] = IF v = w THEN NoTx ELSE tx[v]
  BY DEF StoreTypeOK
<1> QED BY <1>1 DEF LocksProtect, Grows, StoreTypeOK, NoTx

(* A COMMIT keeps the locks of others. *)
LEMMA CommitLocks ==
  ASSUME StoreTypeOK, LocksProtect, NEW w \in Workers, Publish(w)
  PROVE  LocksProtect' /\ Grows
<1>1. \A v \in Workers : tx'[v] = IF v = w THEN NoTx ELSE tx[v]
  BY DEF StoreTypeOK, Publish
<1>2. tx[w] \in Tx
  BY DEF StoreTypeOK
<1>3. tx[w].pay # "keep" => tx[w].att \in Attempts /\ payment[tx[w].att] \in InFlight
  BY <1>2, StoreAssumption DEF LocksProtect, Tx
<1>4. \A a \in Attempts :
        payment'[a] = IF ~tx[w].dead /\ tx[w].pay # "keep" /\ a = tx[w].att
                        THEN tx[w].pay ELSE payment[a]
  BY DEF StoreTypeOK, Publish
<1>5. Grows
  BY <1>3, <1>4 DEF Grows, Publish, InFlight
<1>6. \A v \in Workers : v # w /\ tx[v].lock =>
        /\ tx[v].att \in Attempts
        /\ payment'[tx[v].att] = payment[tx[v].att]
  <2> SUFFICES ASSUME NEW v \in Workers, v # w, tx[v].lock
               PROVE  tx[v].att \in Attempts /\ payment'[tx[v].att] = payment[tx[v].att]
    OBVIOUS
  <2>1. tx[v] \in Tx /\ tx[v].att \in Attempts
    BY StoreAssumption DEF StoreTypeOK, LocksProtect, Tx
  <2>2. tx[w].pay # "keep" => tx[v].att # tx[w].att
    BY DEF LocksProtect
  <2> QED BY <2>1, <2>2, <1>4
<1>7. \A a \in Attempts : payment'[a] # "REFUNDED"
  BY <1>4 DEF LocksProtect
<1>8. LocksProtect'
  BY <1>1, <1>6, <1>7 DEF LocksProtect, NoTx
<1> QED BY <1>5, <1>8

(* A single-row write outside any transaction, by a QR request. *)
LEMMA UnlockedWriteLocks ==
  ASSUME StoreTypeOK, LocksProtect, NEW a \in Attempts, NEW st \in {"INIT", "PROCESSING", "FAIL"},
         PaymentUnlocked(a), payment[a] # "SUCCESS",
         payment' = [payment EXCEPT ![a] = st], UNCHANGED <<tx, ledger>>
  PROVE  LocksProtect' /\ Grows
<1>1. \A b \in Attempts : payment'[b] = IF b = a THEN st ELSE payment[b]
  BY DEF StoreTypeOK
<1>2. \A v \in Workers : tx[v].lock => tx[v].att \in Attempts /\ payment'[tx[v].att] = payment[tx[v].att]
  <2> SUFFICES ASSUME NEW v \in Workers, tx[v].lock
               PROVE  tx[v].att \in Attempts /\ payment'[tx[v].att] = payment[tx[v].att]
    OBVIOUS
  <2>1. tx[v].att \in Attempts
    BY StoreAssumption DEF StoreTypeOK, LocksProtect, Tx
  <2> QED BY <2>1, <1>1 DEF PaymentUnlocked
<1> QED BY <1>1, <1>2 DEF LocksProtect, Grows

----------------------------------------------------------------------------
(* Booking *)

(* A ledger entry stays. *)
LEMMA BookedStays ==
  ASSUME StoreTypeOK, Grows, Booked
  PROVE  Booked'
BY DEF StoreTypeOK, Grows, Booked

(* Unchanged rows agree as before. *)
LEMMA SameRowsAgree ==
  ASSUME BooksAgree, UNCHANGED <<order, payment, ledger>>
  PROVE  BooksAgree'
BY DEF BooksAgree, LedgerOnlyForSettled, PaidOrderIsBooked, SettledMeansBooked, Booked

(* A commit keeps the books when a ledger entry comes with a settled attempt,
   and an order or an attempt that says "money" with a ledger entry. *)
LEMMA CommitAgrees ==
  ASSUME StoreTypeOK, LocksProtect, BooksAgree, NEW w \in Workers, Publish(w),
         tx[w].led => tx[w].pay = "SUCCESS" \/ (tx[w].pay = "keep" /\ payment[tx[w].att] = "SUCCESS"),
         ~tx[w].dead /\ MoneyArrived(tx[w].order) => tx[w].led \/ tx[w].att \in ledger,
         ~tx[w].dead /\ tx[w].pay = "SUCCESS" => tx[w].led \/ tx[w].att \in ledger \/ Booked
  PROVE  BooksAgree'
<1>1. Grows
  BY CommitLocks
<1>2. tx[w] \in Tx /\ (tx[w].led \/ tx[w].pay # "keep" => tx[w].att \in Attempts)
  BY StoreAssumption DEF StoreTypeOK, LocksProtect, Tx
<1>3. \A a \in Attempts :
        payment'[a] = IF ~tx[w].dead /\ tx[w].pay # "keep" /\ a = tx[w].att
                        THEN tx[w].pay ELSE payment[a]
  BY DEF StoreTypeOK, Publish
<1>4. ledger' = IF ~tx[w].dead /\ tx[w].led THEN ledger \cup {tx[w].att} ELSE ledger
  BY DEF Publish
<1>5. LedgerOnlyForSettled'
  <2>1. \A a \in ledger : a \in Attempts /\ payment'[a] = "SUCCESS"
    BY <1>1 DEF BooksAgree, LedgerOnlyForSettled, Grows, StoreTypeOK
  <2>2. ~tx[w].dead /\ tx[w].led => payment'[tx[w].att] = "SUCCESS"
    BY <1>2, <1>3
  <2> QED BY <2>1, <2>2, <1>4 DEF LedgerOnlyForSettled
<1>6. Booked => Booked'
  BY <1>1, BookedStays
<1>7. ~tx[w].dead /\ (tx[w].led \/ tx[w].att \in ledger) => Booked'
  BY <1>4, <1>5 DEF LedgerOnlyForSettled, Booked
<1>8. PaidOrderIsBooked'
  BY <1>6, <1>7 DEF BooksAgree, PaidOrderIsBooked, Publish, MoneyArrived
<1>9. SettledMeansBooked'
  BY <1>3, <1>6, <1>7 DEF BooksAgree, SettledMeansBooked
<1> QED BY <1>5, <1>8, <1>9 DEF BooksAgree

----------------------------------------------------------------------------
(* Refinement: the rows are the books of BookedMoney. *)

MoneyStep == [Money!Next]_(Money!vars)

(* Rows that keep their settled attempts, entries and claim stutter. *)
LEMMA SameMoney ==
  ASSUME \A a \in Attempts : payment'[a] = "SUCCESS" <=> payment[a] = "SUCCESS",
         ledger' = ledger, MoneyArrived(order') = MoneyArrived(order)
  PROVE  MoneyStep
BY DEF MoneyStep, Money!vars

(* The order row alone is rewritten while money is on the books, or says
   nothing new about money. *)
LEMMA RestatedMoney ==
  ASSUME \A a \in Attempts : payment'[a] = "SUCCESS" <=> payment[a] = "SUCCESS",
         ledger' = ledger, MoneyArrived(order') \/ MoneyArrived(order) => ledger # {}
  PROVE  MoneyStep
<1>1. CASE ledger # {}
  BY <1>1 DEF MoneyStep, Money!Next, Money!Restate, MoneyArrived
<1>2. CASE ledger = {}
  BY <1>2, SameMoney DEF MoneyArrived
<1> QED BY <1>1, <1>2

(* One more attempt settles, with its entry and the order row ... *)
LEMMA CollectedMoney ==
  ASSUME NEW a \in Attempts, payment[a] # "SUCCESS", MoneyArrived(order'),
         \A b \in Attempts : payment'[b] = "SUCCESS" <=> payment[b] = "SUCCESS" \/ b = a,
         ledger' = ledger \cup {a}
  PROVE  MoneyStep
<1>1. Money!Collect(a)
  BY DEF Money!Collect, MoneyArrived
<1> QED BY <1>1 DEF MoneyStep, Money!Next

(* ... or on money that is booked already ... *)
LEMMA ConfirmedMoney ==
  ASSUME NEW a \in Attempts, payment[a] # "SUCCESS", ledger # {},
         \A b \in Attempts : payment'[b] = "SUCCESS" <=> payment[b] = "SUCCESS" \/ b = a,
         UNCHANGED <<order, ledger>>
  PROVE  MoneyStep
<1>1. Money!Confirm(a)
  BY DEF Money!Confirm
<1> QED BY <1>1 DEF MoneyStep, Money!Next

(* ... or a settled attempt gets its entry. *)
LEMMA EnteredMoney ==
  ASSUME NEW a \in Attempts, payment[a] = "SUCCESS", a \notin ledger, ledger # {},
         \A b \in Attempts : payment'[b] = "SUCCESS" <=> payment[b] = "SUCCESS",
         ledger' = ledger \cup {a}, MoneyArrived(order')
  PROVE  MoneyStep
<1>1. Money!Enter(a)
  BY DEF Money!Enter, MoneyArrived
<1> QED BY <1>1 DEF MoneyStep, Money!Next

(* A COMMIT books as BookedMoney says, if the entry it carries comes with the
   order row and the attempt, and a settled attempt without an entry leaves
   the row of a booked order alone. *)
LEMMA PublishMoney ==
  ASSUME StoreTypeOK, LocksProtect, BooksAgree, NEW w \in Workers, Publish(w),
         tx[w].led => MoneyArrived(tx[w].order),
         tx[w].led => \/ tx[w].pay = "SUCCESS"
                      \/ tx[w].pay = "keep" /\ payment[tx[w].att] = "SUCCESS",
         tx[w].pay = "SUCCESS" /\ ~tx[w].led /\ ~tx[w].dead => tx[w].order = "keep" /\ Booked,
         MoneyArrived(tx[w].order) /\ ~tx[w].led /\ ~tx[w].dead => tx[w].att \in ledger
  PROVE  MoneyStep
<1> DEFINE t == tx[w]
<1>1. /\ t \in Tx /\ ledger \subseteq Attempts
      /\ t.pay # "keep" => t.att \in Attempts /\ payment[t.att] \in InFlight
      /\ t.led => t.att \in Attempts
  BY StoreAssumption DEF StoreTypeOK, LocksProtect, Tx
<1>2. \A a \in Attempts :
        payment'[a] = IF ~t.dead /\ t.pay # "keep" /\ a = t.att THEN t.pay ELSE payment[a]
  BY DEF StoreTypeOK, Publish
<1>3. /\ ledger' = IF ~t.dead /\ t.led THEN ledger \cup {t.att} ELSE ledger
      /\ order' = IF ~t.dead /\ t.order # "keep" THEN t.order ELSE order
  BY DEF Publish
<1>4. /\ MoneyArrived(order) => ledger # {}
      /\ (\E a \in Attempts : payment[a] = "SUCCESS") => ledger # {}
      /\ \A a \in ledger : payment[a] = "SUCCESS"
      /\ Booked => ledger # {}
  BY DEF BooksAgree, LedgerOnlyForSettled, PaidOrderIsBooked, SettledMeansBooked, Booked
<1>5. ~MoneyArrived("keep")
  BY DEF MoneyArrived
<1>6. /\ t.led => MoneyArrived(t.order)
      /\ t.led => t.pay = "SUCCESS" \/ (t.pay = "keep" /\ payment[t.att] = "SUCCESS")
      /\ t.pay = "SUCCESS" /\ ~t.led /\ ~t.dead => t.order = "keep" /\ Booked
      /\ MoneyArrived(t.order) /\ ~t.led /\ ~t.dead => t.att \in ledger
  OBVIOUS
<1> HIDE DEF t
<1>7. CASE t.dead
  BY <1>2, <1>3, <1>7, SameMoney
<1>8. CASE ~t.dead /\ t.pay = "SUCCESS" /\ t.led
  <2>1. /\ t.att \in Attempts /\ payment[t.att] # "SUCCESS" /\ MoneyArrived(order')
        /\ ledger' = ledger \cup {t.att}
    BY <1>1, <1>3, <1>5, <1>6, <1>8 DEF InFlight
  <2>2. \A a \in Attempts : payment'[a] = "SUCCESS" <=> payment[a] = "SUCCESS" \/ a = t.att
    BY <1>2, <1>8
  <2> QED BY <2>1, <2>2, CollectedMoney
<1>9. CASE ~t.dead /\ t.pay = "SUCCESS" /\ ~t.led
  <2>1. /\ t.att \in Attempts /\ payment[t.att] # "SUCCESS" /\ order' = order
        /\ ledger' = ledger /\ ledger # {}
    BY <1>1, <1>3, <1>4, <1>6, <1>9 DEF InFlight
  <2>2. \A a \in Attempts : payment'[a] = "SUCCESS" <=> payment[a] = "SUCCESS" \/ a = t.att
    BY <1>2, <1>9
  <2> QED BY <2>1, <2>2, ConfirmedMoney
<1>10. CASE ~t.dead /\ t.pay # "SUCCESS"
  <2>1. \A a \in Attempts : payment'[a] = "SUCCESS" <=> payment[a] = "SUCCESS"
    BY <1>1, <1>2, <1>10 DEF InFlight
  <2>2. CASE t.led /\ t.att \notin ledger
    <3>1. /\ t.att \in Attempts /\ payment[t.att] = "SUCCESS" /\ MoneyArrived(order')
          /\ ledger' = ledger \cup {t.att} /\ ledger # {}
      BY <1>1, <1>3, <1>4, <1>5, <1>6, <1>10, <2>2
    <3> QED BY <2>1, <2>2, <3>1, EnteredMoney
  <2>3. CASE ~(t.led /\ t.att \notin ledger)
    <3>1. ledger' = ledger
      BY <1>3, <2>3
    <3>2. MoneyArrived(order') \/ MoneyArrived(order) => ledger # {}
      BY <1>3, <1>4, <1>6, <1>10, <2>3
    <3> QED BY <2>1, <3>1, <3>2, RestatedMoney
  <2> QED BY <2>2, <2>3
<1> QED BY <1>7, <1>8, <1>9, <1>10

----------------------------------------------------------------------------
(* Steps of a QR request *)

(* What the handlers of a channel may count on while somebody else moves. *)
StoreInv == StoreTypeOK /\ LocksProtect /\ BooksAgree

(* What a step of anybody else does to the rows. *)
StoreKept == StoreInv' /\ Grows /\ MoneyStep

(* A request moves to a place it is prepared for. *)
LEMMA RequestGotoType ==
  ASSUME QRTypeOK, NEW q \in Requests, NEW pc \in RequestPc, RequestGoto(q, pc), UNCHANGED booked,
         pc \in {"offer", "promotePayment", "promoteOrder", "markFailed"} => booked[q] # 0
  PROVE  QRTypeOK'
BY DEF QRTypeOK, RequestGoto

(* Only the order row moves, and says no more and no less about money. *)
LEMMA OrderOnlyKeepsStore ==
  ASSUME StoreInv, UNCHANGED <<payment, ledger, tx>>, StoreTypeOK',
         MoneyArrived(order') = MoneyArrived(order)
  PROVE  StoreKept
<1>1. LocksProtect' /\ Grows
  BY DEF StoreInv, LocksProtect, Grows
<1>2. BooksAgree'
  BY DEF StoreInv, BooksAgree, LedgerOnlyForSettled, PaidOrderIsBooked, SettledMeansBooked, Booked
<1> QED BY <1>1, <1>2, SameMoney DEF StoreInv, StoreKept

(* A request that writes its own attempt. *)
LEMMA RequestWriteKeepsStore ==
  ASSUME StoreInv, NEW a \in Attempts, NEW st \in {"INIT", "PROCESSING", "FAIL"},
         PaymentUnlocked(a), payment[a] # "SUCCESS", payment' = [payment EXCEPT ![a] = st],
         UNCHANGED <<order, ledger, settled, tx, trade, exact, faults>>
  PROVE  StoreKept
<1>1. LocksProtect' /\ Grows
  BY UnlockedWriteLocks DEF StoreInv
<1>2. StoreTypeOK'
  BY DEF StoreInv, StoreTypeOK, PaymentStatus
<1>3. \A b \in Attempts : payment'[b] = IF b = a THEN st ELSE payment[b]
  BY DEF StoreInv, StoreTypeOK
<1>4. Booked => Booked'
  BY <1>1, BookedStays DEF StoreInv
<1>5. BooksAgree'
  <2>1. LedgerOnlyForSettled'
    BY <1>3 DEF StoreInv, BooksAgree, StoreTypeOK, LedgerOnlyForSettled
  <2>2. PaidOrderIsBooked'
    BY <1>4 DEF StoreInv, BooksAgree, PaidOrderIsBooked
  <2>3. SettledMeansBooked'
    BY <1>3, <1>4 DEF StoreInv, BooksAgree, SettledMeansBooked
  <2> QED BY <2>1, <2>2, <2>3 DEF BooksAgree
<1>6. MoneyStep
  BY <1>3, SameMoney
<1> QED BY <1>1, <1>2, <1>5, <1>6 DEF StoreInv, StoreKept

(* A QR request past its insert names an attempt. *)
LEMMA BookedAttempt ==
  ASSUME QRTypeOK, NEW q \in Requests,
         qpc[q] \in {"offer", "promotePayment", "promoteOrder", "markFailed"}
  PROVE  booked[q] \in Attempts
BY StoreAssumption DEF QRTypeOK

(* A QR request keeps the books, whatever it finds and wherever it fails. *)
LEMMA RequestKeepsStore ==
  ASSUME StoreInv, QRTypeOK, QRNext
  PROVE  StoreKept /\ QRTypeOK' /\ UNCHANGED <<tx, ledger>>
<1>0. PICK q \in Requests : RequestStep(q) \/ RequestFault(q)
  BY DEF QRNext
<1>1. CASE ProbeOrder(q) \/ refuseIfAlreadySettled(q)
  <2>1. QRTypeOK'
    BY <1>1 DEF QRTypeOK, RequestPc, RequestGoto, ProbeOrder, refuseIfAlreadySettled
  <2>2. UNCHANGED storeVars
    BY <1>1 DEF ProbeOrder, refuseIfAlreadySettled
  <2>3. StoreTypeOK'
    BY <2>2 DEF StoreInv, StoreTypeOK, storeVars
  <2> QED BY <2>1, <2>2, <2>3, OrderOnlyKeepsStore DEF storeVars
<1>2. CASE insertQrOrder(q) \/ PromoteOrder(q)
  <2>1. QRTypeOK'
    BY <1>2 DEF QRTypeOK, RequestPc, RequestGoto, insertQrOrder, PromoteOrder
  <2>2. MoneyArrived(order') = MoneyArrived(order)
    BY <1>2 DEF insertQrOrder, PromoteOrder, MoneyArrived
  <2>3. StoreTypeOK'
    BY <1>2 DEF StoreInv, StoreTypeOK, insertQrOrder, PromoteOrder, OrderStatus
  <2> QED BY <1>2, <2>1, <2>2, <2>3, OrderOnlyKeepsStore DEF insertQrOrder, PromoteOrder
<1>3. CASE offerQrChannel(q)
  <2>1. QRTypeOK'
    BY <1>3 DEF QRTypeOK, RequestPc, RequestGoto, offerQrChannel
  <2>2. StoreTypeOK'
    BY <1>3 DEF StoreInv, StoreTypeOK, offerQrChannel, TradeState
  <2> QED BY <1>3, <2>1, <2>2, OrderOnlyKeepsStore DEF offerQrChannel
<1>4. CASE bookQrPayment(q)
  <2>1. PICK a \in Attempts : /\ payment[a] = "none" /\ payment' = [payment EXCEPT ![a] = "INIT"]
                              /\ booked' = [booked EXCEPT ![q] = a]
    BY <1>4 DEF bookQrPayment
  <2>2. a \in 0..MaxAttempts /\ a # 0
    BY StoreAssumption
  <2>3. QRTypeOK'
    BY <1>4, <2>1, <2>2 DEF QRTypeOK, RequestPc, RequestGoto, bookQrPayment
  <2>4. PaymentUnlocked(a)
    BY <2>1 DEF PaymentUnlocked, StoreInv, LocksProtect, InFlight
  <2> QED BY <1>4, <2>1, <2>3, <2>4, RequestWriteKeepsStore DEF bookQrPayment
<1>5. CASE PromotePayment(q) \/ markQrPaymentFailed(q)
  <2>1. QRTypeOK'
    BY <1>5 DEF QRTypeOK, RequestPc, RequestGoto, PromotePayment, markQrPaymentFailed
  <2>2. /\ booked[q] \in Attempts /\ PaymentUnlocked(booked[q])
        /\ UNCHANGED <<order, ledger, settled, tx, trade, exact, faults>>
    BY <1>5, BookedAttempt DEF PromotePayment, markQrPaymentFailed
  <2>3. CASE payment[booked[q]] \in InFlight
    <3>1. /\ payment[booked[q]] # "SUCCESS"
          /\ \E st \in {"PROCESSING", "FAIL"} : payment' = [payment EXCEPT ![booked[q]] = st]
      BY <1>5, <2>3 DEF PromotePayment, markQrPaymentFailed, InFlight
    <3> QED BY <2>1, <2>2, <3>1, RequestWriteKeepsStore
  <2>4. CASE payment[booked[q]] \notin InFlight
    <3>1. payment' = payment
      BY <1>5, <2>4 DEF PromotePayment, markQrPaymentFailed
    <3>2. StoreTypeOK'
      BY <2>2, <3>1 DEF StoreInv, StoreTypeOK
    <3> QED BY <2>1, <2>2, <3>1, <3>2, OrderOnlyKeepsStore
  <2> QED BY <2>3, <2>4
<1>6. CASE RequestFault(q)
  <2>1. QRTypeOK'
    BY <1>6 DEF QRTypeOK, RequestPc, RequestGoto, RequestFault
  <2>2. StoreTypeOK'
    BY <1>6, StoreAssumption DEF StoreInv, StoreTypeOK, RequestFault
  <2> QED BY <1>6, <2>1, <2>2, OrderOnlyKeepsStore DEF RequestFault
<1> QED BY <1>0, <1>1, <1>2, <1>3, <1>4, <1>5, <1>6 DEF RequestStep

(* The channel and the refund service keep the books. *)
LEMMA StoreNextKeepsStore ==
  ASSUME StoreInv, StoreNext
  PROVE  StoreKept /\ UNCHANGED <<tx, ledger>>
<1>1. StoreTypeOK'
  <2>1. CASE ChannelMoves
    BY <2>1 DEF ChannelMoves, StoreInv, StoreTypeOK, TradeState
  <2>2. CASE RefundSettles
    BY <2>2, StoreAssumption DEF RefundSettles, StoreInv, StoreTypeOK
  <2>3. CASE RefundClosesOrder
    BY <2>3 DEF RefundClosesOrder, StoreInv, StoreTypeOK, OrderStatus
  <2> QED BY <2>1, <2>2, <2>3 DEF StoreNext
<1>2. UNCHANGED <<payment, ledger, tx>> /\ MoneyArrived(order') = MoneyArrived(order)
  BY DEF StoreNext, ChannelMoves, RefundSettles, RefundClosesOrder, MoneyArrived
<1> QED BY <1>1, <1>2, OrderOnlyKeepsStore
==============================================================================
