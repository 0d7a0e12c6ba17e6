----------------------------- MODULE Settlement ------------------------------
(***************************************************************************)
(* How the money of one order gets booked: QR requests create attempts,    *)
(* notifications and query rounds settle them, refunds close the order,    *)
(* all on the same rows and in any order, with failing statements and      *)
(* server restarts in between.                                             *)
(***************************************************************************)
EXTENDS PaymentCallback, PaymentSync, QRPayment

ASSUME SettlementAssumption ==
  /\ Deliveries \cap Rounds = {}
  /\ NoOwner \notin Deliveries

vars == <<storeVars, callbackVars, round, qrVars>>

Init == StoreInit /\ CallbackInit /\ SyncInit /\ QRInit

(* The server dies: every handler is gone, every transaction rolls back, the
   committed rows and the channel remain. *)
Restart ==
  /\ faults < MaxFaults
  /\ faults' = faults + 1
  /\ tx' = [w \in Workers |-> NoTx]
  /\ cpc' = [d \in Deliveries |-> "idle"]
  /\ round' = [r \in Rounds |-> IdleRound]
  /\ qpc' = [q \in Requests |-> IF qpc[q] = "new" THEN "new" ELSE "refused"]
  /\ UNCHANGED <<order, payment, ledger, settled, trade, exact>>
  /\ UNCHANGED <<res, notice, verdict, notified, acked, booked>>

Next ==
  \/ StoreNext /\ UNCHANGED <<callbackVars, round, qrVars>>
  \/ CallbackNext /\ UNCHANGED <<round, qrVars>>
  \/ SyncNext /\ UNCHANGED <<callbackVars, qrVars>>
  \/ QRNext /\ UNCHANGED <<callbackVars, round>>
  \/ Restart

Spec == Init /\ [][Next]_vars

(* PostgreSQL and the event loops keep serving a handler that has begun. *)
HandlerFairness ==
  /\ \A d \in Deliveries : WF_vars(DeliveryStep(d) /\ UNCHANGED <<round, qrVars>>)
  /\ \A r \in Rounds : WF_vars(RoundStep(r) /\ UNCHANGED <<callbackVars, qrVars>>)

FairSpec == Spec /\ HandlerFairness

(* The channel repeats a notification until it is acknowledged. *)
RepeatedNotifications ==
  /\ WF_vars(ChannelNotifies /\ UNCHANGED <<round, qrVars>>)
  /\ \A d \in Deliveries, n \in Notices :
       WF_vars(n \notin acked /\ handlePaymentCallback(d, n) /\ UNCHANGED <<round, qrVars>>)

(* The reconciliation timer keeps asking about an order it still lists: one
   that is PAYING, or was CREATED a while ago. *)
RepeatedSweeps ==
  \A r \in Rounds :
    WF_vars(order \in {"PAYING", "CREATED"} /\ queryOrder(r) /\ UNCHANGED <<callbackVars, qrVars>>)

----------------------------------------------------------------------------
(* The value every variable may take. *)
TypeOK == StoreTypeOK /\ CallbackTypeOK /\ SyncTypeOK /\ QRTypeOK

(* The channel is told to stop repeating "the buyer paid" only when the money
   is booked, durably: openAttemptsOfOrder exists so that a delivery is not
   ACKed with no money booked. *)
AckedMoneyIsBooked == acked \cap {"SUCCESS", "REFUND"} # {} => Booked

(* A stamped reservation is proof that the notification was handled. *)
StampedMoneyIsBooked ==
  \A n \in Notices \cap {"SUCCESS", "REFUND"} : res[n].done => Booked

(* Money of another amount is never booked, by either path. *)
InexactMoneyNeverBooked == ~exact => ledger = {} /\ ~MoneyArrived(order)

(* REFUNDED means the settled refunds cover the order: the claim of a REFUND
   trade is weighed by both paths, and neither reads a sum that shrinks. *)
RefundedOrderIsCovered == order = "REFUNDED" => refundsCoverOrderAmount(settled, Total)

(* Once settled an attempt stays settled and keeps its ledger entry: late
   channel refusals, stale answers and duplicate notifications change
   nothing. *)
SettledIsFinal ==
  [][\A a \in Attempts :
       /\ payment[a] = "SUCCESS" => payment'[a] = "SUCCESS"
       /\ a \in ledger => a \in ledger']_vars

(* The rows keep the promise of BookedMoney: attempt, ledger entry and order
   row appear together, nothing settled or entered is taken back, and the
   order row speaks of money only while some is on the books. *)
MoneyIsKept == Money!Spec

(* Inside its transaction, with the row of its next statement free. *)
DeliveryMoves(d) ==
  /\ tx[d] # NoTx
  /\ \/ cpc[d] \in {"cas", "commit", "commitPlain"}
     \/ cpc[d] = "order" /\ OrderFree(d)
     \/ cpc[d] = "ledger" /\ LedgerFree(d, tx[d].att)
     \/ cpc[d] = "finalize" /\ ReservationFree(d, notice[d])

RoundMoves(r) ==
  /\ tx[r] # NoTx
  /\ \/ round[r].pc \in {"sum", "readSettled", "readOrder", "lookup", "commit"}
     \/ At(r, "cas") /\ PaymentFree(r, tx[r].att)
     \/ At(r, "write") /\ OrderFree(r)
     \/ At(r, "insert") /\ LedgerFree(r, tx[r].att)

(* Handlers that wait for each other's row locks always leave one that can
   move: every transaction takes attempt, order, ledger entry and reservation
   in that order, and none is left open by a handler that is over. *)
SomeHandlerCanMove ==
  (\E w \in Workers : tx[w] # NoTx)
    => (\E d \in Deliveries : DeliveryMoves(d)) \/ (\E r \in Rounds : RoundMoves(r))

(* The buyer's money is booked in the end, whatever a bounded number of faults
   interrupts: by repeated notifications alone, and by the sweep alone. *)
PaidTradeIsBooked == trade = "SUCCESS" /\ exact ~> Booked
NotificationsBookPaidTrade == RepeatedNotifications => PaidTradeIsBooked
SweepsBookPaidTrade == RepeatedSweeps => PaidTradeIsBooked

----------------------------------------------------------------------------
(* What makes the safety properties inductive. *)

MoneyNotice(n) == n \in {"SUCCESS", "REFUND"}

(* What a delivery's transaction holds at each of its steps. *)
DeliveryHolds(d) ==
  /\ cpc[d] \in {"idle", "lookup", "drop", "audit", "reserve", "lock", "stamp"} => tx[d] = NoTx
  /\ cpc[d] \in {"cas", "order", "ledger", "finalize", "commit", "commitPlain"} => tx[d].lock
  /\ cpc[d] \in {"cas", "order", "ledger", "commitPlain"} => ~tx[d].led
  /\ cpc[d] = "order" => verdict[d] # "none"
  /\ cpc[d] = "order" /\ MoneyArrived(verdict[d]) =>
       MoneyNotice(notice[d]) /\ tx[d].pay = "SUCCESS"
  /\ cpc[d] = "order" /\ ~MoneyArrived(verdict[d]) =>
       ~MoneyNotice(notice[d]) /\ tx[d].pay # "SUCCESS"
  /\ cpc[d] \in {"cas", "order"} => tx[d].order = "keep"
  /\ cpc[d] \in {"ledger", "finalize", "commit"} => tx[d].pay = "SUCCESS" /\ MoneyNotice(notice[d])
  /\ cpc[d] \in {"ledger", "finalize", "commit"} => MoneyArrived(tx[d].order)
  /\ cpc[d] = "finalize" => tx[d].led \/ tx[d].dead
  /\ cpc[d] = "commit" => tx[d].led /\ ~tx[d].dead
  /\ cpc[d] = "commitPlain" => tx[d].pay # "SUCCESS" /\ ~MoneyArrived(tx[d].order)
  /\ cpc[d] \in {"commitPlain", "stamp"} => ~MoneyNotice(notice[d])
  /\ cpc[d] = "audit" /\ MoneyNotice(notice[d]) => Booked

(* What a round's transaction holds at each of its steps. *)
RoundHolds(r) ==
  LET c == round[r]  t == tx[r] IN
  /\ c.pc \in {"idle", "pick"} => t = NoTx
  /\ c.pc \notin {"idle", "pick"} =>
       /\ t.att # 0
       /\ c.snap \in InFlight \cup {"SUCCESS"}
       /\ c.snap = "SUCCESS" => payment[t.att] = "SUCCESS" /\ t.pay = "keep"
  /\ c.pc \in {"sum", "cas", "readSettled"} => t = [NoTx EXCEPT !.att = t.att]
  /\ c.pc = "readSettled" => c.snap = "SUCCESS"
  /\ c.pc \in {"cas", "readOrder"} => c.snap # "SUCCESS"
  /\ c.pc = "readOrder" => t.order = "keep" /\ ~t.led
  /\ c.pc \in {"readOrder", "write", "lookup", "insert", "commit"} /\ c.snap # "SUCCESS" =>
       t.lock /\ t.pay = mapTradeState(c.ans).payment
  /\ c.pc \in {"cas", "readOrder", "readSettled", "write", "lookup", "insert", "commit"} =>
       /\ c.final \in OrderStatus
       /\ MoneyArrived(c.final) <=> mapTradeState(c.ans).payment = "SUCCESS"
  /\ c.pc = "write" => t.order = "keep" /\ ~t.led
  /\ c.pc \in {"lookup", "insert"} => ~t.led /\ MoneyArrived(c.final) /\ t.order = c.final
  /\ t.led => mapTradeState(c.ans).payment = "SUCCESS" /\ MoneyArrived(t.order)
  /\ c.pc = "commit" =>
       /\ t.order = "keep" => Booked \/ t.pay # "SUCCESS"
       /\ t.order # "keep" => t.order = c.final
       /\ MoneyArrived(t.order) => t.dead \/ t.led \/ t.att \in ledger

IInv ==
  /\ TypeOK
  /\ LocksProtect
  /\ \A d \in Deliveries : DeliveryHolds(d)
  /\ \A r \in Rounds : RoundHolds(r)
  /\ LedgerOnlyForSettled
  /\ PaidOrderIsBooked
  /\ SettledMeansBooked
  /\ StampedMoneyIsBooked
  /\ AckedMoneyIsBooked

(* Money of another amount stops at the handlers' amount gates: no delivery
   passes its lock, no round its pick, and no buffer holds a claim of it. *)
InexactMoneyIsDropped ==
  ~exact =>
    /\ ledger = {} /\ ~MoneyArrived(order)
    /\ \A w \in Workers : ~tx[w].led /\ ~MoneyArrived(tx[w].order)
    /\ \A d \in Deliveries :
         cpc[d] \in {"idle", "lookup", "drop", "audit", "reserve", "lock", "stamp"}
    /\ \A r \in Rounds :
         round[r].pc \notin {"idle", "pick"} => ~MoneyArrived(mapTradeState(round[r].ans).order)

(* Whoever is about to write REFUNDED has weighed the claim, and the settled
   refunds have not shrunk since. *)
RefundClaimsAreWeighed ==
  \/ refundsCoverOrderAmount(settled, Total)
  \/ /\ order # "REFUNDED"
     /\ \A w \in Workers : tx[w].order # "REFUNDED"
     /\ \A d \in Deliveries : verdict[d] # "REFUNDED"
     /\ \A r \in Rounds : round[r].final # "REFUNDED"

ClaimsInv == InexactMoneyIsDropped /\ RefundClaimsAreWeighed

(* A reservation is locked at COMMIT only, and nobody but the handlers opens a
   transaction. With IInv, which says what each of them holds at each of its
   steps, nobody waits in a circle. *)
StampsComeLast ==
  /\ \A d \in Deliveries : tx[d].fin => cpc[d] = "commit"
  /\ \A w \in Workers \ (Deliveries \cup Rounds) : tx[w] = NoTx
==============================================================================
