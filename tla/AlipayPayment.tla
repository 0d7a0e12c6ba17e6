--------------------------- MODULE AlipayPayment -----------------------------
(***************************************************************************)
(* How the money of one Alipay order gets booked: QR requests create       *)
(* attempts, notifications, queries and sweeps settle them, refunds close  *)
(* the order, with failing statements and restarts in between.             *)
(***************************************************************************)
EXTENDS AlipaySync, QRPayment

vars == <<storeVars, syncVars, qrVars>>

Init == StoreInit /\ SyncInit /\ QRInit

(* The server dies: handlers are gone, transactions roll back, rows and trade
   remain. *)
Restart ==
  /\ faults < MaxFaults
  /\ faults' = faults + 1
  /\ tx' = [w \in Workers |-> NoTx]
  /\ sync' = [s \in Syncs |-> IdleSync]
  /\ qpc' = [q \in Requests |-> IF qpc[q] = "new" THEN "new" ELSE "refused"]
  /\ UNCHANGED <<order, payment, ledger, settled, trade, exact, acked, booked>>

Next ==
  \/ StoreNext /\ UNCHANGED <<syncVars, qrVars>>
  \/ SyncNext /\ UNCHANGED qrVars
  \/ QRNext /\ UNCHANGED syncVars
  \/ Restart

Spec == Init /\ [][Next]_vars

----------------------------------------------------------------------------
(* The value every variable may take. *)
TypeOK == StoreTypeOK /\ SyncTypeOK /\ QRTypeOK

(* "a low-value payment confirming a high-value order": money of another amount
   is never booked, and Alipay is never told that it was. *)
InexactMoneyNeverBooked ==
  ~exact => ledger = {} /\ ~MoneyArrived(order) /\ ~acked

(* The rows keep the promise of BookedMoney: attempt, ledger entry and order
   row appear together, nothing settled or entered is taken back, and the
   order row speaks of money only while some is on the books. *)
MoneyIsKept == Money!Spec

(* TECH_SPECS.md: REFUNDED is the terminal status of an order whose refunds
   cover it. *)
RefundedIsTerminal == [][order = "REFUNDED" => order' = "REFUNDED"]_vars

(* CallbackHandlers.cc: success is reported to Alipay only for an order that
   was advanced; a database failure is answered FAIL. *)
AckedMoneyIsBooked == acked => ledger # {}

(* Inside its transaction, with the row of its next statement free. *)
SyncMoves(s) ==
  /\ tx[s] # NoTx
  /\ \/ sync[s].pc \in {"readSettled", "readOrder", "lookup", "commit"}
     \/ At(s, "cas") /\ PaymentFree(s, tx[s].att)
     \/ At(s, "write") /\ OrderFree(s)
     \/ At(s, "insert") /\ LedgerFree(s, tx[s].att)

(* Rounds and notifications lock attempt, order row and entry in one order:
   while a transaction is open, one that has one open does not wait. *)
SomeSyncCanMove == (\E w \in Workers : tx[w] # NoTx) => \E s \in Syncs : SyncMoves(s)

----------------------------------------------------------------------------
(* What makes the safety properties inductive. *)

(* What a round's transaction holds at each of its steps: the attempt it
   picked was settled then, or it is locked since and written as reported. *)
SyncHolds(s) ==
  LET c == sync[s]  t == tx[s] IN
  /\ c.pc # "idle" => c.word \in AlipayStatus
  /\ c.pc \in {"idle", "pick"} => t = NoTx
  /\ c.pc \notin {"idle", "pick"} => t.att # 0
  /\ c.pc \in {"cas", "readSettled"} => t = [NoTx EXCEPT !.att = t.att]
  /\ c.pc = "readOrder" => t.lock
  /\ c.pc \in {"readSettled", "readOrder", "write", "lookup", "insert", "commit"} =>
       IF t.lock THEN t.pay = mapAlipayStatus(c.word).payment
                 ELSE t.pay = "keep" /\ payment[t.att] = "SUCCESS"
  /\ c.pc \in {"readOrder", "write"} => t.order = "keep" /\ ~t.led
  /\ c.pc \in {"lookup", "insert"} => ~t.led /\ t.order = "PAID" /\ Order(s) = "PAID"
  /\ t.led => t.order = "PAID" /\ Order(s) = "PAID"
  /\ c.pc = "commit" =>
       /\ t.order = "keep" => Booked \/ t.pay # "SUCCESS"
       /\ t.order # "keep" => t.order = Order(s)
       /\ t.order = "PAID" => t.dead \/ t.led \/ t.att \in ledger

(* A round carries a verdict of the channel only once the trade has it. *)
WordsAreReported ==
  \A s \in Syncs :
    /\ sync[s].pc # "idle" => trade # "none"
    /\ sync[s].pc # "idle" /\ sync[s].word = "TRADE_SUCCESS" => trade \in {"SUCCESS", "REFUND"}
    /\ sync[s].pc # "idle" /\ sync[s].word = "TRADE_CLOSED" => trade \in {"CLOSED", "REFUND"}

(* Each attempt was booked by one request. While the trade can still bring
   money, or has, an attempt is there to book it on: settled, or in flight
   and past the refusal that would close it. *)
TradeHasAttempt ==
  /\ \A q \in Requests : booked[q] # 0 => payment[booked[q]] # "none"
  /\ \A p, q \in Requests : booked[p] = booked[q] /\ booked[p] # 0 => p = q
  /\ \A q \in Requests : trade = "none" /\ qpc[q] = "offer" => payment[booked[q]] \in InFlight
  /\ trade \in {"NOTPAY", "USERPAYING", "SUCCESS", "REFUND"} =>
       \E a \in Attempts :
         \/ payment[a] = "SUCCESS"
         \/ /\ payment[a] \in InFlight
            /\ \A q \in Requests : booked[q] = a => qpc[q] \notin {"offer", "markFailed"}
  /\ trade = "REFUND" => Booked

(* Money of another amount stops at the pick: no round past it says PAID. *)
InexactMoneyIsDropped ==
  ~exact => /\ ledger = {} /\ ~acked
            /\ \A s \in Syncs : sync[s].pc \notin {"idle", "pick"} => Order(s) # "PAID"

(* Nobody but a round opens a transaction. *)
OnlySyncs == \A w \in Workers \ Syncs : tx[w] = NoTx

IInv ==
  /\ TypeOK
  /\ LocksProtect
  /\ BooksAgree
  /\ \A s \in Syncs : SyncHolds(s)

AmountInv == WordsAreReported /\ TradeHasAttempt /\ InexactMoneyIsDropped
==============================================================================
