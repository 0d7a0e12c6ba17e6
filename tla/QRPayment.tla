------------------------------ MODULE QRPayment ------------------------------
(***************************************************************************)
(* PaymentService::createQRPayment past its validations: find or insert    *)
(* the order, book one payment row for this attempt, offer it to the       *)
(* channel, and record the outcome. The statements run without a           *)
(* transaction, so each is an action and each commits at once. The         *)
(* idempotency reservation around the request is module Idempotency.       *)
(***************************************************************************)
EXTENDS PaymentStore

CONSTANT Requests    \* QR requests for the order, each under its own key

VARIABLES
  qpc,       \* where each request is
  booked     \* the attempt each request booked (0: none yet)

qrVars == <<qpc, booked>>

RequestPc == {"new", "insertOrder", "probeSettled", "book", "offer",
              "promotePayment", "promoteOrder", "markFailed", "refused", "done"}

QRTypeOK ==
  /\ qpc \in [Requests -> RequestPc]
  /\ booked \in [Requests -> 0..MaxAttempts]
  /\ \A q \in Requests :
       qpc[q] \in {"offer", "promotePayment", "promoteOrder", "markFailed"} => booked[q] # 0

QRInit ==
  /\ qpc = [q \in Requests |-> "new"]
  /\ booked = [q \in Requests |-> 0]

----------------------------------------------------------------------------
RequestGoto(q, pc) == qpc' = [qpc EXCEPT ![q] = pc]

(* No worker holds the row: an UPDATE outside a transaction need not wait. *)
PaymentUnlocked(a) == \A v \in Workers : ~(tx[v].lock /\ tx[v].att = a)
OrderUnlocked == \A v \in Workers : tx[v].order = "keep"

(* Read the order: a settled one is never offered again. *)
ProbeOrder(q) ==
  /\ qpc[q] = "new"
  /\ RequestGoto(q, CASE order = "none" -> "insertOrder"
                      [] MoneyArrived(order) -> "refused"
                      [] OTHER -> "probeSettled")
  /\ UNCHANGED <<storeVars, booked>>

(* order_no is unique: the second of two concurrent first requests fails. *)
insertQrOrder(q) ==
  /\ qpc[q] = "insertOrder"
  /\ \/ /\ order = "none"
        /\ order' = "CREATED"
        /\ RequestGoto(q, "book")
     \/ /\ order # "none"
        /\ RequestGoto(q, "refused")
        /\ UNCHANGED order
  /\ UNCHANGED <<payment, ledger, settled, tx, trade, exact, faults, booked>>

(* Read the order's settled attempts: any of them refuses a second code. *)
refuseIfAlreadySettled(q) ==
  /\ qpc[q] = "probeSettled"
  /\ RequestGoto(q, IF \E a \in Attempts : payment[a] \in {"SUCCESS", "REFUNDED"}
                      THEN "refused" ELSE "book")
  /\ UNCHANGED <<storeVars, booked>>

(* One payment row per attempt, newest last. *)
bookQrPayment(q) ==
  /\ qpc[q] = "book"
  /\ \E a \in Attempts :
       /\ payment[a] = "none"
       /\ \A b \in Attempts : b < a => payment[b] # "none"
       /\ payment' = [payment EXCEPT ![a] = "INIT"]
       /\ booked' = [booked EXCEPT ![q] = a]
  /\ RequestGoto(q, "offer")
  /\ UNCHANGED <<order, ledger, settled, tx, trade, exact, faults>>

(* Mutant: an unknown outcome is booked as a refusal. *)
offerQrChannel_UnknownIsRefused(q) ==
  /\ qpc[q] = "offer"
  /\ trade' = IF trade = "none" THEN "NOTPAY" ELSE trade
  /\ \E pc \in {"promotePayment", "markFailed"} : RequestGoto(q, pc)
  /\ UNCHANGED <<order, payment, ledger, settled, tx, exact, faults, booked>>

(* Ask the channel for a code. It opens the trade or finds it open (ok), may
   have opened it before the answer was lost (unknown), or certainly did not
   open one for this attempt (refused). *)
offerQrChannel(q) ==
  /\ qpc[q] = "offer"
  /\ \/ /\ trade \in {"none", "NOTPAY", "USERPAYING"}
        /\ trade' = IF trade = "none" THEN "NOTPAY" ELSE trade
        /\ \E pc \in {"promotePayment", "refused"} : RequestGoto(q, pc)
     \/ /\ RequestGoto(q, "refused")
        /\ UNCHANGED trade
     \/ /\ RequestGoto(q, "markFailed")
        /\ UNCHANGED trade
  /\ UNCHANGED <<order, payment, ledger, settled, tx, exact, faults, booked>>

(* promoteQrRows, first statement: the attempt, while it is in flight. One
   that has moved on is answered with the code all the same. *)
PromotePayment(q) ==
  /\ qpc[q] = "promotePayment"
  /\ PaymentUnlocked(booked[q])
  /\ \/ /\ payment[booked[q]] \in InFlight
        /\ payment' = [payment EXCEPT ![booked[q]] = "PROCESSING"]
        /\ RequestGoto(q, "promoteOrder")
     \/ /\ payment[booked[q]] \notin InFlight
        /\ UNCHANGED payment
        /\ RequestGoto(q, "done")
  /\ UNCHANGED <<order, ledger, settled, tx, trade, exact, faults, booked>>

(* Second statement: the order, while nothing has been decided about it. *)
PromoteOrder(q) ==
  /\ qpc[q] = "promoteOrder"
  /\ OrderUnlocked
  /\ order' = IF order \in {"CREATED", "PAYING"} THEN "PAYING" ELSE order
  /\ RequestGoto(q, "done")
  /\ UNCHANGED <<payment, ledger, settled, tx, trade, exact, faults, booked>>

(* Mutant: the row is closed whatever has been booked on it meanwhile. *)
markQrPaymentFailed_Unguarded(q) ==
  /\ qpc[q] = "markFailed"
  /\ PaymentUnlocked(booked[q])
  /\ payment' = [payment EXCEPT ![booked[q]] = "FAIL"]
  /\ RequestGoto(q, "refused")
  /\ UNCHANGED <<order, ledger, settled, tx, trade, exact, faults, booked>>

(* A certain refusal closes this attempt only, while it is in flight. *)
markQrPaymentFailed(q) ==
  /\ qpc[q] = "markFailed"
  /\ PaymentUnlocked(booked[q])
  /\ payment' = IF payment[booked[q]] \in InFlight
                  THEN [payment EXCEPT ![booked[q]] = "FAIL"] ELSE payment
  /\ RequestGoto(q, "refused")
  /\ UNCHANGED <<order, ledger, settled, tx, trade, exact, faults, booked>>

(* A statement fails: before the channel is asked nothing was offered; after
   it a code in hand is answered whatever the rows say. *)
RequestFault(q) ==
  /\ qpc[q] \notin {"offer", "refused", "done"}
  /\ faults < MaxFaults
  /\ faults' = faults + 1
  /\ RequestGoto(q, IF qpc[q] \in {"promotePayment", "promoteOrder"} THEN "done" ELSE "refused")
  /\ UNCHANGED <<order, payment, ledger, settled, tx, trade, exact, booked>>

RequestStep(q) ==
  \/ ProbeOrder(q) \/ insertQrOrder(q) \/ refuseIfAlreadySettled(q)
  \/ bookQrPayment(q) \/ offerQrChannel(q) \/ PromotePayment(q)
  \/ PromoteOrder(q) \/ markQrPaymentFailed(q)

QRNext == \E q \in Requests : RequestStep(q) \/ RequestFault(q)
==============================================================================
