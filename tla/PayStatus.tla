------------------------------ MODULE PayStatus ------------------------------
(***************************************************************************)
(* The vocabularies of the status columns and the pure mappings from a     *)
(* channel's answer onto them (utils/PayUtils.cc).                         *)
(***************************************************************************)
EXTENDS Integers

OrderStatus == {"CREATED", "PAYING", "PAID", "REFUNDED", "CLOSED", "FAILED"}
PaymentStatus == {"INIT", "PROCESSING", "SUCCESS", "REFUNDED", "FAIL"}
RefundStatus == {"REFUND_INIT", "REFUNDING", "REFUND_SUCCESS", "REFUND_FAIL"}

(* What WeChat reports about a trade; PAYERROR stands for every state the
   mapping does not know. *)
TradeState == {"SUCCESS", "USERPAYING", "NOTPAY", "REFUND",
               "CLOSED", "REVOKED", "PAYERROR"}

(* What WeChat reports about a refund. *)
WechatRefundState == {"SUCCESS", "CLOSED", "ABNORMAL", "PROCESSING"}

(* Order and payment status a reported trade state stands for. A REFUND trade
   is one whose money did arrive, so its payment is SUCCESS. *)
mapTradeState(s) ==
  CASE s = "SUCCESS"                  -> [order |-> "PAID", payment |-> "SUCCESS"]
    [] s \in {"USERPAYING", "NOTPAY"} -> [order |-> "PAYING", payment |-> "PROCESSING"]
    [] s = "REFUND"                   -> [order |-> "REFUNDED", payment |-> "SUCCESS"]
    [] s \in {"CLOSED", "REVOKED"}    -> [order |-> "CLOSED", payment |-> "FAIL"]
    [] OTHER                          -> [order |-> "FAILED", payment |-> "FAIL"]

(* Refund status a reported refund state stands for; "" is no verdict. *)
mapRefundStatus(s) ==
  CASE s = "SUCCESS"                -> "REFUND_SUCCESS"
    [] s \in {"CLOSED", "ABNORMAL"} -> "REFUND_FAIL"
    [] s = "PROCESSING"             -> "REFUNDING"
    [] OTHER                        -> ""

(* Settled refunds prove a whole-order refund only against a measured total. *)
refundsCoverOrderAmount(settled, total) == total > 0 /\ settled >= total

(* Mutant: one partial refund closes the whole order. *)
resolveRefundedOrderStatus_Ungated(status, settled, total) == status

(* A REFUNDED claim the settled refunds do not cover lands as PAID. *)
resolveRefundedOrderStatus(status, settled, total) ==
  IF status = "REFUNDED" /\ ~refundsCoverOrderAmount(settled, total)
    THEN "PAID" ELSE status

(* The order statuses that say money arrived, which post a PAYMENT entry. *)
MoneyArrived(status) == status \in {"PAID", "REFUNDED"}
==============================================================================
