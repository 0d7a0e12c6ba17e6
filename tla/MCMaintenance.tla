---------------------------- MODULE MCMaintenance ----------------------------
(* Maintenance on a small instance: WeChat orders, and a refund row "f". *)
EXTENDS Maintenance

MCKindOf == [r \in Rows |-> IF r = "f" THEN "refund" ELSE "wechat"]
==============================================================================
