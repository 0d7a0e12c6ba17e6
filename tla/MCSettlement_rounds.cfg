\* A query round and a delivery on one attempt, one fault or restart.
SPECIFICATION FairSpec
CONSTANTS
  MaxAttempts = 1
  MaxFaults = 1
  Total = 1
  Workers = {"d1", "r1"}
  Deliveries = {"d1"}
  Notices = {"SUCCESS", "REFUND"}
  Rounds = {"r1"}
  Requests = {"q1"}
INVARIANTS
  PaidOrderIsBooked
  InexactMoneyNeverBooked
  SomeHandlerCanMove
PROPERTIES
  MoneyIsKept
  NotificationsBookPaidTrade
  SweepsBookPaidTrade
CHECK_DEADLOCK FALSE
