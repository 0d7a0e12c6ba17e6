\* Two refund requests and a query, one fault or restart.
SPECIFICATION FairSpec
CONSTANTS
  r1 = r1
  r2 = r2
  p1 = p1
  k1 = k1
  Refunds = {r1, r2}
  Payments = {p1}
  Amounts = {1, 2}
  Total = 2
  Channel = "wechat"
  MaxFaults = 1
  Settlers = {k1}
  Deliveries = {}
  Queries = {k1}
INVARIANTS
  NeverOverRefunded
  FailMeansNotRefunded
  RefundedMeansMoneyBack
  EntryMeansMoneyBack
PROPERTIES
  ReturnedIsEventuallyBooked
CHECK_DEADLOCK FALSE
