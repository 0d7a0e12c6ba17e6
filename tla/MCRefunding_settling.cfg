\* Two partial refunds; a delivery and a query settle them, one fault or restart.
SPECIFICATION Spec
CONSTANTS
  r1 = r1
  r2 = r2
  p1 = p1
  d1 = d1
  k1 = k1
  Refunds = {r1, r2}
  Payments = {p1}
  Amounts = {1}
  Total = 2
  Channel = "wechat"
  MaxFaults = 1
  Settlers = {d1, k1}
  Deliveries = {d1}
  Queries = {k1}
SYMMETRY DeliverySymmetry
INVARIANTS
  StampedRefundIsEntered
  SomeSettlerCanMove
PROPERTIES
  OnlyQueriesReopen
CHECK_DEADLOCK FALSE
