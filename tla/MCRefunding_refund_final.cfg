\* One refund of the whole order; an old query answer meets its settlement.
SPECIFICATION Spec
CONSTANTS
  r1 = r1
  p1 = p1
  d1 = d1
  k1 = k1
  Refunds = {r1}
  Payments = {p1}
  Amounts = {1}
  Total = 1
  Channel = "wechat"
  MaxFaults = 0
  Settlers = {d1, k1}
  Deliveries = {d1}
  Queries = {k1}
PROPERTIES
  SettledRefundIsFinal
CHECK_DEADLOCK FALSE
