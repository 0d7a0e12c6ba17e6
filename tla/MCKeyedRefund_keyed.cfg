\* Three requests under one key, of either amount, with two faults or restarts.
\* Notifications and queries settle in one step each, so none is open between.
SPECIFICATION Spec
CONSTANTS
  r1 = r1
  r2 = r2
  r3 = r3
  p1 = p1
  k1 = k1
  Refunds = {r1, r2, r3}
  Requests = {r1, r2, r3}
  Payments = {p1}
  Amounts = {1, 2}
  Hashes = {"h1", "h2"}
  HashOf <- MCHashOf
  Keys = {k1}
  Total = 2
  Channel = "wechat"
  MaxFaults = 2
  Settlers = {}
INVARIANTS
  OneUndecidedPerKey
  ResponseIsBooked
PROPERTIES
  AnswerIsStable
SYMMETRY Symmetry
CHECK_DEADLOCK FALSE
