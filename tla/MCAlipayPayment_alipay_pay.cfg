\* Two rounds or notifications, two QR attempts, one fault or restart.
SPECIFICATION Spec
CONSTANTS
  s1 = s1
  s2 = s2
  q1 = q1
  q2 = q2
  MaxAttempts = 2
  MaxFaults = 1
  Total = 1
  Workers = {s1, s2}
  Syncs = {s1, s2}
  Requests = {q1, q2}
INVARIANTS
  InexactMoneyNeverBooked
PROPERTIES
  MoneyIsKept
SYMMETRY Symmetry
CHECK_DEADLOCK FALSE
