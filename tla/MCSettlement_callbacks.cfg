\* Overlapping deliveries of every notice, two QR attempts, one fault or restart.
SPECIFICATION Spec
CONSTANTS
  d1 = d1
  d2 = d2
  q1 = q1
  q2 = q2
  MaxAttempts = 2
  MaxFaults = 1
  Total = 1
  Workers = {d1, d2}
  Deliveries = {d1, d2}
  Notices = {"SUCCESS", "REFUND", "CLOSED"}
  Rounds = {}
  Requests = {q1, q2}
INVARIANTS
  AckedMoneyIsBooked
  StampedMoneyIsBooked
  RefundedOrderIsCovered
PROPERTIES
  SettledIsFinal
SYMMETRY DeliverySymmetry
CHECK_DEADLOCK FALSE
