\* One attempt, refunded in full, and a notification that comes again.
SPECIFICATION Spec
CONSTANTS
  s1 = s1
  s2 = s2
  q1 = q1
  q2 = q2
  MaxAttempts = 1
  MaxFaults = 0
  Total = 1
  Workers = {s1}
  Syncs = {s1}
  Requests = {q1}
PROPERTIES
  RefundedIsTerminal
CHECK_DEADLOCK FALSE
