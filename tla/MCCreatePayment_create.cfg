\* Two requests that may share key and order; lost answers, faults, restarts.
SPECIFICATION FairSpec
CONSTANTS
  r1 = r1
  r2 = r2
  k1 = k1
  k2 = k2
  o1 = o1
  Requests = {r1, r2}
  Keys = {k1, k2}
  Orders = {o1}
  Hashes = {o1}
  MaxFaults = 2
INVARIANTS
  OneOfferPerOrder
  CreatedIsPayable
  OpenTradeHasOpenAttempt
PROPERTIES
  KeyIsKept
  SettledAttemptIsFinal
  KeyIsReleased
CHECK_DEADLOCK FALSE
