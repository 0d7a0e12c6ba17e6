\* A WeChat order with a deadline, one WeChat does not know, and the refund of an
\* Alipay payment; a batch of two, one fault.
SPECIFICATION FairSpec
CONSTANTS
  Rows = {"w1", "u", "f"}
  KindOf <- MCKindOf
  Deadline = {"w1"}
  Unknown = {"u", "f"}
  Batch = 2
  MaxFaults = 1
  Channels = {"wechat"}
  SweepEnabled = TRUE
  Configured = {"wechat", "alipay"}
INVARIANTS
  TeardownIsClean
  SettledAgrees
PROPERTIES
  MissedIsRecovered
  ExpiredIsSettled
CHECK_DEADLOCK FALSE
