\* WeChat's own serials, fair handlers and timers; the key is WeChat's alone.
SPECIFICATION FairSpec
CONSTANTS
  c1 = c1
  c2 = c2
  f = f
  s1 = s1
  s2 = s2
  n1 = n1
  r1 = r1
  d1 = d1
  NoCert = NoCert
  NoSerial = NoSerial
  Issued = {c1, c2}
  Foreign = {f}
  Serials = {s1, s2}
  SerialOf <- MCSerialOf
  Printed <- WechatSerials
  StaticCert = NoCert
  Anchored = FALSE
  SealTrusted = TRUE
  Configured = {"app_id", "mch_id", "notify_url", "serial_no", "private_key_path", "api_v3_key"}
  Notices = {n1}
  Requests = {r1}
  Downloads = {d1}
  Traffic <- LiveTraffic
  Listed <- LiveListed
PROPERTIES
  NoticeIsTaken
CHECK_DEADLOCK FALSE
