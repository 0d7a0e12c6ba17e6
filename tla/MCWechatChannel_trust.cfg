\* A rotation, one notification, one request, one download at a time;
\* the first certificate is deployed, downloaded ones are trusted for the anchor.
SPECIFICATION ServedSpec
CONSTANTS
  c1 = c1
  c2 = c2
  f = f
  s1 = s1
  s2 = s2
  n1 = n1
  r1 = r1
  d1 = d1
  NoCert = NoCert
  NoSerial = NoSerial
  Issued = {c1, c2}
  Foreign = {f}
  Serials = {s1, s2}
  SerialOf <- MCSerialOf
  Printed <- ShortSerials
  StaticCert = c1
  Anchored = TRUE
  SealTrusted = FALSE
  Configured = {"app_id", "mch_id", "notify_url", "serial_no", "private_key_path", "api_v3_key"}
  Notices = {n1}
  Requests = {r1}
  Downloads = {d1}
  Traffic <- MCTraffic
  Listed <- MCListed
INVARIANTS
  BelievedIsSigned
  CacheIsGenuine
  WindowSpentByOneRequest
  NoUseAfterRelease
PROPERTIES
  RequestComesBack
  BelievedWhileValid
CHECK_DEADLOCK FALSE
