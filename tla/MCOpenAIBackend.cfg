SPECIFICATION FairSpec
CONSTANTS
  Tasks = {t1, t2}
  Asks <- MCAsks
  BaseUrl = FALSE
  OSeries = TRUE
  ReasoningEffort = "low"
  TTL = 1
  MaxClock = 2
  Stamps = {m1}
  Schemas = {s1, s2}
  Digests = {d1, d2, d3}
  s1 = s1
  s2 = s2
  d1 = d1
  d2 = d2
  d3 = d3
  Unsayable = Unsayable
  NoStamp = NoStamp
  SentAs <- MCSentAs
INVARIANTS TypeOK ReceiptTruth StampOwn
PROPERTIES RefusalEarned WindowKept ConflictPaidOnce TwoRequestsAtMost ImplementsChannel CallsEnd
