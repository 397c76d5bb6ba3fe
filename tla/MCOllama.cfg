SPECIFICATION MCSpec
CONSTANTS
  Tasks = {t1, t2}
  Asks <- MCAsks
  Schemas = {s1, s2, s3}
  Digests = {d1, d2}
  s1 = s1
  s2 = s2
  s3 = s3
  d1 = d1
  d2 = d2
  Unsayable = Unsayable
  SentAs <- MCSentAs
  Format = "json"
  NoStamp = NoStamp
  TTL = 2
  MaxClock = 4
  Workers = {w1, w2, w3, w4}
  Counts = {0, 17}
  MaxTrips = 6
INVARIANTS OwnFormat ReceiptSaysCarried MissesBounded ModernIsMetered
PROPERTIES ImplementsChannel
