SPECIFICATION FairSpec
CONSTANTS
  Tasks = {t1, t2}
  Workers = {w1, w2}
  Settings <- MCSettings
  Stamps = {s1, s2}
  NoStamp = NoStamp
  MaxClients = 3
INVARIANTS RaceBounded UsesAClient KeyGoesHome
PROPERTIES ImplementsChannel CallsEnd
CHECK_DEADLOCK FALSE
