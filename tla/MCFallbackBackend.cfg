SPECIFICATION Spec
CONSTANTS
  Tasks = {t1, t2}
  Asks <- MCAsks
  Chain <- MCChain
  inner = inner
  ollama = ollama
  Native = {inner}
  Announces <- MCAnnounces
  Stamps = {m1}
  NoStamp = NoStamp
  MaxRetries = 1
  Breaker = TRUE
INVARIANTS ReceiptFromServer ServerNamed
PROPERTIES ImplementsChannel
