SPECIFICATION Spec
CONSTANTS
  Keys <- MCKeys
  Indexes <- MCIndexes
  Schemas <- MCSchemas
  Values <- MCValues
INVARIANTS StrictAsksNoLess StrictLosesNoReply Idempotent
CHECK_DEADLOCK FALSE
