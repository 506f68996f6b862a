SPECIFICATION FairSpec
CONSTANTS
  Docs = {d1}
  Slots = {s1}
  MaxChunks = 1
  MaxGens = 2
  MaxRetries = 1
  MaxConcurrency = 1
  Budget <- PauseBudget
PROPERTY Settles
CHECK_DEADLOCK FALSE
