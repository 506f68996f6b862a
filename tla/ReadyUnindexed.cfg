SPECIFICATION Spec
CONSTANTS
  Docs = {d1}
  Slots = {s1, s2}
  MaxChunks = 1
  MaxGens = 4
  MaxRetries = 1
  MaxConcurrency = 1
  Budget <- CrashBudget
INVARIANT ReadyIsIndexed
CHECK_DEADLOCK FALSE
