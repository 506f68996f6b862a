SPECIFICATION Spec
CONSTANTS
  Docs = {d1, d2}
  Slots = {s1, s2}
  MaxChunks = 1
  MaxGens = 5
  MaxRetries = 1
  MaxConcurrency = 1
  Budget <- PairBudget
INVARIANTS LiveJobHoldsClaim BusyHasJob DeletedLeavesNothing
CHECK_DEADLOCK FALSE
