\* OnlyCommittedVisible is violated first; without it, ClearAllLeavesNothing is.
SPECIFICATION Spec
CONSTANTS
  Docs = {d1, d2}
  Slots = {s1}
  MaxChunks = 1
  MaxGens = 2
  MaxRetries = 1
  MaxConcurrency = 1
  Budget <- FirstBudget
INVARIANTS OnlyCommittedVisible ClearAllLeavesNothing
CHECK_DEADLOCK FALSE
