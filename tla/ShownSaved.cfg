SPECIFICATION Spec
CONSTANTS
  Questions = 2
  MaxCalls <- MCCalls
  MaxChunks <- MCChunks
  Wire = 1
  Budget <- MCBudget
  Troubles = 2
INVARIANT ShownIsSaved
CHECK_DEADLOCK FALSE
