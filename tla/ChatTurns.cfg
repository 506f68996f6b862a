SPECIFICATION Spec
CONSTANTS
  Questions = 2
  MaxCalls <- MCCalls
  MaxChunks <- MCChunks
  Wire = 1
  Budget <- MCBudget
  Troubles = 2
INVARIANTS ShownEndsSaved ResultsBelong ChainIntact NeverWaitsInVain
CHECK_DEADLOCK FALSE
