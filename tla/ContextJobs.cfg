SPECIFICATION Spec
CONSTANTS
  Old = 2
  Final = 4
  Requests = 2
  Limit = 1
  Tries = 2
  Budget <- MCBudget
INVARIANTS NothingForgotten
PROPERTIES MergesKept
CHECK_DEADLOCK FALSE
