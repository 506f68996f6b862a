SPECIFICATION Spec
CONSTANTS
  Posts = 2
  Cap = 1
  Fit = 1
  Budget <- MCBudget
  Total = 3
INVARIANTS RecallIsCurrent NothingLost CursorCovers
CHECK_DEADLOCK FALSE
