SPECIFICATION CacheSpec
CONSTANTS
  d1 = d1
  d2 = d2
  t1 = t1
  t2 = t2
  Docs <- MCDocs
  Turns <- MCTurns
  KeyTop = 1
  MaxEntries = 2
  Texts = 2
  Budget <- MCBudget
  Total = 2
SYMMETRY MCSymmetry
INVARIANTS InvalidatedByChange
CHECK_DEADLOCK FALSE
