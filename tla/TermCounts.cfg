SPECIFICATION Spec
CONSTANTS
  d1 = d1
  d2 = d2
  r1 = r1
  r2 = r2
  a = a
  Docs <- MCDocs
  Requests <- MCRequests
  Terms <- MCTerms
  Chunks = {1, 2}
  Budget <- MCBudget
SYMMETRY MCSymmetry
INVARIANTS StatsExact NeverOvercounts PostingsHaveRows
CHECK_DEADLOCK FALSE
