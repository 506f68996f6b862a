SPECIFICATION ToolSpec
CONSTANTS
  c1 = c1
  c2 = c2
  c3 = c3
  listing = listing
  d1 = d1
  d2 = d2
  Chunks <- MCChunks
  Inventory = listing
  DocOf <- MCDocOf
  Overlap <- MCOverlap
  MinSources = 1
  MaxResults = 2
  MaxCalls = 3
  MaxBatch = 2
INVARIANT SearchKeepsEvidence
CHECK_DEADLOCK FALSE
