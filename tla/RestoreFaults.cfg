SPECIFICATION Spec
CONSTANTS
  d1 = d1
  d2 = d2
  Docs <- MCDocs
  Initial <- MCInitial
  Restores = 2
  Budget <- MCBudget
INVARIANTS RestoredIsComplete AllOrNothing
PROPERTIES MaintenanceEnds
CHECK_DEADLOCK FALSE
