SPECIFICATION FairSpec
CONSTANTS
  Docs = {d1}
  Slots = {s1, s2}
  MaxChunks = 2
  MaxGens = 4
  MaxRetries = 2
  MaxConcurrency = 1
  Budget <- CoreBudget
INVARIANTS OneJobPerDocument ActiveIsSealed BusyHasJob DeletedLeavesNothing
PROPERTIES PublishComplete ReadyIndexStable ImplementsLifecycle SettlesUnlessPaused
CHECK_DEADLOCK FALSE
