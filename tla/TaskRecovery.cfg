SPECIFICATION FairSpec
CONSTANTS
  Task = {t1, t2}
  Typed = {t1, t2}
  Key = key
  NoKey = noKey
  KeyOf <- SameKey
  MaxAttempts = 2
  Keep = 1
  Budget <- QueueBudget
INVARIANTS SingleRun ExecutionsBounded KeyExclusive
PROPERTIES DoneStays TypedSettles
CHECK_DEADLOCK FALSE
