SPECIFICATION FairSpec
CONSTANTS
  Task = {t1}
  Typed = {}
  Key = key
  NoKey = noKey
  KeyOf <- NoKeys
  MaxAttempts = 2
  Keep = 1
  Budget <- CrashBudget
PROPERTY AllSettle
CHECK_DEADLOCK FALSE
