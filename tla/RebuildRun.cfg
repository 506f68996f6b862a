SPECIFICATION Spec
CONSTANTS
  Docs = {d1, d2}
  Initial = {d1}
  Rebuilds = 2
  Requests = 1
  Upsets = 2
INVARIANTS RebuiltIsIndexed SwitchedTogether StreamOfOwnRun
PROPERTIES LockReleased
CHECK_DEADLOCK FALSE
