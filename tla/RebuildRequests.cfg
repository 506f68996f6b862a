SPECIFICATION Spec
CONSTANTS
  Docs = {d1, d2}
  Initial = {d1}
  Rebuilds = 1
  Requests = 2
  Upsets = 2
INVARIANTS RebuiltIsIndexed
CHECK_DEADLOCK FALSE
