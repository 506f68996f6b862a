SPECIFICATION Spec
CONSTANTS
  Confs <- MCConfs
  SoftLimit = 2
  HardLimit = 3
  ContextScales = 1
  RepeatLimit = 2
  MaxSources = 1
  MaxTrusted = 2
INVARIANTS WorkBounded DraftsAreChecked NumbersAreComputed
PROPERTIES Terminates
CHECK_DEADLOCK FALSE
