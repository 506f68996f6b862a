SPECIFICATION SourceSpec
CONSTANTS
  a = a
  b = b
  other = other
  Upload = {u1, u2, u3, other}
  Content = {a, b}
  ContentOf <- TwoContents
  SourceBudget <- AllBudget
INVARIANTS UploadsKeepSources NoOrphanFile
CHECK_DEADLOCK FALSE
