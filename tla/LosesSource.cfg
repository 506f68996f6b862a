\* DeletesKeepSources is violated first; without it, CleanupSparesReferenced is.
SPECIFICATION SourceSpec
CONSTANTS
  a = a
  b = b
  other = other
  Upload = {u1, u2}
  Content = {a, b}
  ContentOf <- TwoContents
  SourceBudget <- LossBudget
INVARIANT DeletesKeepSources
PROPERTY CleanupSparesReferenced
CHECK_DEADLOCK FALSE
