SPECIFICATION FairSpec
CONSTANTS
  m1 = m1
  m2 = m2
  m3 = m3
  s1 = s1
  N = 4
  Lines <- MCLines
  MaxLines = 4
  Limits <- MCLimits
  BatchSize = 3
  MaxRetries = 1
  PartSize = 2
  Stale = {s1}
  Models <- MCModels
  Dim <- MCDim
  None = None
  MaxRuns = 2
  MaxSwaps = 1
INVARIANTS
  TypeOK
  SettledOnce
  CompactionIsLongest
  CompleteIsExact
  CleanRunCompletes
  OneDimension
PROPERTIES
  NothingPartial
  Ends
CHECK_DEADLOCK FALSE
