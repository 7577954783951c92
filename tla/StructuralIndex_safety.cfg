SPECIFICATION Spec
CONSTANTS
  a = a
  b = b
  blank = blank
  bad = bad
  Paths = {p1, p2}
  Versions <- MCVersions
  Bad = {bad}
  Blank = {blank}
  None = None
  MaxRuns = 3
  MaxEdits = 3
SYMMETRY MCSymmetry
INVARIANTS
  TypeOK
  RowsAreOfTheirHash
  CleanRunCatchesUp
PROPERTIES
  IndexedSnapshotExisted
CHECK_DEADLOCK FALSE
