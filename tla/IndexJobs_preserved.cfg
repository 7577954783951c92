SPECIFICATION Spec
CONSTANTS
  Requests = {r1, r2}
  Empty = {}
  Absent = Absent
  Reserved = Reserved
  Unknown = Unknown
  MaxFaults = 0
  MaxCrashes = 1
INVARIANT
  PreservedIndexExists
SYMMETRY RequestSymmetry
CHECK_DEADLOCK FALSE
