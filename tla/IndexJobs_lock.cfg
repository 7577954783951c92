SPECIFICATION Spec
CONSTANTS
  Requests = {r1, r2}
  Empty = {}
  Absent = Absent
  Reserved = Reserved
  Unknown = Unknown
  MaxFaults = 1
  MaxCrashes = 0
INVARIANT
  RefusedMeansRunning
SYMMETRY RequestSymmetry
CHECK_DEADLOCK FALSE
