SPECIFICATION Spec
CONSTANTS
  p = p
  q = q
  a = a
  b = b
  Projects = {p, q}
  Paths = {1, 2}
  Versions = {a, b}
  Defs <- MCDefs
  Edited = {p}
  Absent = Absent
  Nothing = Nothing
  Trees <- MCTrees
  MaxChanges = 2
  MaxCalls = 3
INVARIANTS
  TypeOK
  OpensWhatWasClicked
  DocumentsItsEvidence
  ShownBelongsTogether
CHECK_DEADLOCK FALSE
