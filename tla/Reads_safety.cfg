SPECIFICATION ReadSpec
CONSTANTS
  a1 = a1
  b1 = b1
  Versions <- MCVersions
  Snapshots <- MCSnapshots
  Models = {m1, m2}
  Gens = {g1, g2, g3}
  NoGen = NoGen
  NoModel = NoModel
  MaxFaults = 1
  MaxCrashes = 1
  MaxEdits = 1
INVARIANTS
  ReadTypeOK
  ReadersNeverCreate
  QueryInOwnModel
  SearchedIndexWasServed
  DetailIsOfOneIndex
  InvalidNeedsActivation
SYMMETRY MCSymmetry
