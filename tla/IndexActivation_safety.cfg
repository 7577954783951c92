SPECIFICATION Spec
CONSTANTS
  a1 = a1
  a2 = a2
  b1 = b1
  Versions <- MCVersions
  Snapshots <- MCSnapshots
  Models = {m1, m2}
  Gens = {g1, g2, g3, g4, g5}
  NoGen = NoGen
  NoModel = NoModel
  MaxFaults = 3
  MaxCrashes = 1
  MaxEdits = 2
INVARIANTS
  TypeOK
  CommittedIndexComplete
  StoresAgreeOutsideGuard
  NeverWedged
  OneModelPerCollection
  LeaksAreFaults
  FailedRunKeepsIndex
PROPERTIES
  ServedIndexIsAtomic
SYMMETRY GenSymmetry
