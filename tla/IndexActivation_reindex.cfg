SPECIFICATION FairSpec
CONSTANTS
  a1 = a1
  a2 = a2
  b1 = b1
  Versions <- MCVersions
  Snapshots <- MCSnapshots
  Models = {m1}
  Gens = {g1, g2, g3, g4, g5}
  NoGen = NoGen
  NoModel = NoModel
  MaxFaults = 0
  MaxCrashes = 1
  MaxEdits = 0
PROPERTIES
  ReindexRepairs
