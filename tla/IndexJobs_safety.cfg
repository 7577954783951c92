SPECIFICATION FairSpec
CONSTANTS
  Requests = {r1, r2, r3}
  Empty = {r2}
  Absent = Absent
  Reserved = Reserved
  Unknown = Unknown
  MaxFaults = 2
  MaxCrashes = 1
INVARIANTS
  TypeOK
  OneRunAtATime
  OrphansAreFaults
PROPERTIES
  PreservedIsTrue
  CompletedIsServed
  FinishedJobsSettle
  IndexIsAtomic
  JobsFinish
  LockIsFreed
CHECK_DEADLOCK FALSE
