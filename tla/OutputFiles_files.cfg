SPECIFICATION FairSpec
CONSTANTS
  Jobs = {j1}
  Tiers <- ThumbPreview
  Requests = {r1, r2}
  MaxFaults = 1
  MaxCrashes = 1
  NoJob = NoJob
INVARIANTS
  TypeOK
  VisibleFilesExist
  PurgeLeavesNothing
PROPERTIES
  GraceIsKept
  OldJobsGo
CHECK_DEADLOCK FALSE
