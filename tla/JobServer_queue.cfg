SPECIFICATION Spec
CONSTANTS
  NumJobs = 2
  NumPrompts = 2
  MaxOutages = 1
  MaxSilences = 1
  MaxCrashes = 0
  MaxDbFaults = 0
  MaxRestores = 1
  MaxDrops = 0
  WarmupOnStart = FALSE
  Cancels = {}
INVARIANTS
  NoWakeLost
  OutageFailsAtMostOne
PROPERTIES
  DeletedNeverStarts
CHECK_DEADLOCK FALSE
