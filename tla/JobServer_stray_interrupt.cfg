SPECIFICATION Spec
CONSTANTS
  NumJobs = 2
  NumPrompts = 2
  MaxOutages = 0
  MaxSilences = 0
  MaxCrashes = 0
  MaxDbFaults = 0
  MaxRestores = 0
  MaxDrops = 0
  WarmupOnStart = FALSE
  Cancels = {c1}
PROPERTIES
  CancelSparesNextJob
CHECK_DEADLOCK FALSE
