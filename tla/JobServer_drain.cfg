SPECIFICATION FairSpec
CONSTANTS
  NumJobs = 1
  NumPrompts = 3
  MaxOutages = 1
  MaxSilences = 0
  MaxCrashes = 1
  MaxDbFaults = 0
  MaxRestores = 0
  MaxDrops = 1
  WarmupOnStart = FALSE
  Cancels = {c1}
PROPERTIES
  QueueDrains
  EveryChangeIsAnnounced
  FollowsLifecycle
CHECK_DEADLOCK FALSE
