SPECIFICATION FairSpec
CONSTANTS
  MaxAttempts = 3
  MaxOutages = 2
  MaxKills = 1
  MaxLen = 9
  Leaves <- MCLeaves
  Fixed = "fixed"
  Template <- MCTemplate
  Prompts <- MCPrompts
  Plain <- MCPlain
  WithUrl <- MCWithUrl
  Seed = Seed
  Panic = Panic
  None = None
INVARIANTS
  GpuTimeRepeatedOnlyByOutage
  NeverReachedIsRequeued
  SentAsTyped
  FailureIsExplained
PROPERTIES
  SubmitKeepsPromise
  JobSettles
CHECK_DEADLOCK FALSE
