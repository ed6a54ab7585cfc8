SPECIFICATION FairSpec
CONSTANTS
  MaxAttempts = 3
  MaxOutages = 0
  MaxKills = 0
  MaxLen = 9
  Leaves <- MCLeaves
  Fixed = "fixed"
  Template <- MCTemplate
  Prompts <- MCSplit
  Plain <- MCPlain
  WithUrl <- MCWithUrl
  Seed = Seed
  Panic = Panic
  None = None
PROPERTIES
  EveryJobSettles
CHECK_DEADLOCK FALSE
