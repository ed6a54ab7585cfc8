SPECIFICATION Spec
CONSTANTS
  NumJobs = 1
  NumPrompts = 3
  MaxOutages = 1
  MaxSilences = 0
  MaxCrashes = 1
  MaxDbFaults = 1
  MaxRestores = 0
  MaxDrops = 0
  WarmupOnStart = TRUE
  Cancels = {c1}
INVARIANTS
  TypeOK
  RunningIsHeld
  DoneHasOwnOutput
  ProgressMatchesStatus
  EndsWithOwnPrompt
PROPERTIES
  TerminalIsFinal
CHECK_DEADLOCK FALSE
