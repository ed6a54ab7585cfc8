SPECIFICATION Spec
CONSTANTS
  Seconds = 2
  Ids = 3
  Limit = 2
  Filtered = TRUE
INVARIANTS
  NewestFirstOnce
  NothingSkipped
CHECK_DEADLOCK FALSE
