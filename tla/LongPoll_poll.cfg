SPECIFICATION FairSpec
CONSTANTS
  Polls = {p1}
  Levels = 2
  MaxRequeues = 1
INVARIANTS
  NoSignalLost
  EarlyAnswerIsNews
PROPERTIES
  PollsEnd
CHECK_DEADLOCK FALSE
