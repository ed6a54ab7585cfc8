SPECIFICATION FairSpec
CONSTANTS
  Shas = {s1, s2}
  Exts = {jpg, png}
  Requests = {r1, r2}
  MaxCrashes = 1
  MaxFaults = 1
  NoPath = NoPath
  NoRow = NoRow
INVARIANTS
  TypeOK
  InputLostOnlyByOverlap
  DanglingOnlyUnderPurge
  StrayHasReason
  ConflictOnlyByRace
PROPERTIES
  StaleInputReclaimed
CHECK_DEADLOCK FALSE
