SPECIFICATION FairSpec
CONSTANTS
  KeepDays = 2
  DayTicks = 2
  MaxFaults = 1
  MaxStops = 2
  None = None
INVARIANTS
  DatedAreWhole
  TempsHaveReason
PROPERTIES
  KeptForWindow
  OldOnesGo
