SPECIFICATION FairSpec
CONSTANTS
  Runs = {r1}
  NoRun = NoRun
  Faults = {}
  ReaperOn = FALSE
  RowReturned = FALSE
  MaxCrashes = 0
PROPERTY QueuedIsAccepted
CHECK_DEADLOCK FALSE
