SPECIFICATION Spec
CONSTANTS
  Runs = {r1}
  NoRun = NoRun
  Faults = {"db"}
  ReaperOn = FALSE
  RowReturned = FALSE
  MaxCrashes = 0
INVARIANT AnsweredIsRecorded
CHECK_DEADLOCK FALSE
