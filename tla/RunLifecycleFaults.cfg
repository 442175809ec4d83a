SPECIFICATION FairSpec
CONSTANTS
  Runs = {r1}
  NoRun = NoRun
  Faults = {"db", "net", "ctx"}
  ReaperOn = TRUE
  RowReturned = TRUE
  MaxCrashes = 2
INVARIANTS TypeOK ReportedIsSettled RefusedLeavesNothing StoredIsShown
PROPERTIES SettledForever WatchedTaskSettles ImplementsQuestion
CHECK_DEADLOCK FALSE
