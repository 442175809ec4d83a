SPECIFICATION Spec
CONSTANTS
  Docs = {d1, d2}
  Blank = {d2}
  NoDoc = NoDoc
  RowReturned = TRUE
  Faults = {"db", "net", "ctx"}
  MaxCrashes = 1
INVARIANTS CompletedIsIndexed ListedFileExists
PROPERTY CompletedStays
CHECK_DEADLOCK FALSE
