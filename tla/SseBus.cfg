SPECIFICATION FairSpec
CONSTANTS
  Sessions = {s1, s2}
  Streams = {c1, c2}
  BufCap = 2
  MaxPublished = 3
INVARIANTS TypeOK ListedIffOpen EveryEventAccounted BufferInOrder DropsCounted
PROPERTIES WaitingIsTaken EndedIsForgotten ImplementsFeed
CHECK_DEADLOCK FALSE
