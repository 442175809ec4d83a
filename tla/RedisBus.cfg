SPECIFICATION FairSpec
CONSTANTS
  Sessions = {s1, s2}
  Streams = {c1}
  BufCap = 2
  MaxPublished = 5
INVARIANTS QueuesInOrder LossesLocated
PROPERTIES EndedIsUnsubscribed ImplementsFeed
CHECK_DEADLOCK FALSE
