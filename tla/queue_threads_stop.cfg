CONSTANTS
  Producers = {p1}
  QueueThreads = {t1, t2}
  Client = client
  Sentinel = sentinel
  NoItem = NoItem
  MaxItems = 1
SPECIFICATION FairSpec
PROPERTY StopEnds
CHECK_DEADLOCK FALSE
