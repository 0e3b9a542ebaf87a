CONSTANTS
  Producers = {p1, p2}
  QueueThreads = {t1, t2}
  Client = client
  Sentinel = sentinel
  NoItem = NoItem
  MaxItems = 2
SPECIFICATION FairSpec
INVARIANT TypeOK NoLostWakeup SentinelStays ItemsAreUnique StopDelivers
PROPERTY StopEndsAlone
CHECK_DEADLOCK FALSE
