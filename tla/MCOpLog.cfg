SPECIFICATION MCSpec
CONSTANTS
  l1 = l1
  Logger = {l1}
  MaxMessage = 3
  LOG_RECV_LIST_SIZE = 1
  LOG_DISK_THREAD_NUM = 2
  Day = {1, 2}
INVARIANTS
  QueueExact
  InOrderOnce
  DispatcherOutlivesOnlySkippedJoin
  
PROPERTIES
  Drains
  ExitEnds
CHECK_DEADLOCK FALSE
