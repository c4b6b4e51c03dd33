CONSTANTS
  a = a
  b = b
  i = i
  Tasks <- TwoTasks
  Idle = i
  NULL = NULL
  MaxLag = 4
  IoTasks <- TwoTasks
  MaxSectors = 1
  MaxRequests = 2
  Readers <- OneTask
  KB_BUF_SIZE = 2
  MaxKeys = 3
  Counts <- OneOrTwo
SPECIFICATION SleepersSpec
INVARIANTS
  QueueIntact NobodyLost
  DriveNotStalled WakeupToCome
  SleeperIsQueued ReadInOrder CountNotAhead
