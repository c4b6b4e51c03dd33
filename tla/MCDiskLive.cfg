CONSTANTS
  a = a
  i = i
  Tasks <- OneTask
  Idle = i
  NULL = NULL
  IoTasks <- OneTask
  MaxLag = 6
  MaxSectors = 2
  MaxRequests = 2
SPECIFICATION FairDiskSpec
PROPERTY TransferEnds
