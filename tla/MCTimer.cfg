CONSTANTS
  t1 = t1
  t2 = t2
  t3 = t3
  a = a
  b = b
  Timers <- ThreeTimers
  Tasks <- TwoTasks
  MaxJiffies = 3
  MaxDepth = 3
SPECIFICATION TimerSpec
INVARIANTS TimerListExact DueIsCovered
PROPERTIES NotEarly EveryTimerRuns
