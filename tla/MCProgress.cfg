CONSTANTS
  a = a
  b = b
  c = c
  i = i
  Tasks = {a, b}
  XCharResolution = 4
  YCharResolution = 2
  TAB_WIDTH = 2
  Texts <- TextsShort
  MaxPrints = 3
SPECIFICATION ProgressSpec
INVARIANTS FairShare LockUncontended TextsWhole
PROPERTIES EveryTaskRuns PrintsReturn
