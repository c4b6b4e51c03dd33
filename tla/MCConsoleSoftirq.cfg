CONSTANTS
  a = a
  Tasks = {a}
  XCharResolution = 4
  YCharResolution = 2
  TAB_WIDTH = 2
  Texts <- OneText
  MaxPrints = 2
SPECIFICATION SoftirqSpec
PROPERTY PrintsReturn
CHECK_DEADLOCK FALSE
