CONSTANTS
  f1 = f1
  f2 = f2
  f3 = f3
  PAGE_SIZE = 2
  USER_LIMIT = 9
  MMAP_BASE = 4
  CodePages <- OnePage
  StartBrk = 2
  BrkLimit = 4
  Frames <- ThreeFrames
  NoFrame = NoFrame
  Addresses <- InHeap
  Prots <- TwoProts
  MaxLen = 5
SYMMETRY FramesSymmetry
SPECIFICATION SpaceSpec
PROPERTY MmapTakesFreePages
CHECK_DEADLOCK FALSE
