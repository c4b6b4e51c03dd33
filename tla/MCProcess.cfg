SPECIFICATION ProcessSpec
CONSTANTS
  a = a b = b c = c
  m1 = m1 m2 = m2 m3 = m3 m4 = m4
  f1 = f1 f2 = f2 f3 = f3 f4 = f4 f5 = f5
  Tasks <- ThreeTasks
  InitProc = a
  Mms <- FourMms
  InitLmm = m1
  Files <- FiveFiles
  MAX_HANDLE_PER_TASK = 2
  NULL = NULL
SYMMETRY Symmetry
INVARIANTS FilesApart SpacesApart SpaceAllocated
CHECK_DEADLOCK FALSE
