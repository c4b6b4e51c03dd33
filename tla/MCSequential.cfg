CONSTANTS
  ZoneStart = 1
  ZoneEnd = 9
  MAX_ORDER = 4
  BlockPages <- Powers
  NIL = NIL
  p1 = p1 p2 = p2 s1 = s1 s2 = s2
  SlabPages <- TwoPages
  Static <- TwoStatic
  size <- TwoSizes
  Embedded <- FirstOnly
  PAGE_2M_SIZE = 8
  SizeofSlab = 1
  SizeofSlabCache = 2
  SizeofLong = 2
  Requests <- SmallLargeHuge
  ObjectSize = 3
  Entries <- EntryKinds
  PerClus = 2
  Clusters = 2
  Names <- AskedFor
  Allowed <- Distinct
  Letters <- LetterCodes
  KeySets <- OneOrSpecial
  Legend <- LegendOf
  GreyKeys <- UpAndAlt
  MaxBytes = 7
  Keys <- TwoLettersAndBlank
  BUF = 8
  MaxLine = 7
  Commands <- SomeCommands
  IntBits = 4
  LongBits = 6
  MAX_BUFFER_LEN = 12
  USER_MAX_BUFFER_LEN = 8
  Items <- SomeItems
  MaxItems = 3
SPECIFICATION SequentialSpec
INVARIANTS
  NoPageUsedTwice NoPageLost NrFreeIsLength CountersExact NoFalseOutOfMemory
  SlabBooks SlabPageUse SlabServes
  ListingExact ListedIsFound TextIsTyped LineRuns NumbersReadBack
PROPERTIES ImplementsPageAllocator ObjectsDisjoint
