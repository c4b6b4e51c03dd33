CONSTANTS
  Entries <- Kinds
  PerClus = 2
  Clusters = 2
  Names <- AskedFor
  Allowed <- Distinct
SPECIFICATION DirectorySpec
INVARIANT FileOpens
CHECK_DEADLOCK FALSE
