CONSTANTS
  Procs = {p1, p2}
  Names = {a, b}
  TmpNames = {x}
  MaxFiles = 2
  MaxTime = 1
  Chunk = 2
  CopySize = 5
  Want = 5
  Starts = {0, 1, 5}
  Threads = {p1, p2}
  ProcSize = 2
  OffMax = 3
  Counts = {1, 3}
  Offsets <- MCOffsets
  NumPages = 2
  NoReplace = NoReplace
  Fixed = Fixed
  Locked = Locked
SPECIFICATION Spec
SYMMETRY Symmetry
INVARIANTS
  TmpfilePrivate
  BirthRecorded
  StatxOneFile
  CopiedExactly
  MapsItsFile
PROPERTIES
  LastNameKept
  ReadsInOrder
  SparesOthers
CHECK_DEADLOCK FALSE
