CONSTANTS
  Users = {"r", "s"}
  Setters = {"s"}
  Others = {"u"}
  Counts = {0, 2, 3}
  Bytes = 4
  MaxFd = 4
  FdSetSize = 4
  MaxSwaps = 2
  Dirs = {"r", "w"}
  Threads = {t1, t2}
  AppFds = {3, 4}
  Backing = 8
  Moved = 9
SPECIFICATION Spec
INVARIANTS
  ReadContract
  TimedReadNeverBlocks
  CacheFresh
  SelectAsKernel
  EpollAsKernel
