SPECIFICATION Spec
CONSTANTS
  Threads = {t1, t2}
  Registry <- Both
  Fds = {3, 4, 5, 6, 7}
  Chunk = 2
  OpenFails = {"debugfd", "mount_fd"}
  Apps <- Applications
SYMMETRY Symmetry
INVARIANTS
  SlotsKeepTheirFds
  UsesOwnFile
  RangeClosed
PROPERTY
  AppFileKept
