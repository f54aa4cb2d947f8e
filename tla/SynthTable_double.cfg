SPECIFICATION Spec
CONSTANTS
  t1 = t1
  t2 = t2
  t3 = t3
  Threads = {t1, t2, t3}
  NumSlots = 1
  Inos = {i1}
  Fds = {f1, f2}
  NoIno = NoIno
  NoFd = NoFd
  Calls <- ThreeThreads
  Discipline = "fds"
  RawClose = FALSE
SYMMETRY Symmetry
INVARIANTS
  NoReleaseInUse
