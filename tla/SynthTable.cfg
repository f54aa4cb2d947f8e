SPECIFICATION FairSpec
CONSTANTS
  t1 = t1
  t2 = t2
  t3 = t3
  Threads = {t1, t2}
  NumSlots = 1
  Inos = {i1, i2}
  Fds = {f1, f2}
  NoIno = NoIno
  NoFd = NoFd
  Calls <- TwoThreads
  Discipline = "fds"
  RawClose = FALSE
INVARIANTS
  ReleaseOnce
  ActiveCoversPublished
  PinHoldsUnlessDoubled
  EntryOutlivesItsFds
PROPERTIES
  CallsReturn
  ImplementsSlotLife
