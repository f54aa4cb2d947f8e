SPECIFICATION FairSpec
CONSTANTS
  s1 = s1
  s2 = s2
  plain = plain
  tty = tty
  NumEntries = 3
  Synths = {s1, s2}
  Others = {plain, tty}
  Real <- SharedReal
  Neg = Neg
  MaxSwaps = 2
INVARIANTS FdsRestored ReportsBacking
PROPERTY PollReturns
