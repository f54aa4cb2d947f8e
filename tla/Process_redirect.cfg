CONSTANTS
  Sec = 6
  Tick = 2
  NsMax = 7
  Cores = 2
  RealMax = 4
  TaiOffset = 2
  Requests = {0, 1, 3, 5, 9}
  Threads = {t1, t2}
  KeyBuf = 2
  ValBuf = 5
  MaxOptions = 3
  ListBuf = 10
  Prefix = 1
  MaxDepth = 3
  Aligns = {0, 1, 2}
  MaxPhdrs = 4
  MaxArgs = 3
  MaxNewArgv = 6
  Handles = {a, b, c}
  Askers = {a}
SPECIFICATION Spec
INVARIANT GoesToItsPolyfill
CHECK_DEADLOCK FALSE
