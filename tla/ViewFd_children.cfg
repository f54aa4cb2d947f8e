SPECIFICATION FairSpec
CONSTANTS
  Procs = {1, 2, 3}
  Installer = 1
  PidOf <- MCPids
  Capacities = {1, 2}
  Fds = {3, 4}
  InstallerRuns = FALSE
  None = 0
INVARIANTS
  OneCopyEach
  OneSlotEach
PROPERTIES
  CloseReturns
