CONSTANTS
  Procs = {"root", "kid"}
  Root = "root"
  Fds <- MCFds
  Parking = 7
  Wraps = {1}
  PreexecMax = 2
  ProbeWorks = {TRUE,FALSE}
  MaxOwn = 2
  Targets = {4,7}
  Flags <- MCFlags
  Execs = {"execve", "spawn"}
  MaxForks = 2
  MaxExecs = 1
SPECIFICATION Spec
CHECK_DEADLOCK FALSE
INVARIANTS
  HoldsBacking
  WrapServed
  ExecUndone
  NoStrayFd
