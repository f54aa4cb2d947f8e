CONSTANTS
  Procs = {"root", "kid"}
  Root = "root"
  Fds <- MCFds
  Parking = 5
  Wraps = {1}
  PreexecMax = 4
  ProbeWorks = {TRUE}
  MaxOwn = 2
  Targets = {4,7}
  Flags <- MCFlags
  Execs = {"execve", "spawn"}
  MaxForks = 2
  MaxExecs = 1
SPECIFICATION Spec
CHECK_DEADLOCK FALSE
INVARIANTS ReleasedWithLastFd
