----------------------------- MODULE MCViewFd -----------------------------
\* An instance of ViewFd for TLC: each process has a pid of its own.
EXTENDS ViewFd

MCPids == [p \in Procs |-> 10 + p]

=============================================================================
