--------------------------- MODULE MCInternalFd ---------------------------
\* An instance of InternalFd for TLC.
EXTENDS InternalFd, TLC

Both == <<"debugfd", "mount_fd">>

\* Two threads that race for three numbers, or one that makes every call.
Applications ==
  {[threads |-> Threads, fds |-> {3, 4, 5}, targets |-> {3},
    calls |-> {"use", "close", "dup2"}]} \cup
  {[threads |-> {t}, fds |-> Fds, targets |-> Fds,
    calls |-> {"use", "close", "dup2", "baddup2", "range"}] : t \in Threads}

\* Threads are interchangeable.
Symmetry == Permutations(Threads)

=============================================================================
