--------------------------- MODULE MCSynthTable ---------------------------
(***************************************************************************)
(* Instances of SynthTable for TLC.                                        *)
(***************************************************************************)
EXTENDS SynthTable, TLC

CONSTANTS t1, t2, t3

\* Two threads that open wraps; one closes them and dispatches to them, the
\* other closes them by dup2 over their fds.
TwoThreads ==
  t1 :> {"open", "close", "dispatch"} @@ t2 :> {"open", "dup2"}

\* Three threads that open, close and use one wrap.
ThreeThreads == [t \in {t1, t2, t3} |-> {"open", "close", "dispatch"}]

\* Threads, inode numbers and fds are interchangeable.
Symmetry == Permutations(Threads) \cup Permutations(Inos) \cup Permutations(Fds)
=============================================================================
