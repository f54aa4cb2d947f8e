----------------------------- MODULE MCTtyWrap -----------------------------
(* Instances of TtyWrap: processes are strings, wraps small numbers.  A wrap *)
(* takes the numbers 4 (tty) and 7 (probe) when the application has only 3.  *)
(* 7 is also one of the two numbers to park at: where the probe or a fd of   *)
(* the application has it, there is room to park one fd and no more.         *)
EXTENDS TtyWrap

MCFds == 3..8

(* Both flags occur at once, on fds that are wraps or not. *)
MCFlags == [f \in MCFds |-> {f = 7}]
=============================================================================
