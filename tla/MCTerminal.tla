----------------------------- MODULE MCTerminal ----------------------------
(***************************************************************************)
(* Instances of TtyRead, Select and Epoll: reading from wrapped terminals, *)
(* and waiting for them.  They share no state: each runs while the other   *)
(* two are at rest.                                                        *)
(***************************************************************************)
EXTENDS Integers, TLC

CONSTANTS
  Users, Setters, Others, Counts, Bytes,
  MaxFd, FdSetSize, MaxSwaps, Dirs,
  Threads, AppFds, Backing, Moved

VARIABLES
  termios, nonblock, cache, stale, avail, left, hup, given, stolen, pc, arg, vmin, vtime, total, cut,
  real, user, nfds, sets, ready, at, rv, fd, eff, swaps,
  open, interest, want, call, odd

\* Every VMIN/VTIME case of termios(3).
Raw(vm, vt) == [canon |-> FALSE, vmin |-> vm, vtime |-> vt]
MCSettings  == {Raw(0, 0), Raw(0, 1), Raw(2, 0), Raw(3, 1), [canon |-> TRUE, vmin |-> 1, vtime |-> 0]}

\* Two wraps of one terminal; wraps with a backing above the other fds; a backing
\* beyond FD_SETSIZE; three wraps; a wrap beyond FD_SETSIZE.
MCBackings ==
  {0 :> 3 @@ 1 :> 3, 1 :> 0 @@ 2 :> 3, 0 :> 1 @@ 2 :> 4, 0 :> 3 @@ 1 :> 3 @@ 2 :> 3,
   1 :> 0 @@ 4 :> 0}

\* Users read a terminal whose settings change.  Everyone, the others too, who have
\* a wrap of their own, changes settings: two that differ in every field.
Everyone  == Users \cup Others
MCWrapOf  == [t \in Everyone |-> IF t \in Users THEN "w" ELSE "x"]
Two       == {Raw(2, 1), [canon |-> TRUE, vmin |-> 1, vtime |-> 0]}

Tty == INSTANCE TtyRead WITH Threads <- Users, Readers <- Users, Settings <- MCSettings,
         Wraps <- {"w"}, WrapOf <- MCWrapOf
Set == INSTANCE TtyRead WITH Threads <- Everyone, Readers <- {}, Setters <- Everyone, Settings <- Two,
         Wraps <- {"w", "x"}, WrapOf <- MCWrapOf
Sel == INSTANCE Select WITH Backings <- MCBackings, pc <- at
Ep  == INSTANCE Epoll

ttyVars    == <<termios, nonblock, cache, stale, avail, left, hup, given, stolen, pc, arg, vmin, vtime, total, cut>>
selectVars == <<real, user, nfds, sets, ready, at, rv, fd, eff, swaps>>
epollVars  == <<open, interest, want, call, odd>>
vars == <<ttyVars, selectVars, epollVars>>

\* select is not running, and one of the backings stands for all.
SelectRest == at = "idle" /\ real = 0 :> 3 @@ 1 :> 3

Init == Ep!Init /\ Sel!Init /\ (Tty!Init \/ (Set!Init /\ SelectRest))

Next ==
  \/ /\ SelectRest /\ Ep!Init /\ UNCHANGED <<selectVars, epollVars>>
     /\ \/ DOMAIN pc = Users /\ Tty!Next
        \/ DOMAIN pc = Everyone /\ \E t \in Everyone : Set!Setting(t)
  \/ Tty!Init /\ Ep!Init /\ Sel!Next /\ UNCHANGED <<ttyVars, epollVars>>
  \/ Tty!Init /\ SelectRest /\ Ep!Next /\ UNCHANGED <<ttyVars, selectVars>>

Spec == Init /\ [][Next]_vars

\* A read keeps to VMIN and VTIME, and loses no input: see TtyRead.
ReadContract == Tty!ReadContract /\ Tty!NoByteLost

\* A read with a timeout does not block for ever: see TtyRead.
TimedReadNeverBlocks == Tty!TimedReadNeverBlocks

\* Reads go by the settings in force: see TtyRead.
CacheFresh == IF DOMAIN pc = Users THEN Tty!CacheFresh ELSE Set!CacheFresh

\* select answers as a kernel that knows the wraps: see Select.
SelectAsKernel == Sel!AnswersAsKernel

\* So does epoll_ctl: see Epoll.
EpollAsKernel == Ep!AnswersAsKernel
=============================================================================
