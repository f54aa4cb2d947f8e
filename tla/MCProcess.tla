------------------------------ MODULE MCProcess ----------------------------
(***************************************************************************)
(* Instances of Clock, Tunables, Redirect, Execve and FcntlLock.  They     *)
(* share no state: each runs while the others are at rest.                 *)
(***************************************************************************)
EXTENDS Integers, Sequences

CONSTANTS
  Sec, Tick, NsMax, Cores, RealMax, TaiOffset, Requests,
  Threads, KeyBuf, ValBuf, MaxOptions, ListBuf, Prefix, MaxDepth,
  Aligns, MaxPhdrs, MaxArgs, MaxNewArgv,
  Handles, Askers

VARIABLES
  cpu, real, pc, abs, target, now, left, goal, late,
  attrs, disable, options, loaded, unread, cached_name, cached_result, at, value, torn, early,
  listed, stack, redir, child, over,
  file, argc, argv0, step, err, fd, swapped,
  lock, probe, where, type, answer, held, lapsed, seen

\* The feature is "m".  Lists with it and without, with empty entries, with an entry
\* it is a prefix of, of the longest length that is loaded, and one too long; the
\* two keys in either order, with an option between them whose key is the name, and
\* behind an attribute of another program whose name just fits the list or fills it.
M == <<"m">>
D == <<"d">>
N == <<"n">>
Option(k, v) == [ours |-> TRUE, key |-> k, val |-> v]
Other(k)     == [ours |-> FALSE, key |-> k, val |-> M]
Lists == {<<>>, M, <<"e">>, <<"e", ",", "m">>, <<",", "m">>, <<"m", "m">>, <<"m", ",">>,
          <<"e", ",", "e", "e">>, <<"e", ",", "m", ",", "e">>}
MCTables ==
  {<<>>} \cup {<<Option(k, v)>> : k \in {D, N}, v \in Lists}
  \cup {<<Option(D, v), Option(N, w)>> : v, w \in Lists}
  \cup {<<Option(N, v), Option(M, w), Option(D, v)>> : v, w \in Lists}
  \cup {<<Other(k), Option(D, v), Option(N, M)>> : k \in {<<"n", "n">>, <<"n", "n", "n">>}, v \in Lists}

Time  == INSTANCE Clock
Tune  == INSTANCE Tunables WITH Tables <- MCTables, Name <- M, Disabled <- D, Enabled <- N
Redir == INSTANCE Redirect WITH Callers <- Threads
Run   == INSTANCE Execve
Locks == INSTANCE FcntlLock WITH pc <- where

timeVars  == <<cpu, real, pc, abs, target, now, left, goal, late>>
tuneVars  == <<attrs, disable, options, loaded, unread, cached_name, cached_result, at, value, torn, early>>
redirVars == <<listed, stack, redir, child, over>>
runVars   == <<file, argc, argv0, step, err, fd, swapped>>
lockVars  == <<lock, probe, where, type, answer, held, lapsed, seen>>
vars == <<timeVars, tuneVars, redirVars, runVars, lockVars>>

\* The initial state of each that stands for it while another runs, told by what
\* its first step changes.
AnyFile   == [elf |-> TRUE, phdrs |-> <<Run!Load(1)>>, setid |-> FALSE, readable |-> TRUE]
TuneRest  == attrs = <<>> /\ disable = FALSE /\ loaded = FALSE /\ early = FALSE
RunRest   == file = AnyFile /\ argc = 0 /\ argv0 = FALSE /\ step = "call"
RedirRest == listed = {} /\ Redir!Init

Init ==
  /\ Time!Init /\ Locks!Init
  /\ \/ RedirRest /\ RunRest /\ Run!Init /\ Tune!Init
     \/ TuneRest /\ Tune!Init /\ RunRest /\ Run!Init /\ Redir!Init
     \/ TuneRest /\ Tune!Init /\ RedirRest /\ Run!Init

TimeTurn == TuneRest /\ RedirRest /\ RunRest /\ Locks!Init

TimeStep(A) == TimeTurn /\ A /\ UNCHANGED <<tuneVars, redirVars, runVars, lockVars>>

Next ==
  \/ TimeStep(Time!Next)
  \/ /\ Time!Init /\ RedirRest /\ RunRest /\ Locks!Init
     /\ Tune!Next /\ UNCHANGED <<timeVars, redirVars, runVars, lockVars>>
  \/ /\ Time!Init /\ TuneRest /\ RunRest /\ Locks!Init
     /\ Redir!Next /\ UNCHANGED <<timeVars, tuneVars, runVars, lockVars>>
  \/ /\ Time!Init /\ TuneRest /\ RedirRest /\ Locks!Init
     /\ Run!Next /\ UNCHANGED <<timeVars, tuneVars, redirVars, lockVars>>
  \/ /\ Time!Init /\ TuneRest /\ RedirRest /\ RunRest
     /\ Locks!Next /\ UNCHANGED <<timeVars, tuneVars, redirVars, runVars>>

Spec == Init /\ [][Next]_vars

\* The sleeper is scheduled, and the process goes on using CPU time.
FairSpec == Spec /\ WF_vars(TimeStep(Time!Sleeper)) /\ SF_vars(TimeStep(Time!Runs))

\* A sleep on the CPU clock ends neither early nor a tick late: see Clock.
WakesOnTime == Time!WakesOnTime

\* A sleep on the CPU clock of a process that goes on running ends.
SleepReturns == pc \in {"check", "sleep"} ~> pc \in {"idle", "interrupted"}

Conversions == Time!CpuClocksKnown(64, 1..3) /\ Time!WaitsLongEnough(0..3, 2, 7)

\* Clock values that are converted keep their meaning: see Clock.
ClocksAgree == Time!TaiAgrees /\ Conversions

\* A shim passes through exactly if the user's configuration says so: see Tunables.
DecidesAsConfigured == Tune!DecidesAsConfigured

\* What tunables.h says of the races on its cache: see Tunables.
RacesAreBenign == Tune!RacesAreBenign

\* syscall() redirects a call once, and the next one again: see Redirect.
RedirectsOnce == Redir!RedirectedOnce /\ Redir!RedirBalanced

\* What TUNABLES.md says of redirected calls: see Redirect.
GoesToItsPolyfill == Redir!GoesToItsPolyfill

\* execve runs what Linux would run, or fails cleanly: see Execve.
ExecsAsLinux == Run!ExecsAsLinux

\* Record locks exclude, are refused for cause, and F_GETLK tells the truth of
\* them: see FcntlLock.
LocksAsLinux == Locks!LocksAsLinux
=============================================================================
