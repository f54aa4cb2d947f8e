------------------------------ MODULE TtyWrap ------------------------------
(***************************************************************************)
(* The life of a tty wrap across processes: wslcompat_tty_install, close,  *)
(* dup2/dup3, fork, and the exec family with its save and restore of wraps *)
(* (synth.c, tty.c, close.c, execve.c).                                    *)
(*                                                                         *)
(* A wrap is three open files: the O_PATH reference the application holds  *)
(* in place of its tty ("path", it owns the shared flock), the liveness    *)
(* probe on the same inode ("probe"), and a private dup of the tty.  The   *)
(* library knows the last two by number, in memory that fork copies.  The  *)
(* numbers are base values, which the installer changes, and an override   *)
(* for every other process that has moved them, which is found by its pid  *)
(* and start time: so a child starts from the base values, not from what   *)
(* its parent went by (wslcompat_view_fd_load).                            *)
(*                                                                         *)
(* Each process is sequential, and a shim call reads nothing that another  *)
(* process writes except whether the shared flock is held, once: so a call *)
(* is one action, and the loops of the exec family are one action a turn.  *)
(***************************************************************************)
EXTENDS Integers, Sequences, FiniteSets, FiniteSetsExt

CONSTANTS
  Procs, Root,   \* processes, and the one that runs first
  Fds,           \* fd numbers, from 3
  Parking,       \* the lowest number a fd is parked at during an exec
  Wraps,         \* one id for each installation
  PreexecMax,    \* SYNTH_PREEXEC_MAX
  ProbeWorks,    \* can the liveness probe be installed? (a set of answers)
  MaxOwn,        \* bound: fds an application has at a time
  Targets,       \* numbers it closes or dups over without knowing their use
  MaxForks,      \* bound: fork calls in a behaviour
  MaxExecs,      \* bound: exec calls in a behaviour
  Flags,         \* close-on-exec flags it gives to dup3, by number
  Execs          \* the exec calls made ("execve": replaces the process,
                 \* "spawn": system, popen and posix_spawn)

ASSUME ProcAssumption  == Root \in Procs /\ {"none", "gone"} \cap Procs = {}
ASSUME FdsAssumption   == Fds \subseteq Nat \ {0, 1, 2} /\ Fds # {} /\ IsFiniteSet(Fds) /\ Parking \in Nat
ASSUME WrapAssumption  == Wraps \subseteq Nat \ {0} /\ PreexecMax \in Nat
ASSUME OwnAssumption   == {MaxOwn, MaxForks, MaxExecs} \subseteq Nat /\ Targets \subseteq Fds /\ Flags \in [Fds -> SUBSET BOOLEAN]
ASSUME ExecsAssumption == ProbeWorks \subseteq BOOLEAN /\ Execs \subseteq {"execve", "spawn"}

NoFd   == -1
Kinds  == {"real", "probe"}
File(kind, w) == [kind |-> kind, wrap |-> w]
Files  == {File("none", 0), File("tty", 0)} \cup
          {File(k, w) : k \in {"path", "probe"}, w \in Wraps}
Entry(file, cx) == [file |-> file, cloexec |-> cx]
Closed == Entry(File("none", 0), FALSE)
AllClosed == [f \in Fds |-> Closed]
NoView == [real |-> NoFd, probe |-> NoFd, live |-> FALSE]

VARIABLES
  tab,        \* the fd table of each process
  view,       \* what each process goes by for each wrap: base or override
  base,       \* the base values in its memory
  installer,  \* the process that installed it
  own,        \* history: the fds the application of a process knows of
  st,         \* what each process is doing
  cand,       \* exec: the fds still to be saved
  saved,      \* exec: the saved ones
  before,     \* history: the fd table an exec started from
  forks,      \* fork calls so far
  execs,      \* exec calls so far
  slip,       \* history: what a save got wrong: it took the "probe" for a fd
              \* of the application, or left one out for the "cap", for want
              \* of "room" or because the wrap's tty is "lost"
  astray      \* history: the processes, and for which wraps, that go by
              \* numbers that a parent had moved

vars == <<tab, view, base, installer, own, st, cand, saved, before, forks, execs, slip, astray>>

Init ==
  /\ own = [p \in Procs |-> IF p = Root THEN {Min(Fds)} ELSE {}]
  /\ tab = [p \in Procs |-> [f \in Fds |->
             IF f \in own[p] THEN Entry(File("tty", 0), FALSE) ELSE Closed]]
  /\ view = [p \in Procs |-> [w \in Wraps |-> NoView]]
  /\ base = view
  /\ installer = [w \in Wraps |-> "none"]
  /\ st = [p \in Procs |-> IF p = Root THEN "run" ELSE "unborn"]
  /\ cand = [p \in Procs |-> <<>>]
  /\ saved = [p \in Procs |-> <<>>]
  /\ before = [p \in Procs |-> AllClosed]
  /\ forks = 0 /\ execs = 0 /\ slip = {} /\ astray = {}

-----------------------------------------------------------------------------
\* A process as the functions below transform it: its fd table and its memory.

Proc(p)     == [tab |-> tab[p], view |-> view[p]]
Free(s)     == {f \in Fds : s.tab[f] = Closed}

\* wslcompat_view_fd_store: the base values are the installer's to change.
Become(p, s) ==
  /\ tab' = [tab EXCEPT ![p] = s.tab]
  /\ view' = [view EXCEPT ![p] = s.view]
  /\ base' = [base EXCEPT ![p] = [w \in Wraps |-> IF installer[w] = p THEN s.view[w] ELSE base[p][w]]]

Ascending(S) ==
  [i \in 1..Cardinality(S) |-> CHOOSE f \in S : Cardinality({g \in S : g < f}) = i - 1]

\* synth_pin_lookup: the live entry for a fd's inode.  The probe has it too.
EntryOf(s, f) == {w \in Wraps : s.view[w].live /\ s.tab[f].file.wrap = w}

\* Mutant: nothing is moved.
RelocateNothing(s, f) == s

\* wslcompat_synth_relocate_internal: the internal fds at number f move away, one
\* entry after the other, each to the lowest number left; one that cannot is dead.
\* (A number is one entry's, but in a process astray.)
Relocate(s, f) ==
  LET hit   == {w \in Wraps : s.view[w].live /\ f \in {s.view[w].real, s.view[w].probe}}
      rank(w) == Cardinality({x \in hit : x <= w})
      fails(w) == s.tab[f] = Closed \/ rank(w) > Cardinality(Free(s))
      to(w) == IF fails(w) THEN NoFd ELSE Ascending(Free(s))[rank(w)]
      moved(w, n) == IF w \in hit /\ n = f THEN to(w) ELSE n IN
  IF hit = {} THEN s ELSE
  [tab  |-> [g \in Fds |-> IF \E w \in hit : to(w) = g THEN Entry(s.tab[f].file, TRUE) ELSE s.tab[g]],
   view |-> [w \in Wraps |-> [real  |-> moved(w, s.view[w].real),
                              probe |-> moved(w, s.view[w].probe),
                              live  |-> s.view[w].live]]]

\* flock(LOCK_EX) on the probe is refused while anybody holds the O_PATH file.
Locked(p, s, w) ==
  \/ \E f \in Fds : s.tab[f].file = File("path", w)
  \/ \E q \in Procs \ {p}, f \in Fds : tab[q][f].file = File("path", w)

\* Mutant: the walk does not skip the probe.
ReleaseCountsProbe(p, s, w) ==
  \/ s.view[w].probe # NoFd /\ ~Locked(p, s, w)
  \/ \A f \in Fds : s.tab[f].file.wrap # w

\* synth_should_release
ShouldRelease(p, s, w) ==
  \/ s.view[w].probe # NoFd /\ ~Locked(p, s, w)
  \/ \A f \in Fds \ {s.view[w].probe} : s.tab[f].file.wrap # w

\* wslcompat_synth_post_close, and the release of the entry: tty_release
\* closes the private tty, synth_cleanup the probe.
PostClose(p, s, w) ==
  IF installer[w] # p \/ ~ShouldRelease(p, s, w) THEN s
  ELSE [tab  |-> [f \in Fds |-> IF f \in {s.view[w].real, s.view[w].probe} THEN Closed ELSE s.tab[f]],
        view |-> [s.view EXCEPT ![w] = NoView]]

\* The close and dup3 shims: fd f becomes x.
Replace(p, s, f, x) ==
  LET ws == EntryOf(s, f)
      s1 == Relocate(s, f)
      s2 == [s1 EXCEPT !.tab[f] = x] IN
  IF ws = {} THEN s2 ELSE PostClose(p, s2, CHOOSE w \in ws : TRUE)

-----------------------------------------------------------------------------
\* What the application of a process does.

exec == <<cand, saved, before, execs, slip>>

Astray(p) == {w \in Wraps : <<p, w>> \in astray}

\* The shim of a TCSETS the kernel granted: wslcompat_tty_install.  The tty
\* is duplicated; synth_open takes a number for the backing file (closed
\* again), one for the O_PATH file (moved over fd f) and one for the probe.
\* (Bound: a process astray installs no wrap of its own.)
Install(p, f, w, probed) ==
  /\ st[p] = "run"
  /\ f \in own[p] /\ tab[p][f].file = File("tty", 0)
  /\ installer[w] = "none" /\ Astray(p) = {}
  /\ LET free == Ascending(Free(Proc(p)))
         hasProbe == probed /\ Len(free) >= 4
         t1   == [tab[p] EXCEPT ![free[1]] = Entry(File("tty", 0), TRUE),
                                ![f] = Entry(File("path", w), @.cloexec)]
         knows == [real |-> free[1], live |-> TRUE,
                   probe |-> IF hasProbe THEN free[4] ELSE NoFd] IN
       /\ Len(free) >= 3
       /\ tab' = [tab EXCEPT ![p] = IF ~hasProbe THEN t1
                    ELSE [t1 EXCEPT ![free[4]] = Entry(File("probe", w), TRUE)]]
       /\ view' = [view EXCEPT ![p][w] = knows]
       /\ base' = [base EXCEPT ![p][w] = knows]
  /\ installer' = [installer EXCEPT ![w] = p]
  /\ UNCHANGED <<own, st, exec, forks, astray>>

\* close(f), of any number: the application may not know whose it is.
Close(p, f) ==
  /\ st[p] = "run" /\ tab[p][f] # Closed /\ f \in own[p] \cup Targets
  /\ Become(p, Replace(p, Proc(p), f, Closed))
  /\ own' = [own EXCEPT ![p] = @ \ {f}]
  /\ UNCHANGED <<installer, st, exec, forks, astray>>

\* dup3(f, g, cx), over any number.
Dup3(p, f, g, cx) ==
  /\ st[p] = "run" /\ f \in own[p] /\ g # f /\ g \in own[p] \cup Targets
  /\ Cardinality(own[p] \cup {g}) <= MaxOwn
  /\ Become(p, Replace(p, Proc(p), g, Entry(tab[p][f].file, cx)))
  /\ own' = [own EXCEPT ![p] = @ \cup {g}]
  /\ UNCHANGED <<installer, st, exec, forks, astray>>

\* fork: the child has a copy of the fds and of the memory, and no override.
Fork(p, q) ==
  /\ st[p] = "run" /\ st[q] = "unborn" /\ forks < MaxForks
  /\ forks' = forks + 1
  /\ tab' = [tab EXCEPT ![q] = tab[p]]
  /\ view' = [view EXCEPT ![q] = base[p]]
  /\ base' = [base EXCEPT ![q] = base[p]]
  /\ astray' = astray \cup
       {<<q, w>> : w \in {x \in Wraps : base[p][x] # view[p][x] \/ x \in Astray(p)}}
  /\ own' = [own EXCEPT ![q] = own[p]]
  /\ st' = [st EXCEPT ![q] = "run"]
  /\ UNCHANGED <<installer, exec>>

\* What is left of a process: its id may be a later process's.
Gone(p) ==
  /\ installer' = [w \in Wraps |-> IF installer[w] = p THEN "gone" ELSE installer[w]]
  /\ astray' = {x \in astray : x[1] # p}

Exit(p) ==
  /\ st[p] = "run"
  /\ tab' = [tab EXCEPT ![p] = AllClosed]
  /\ view' = [view EXCEPT ![p] = [w \in Wraps |-> NoView]]
  /\ base' = [base EXCEPT ![p] = [w \in Wraps |-> NoView]]
  /\ own' = [own EXCEPT ![p] = {}]
  /\ st' = [st EXCEPT ![p] = "unborn"]
  /\ Gone(p)
  /\ UNCHANGED <<exec, forks>>

-----------------------------------------------------------------------------
\* wslcompat_synth_preexec_save: collect, then swap one fd after the other.

\* preexec_collect_visit: every fd on a live entry's inode.
Collect(s) == {f \in Fds : EntryOf(s, f) # {}}

\* Mutant: the array is not bounded.
SaveUncapped(p) ==
  /\ st[p] = "run" /\ execs < MaxExecs
  /\ cand' = [cand EXCEPT ![p] = Ascending(Collect(Proc(p)))]
  /\ before' = [before EXCEPT ![p] = tab[p]]
  /\ execs' = execs + 1
  /\ st' = [st EXCEPT ![p] = "save"]
  /\ UNCHANGED <<tab, view, base, installer, own, saved, slip, forks, astray>>

Save(p) ==
  /\ st[p] = "run" /\ execs < MaxExecs
  /\ LET all  == Ascending(Collect(Proc(p)))
         some == SubSeq(all, 1, Min({Len(all), PreexecMax}))
         in   == {some[i] : i \in DOMAIN some} IN
       /\ cand' = [cand EXCEPT ![p] = some]
       /\ slip' = slip \cup (IF in \subseteq own[p] THEN {} ELSE {"probe"})
                        \cup (IF Collect(Proc(p)) \cap own[p] \subseteq in THEN {} ELSE {"cap"})
  /\ before' = [before EXCEPT ![p] = tab[p]]
  /\ execs' = execs + 1
  /\ st' = [st EXCEPT ![p] = "save"]
  /\ UNCHANGED <<tab, view, base, installer, own, saved, forks, astray>>

\* Mutant: the fd is not parked first.
SaveOneUnparked(p) ==
  /\ st[p] = "save" /\ cand[p] # <<>>
  /\ LET f  == Head(cand[p])
         room == {m \in Free(Proc(p)) : m >= Parking}
         n  == Min(room)
         cx == tab[p][f].cloexec
         s  == Replace(p, Proc(p), f, Entry(File("tty", 0), cx)) IN
       IF EntryOf(Proc(p), f) = {} \/ room = {}
         THEN UNCHANGED <<tab, view, base, saved>> /\ slip' = slip \cup {"room"}
         ELSE /\ slip' = slip
              /\ Become(p, [s EXCEPT !.tab[n] = Entry(tab[p][f].file, TRUE)])
              /\ saved' = [saved EXCEPT ![p] = Append(@, [user |-> f, at |-> n, cloexec |-> cx])]
  /\ cand' = [cand EXCEPT ![p] = Tail(@)]
  /\ UNCHANGED <<installer, own, st, before, execs, forks, astray>>

\* preexec_save_one: park the fd's file at n, put over the fd what is at the number
\* r of the wrap's tty.  There may be no such number, no room to park, or nothing at
\* r, or r may be the fd itself: then dup3 fails, after the shim moved r away.
SaveOne(p) ==
  /\ st[p] = "save" /\ cand[p] # <<>>
  /\ LET s    == Proc(p)
         f    == Head(cand[p])
         ws   == EntryOf(s, f)
         r    == s.view[CHOOSE w \in ws : TRUE].real
         room == {m \in Free(s) : m >= Parking}
         n    == Min(room)
         cx   == tab[p][f].cloexec
         s1   == [s EXCEPT !.tab[n] = Entry(s.tab[f].file, TRUE)]
         skip(why) == saved' = saved /\ slip' = IF f \in own[p] THEN slip \cup {why} ELSE slip IN
       CASE ws = {} ->
              UNCHANGED <<tab, view, base, saved, slip>>
         [] ws # {} /\ r = NoFd ->
              UNCHANGED <<tab, view, base>> /\ skip("lost")
         [] ws # {} /\ r # NoFd /\ room = {} ->
              UNCHANGED <<tab, view, base>> /\ skip("room")
         [] ws # {} /\ r # NoFd /\ room # {} /\ (r = f \/ s1.tab[r] = Closed) ->
              Become(p, [Relocate(s1, f) EXCEPT !.tab[n] = Closed]) /\ skip("lost")
         [] OTHER ->
              /\ Become(p, Replace(p, s1, f, Entry(s1.tab[r].file, cx)))
              /\ saved' = [saved EXCEPT ![p] = Append(@, [user |-> f, at |-> n, cloexec |-> cx])]
              /\ slip' = IF s1.tab[r].file = File("tty", 0) THEN slip ELSE slip \cup {"lost"}
  /\ cand' = [cand EXCEPT ![p] = Tail(@)]
  /\ UNCHANGED <<installer, own, st, before, execs, forks, astray>>

\* What a new image inherits, and knows: no wrap.
Inherited(p) == [f \in Fds |-> IF tab[p][f].cloexec THEN Closed ELSE tab[p][f]]
OpenIn(t)    == {f \in Fds : t[f] # Closed}

Image(p, q) ==
  /\ tab' = [tab EXCEPT ![q] = Inherited(p)]
  /\ view' = [view EXCEPT ![q] = [w \in Wraps |-> NoView]]
  /\ base' = [base EXCEPT ![q] = [w \in Wraps |-> NoView]]
  /\ own' = [own EXCEPT ![q] = OpenIn(Inherited(p))]

\* execve succeeds.
Execve(p) ==
  /\ st[p] = "save" /\ cand[p] = <<>> /\ "execve" \in Execs
  /\ Image(p, p)
  /\ saved' = [saved EXCEPT ![p] = <<>>]
  /\ st' = [st EXCEPT ![p] = "run"]
  /\ Gone(p)
  /\ before' = [before EXCEPT ![p] = AllClosed]
  /\ UNCHANGED <<cand, execs, slip, forks>>

\* execve fails.
ExecFails(p) ==
  /\ st[p] = "save" /\ cand[p] = <<>> /\ "execve" \in Execs
  /\ st' = [st EXCEPT ![p] = "restore"]
  /\ UNCHANGED <<tab, view, base, installer, own, exec, forks, astray>>

\* system, popen or posix_spawn starts a new image in a child.
Spawn(p, q) ==
  /\ st[p] = "save" /\ cand[p] = <<>> /\ "spawn" \in Execs
  /\ st[q] = "unborn"
  /\ Image(p, q)
  /\ st' = [st EXCEPT ![p] = "restore", ![q] = "run"]
  /\ UNCHANGED <<installer, exec, forks, astray>>

\* Mutant: the parked fd is not put back.
RestoreOneSkips(p) ==
  /\ st[p] = "restore" /\ saved[p] # <<>>
  /\ LET r == Head(saved[p]) IN Become(p, Replace(p, Proc(p), r.at, Closed))
  /\ saved' = [saved EXCEPT ![p] = Tail(@)]
  /\ UNCHANGED <<installer, own, st, cand, before, execs, slip, forks, astray>>

\* wslcompat_synth_preexec_restore, one turn: dup3 back, close the parked fd.
RestoreOne(p) ==
  /\ st[p] = "restore" /\ saved[p] # <<>>
  /\ LET r == Head(saved[p])
         s == Replace(p, Proc(p), r.user, Entry(tab[p][r.at].file, r.cloexec)) IN
       Become(p, Replace(p, s, r.at, Closed))
  /\ saved' = [saved EXCEPT ![p] = Tail(@)]
  /\ UNCHANGED <<installer, own, st, cand, before, execs, slip, forks, astray>>

ExecReturns(p) ==
  /\ st[p] = "restore" /\ saved[p] = <<>>
  /\ st' = [st EXCEPT ![p] = "run"]
  /\ before' = [before EXCEPT ![p] = AllClosed]
  /\ UNCHANGED <<tab, view, base, installer, own, cand, saved, execs, slip, forks, astray>>

Next ==
  \E p \in Procs :
    \/ \E f \in Fds, w \in Wraps, probed \in ProbeWorks : Install(p, f, w, probed)
    \/ \E f \in Fds : Close(p, f)
    \/ \E f, g \in Fds : \E cx \in Flags[g] : Dup3(p, f, g, cx)
    \/ \E q \in Procs : Fork(p, q)
    \/ Exit(p)
    \/ Save(p)
    \/ SaveOne(p)
    \/ Execve(p)
    \/ ExecFails(p)
    \/ \E q \in Procs : Spawn(p, q)
    \/ RestoreOne(p)
    \/ ExecReturns(p)

Spec == Init /\ [][Next]_vars

\* In every process, in the middle of an exec too, a live wrap's numbers lead
\* to its own files, and the application owns neither: relocation keeps up
\* with every close, dup2 and swap (synth.c relocate_internal, tty_relocate).
\* Only when the fd table is full does it mark a number dead.  The exception
\* are the processes astray: who is forked by a process, other than the
\* installer, that had moved a number, and their children, go by the number
\* before the move (wslcompat_view_fd_load falls back on the base value).
HoldsBacking ==
  \A p \in Procs : \A w \in Wraps \ Astray(p) : view[p][w].live =>
    LET v == view[p][w] IN
    /\ v.real # NoFd => v.real \notin own[p] /\ tab[p][v.real].file = File("tty", 0)
    /\ v.probe # NoFd => v.probe \notin own[p] /\ tab[p][v.probe].file = File("probe", w)

\* An application's fd that is a wrap has an entry in its process, so that
\* I/O on it is served: not so if a close, a swap for an exec or another
\* process released the entry too early, or a new image inherited a wrap
\* (post_close; preexec_save_one: "the entry survives the dup3 swap").  A save
\* that leaves a fd out does let a new image inherit a wrap: for its cap, for
\* want of a number to park at, or for want of the wrap's tty, which a full fd
\* table or a process astray has lost.
WrapServed ==
  slip \cap {"cap", "room", "lost"} = {} => \A p \in Procs, w \in Wraps : st[p] = "run" =>
    \A f \in own[p] : tab[p][f].file = File("path", w) => view[p][w].live

\* A failed exec, or one in a child, leaves the application the fds that it
\* had, with their files and close-on-exec flags (preexec_restore), and the
\* fds swapped for it fit their array of PREEXEC_MAX.
ExecUndone ==
  \A p \in Procs :
    /\ st[p] = "restore" /\ saved[p] = <<>> => \A f \in own[p] : tab[p][f] = before[p][f]
    /\ Len(cand[p]) + Len(saved[p]) <= PreexecMax

\* The installer keeps its hidden tty only while its application has a fd on
\* the wrap, whatever other processes hold: or else the master of a pty never
\* sees the hangup (synth_should_release).
ReleasedWithLastFd ==
  \A p \in Procs, w \in Wraps :
    st[p] = "run" /\ installer[w] = p /\ view[p][w].live =>
      \E f \in own[p] : tab[p][f].file = File("path", w)

\* Until a save has taken the probe for a fd of the application, that holds,
\* and a process that is not astray has no fds but its application's and those
\* its live wraps know: an exec attempt leaves none parked, a release leaves
\* none behind (preexec_restore, synth_cleanup).
NoStrayFd ==
  "probe" \notin slip =>
    /\ ReleasedWithLastFd
    /\ \A p \in Procs : st[p] = "run" /\ Astray(p) = {} =>
         OpenIn(tab[p]) \subseteq own[p] \cup
           UNION {{view[p][w].real, view[p][w].probe} : w \in {x \in Wraps : view[p][x].live}}
=============================================================================
