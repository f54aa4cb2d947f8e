------------------------------ MODULE ViewFd ------------------------------
(***************************************************************************)
(* Copy-on-write views of one internal fd (synth.c: probe_fd; tty.c:       *)
(* real_fd) in processes that share the address space but not the fd table *)
(* (vfork, CLONE_VM).  The installer owns the base value; every other      *)
(* process that moves its copy claims an override slot under its identity, *)
(* the pair of its pid and its start time.                                 *)
(*                                                                         *)
(* A process here is one incarnation, named by its start time, and two     *)
(* incarnations may carry the same pid one after the other.  Every process *)
(* is single-threaded, as in the close-all loops between vfork and exec    *)
(* that the code is written for.  The internal fd refers to one file,      *)
(* "wrap"; every other open fd of a process is the application's.          *)
(***************************************************************************)
EXTENDS Integers, FiniteSets, FiniteSetsExt

CONSTANTS
  Procs,          \* start times of processes that share the memory
  Installer,      \* the one that registered the entry
  PidOf,          \* the pid of each incarnation
  Capacities,     \* values of SYNTH_OVERRIDE_SLOTS to consider (4 in the code)
  Fds,            \* fd numbers, from the minimum F_DUPFD_CLOEXEC is given
  InstallerRuns,  \* does the installer close fds while children live?
  None            \* no process

ASSUME ProcsAssumption == /\ Procs \subseteq Nat /\ IsFiniteSet(Procs)
                          /\ Installer \in Procs /\ None \notin Procs
ASSUME FdsAssumption   == Fds \subseteq Nat \ {0} /\ IsFiniteSet(Fds) /\ Fds # {}
ASSUME PidsAssumption  == /\ PidOf \in [Procs -> Nat \ {0}]
                          /\ \A p \in Procs \ {Installer} : PidOf[p] # PidOf[Installer]
ASSUME BoundAssumption == Capacities \subseteq Nat /\ InstallerRuns \in BOOLEAN

NoSlot   == 0
Free     == 0      \* synth_override.pid of a free slot
Reserved == -1     \* and of one being initialised
Dead     == -1     \* an fd that could not be saved

VARIABLES
  base,     \* the installer's fd value
  slots,    \* the override slots: pid, starttime, fd
  lock,     \* synth_acquire_lock
  cache,    \* the cached identity of wslcompat_self_starttime_pid
  alive,    \* processes that share the memory
  known,    \* processes that /proc shows: those, and the ones that have left
            \* the memory by exec, or have ended and not been waited for
  born,     \* processes ever started
  most,     \* history: the most children that /proc showed at a time
  table,    \* each process's fd table: "none", "wrap" or "app"
  pc, tgt, new, st, idx, mine,  \* locals of the close in progress
  seen      \* the pid override_gc found stale, to be freed

shared == <<base, slots, lock, cache>>
procs  == <<alive, known, born, most>>
locals == <<tgt, new, st, idx, mine, seen>>
vars   == <<shared, procs, table, pc, locals>>

Slots == DOMAIN slots

Init ==
  /\ base = Min(Fds)
  /\ \E n \in Capacities :
       slots = [i \in 1..n |-> [pid |-> Free, st |-> None, fd |-> Dead]]
  /\ lock = None
  /\ cache = [pid |-> 0, st |-> None]
  /\ alive = {Installer} /\ known = {Installer} /\ born = {Installer} /\ most = 0
  /\ table = [p \in Procs |-> [f \in Fds |->
                IF p = Installer /\ f = Min(Fds) THEN "wrap" ELSE "none"]]
  /\ pc = [p \in Procs |-> "idle"]
  /\ tgt = [p \in Procs |-> Dead]
  /\ new = [p \in Procs |-> Dead]
  /\ st = [p \in Procs |-> None]
  /\ idx = [p \in Procs |-> 1]
  /\ mine = [p \in Procs |-> NoSlot]
  /\ seen = [p \in Procs |-> Free]

-----------------------------------------------------------------------------
\* Identity and lookup.

\* wslcompat_self_starttime_pid: the cached start time if the cached pid is
\* ours, else that of /proc/self/stat, which replaces the cache.
Starttime(p) == IF cache.pid = PidOf[p] THEN cache.st ELSE p
Cached(p) == cache' = [pid |-> PidOf[p], st |-> Starttime(p)]

\* pid_starttime: the start time of the process with that pid, if there is one.
\* An exec changes neither, and a process that ended keeps both until it is
\* waited for.
LiveStarttime(n) ==
  IF \E q \in known : PidOf[q] = n
    THEN CHOOSE q \in known : PidOf[q] = n
    ELSE None

IsInstaller(p, s) == PidOf[p] = PidOf[Installer] /\ s = Installer

\* wslcompat_override_get_pid
SlotsOf(p, s) == {i \in Slots : slots[i].pid = PidOf[p] /\ slots[i].st = s}

\* wslcompat_view_fd_load
ViewFd(p, s) ==
  IF IsInstaller(p, s) \/ SlotsOf(p, s) = {}
    THEN base
    ELSE slots[Min(SlotsOf(p, s))].fd

-----------------------------------------------------------------------------
\* Processes.

Children == alive \ {Installer}

\* vfork or CLONE_VM by the installer: the child has a copy of its fd table, and
\* a later start time than the children before it.
Spawn(p) ==
  /\ p \notin born /\ (\A q \in Procs \ born : p <= q)
  /\ pc[Installer] = "idle"
  /\ \A q \in known : PidOf[q] # PidOf[p]
  /\ alive' = alive \cup {p} /\ known' = known \cup {p} /\ born' = born \cup {p}
  /\ most' = Max({most, Cardinality(known' \ {Installer})})
  /\ table' = [table EXCEPT ![p] = table[Installer]]
  /\ UNCHANGED <<shared, pc, locals>>

\* exec or exit; or a signal kills the child, wherever it is in a close.  The
\* process goes on without the shared memory, or awaits its parent.
Exit(p) ==
  /\ p \in Children
  /\ alive' = alive \ {p}
  /\ table' = [table EXCEPT ![p] = [f \in Fds |-> "none"]]
  /\ pc' = [pc EXCEPT ![p] = "idle"]
  /\ tgt' = [tgt EXCEPT ![p] = Dead] /\ new' = [new EXCEPT ![p] = Dead]
  /\ st' = [st EXCEPT ![p] = None] /\ idx' = [idx EXCEPT ![p] = 1]
  /\ mine' = [mine EXCEPT ![p] = NoSlot] /\ seen' = [seen EXCEPT ![p] = Free]
  /\ UNCHANGED <<shared, known, born, most>>

\* A child that left has ended and been waited for: its pid is free again.
Reap(p) ==
  /\ p \in known \ alive
  /\ known' = known \ {p}
  /\ UNCHANGED <<shared, alive, born, most, table, pc, locals>>

FreeFds(p) == {f \in Fds : table[p][f] = "none"}

\* The application opens a file.
Open(p) ==
  /\ p \in alive /\ pc[p] = "idle" /\ FreeFds(p) # {}
  /\ table' = [table EXCEPT ![p][Min(FreeFds(p))] = "app"]
  /\ UNCHANGED <<shared, procs, pc, locals>>

-----------------------------------------------------------------------------
\* close(f) of any number: wslcompat_view_fd_relocate, then the system call.

Close(p, f) ==
  /\ p \in alive /\ pc[p] = "idle"
  /\ p = Installer => InstallerRuns \/ Children = {}
  /\ pc' = [pc EXCEPT ![p] = "load"]
  /\ tgt' = [tgt EXCEPT ![p] = f]
  /\ UNCHANGED <<shared, procs, table, new, st, idx, mine, seen>>

Load(p) ==
  /\ pc[p] = "load"
  /\ Cached(p)
  /\ pc' = [pc EXCEPT ![p] =
              IF ViewFd(p, Starttime(p)) = tgt[p] THEN "dup" ELSE "syscall"]
  /\ UNCHANGED <<base, slots, lock, procs, table, locals>>

\* F_DUPFD_CLOEXEC: the lowest free number, or failure.
DupFd(p) ==
  /\ pc[p] = "dup"
  /\ IF table[p][tgt[p]] # "none" /\ FreeFds(p) # {}
       THEN /\ new' = [new EXCEPT ![p] = Min(FreeFds(p))]
            /\ table' = [table EXCEPT ![p][Min(FreeFds(p))] = table[p][tgt[p]]]
       ELSE /\ new' = [new EXCEPT ![p] = Dead]
            /\ UNCHANGED table
  /\ pc' = [pc EXCEPT ![p] = "cas"]
  /\ UNCHANGED <<shared, procs, tgt, st, idx, mine, seen>>

\* Mutant: a relocation that was not installed is tried again.
RetryCas(p, won) == IF won THEN "syscall" ELSE "dup"

\* Where a compare-and-swap that won, or lost, leads.
AfterCas(p, won) == IF won \/ new[p] = Dead THEN "syscall" ELSE "lost"

\* Mutant: the first design, which stored the fd in place from any process.
ViewFdStoreInPlace(p) ==
  /\ pc[p] = "cas"
  /\ Cached(p)
  /\ st' = [st EXCEPT ![p] = Starttime(p)]
  /\ base' = IF base = tgt[p] THEN new[p] ELSE base
  /\ pc' = [pc EXCEPT ![p] = AfterCas(p, base = tgt[p])]
  /\ UNCHANGED <<slots, lock, procs, table, tgt, new, idx, mine, seen>>

\* wslcompat_view_fd_cas: the installer swaps the base; every other process
\* acquires a slot first.
ViewFdCas(p) ==
  /\ pc[p] = "cas"
  /\ Cached(p)
  /\ st' = [st EXCEPT ![p] = Starttime(p)]
  /\ IF IsInstaller(p, Starttime(p))
       THEN /\ base' = IF base = tgt[p] THEN new[p] ELSE base
            /\ pc' = [pc EXCEPT ![p] = AfterCas(p, base = tgt[p])]
       ELSE /\ pc' = [pc EXCEPT ![p] = "gc"]
            /\ UNCHANGED base
  /\ UNCHANGED <<slots, lock, procs, table, tgt, new, idx, mine, seen>>

-----------------------------------------------------------------------------
\* wslcompat_override_acquire_pid: a sweep of the slots, then find or claim
\* under the lock.

\* Mutant: the sweep takes every other process for dead.
StaleForeign(p, n, s) == n \notin {Free, Reserved, PidOf[p]}

\* The sweep's verdict on a slot that holds pid n and start time s.
Stale(p, n, s) ==
  /\ n \notin {Free, Reserved}
  /\ IF n = PidOf[p] THEN s # Starttime(p) ELSE s # LiveStarttime(n)

GcRead(p) ==
  /\ pc[p] = "gc" /\ idx[p] \in Slots
  /\ IF slots[idx[p]].pid = PidOf[p] THEN Cached(p) ELSE UNCHANGED cache
  /\ IF Stale(p, slots[idx[p]].pid, slots[idx[p]].st)
       THEN /\ seen' = [seen EXCEPT ![p] = slots[idx[p]].pid]
            /\ pc' = [pc EXCEPT ![p] = "gcfree"]
            /\ UNCHANGED idx
       ELSE /\ idx' = [idx EXCEPT ![p] = @ + 1]
            /\ UNCHANGED <<seen, pc>>
  /\ UNCHANGED <<base, slots, lock, procs, table, tgt, new, st, mine>>

GcFree(p) ==
  /\ pc[p] = "gcfree"
  /\ slots' = IF slots[idx[p]].pid = seen[p]
                THEN [slots EXCEPT ![idx[p]].pid = Free] ELSE slots
  /\ idx' = [idx EXCEPT ![p] = @ + 1]
  /\ seen' = [seen EXCEPT ![p] = Free]
  /\ pc' = [pc EXCEPT ![p] = "gc"]
  /\ UNCHANGED <<base, lock, cache, procs, table, tgt, new, st, mine>>

GcDone(p) ==
  /\ pc[p] = "gc" /\ idx[p] \notin Slots
  /\ idx' = [idx EXCEPT ![p] = 1]
  /\ pc' = [pc EXCEPT ![p] = "lock"]
  /\ UNCHANGED <<shared, procs, table, tgt, new, st, mine, seen>>

\* Mutant: no lock.
AcquireUnlocked(p) ==
  /\ pc[p] = "lock"
  /\ lock' = p
  /\ pc' = [pc EXCEPT ![p] = "reserve"]
  /\ UNCHANGED <<base, slots, cache, procs, table, locals>>

Acquire(p) ==
  /\ pc[p] = "lock" /\ lock = None
  /\ lock' = p
  /\ pc' = [pc EXCEPT ![p] = "reserve"]
  /\ UNCHANGED <<base, slots, cache, procs, table, locals>>

\* Pass 1: our own slot.
Find(p) ==
  /\ pc[p] = "reserve" /\ SlotsOf(p, st[p]) # {}
  /\ mine' = [mine EXCEPT ![p] = Min(SlotsOf(p, st[p]))]
  /\ pc' = [pc EXCEPT ![p] = "unlock"]
  /\ UNCHANGED <<shared, procs, table, tgt, new, st, idx, seen>>

\* Pass 2: a free one.
Reserve(p) ==
  /\ pc[p] = "reserve" /\ SlotsOf(p, st[p]) = {}
  /\ \E i \in Slots :
       /\ slots[i].pid = Free
       /\ slots' = [slots EXCEPT ![i].pid = Reserved]
       /\ mine' = [mine EXCEPT ![p] = i]
  /\ pc' = [pc EXCEPT ![p] = "publish"]
  /\ UNCHANGED <<base, lock, cache, procs, table, tgt, new, st, idx, seen>>

Exhausted(p) ==
  /\ pc[p] = "reserve" /\ SlotsOf(p, st[p]) = {}
  /\ \A i \in Slots : slots[i].pid # Free
  /\ pc' = [pc EXCEPT ![p] = "unlock"]
  /\ UNCHANGED <<shared, procs, table, locals>>

\* The payload, the expected fd, then the pid.
Publish(p) ==
  /\ pc[p] = "publish"
  /\ slots' = [slots EXCEPT ![mine[p]] =
                 [pid |-> PidOf[p], st |-> st[p], fd |-> tgt[p]]]
  /\ pc' = [pc EXCEPT ![p] = "unlock"]
  /\ UNCHANGED <<base, lock, cache, procs, table, locals>>

Unlock(p) ==
  /\ pc[p] = "unlock"
  /\ lock' = None
  /\ pc' = [pc EXCEPT ![p] = IF mine[p] = NoSlot THEN AfterCas(p, FALSE) ELSE "swap"]
  /\ UNCHANGED <<base, slots, cache, procs, table, locals>>

\* The compare-and-swap of our slot's fd.
Swap(p) ==
  /\ pc[p] = "swap"
  /\ LET won == slots[mine[p]].fd = tgt[p] IN
       /\ slots' = IF won THEN [slots EXCEPT ![mine[p]].fd = new[p]] ELSE slots
       /\ pc' = [pc EXCEPT ![p] = AfterCas(p, won)]
  /\ mine' = [mine EXCEPT ![p] = NoSlot]
  /\ UNCHANGED <<base, lock, cache, procs, table, tgt, new, st, idx, seen>>

\* Mutant: the loser keeps its duplicate.
LostLeaks(p) ==
  /\ pc[p] = "lost"
  /\ pc' = [pc EXCEPT ![p] = "syscall"]
  /\ UNCHANGED <<shared, procs, table, locals>>

\* A duplicate that was not installed is closed.
Lost(p) ==
  /\ pc[p] = "lost"
  /\ table' = [table EXCEPT ![p][new[p]] = "none"]
  /\ pc' = [pc EXCEPT ![p] = "syscall"]
  /\ UNCHANGED <<shared, procs, locals>>

Syscall(p) ==
  /\ pc[p] = "syscall"
  /\ table' = [table EXCEPT ![p][tgt[p]] = "none"]
  /\ pc' = [pc EXCEPT ![p] = "idle"]
  /\ tgt' = [tgt EXCEPT ![p] = Dead]
  /\ new' = [new EXCEPT ![p] = Dead]
  /\ st' = [st EXCEPT ![p] = None]
  /\ UNCHANGED <<shared, procs, idx, mine, seen>>

-----------------------------------------------------------------------------

Step(p) ==
  \/ Load(p) \/ DupFd(p) \/ ViewFdCas(p)
  \/ GcRead(p) \/ GcFree(p) \/ GcDone(p)
  \/ Acquire(p) \/ Find(p) \/ Reserve(p) \/ Exhausted(p) \/ Publish(p)
  \/ Unlock(p) \/ Swap(p) \/ Lost(p) \/ Syscall(p)

Next ==
  \E p \in Procs :
    \/ Step(p) \/ Spawn(p) \/ Exit(p) \/ Reap(p) \/ Open(p)
    \/ \E f \in Fds : Close(p, f)

Spec == Init /\ [][Next]_vars

\* The kernel schedules every process.
FairSpec == Spec /\ \A p \in Procs : WF_vars(Step(p))

-----------------------------------------------------------------------------
\* Properties.

\* The fd a process would load now is marked dead, or its own copy of the file.
ViewOk(p) ==
  LET f == ViewFd(p, Starttime(p)) IN f = Dead \/ table[p][f] = "wrap"

\* "Writes by the child don't touch the parent's view" (VFORK_COW.md): no
\* child, whatever it closes, changes which file the installer's fd is.  A
\* child that closes fds under the view keeps its own copy of it, however many
\* children come and go, as long as there never were more of them at a time
\* than slots: the sweep of synth.c:110 frees the slots of those that are gone,
\* and keeps those of children that still run, if only after an exec.  "A
\* losing racer closes its duplicate so the OFD isn't pinned by a leak"
\* (synth.c, wslcompat_view_fd_relocate): between calls a process has no copy
\* of the file but its view, also when the slots are exhausted.
OneCopyEach ==
  \A p \in alive : pc[p] = "idle" =>
    /\ p = Installer \/ most <= Cardinality(Slots) => ViewOk(p)
    /\ \A f \in Fds : table[p][f] = "wrap" => ViewFd(p, Starttime(p)) = f

\* Find and insert are serialised: a reserved slot belongs to the lock
\* holder, and no process ever has two slots, so load and store agree.
OneSlotEach ==
  /\ \A p \in Procs : pc[p] = "publish" => lock = p
  /\ \A i, j \in Slots :
       slots[i].pid \notin {Free, Reserved}
       /\ slots[i].pid = slots[j].pid /\ slots[i].st = slots[j].st => i = j

\* Every close of a child returns once the other processes make no more calls:
\* the lock is released on every path, and exhaustion does not spin.  (A test-and-set
\* lock promises no more: others that close for ever may starve one.)
\* Exception: a child was killed while it held the lock of synth.c:161, which
\* stays taken in the memory of the others.
CloseReturns ==
  \A p \in Procs \ {Installer} :
    <>[](\A q \in Procs \ {p} : pc[q] = "idle") =>
      (pc[p] # "idle" ~> pc[p] = "idle" \/ lock \notin alive \cup {None})

=============================================================================
