---------------------------- MODULE InternalFd ----------------------------
(***************************************************************************)
(* The library's own lazily opened fds (internal.c) and the calls that     *)
(* move them out of the application's way: debugfd of logging.c, mount_fd  *)
(* of statx.c, close, dup2/dup3 and close_range of close.c.                *)
(*                                                                         *)
(* The threads of one process share the slots and the fd table.  Every     *)
(* system call and every atomic operation on a slot is one action.  A file *)
(* is the application's ("app"), a slot's own (the name of the slot), or   *)
(* the directory a walk of /proc/self/fd reads ("dir").                    *)
(***************************************************************************)
EXTENDS Integers, Sequences, FiniteSets, FiniteSetsExt

CONSTANTS
  Threads,
  Registry,     \* the registered slots, in order
  Fds,          \* fd numbers, from 3
  Chunk,        \* directory entries one getdents64 returns
  OpenFails,    \* the slots whose open may fail
  Apps          \* applications: their threads, the size of their fd table,
                \* the calls they make ("baddup2": of a bad fd) and the numbers
                \* they close without owning them

ASSUME FdsAssumption      == Fds \subseteq Nat \ {0} /\ IsFiniteSet(Fds)
ASSUME RegistryAssumption == Registry \in Seq({"debugfd", "mount_fd"})
ASSUME ChunkAssumption    == Chunk \in Nat \ {0}
ASSUME AppsAssumption     ==
  Apps \subseteq [threads : SUBSET Threads, fds : SUBSET Fds, targets : SUBSET Fds,
                  calls : SUBSET {"use", "close", "dup2", "baddup2", "range"}]

Slots  == {Registry[i] : i \in DOMAIN Registry}
Files  == Slots \cup {"app", "dir"}
Uninit == -2     \* lazy-open will fire
Failed == -1     \* open failed
NoFd   == -3

VARIABLES
  app,       \* the application
  slot,      \* the registered fds
  lost,      \* history: an internal fd was overwritten in its slot, or the
             \* application named a number of the library's in no slot,
             \* or a failed dup2 left the original of a moved fd
  fds,       \* the fd table
  pc, op,    \* where each thread is, and the call it is in
  name,      \* the slot a use is about
  fd,        \* the fd it loaded, or duplicated
  tgt,       \* the fd a close or dup2 replaces, or the loser's own
  idx,       \* the loop index over the registry
  dir, todo, pos, range  \* the walk: its dirfd, entries read, position, range

walk   == <<dir, todo, pos, range>>
locals == <<op, name, fd, tgt, idx, walk>>
vars   == <<app, slot, lost, fds, pc, locals>>

Init ==
  /\ app \in Apps
  /\ slot = [s \in Slots |-> Uninit]
  /\ lost = FALSE
  /\ fds = [f \in Fds |-> "none"]
  /\ pc = [t \in Threads |-> "idle"]
  /\ op = [t \in Threads |-> "none"]
  /\ name = [t \in Threads |-> Registry[1]]
  /\ fd = [t \in Threads |-> NoFd]
  /\ tgt = [t \in Threads |-> NoFd]
  /\ idx = [t \in Threads |-> 1]
  /\ dir = [t \in Threads |-> NoFd]
  /\ todo = [t \in Threads |-> {}]
  /\ pos = [t \in Threads |-> 0]
  /\ range = [t \in Threads |-> {}]

FreeFds == {f \in app.fds : fds[f] = "none"}
Goto(t, p) == pc' = [pc EXCEPT ![t] = p]

\* A close-like call in progress names number f.
Named(f) == \E t \in Threads : tgt[t] = f

-----------------------------------------------------------------------------
\* wslcompat_debug_log and lookup_mnt_id: lazy open, then one system call.

Use(t, s) ==
  /\ pc[t] = "idle" /\ "use" \in app.calls
  /\ op' = [op EXCEPT ![t] = "use"]
  /\ name' = [name EXCEPT ![t] = s]
  /\ Goto(t, "load")
  /\ UNCHANGED <<app, lost, slot, fds, fd, tgt, idx, walk>>

\* A fd that was loaded: use it, unless there is none.
Loaded(t, v) ==
  /\ fd' = [fd EXCEPT ![t] = IF v < 0 THEN NoFd ELSE v]
  /\ Goto(t, IF v < 0 THEN "return" ELSE "io")

Load(t) ==
  /\ pc[t] = "load"
  /\ IF slot[name[t]] = Uninit
       THEN Goto(t, "open") /\ UNCHANGED fd
       ELSE Loaded(t, slot[name[t]])
  /\ UNCHANGED <<app, lost, slot, fds, op, name, tgt, idx, walk>>

LazyOpen(t) ==
  /\ pc[t] = "open"
  /\ \/ /\ FreeFds # {}
        /\ fd' = [fd EXCEPT ![t] = Min(FreeFds)]
        /\ fds' = [fds EXCEPT ![Min(FreeFds)] = name[t]]
     \/ /\ FreeFds = {} \/ name[t] \in OpenFails
        /\ fd' = [fd EXCEPT ![t] = Failed]
        /\ UNCHANGED fds
  /\ Goto(t, "install")
  /\ UNCHANGED <<app, lost, slot, op, name, tgt, idx, walk>>

\* mount_fd is loaded again after its compare-and-swap.
Installed(t, v) ==
  IF name[t] = "mount_fd" THEN Goto(t, "reload") /\ UNCHANGED fd ELSE Loaded(t, v)

\* mount_fd stores a failure without comparing.  Everything else is a
\* compare-and-swap; who loses it takes the fd that is there instead.
Install(t) ==
  /\ pc[t] = "install"
  /\ LET s   == name[t]
         won == slot[s] = Uninit \/ (s = "mount_fd" /\ fd[t] = Failed) IN
       /\ slot' = IF won THEN [slot EXCEPT ![s] = fd[t]] ELSE slot
       /\ lost' = (lost \/ (won /\ (slot[s] >= 0 \/ Named(fd[t]))))
       /\ IF fd[t] = Failed
            THEN Loaded(t, slot'[s]) /\ UNCHANGED tgt
          ELSE IF won
            THEN Installed(t, fd[t]) /\ UNCHANGED tgt
            ELSE /\ tgt' = [tgt EXCEPT ![t] = fd[t]]
                 /\ fd' = [fd EXCEPT ![t] = slot[s]]
                 /\ Goto(t, "lose")
  /\ UNCHANGED <<app, fds, op, name, idx, walk>>

\* Mutant: the loser closes the winner's fd.
LoseWinner(t) ==
  /\ pc[t] = "lose"
  /\ fds' = [fds EXCEPT ![fd[t]] = "none"]
  /\ tgt' = [tgt EXCEPT ![t] = NoFd]
  /\ Installed(t, fd[t])
  /\ UNCHANGED <<app, lost, slot, op, name, idx, walk>>

\* The loser closes its own.
Lose(t) ==
  /\ pc[t] = "lose"
  /\ fds' = [fds EXCEPT ![tgt[t]] = "none"]
  /\ tgt' = [tgt EXCEPT ![t] = NoFd]
  /\ Installed(t, fd[t])
  /\ UNCHANGED <<app, lost, slot, op, name, idx, walk>>

Reload(t) ==
  /\ pc[t] = "reload"
  /\ Loaded(t, slot[name[t]])
  /\ UNCHANGED <<app, lost, slot, fds, op, name, tgt, idx, walk>>

\* writev or pread64.
Io(t) ==
  /\ pc[t] = "io"
  /\ Goto(t, "return")
  /\ UNCHANGED <<app, lost, slot, fds, locals>>

Return(t) ==
  /\ pc[t] = "return"
  /\ Goto(t, "idle")
  /\ op' = [op EXCEPT ![t] = "none"]
  /\ name' = [name EXCEPT ![t] = Registry[1]]
  /\ fd' = [fd EXCEPT ![t] = NoFd]
  /\ UNCHANGED <<app, lost, slot, fds, tgt, idx, walk>>

-----------------------------------------------------------------------------
\* close, dup2 and dup3: wslcompat_relocate_internal_fd, then the system call.

Replace(t, o, f) ==
  /\ pc[t] = "idle" /\ o \in {"close", "dup2", "baddup2"}
  /\ f \in app.targets \/ (fds[f] = "app" /\ \A u \in Threads : tgt[u] # f)
  /\ op' = [op EXCEPT ![t] = o]
  /\ tgt' = [tgt EXCEPT ![t] = f]
  /\ Goto(t, "scan")
  /\ UNCHANGED <<app, lost, slot, fds, name, fd, idx, walk>>

Scan(t) ==
  /\ pc[t] = "scan" /\ idx[t] \in DOMAIN Registry
  /\ IF slot[Registry[idx[t]]] = tgt[t]
       THEN Goto(t, "dup") /\ UNCHANGED idx
       ELSE idx' = [idx EXCEPT ![t] = @ + 1] /\ UNCHANGED pc
  /\ UNCHANGED <<app, lost, slot, fds, op, name, fd, tgt, walk>>

ScanDone(t) ==
  /\ pc[t] = "scan" /\ idx[t] \notin DOMAIN Registry
  /\ idx' = [idx EXCEPT ![t] = 1]
  /\ Goto(t, "syscall")
  /\ UNCHANGED <<app, lost, slot, fds, op, name, fd, tgt, walk>>

\* Mutant: the fd is not rescued.
DupFdSkipped(t) ==
  /\ pc[t] = "dup"
  /\ Goto(t, "scan")
  /\ idx' = [idx EXCEPT ![t] = @ + 1]
  /\ UNCHANGED <<app, lost, slot, fds, op, name, fd, tgt, walk>>

\* F_DUPFD_CLOEXEC fails when the table is full, or when another thread has
\* closed the fd by now.
DupFd(t) ==
  /\ pc[t] = "dup"
  /\ IF FreeFds # {} /\ fds[tgt[t]] # "none"
       THEN /\ fd' = [fd EXCEPT ![t] = Min(FreeFds)]
            /\ fds' = [fds EXCEPT ![Min(FreeFds)] = fds[tgt[t]]]
            /\ Goto(t, "cas")
       ELSE Goto(t, "reset") /\ UNCHANGED <<fd, fds>>
  /\ UNCHANGED <<app, lost, slot, op, name, tgt, idx, walk>>

\* Mutant: a failed duplicate leaves the slot alone.
ResetSkipped(t) ==
  /\ pc[t] = "reset"
  /\ idx' = [idx EXCEPT ![t] = @ + 1]
  /\ Goto(t, "scan")
  /\ UNCHANGED <<app, lost, slot, fds, op, name, fd, tgt, walk>>

Reset(t) ==
  /\ pc[t] = "reset"
  /\ slot' = [slot EXCEPT ![Registry[idx[t]]] = Uninit]
  /\ lost' = (lost \/ slot[Registry[idx[t]]] \notin {tgt[t], Uninit, Failed})
  /\ idx' = [idx EXCEPT ![t] = @ + 1]
  /\ Goto(t, "scan")
  /\ UNCHANGED <<app, fds, op, name, fd, tgt, walk>>

Moved(t) ==
  /\ idx' = [idx EXCEPT ![t] = @ + 1]
  /\ fd' = [fd EXCEPT ![t] = NoFd]
  /\ Goto(t, "scan")

\* Mutant: a store instead of the compare-and-swap.
CasStore(t) ==
  /\ pc[t] = "cas"
  /\ slot' = [slot EXCEPT ![Registry[idx[t]]] = fd[t]]
  /\ Moved(t)
  /\ UNCHANGED <<app, lost, fds, op, name, tgt, walk>>

Cas(t) ==
  /\ pc[t] = "cas"
  /\ LET s == Registry[idx[t]] IN
       IF slot[s] = tgt[t]
         THEN /\ slot' = [slot EXCEPT ![s] = fd[t]]
              /\ lost' = (lost \/ Named(fd[t]))
              /\ Moved(t)
         ELSE Goto(t, "undo") /\ UNCHANGED <<slot, lost, idx, fd>>
  /\ UNCHANGED <<app, fds, op, name, tgt, walk>>

Undo(t) ==
  /\ pc[t] = "undo"
  /\ fds' = [fds EXCEPT ![fd[t]] = "none"]
  /\ Moved(t)
  /\ UNCHANGED <<app, lost, slot, op, name, tgt, walk>>

\* What the system call leaves at the target.
After(t) ==
  CASE op[t] = "dup2"    -> "app"
    [] op[t] = "baddup2" -> fds[tgt[t]]
    [] OTHER             -> "none"

\* The numbers of the library's fds that are in no slot: not yet, not any
\* more, or the dirfd of a walk.
InFlight ==
  {fd[u] : u \in {v \in Threads : pc[v] \in {"install", "cas", "undo"}}} \cup
  {tgt[u] : u \in {v \in Threads : pc[v] = "lose"}} \cup {dir[u] : u \in Threads}

Syscall(t) ==
  /\ pc[t] = "syscall"
  /\ fds' = [fds EXCEPT ![tgt[t]] = After(t)]
  /\ lost' = (lost \/ IF op[t] = "baddup2" THEN fds[tgt[t]] \in Slots ELSE tgt[t] \in InFlight)
  /\ tgt' = [tgt EXCEPT ![t] = NoFd]
  /\ Goto(t, IF op[t] = "range" THEN "visit" ELSE "return")
  /\ UNCHANGED <<app, slot, op, name, fd, idx, walk>>

-----------------------------------------------------------------------------
\* close_range: a walk of /proc/self/fd that closes what is in the range.

\* Without a dirfd the walk visits nothing.
CloseRange(t, lo, hi) ==
  /\ pc[t] = "idle" /\ "range" \in app.calls /\ lo <= hi
  /\ op' = [op EXCEPT ![t] = "range"]
  /\ IF FreeFds = {}
       THEN Goto(t, "return") /\ UNCHANGED <<fds, walk>>
       ELSE /\ dir' = [dir EXCEPT ![t] = Min(FreeFds)]
            /\ fds' = [fds EXCEPT ![Min(FreeFds)] = "dir"]
            /\ range' = [range EXCEPT ![t] = lo..hi]
            /\ Goto(t, "read")
            /\ UNCHANGED <<todo, pos>>
  /\ UNCHANGED <<app, lost, slot, name, fd, tgt, idx>>

\* Mutant: the position is taken to be exclusive.
EntriesBeyond(t) == {f \in Fds : f > pos[t] /\ fds[f] # "none"}

\* Entries at or beyond the position, as many as one read returns.
Entries(t) == {f \in Fds : f >= pos[t] /\ fds[f] # "none"}
Batch(t)   == {f \in Entries(t) : Cardinality({g \in Entries(t) : g < f}) < Chunk}

GetDents(t) ==
  /\ pc[t] = "read"
  /\ IF Entries(t) = {} \/ fds[dir[t]] # "dir"
       THEN /\ fds' = [fds EXCEPT ![dir[t]] = "none"]
            /\ dir' = [dir EXCEPT ![t] = NoFd]
            /\ pos' = [pos EXCEPT ![t] = 0]
            /\ range' = [range EXCEPT ![t] = {}]
            /\ Goto(t, "return")
            /\ UNCHANGED todo
       ELSE /\ todo' = [todo EXCEPT ![t] = Batch(t)]
            /\ pos' = [pos EXCEPT ![t] = Max(Batch(t)) + 1]
            /\ Goto(t, "visit")
            /\ UNCHANGED <<fds, dir, range>>
  /\ UNCHANGED <<app, lost, slot, op, name, fd, tgt, idx>>

\* close_range_visit calls the close shim; the dirfd is passed over.
Visit(t) ==
  /\ pc[t] = "visit"
  /\ IF todo[t] = {}
       THEN Goto(t, "read") /\ UNCHANGED <<todo, tgt>>
       ELSE LET f == Min(todo[t]) IN
            /\ todo' = [todo EXCEPT ![t] = @ \ {f}]
            /\ IF f \in range[t] \ {dir[t]}
                 THEN tgt' = [tgt EXCEPT ![t] = f] /\ Goto(t, "scan")
                 ELSE UNCHANGED <<tgt, pc>>
  /\ UNCHANGED <<app, lost, slot, fds, op, name, fd, idx, dir, pos, range>>

-----------------------------------------------------------------------------

\* The application opens a file.
Open(t) ==
  /\ pc[t] = "idle" /\ FreeFds # {}
  /\ fds' = [fds EXCEPT ![Min(FreeFds)] = "app"]
  /\ UNCHANGED <<app, lost, slot, pc, locals>>

Step(t) ==
  \/ Load(t) \/ LazyOpen(t) \/ Install(t) \/ Lose(t) \/ Reload(t) \/ Io(t)
  \/ Scan(t) \/ ScanDone(t) \/ DupFd(t) \/ Reset(t) \/ Cas(t) \/ Undo(t)
  \/ Syscall(t) \/ GetDents(t) \/ Visit(t) \/ Return(t)

Next ==
  \E t \in app.threads :
    \/ Step(t) \/ Open(t)
    \/ \E s \in Slots : Use(t, s)
    \/ \E o \in app.calls, f \in Fds : Replace(t, o, f)
    \/ \E lo, hi \in Fds : CloseRange(t, lo, hi)

Spec == Init /\ [][Next]_vars

-----------------------------------------------------------------------------
\* Properties.

Quiet == \A t \in Threads : pc[t] = "idle"

\* "Uses compare_exchange to avoid leaking an fd" (logging.c), "Atomic so two
\* closers dont both succeed and leak a dup" (internal.c): between calls the
\* slots and the fd table agree.  The only fd on an internal file is the one
\* its slot names, and a slot never names a number it has lost, whatever
\* numbers the application closed or took over.  This holds as long as no live
\* fd has been overwritten in its slot by an unconditional store, taken by
\* number on its way there, or moved for a dup2 that then failed.
SlotsKeepTheirFds ==
  Quiet /\ ~lost =>
    /\ \A f \in Fds : fds[f] \in Slots => slot[fds[f]] = f
    /\ \A s \in Slots : slot[s] >= 0 => fds[slot[s]] = s

\* "We simply move our internal fd out of the way so the application can use
\* the fd number however it wants" (internal.c): as long as the slot still
\* names the number that was loaded, what the library writes to, or reads
\* from, is its own file and never one of the application's.
UsesOwnFile ==
  \A t \in Threads :
    pc[t] = "io" /\ slot[name[t]] = fd[t] /\ ~lost => fds[fd[t]] = name[t]

\* The library closes only what it opened: an application file goes away
\* only by the system call of a close or dup2 that named its number (or it
\* was the library's own duplicate).
AppFileKept ==
  [][~lost => \A f \in Fds :
       fds[f] = "app" /\ fds'[f] # "app" =>
         \E t \in Threads : \/ pc[t] = "syscall" /\ tgt[t] = f
                            \/ pc[t] = "undo" /\ fd[t] = f]_vars

\* close_range misses nothing: when its walk ends no application fd is left
\* in the range, although relocations move fds under the walk.
RangeClosed ==
  \A t \in Threads :
    pc[t] = "read" /\ Entries(t) = {} => \A f \in range[t] \cap Fds : fds[f] # "app"

=============================================================================
