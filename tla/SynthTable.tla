---------------------------- MODULE SynthTable ----------------------------
(***************************************************************************)
(* The lock-free table of synthetic fds (synth.c: synth_table), as used by *)
(* the threads of the process that installed the entries.                  *)
(*                                                                         *)
(* A synthetic fd is an O_PATH fd on an unlinked tmpfile; the table maps   *)
(* the inode of that file to the handler.  A slot's life is encoded in its *)
(* refcount: 0 free, -1 owned by the one thread that registers or cleans   *)
(* it, n >= 1 live with n references: the producer's, taken at             *)
(* registration, and one per pin.  Every atomic operation of the C code on *)
(* the shared state is one action here; the increment-if-positive and      *)
(* decrement loops around a compare-and-swap are one action each, because  *)
(* a failed compare-and-swap reloads and retries.                          *)
(*                                                                         *)
(* Abstractions.  Inode numbers stand for the tmpfiles; a number is free   *)
(* for the next synth_open once neither an fd nor a probe fd refers to it. *)
(* Fds are the numbers the application holds; probe fds are represented by *)
(* the inode they keep alive.  The numbers of the probe fds, and processes *)
(* other than the installer, are not part of this module.                  *)
(***************************************************************************)
EXTENDS Integers, FiniteSets

CONSTANTS
  Threads,    \* threads of the installer process
  NumSlots,   \* capacity of synth_table (64 in the code)
  Inos,       \* inode numbers of the tmpfiles
  Fds,        \* application fd numbers
  NoIno,      \* fd is closed, or refers to a file that is not ours
  NoFd,       \* no fd argument
  Calls,         \* the calls each thread makes
  Discipline,    \* "none" or "fds": what the application avoids
  RawClose       \* may the last fd of a wrap be closed behind the shims' back?

ASSUME SlotsAssumption   == NumSlots \in Nat \ {0}
ASSUME ThreadsAssumption == IsFiniteSet(Threads)
ASSUME NoInoAssumption   == NoIno \notin Inos
ASSUME NoFdAssumption    == NoFd \notin Fds
ASSUME CallsAssumption   ==
  Calls \in [Threads -> SUBSET {"dispatch", "close", "dup2", "open"}]
ASSUME FlagsAssumption   == /\ Discipline \in {"none", "fds"}
                            /\ RawClose \in BOOLEAN

Slots  == 1..NumSlots
NoSlot == 0

VARIABLES
  refcount,   \* synth_entry.refcount of each slot
  ino,        \* synth_entry.stat of each slot
  live,       \* synth_live_entries
  probed,     \* the inodes a probe fd keeps alive
  fds,        \* what each application fd refers to
  pc,         \* where each thread is
  cur,        \* its loop index over the table
  key,        \* the inode it looks up, closes or registers
  op,         \* the call it is in
  fd,         \* the fd it closes, or opens
  src,        \* the fd dup2 copies over fd
  held,       \* the entry it returned from pin_fd, or gc pinned
  tmp,        \* the entry a table scan pinned for a moment
  mine,       \* the slot it has moved to -1
  ref,        \* the reference its unpin call drops
  then,       \* where it continues after that call
  prod,       \* history: the producer's reference is outstanding
  doubled,    \* history: some producer's reference was dropped twice
  released    \* history: how often ops->release ran since registration

table   == <<refcount, ino, live, probed>>
locals  == <<pc, op, cur, key, fd, src, held, tmp, mine, ref, then>>
history == <<prod, doubled, released>>
vars    == <<table, fds, locals, history>>

Pcs  == {"idle", "fstat", "lookup", "compare", "use", "reloc", "moved",
         "syscall", "post", "droppin", "register", "fill", "publish", "gc",
         "gccheck", "unpin", "cleanup", "free", "declive", "return"}
Ops  == {"none", "dispatch", "close", "dup2", "open"}
Refs == {"held", "tmp", "producer"}

-----------------------------------------------------------------------------

Init ==
  /\ refcount = [s \in Slots |-> 0]
  /\ ino = [s \in Slots |-> NoIno]
  /\ live = 0
  /\ probed = {}
  /\ fds = [f \in Fds |-> NoIno]
  /\ pc = [t \in Threads |-> "idle"]
  /\ op = [t \in Threads |-> "none"]
  /\ cur = [t \in Threads |-> 1]
  /\ key = [t \in Threads |-> NoIno]
  /\ fd = [t \in Threads |-> NoFd]
  /\ src = [t \in Threads |-> NoFd]
  /\ held = [t \in Threads |-> NoSlot]
  /\ tmp = [t \in Threads |-> NoSlot]
  /\ mine = [t \in Threads |-> NoSlot]
  /\ ref = [t \in Threads |-> "held"]
  /\ then = [t \in Threads |-> "idle"]
  /\ prod = [s \in Slots |-> FALSE]
  /\ doubled = FALSE
  /\ released = [s \in Slots |-> 0]

-----------------------------------------------------------------------------
\* synth_pin and wslcompat_synth_unpin.

\* synth_pin: increment iff positive.
Pinnable(s) == refcount[s] > 0
\* Mutant: a pin that forgets to count.
PinUncounted(s) == UNCHANGED refcount

Pin(s) == refcount' = [refcount EXCEPT ![s] = @ + 1]

\* Call wslcompat_synth_unpin for reference r and continue at k.
CallUnpin(t, r, k) ==
  /\ pc' = [pc EXCEPT ![t] = "unpin"]
  /\ ref' = [ref EXCEPT ![t] = r]
  /\ then' = [then EXCEPT ![t] = k]

UnpinTarget(t) == IF ref[t] = "tmp" THEN tmp[t] ELSE held[t]

\* Which reference the decrement gives up.
Forget(t, s) ==
  /\ held' = IF ref[t] = "held" THEN [held EXCEPT ![t] = NoSlot] ELSE held
  /\ tmp' = IF ref[t] = "tmp" THEN [tmp EXCEPT ![t] = NoSlot] ELSE tmp
  /\ prod' = IF ref[t] = "producer" THEN [prod EXCEPT ![s] = FALSE] ELSE prod
  /\ doubled' = (doubled \/ (ref[t] = "producer" /\ ~prod[s]))

\* Mutant: the last reference leaves 0, so that the slot can be claimed
\* before it is cleaned.
DroppedToZero(n) == IF n > 0 THEN n - 1 ELSE n

\* The refcount an unpin leaves: 1 goes to -1, which makes the caller the
\* unique cleaner; a count that is not positive is left alone.
Dropped(n) == IF n = 1 THEN -1 ELSE IF n > 0 THEN n - 1 ELSE n

Unpin(t) ==
  /\ pc[t] = "unpin"
  /\ LET s == UnpinTarget(t) IN
       /\ Forget(t, s)
       /\ refcount' = [refcount EXCEPT ![s] = Dropped(@)]
       /\ mine' = [mine EXCEPT ![t] = IF refcount[s] = 1 THEN s ELSE @]
       /\ pc' = [pc EXCEPT ![t] = IF refcount[s] = 1 THEN "cleanup" ELSE then[t]]
  /\ UNCHANGED <<ino, live, probed, fds, op, cur, key, fd, src, ref, then,
                 released>>

\* Mutant: the cleaner forgets ops->release.
CleanupNoRelease(t) ==
  /\ pc[t] = "cleanup"
  /\ probed' = probed \ {ino[mine[t]]}
  /\ pc' = [pc EXCEPT ![t] = "free"]
  /\ UNCHANGED <<refcount, ino, live, fds, op, cur, key, fd, src, held, tmp,
                 mine, ref, then, history>>

\* The cleaner runs ops->release, then closes the probe fd.
Cleanup(t) ==
  /\ pc[t] = "cleanup"
  /\ released' = [released EXCEPT ![mine[t]] = @ + 1]
  /\ probed' = probed \ {ino[mine[t]]}
  /\ pc' = [pc EXCEPT ![t] = "free"]
  /\ UNCHANGED <<refcount, ino, live, fds, op, cur, key, fd, src, held, tmp,
                 mine, ref, then, prod, doubled>>

Free(t) ==
  /\ pc[t] = "free"
  /\ refcount' = [refcount EXCEPT ![mine[t]] = 0]
  /\ mine' = [mine EXCEPT ![t] = NoSlot]
  /\ pc' = [pc EXCEPT ![t] = "declive"]
  /\ UNCHANGED <<ino, live, probed, fds, op, cur, key, fd, src, held, tmp, ref,
                 then, history>>

DecLive(t) ==
  /\ pc[t] = "declive"
  /\ live' = live - 1
  /\ pc' = [pc EXCEPT ![t] = then[t]]
  /\ UNCHANGED <<refcount, ino, probed, fds, op, cur, key, fd, src, held, tmp,
                 mine, ref, then, history>>

-----------------------------------------------------------------------------
\* Discipline "fds": a close-like call names open fds, and no other call
\* closes or hands out those numbers until its system call is done.

Named(f) == \E t \in Threads : f \in {fd[t], src[t]}

MayClose(f) == Discipline # "none" => ~Named(f)

\* Fds of an open that has not returned are unknown to the application.
Known(f) == \A t \in Threads : op[t] = "open" => fd[t] # f

\* A number the kernel may hand out.
Vacant(f) == fds[f] = NoIno /\ Known(f) /\ (Discipline # "none" => ~Named(f))

Call(t, o, k, f, g, p) ==
  /\ pc[t] = "idle" /\ o \in Calls[t]
  /\ op' = [op EXCEPT ![t] = o]
  /\ key' = [key EXCEPT ![t] = k]
  /\ fd' = [fd EXCEPT ![t] = f]
  /\ src' = [src EXCEPT ![t] = g]
  /\ pc' = [pc EXCEPT ![t] = p]

Return(t) ==
  /\ pc[t] = "return"
  /\ pc' = [pc EXCEPT ![t] = "idle"]
  /\ op' = [op EXCEPT ![t] = "none"]
  /\ cur' = [cur EXCEPT ![t] = 1]
  /\ key' = [key EXCEPT ![t] = NoIno]
  /\ fd' = [fd EXCEPT ![t] = NoFd]
  /\ src' = [src EXCEPT ![t] = NoFd]
  /\ ref' = [ref EXCEPT ![t] = "held"]
  /\ then' = [then EXCEPT ![t] = "idle"]
  /\ UNCHANGED <<table, fds, held, tmp, mine, history>>

-----------------------------------------------------------------------------
\* wslcompat_synth_pin_fd: fstat, then synth_pin_lookup over the table.

\* SYNTH_DISPATCH on a wrapped fd; the failed canary call is not modelled.
Dispatch(t, f) ==
  /\ fds[f] # NoIno /\ Known(f)
  /\ Call(t, "dispatch", fds[f], NoFd, NoFd, "lookup")
  /\ UNCHANGED <<table, fds, cur, held, tmp, mine, ref, then, history>>

\* Where pin_fd returns to, h being the entry it pinned or NULL.
AfterLookup(t, h) ==
  CASE op[t] = "dispatch" -> IF h = NoSlot THEN "return" ELSE "use"
    [] op[t] = "close"    -> "reloc"
    [] OTHER              -> "syscall"

\* The fstat of pre_close.  An fd that is not ours is scanned for in vain,
\* one that is closed is not scanned for.
PreClose(t) ==
  /\ pc[t] = "fstat"
  /\ key' = [key EXCEPT ![t] = fds[fd[t]]]
  /\ cur' = [cur EXCEPT ![t] = 1]
  /\ \/ pc' = [pc EXCEPT ![t] = "lookup"]
     \/ fds[fd[t]] = NoIno /\ pc' = [pc EXCEPT ![t] = AfterLookup(t, NoSlot)]
  /\ UNCHANGED <<table, fds, op, fd, src, held, tmp, mine, ref, then, history>>

LookupPin(t) ==
  /\ pc[t] = "lookup" /\ cur[t] \in Slots /\ Pinnable(cur[t])
  /\ Pin(cur[t])
  /\ tmp' = [tmp EXCEPT ![t] = cur[t]]
  /\ pc' = [pc EXCEPT ![t] = "compare"]
  /\ UNCHANGED <<ino, live, probed, fds, op, cur, key, fd, src, held, mine,
                 ref, then, history>>

LookupSkip(t) ==
  /\ pc[t] = "lookup" /\ cur[t] \in Slots /\ ~Pinnable(cur[t])
  /\ cur' = [cur EXCEPT ![t] = @ + 1]
  /\ UNCHANGED <<table, fds, pc, op, key, fd, src, held, tmp, mine, ref, then,
                 history>>

LookupFail(t) ==
  /\ pc[t] = "lookup" /\ cur[t] \notin Slots
  /\ cur' = [cur EXCEPT ![t] = 1]
  /\ pc' = [pc EXCEPT ![t] = AfterLookup(t, NoSlot)]
  /\ UNCHANGED <<table, fds, op, key, fd, src, held, tmp, mine, ref, then,
                 history>>

LookupHit(t) ==
  /\ pc[t] = "compare" /\ ino[tmp[t]] = key[t]
  /\ held' = [held EXCEPT ![t] = tmp[t]]
  /\ tmp' = [tmp EXCEPT ![t] = NoSlot]
  /\ cur' = [cur EXCEPT ![t] = 1]
  /\ pc' = [pc EXCEPT ![t] = AfterLookup(t, tmp[t])]
  /\ UNCHANGED <<table, fds, op, key, fd, src, mine, ref, then, history>>

LookupMiss(t) ==
  /\ pc[t] = "compare" /\ ino[tmp[t]] # key[t]
  /\ CallUnpin(t, "tmp", "lookup")
  /\ cur' = [cur EXCEPT ![t] = @ + 1]
  /\ UNCHANGED <<table, fds, op, key, fd, src, held, tmp, mine, history>>

\* The handler returns and the cleanup attribute unpins.
UseDone(t) ==
  /\ pc[t] = "use"
  /\ CallUnpin(t, "held", "return")
  /\ UNCHANGED <<table, fds, op, cur, key, fd, src, held, tmp, mine, history>>

-----------------------------------------------------------------------------
\* close and dup2/dup3: wslcompat_synth_relocate_internal pins every live
\* entry in turn; close looks the fd up before that walk, dup2 after it.

Close(t, f) ==
  /\ Known(f) /\ MayClose(f)
  /\ Call(t, "close", fds[f], f, NoFd, "fstat")
  /\ UNCHANGED <<table, fds, cur, held, tmp, mine, ref, then, history>>

Dup2(t, g, f) ==
  /\ Known(f) /\ Known(g) /\ f # g /\ MayClose(f)
  /\ Call(t, "dup2", fds[f], f, g, "reloc")
  /\ UNCHANGED <<table, fds, cur, held, tmp, mine, ref, then, history>>

RelocPin(t) ==
  /\ pc[t] = "reloc" /\ cur[t] \in Slots /\ Pinnable(cur[t])
  /\ Pin(cur[t])
  /\ tmp' = [tmp EXCEPT ![t] = cur[t]]
  /\ pc' = [pc EXCEPT ![t] = "moved"]
  /\ UNCHANGED <<ino, live, probed, fds, op, cur, key, fd, src, held, mine,
                 ref, then, history>>

RelocUnpin(t) ==
  /\ pc[t] = "moved"
  /\ CallUnpin(t, "tmp", "reloc")
  /\ cur' = [cur EXCEPT ![t] = @ + 1]
  /\ UNCHANGED <<table, fds, op, key, fd, src, held, tmp, mine, history>>

RelocSkip(t) ==
  /\ pc[t] = "reloc" /\ cur[t] \in Slots /\ ~Pinnable(cur[t])
  /\ cur' = [cur EXCEPT ![t] = @ + 1]
  /\ UNCHANGED <<table, fds, pc, op, key, fd, src, held, tmp, mine, ref, then,
                 history>>

RelocDone(t) ==
  /\ pc[t] = "reloc" /\ cur[t] \notin Slots
  /\ cur' = [cur EXCEPT ![t] = 1]
  /\ pc' = [pc EXCEPT ![t] = IF op[t] = "close" THEN "syscall" ELSE "fstat"]
  /\ UNCHANGED <<table, fds, op, key, fd, src, held, tmp, mine, ref, then,
                 history>>

\* What fd refers to after the system call.  A dup2 whose source is not ours
\* either replaces fd by another file or fails and leaves it.
AfterSyscall(t) ==
  IF op[t] = "close" THEN {NoIno}
  ELSE IF fds[src[t]] \in Inos THEN {fds[src[t]]}
  ELSE {NoIno, fds[fd[t]]}

Syscall(t) ==
  /\ pc[t] = "syscall"
  /\ \E k \in AfterSyscall(t) : fds' = [fds EXCEPT ![fd[t]] = k]
  /\ pc' = [pc EXCEPT ![t] = IF held[t] = NoSlot THEN "return" ELSE "post"]
  /\ fd' = [fd EXCEPT ![t] = NoFd]
  /\ src' = [src EXCEPT ![t] = NoFd]
  /\ UNCHANGED <<table, op, cur, key, held, tmp, mine, ref, then, history>>

\* Mutants: the test for other fds is forgotten, or never lets go.
ReleaseAlways(s) == TRUE
ReleaseNever(s)  == FALSE

\* synth_should_release: neither the flock probe nor the walk of
\* /proc/self/fd finds an fd on the entry's inode.
ShouldRelease(s) == \A f \in Fds : fds[f] # ino[s]

\* wslcompat_synth_post_close by the installer.
AfterPost(t) == IF op[t] = "open" THEN "gccheck" ELSE "return"

PostClose(t) ==
  /\ pc[t] = "post"
  /\ IF ShouldRelease(held[t])
       THEN CallUnpin(t, "producer", "droppin")
       ELSE CallUnpin(t, "held", AfterPost(t))
  /\ UNCHANGED <<table, fds, op, cur, key, fd, src, held, tmp, mine, history>>

DropPin(t) ==
  /\ pc[t] = "droppin"
  /\ CallUnpin(t, "held", AfterPost(t))
  /\ UNCHANGED <<table, fds, op, cur, key, fd, src, held, tmp, mine, history>>

-----------------------------------------------------------------------------
\* wslcompat_synth_open: the tmpfile, the O_PATH fd and the probe fd are the
\* thread's own until synth_register publishes the entry.

FreshIno(k) == k \notin probed /\ \A f \in Fds : fds[f] # k

Open(t, f, k) ==
  /\ FreshIno(k) /\ Vacant(f)
  /\ Call(t, "open", k, f, NoFd, "register")
  /\ fds' = [fds EXCEPT ![f] = k]
  /\ probed' = probed \cup {k}
  /\ UNCHANGED <<refcount, ino, live, cur, held, tmp, mine, ref, then, history>>

\* Mutant: the claim is a plain store after a test for "not live".
ClaimNoCas(t) ==
  /\ pc[t] = "register" /\ cur[t] \in Slots /\ refcount[cur[t]] <= 0
  /\ refcount' = [refcount EXCEPT ![cur[t]] = -1]
  /\ mine' = [mine EXCEPT ![t] = cur[t]]
  /\ pc' = [pc EXCEPT ![t] = "fill"]
  /\ UNCHANGED <<ino, live, probed, fds, op, cur, key, fd, src, held, tmp, ref,
                 then, history>>

RegisterClaim(t) ==
  /\ pc[t] = "register" /\ cur[t] \in Slots /\ refcount[cur[t]] = 0
  /\ refcount' = [refcount EXCEPT ![cur[t]] = -1]
  /\ mine' = [mine EXCEPT ![t] = cur[t]]
  /\ pc' = [pc EXCEPT ![t] = "fill"]
  /\ UNCHANGED <<ino, live, probed, fds, op, cur, key, fd, src, held, tmp, ref,
                 then, history>>

RegisterSkip(t) ==
  /\ pc[t] = "register" /\ cur[t] \in Slots /\ refcount[cur[t]] # 0
  /\ cur' = [cur EXCEPT ![t] = @ + 1]
  /\ UNCHANGED <<table, fds, pc, op, key, fd, src, held, tmp, mine, ref, then,
                 history>>

RegisterFull(t) ==
  /\ pc[t] = "register" /\ cur[t] \notin Slots
  /\ cur' = [cur EXCEPT ![t] = 1]
  /\ pc' = [pc EXCEPT ![t] = "gc"]
  /\ UNCHANGED <<table, fds, op, key, fd, src, held, tmp, mine, ref, then,
                 history>>

\* Mutant: the entry is not counted in synth_live_entries.
FillUncounted(t) ==
  /\ pc[t] = "fill"
  /\ ino' = [ino EXCEPT ![mine[t]] = key[t]]
  /\ released' = [released EXCEPT ![mine[t]] = 0]
  /\ pc' = [pc EXCEPT ![t] = "publish"]
  /\ UNCHANGED <<refcount, live, probed, fds, op, cur, key, fd, src, held, tmp,
                 mine, ref, then, prod, doubled>>

RegisterFill(t) ==
  /\ pc[t] = "fill"
  /\ live' = live + 1
  /\ ino' = [ino EXCEPT ![mine[t]] = key[t]]
  /\ released' = [released EXCEPT ![mine[t]] = 0]
  /\ pc' = [pc EXCEPT ![t] = "publish"]
  /\ UNCHANGED <<refcount, probed, fds, op, cur, key, fd, src, held, tmp, mine,
                 ref, then, prod, doubled>>

RegisterPublish(t) ==
  /\ pc[t] = "publish"
  /\ refcount' = [refcount EXCEPT ![mine[t]] = 1]
  /\ prod' = [prod EXCEPT ![mine[t]] = TRUE]
  /\ mine' = [mine EXCEPT ![t] = NoSlot]
  /\ pc' = [pc EXCEPT ![t] = "return"]
  /\ UNCHANGED <<ino, live, probed, fds, op, cur, key, fd, src, held, tmp, ref,
                 then, doubled, released>>

\* synth_table_gc, under table-full pressure: post_close over every entry
\* until a slot comes free.

GcPin(t) ==
  /\ pc[t] = "gc" /\ cur[t] \in Slots /\ Pinnable(cur[t])
  /\ Pin(cur[t])
  /\ held' = [held EXCEPT ![t] = cur[t]]
  /\ pc' = [pc EXCEPT ![t] = "post"]
  /\ UNCHANGED <<ino, live, probed, fds, op, cur, key, fd, src, tmp, mine, ref,
                 then, history>>

GcSkip(t) ==
  /\ pc[t] = "gc" /\ cur[t] \in Slots /\ ~Pinnable(cur[t])
  /\ cur' = [cur EXCEPT ![t] = @ + 1]
  /\ UNCHANGED <<table, fds, pc, op, key, fd, src, held, tmp, mine, ref, then,
                 history>>

\* Mutant: the loop does not advance past an entry it cannot free.
GcCheckStuck(t) ==
  /\ pc[t] = "gccheck"
  /\ pc' = [pc EXCEPT ![t] = IF refcount[cur[t]] = 0 THEN "register" ELSE "gc"]
  /\ cur' = [cur EXCEPT ![t] = IF refcount[cur[t]] = 0 THEN 1 ELSE @]
  /\ UNCHANGED <<table, fds, op, key, fd, src, held, tmp, mine, ref, then,
                 history>>

GcCheck(t) ==
  /\ pc[t] = "gccheck"
  /\ IF refcount[cur[t]] = 0
       THEN /\ pc' = [pc EXCEPT ![t] = "register"]
            /\ cur' = [cur EXCEPT ![t] = 1]
       ELSE /\ pc' = [pc EXCEPT ![t] = "gc"]
            /\ cur' = [cur EXCEPT ![t] = @ + 1]
  /\ UNCHANGED <<table, fds, op, key, fd, src, held, tmp, mine, ref, then,
                 history>>

\* Nothing came free: ENFILE, and synth_open closes what it opened.
OpenFail(t) ==
  /\ pc[t] = "gc" /\ cur[t] \notin Slots
  /\ fds' = [fds EXCEPT ![fd[t]] = NoIno]
  /\ probed' = probed \ {key[t]}
  /\ pc' = [pc EXCEPT ![t] = "return"]
  /\ UNCHANGED <<refcount, ino, live, op, cur, key, fd, src, held, tmp, mine,
                 ref, then, history>>

-----------------------------------------------------------------------------
\* Kernel operations on wrapped fds that no shim sees: dup and F_DUPFD, and
\* close by a raw system call.

Dup(f, g) ==
  /\ fds[f] # NoIno /\ Known(f) /\ Vacant(g)
  /\ fds' = [fds EXCEPT ![g] = fds[f]]
  /\ UNCHANGED <<table, locals, history>>

SyscallClose(f) ==
  /\ fds[f] # NoIno /\ Known(f)
  /\ RawClose \/ \E g \in Fds \ {f} : fds[g] = fds[f]
  /\ fds' = [fds EXCEPT ![f] = NoIno]
  /\ UNCHANGED <<table, locals, history>>

-----------------------------------------------------------------------------

\* A step of a call in progress.
Step(t) ==
  \/ Return(t)
  \/ PreClose(t) \/ LookupPin(t) \/ LookupSkip(t) \/ LookupFail(t)
  \/ LookupHit(t) \/ LookupMiss(t) \/ UseDone(t)
  \/ RelocPin(t) \/ RelocUnpin(t) \/ RelocSkip(t) \/ RelocDone(t)
  \/ Syscall(t) \/ PostClose(t) \/ DropPin(t)
  \/ Unpin(t) \/ Cleanup(t) \/ Free(t) \/ DecLive(t)
  \/ RegisterClaim(t) \/ RegisterSkip(t) \/ RegisterFull(t)
  \/ RegisterFill(t) \/ RegisterPublish(t)
  \/ GcPin(t) \/ GcSkip(t) \/ GcCheck(t) \/ OpenFail(t)

\* The application starts a call.
Begin(t) ==
  \/ \E f \in Fds : Dispatch(t, f) \/ Close(t, f)
  \/ \E f, g \in Fds : Dup2(t, g, f)
  \/ \E f \in Fds, k \in Inos : Open(t, f, k)

Kernel ==
  \/ \E f, g \in Fds : Dup(f, g)
  \/ \E f \in Fds : SyscallClose(f)

Next == Kernel \/ \E t \in Threads : Step(t) \/ Begin(t)

Spec == Init /\ [][Next]_vars

\* Every call in progress is eventually scheduled; handlers return.
FairSpec == Spec /\ \A t \in Threads : WF_vars(Step(t))

-----------------------------------------------------------------------------
\* Properties.

\* Type invariant of the table, of the fds and of every thread's locals.
TypeOK ==
  /\ refcount \in [Slots -> Int]
  /\ \A s \in Slots : refcount[s] >= -1
  /\ ino \in [Slots -> Inos \cup {NoIno}]
  /\ live \in Int
  /\ probed \subseteq Inos
  /\ fds \in [Fds -> Inos \cup {NoIno}]
  /\ pc \in [Threads -> Pcs]
  /\ op \in [Threads -> Ops]
  /\ cur \in [Threads -> Nat \ {0}]
  /\ key \in [Threads -> Inos \cup {NoIno}]
  /\ fd \in [Threads -> Fds \cup {NoFd}]
  /\ src \in [Threads -> Fds \cup {NoFd}]
  /\ held \in [Threads -> Slots \cup {NoSlot}]
  /\ tmp \in [Threads -> Slots \cup {NoSlot}]
  /\ mine \in [Threads -> Slots \cup {NoSlot}]
  /\ ref \in [Threads -> Refs]
  /\ then \in [Threads -> Pcs]
  /\ prod \in [Slots -> BOOLEAN]
  /\ doubled \in BOOLEAN
  /\ released \in [Slots -> Nat]

\* The transient state -1 is a lock: the slot has exactly one owner, so no
\* two threads ever fill or clean the same slot, however calls interleave.
OneOwner ==
  /\ \A t \in Threads : mine[t] # NoSlot => refcount[mine[t]] = -1
  /\ \A s \in Slots : refcount[s] = -1 => \E t \in Threads : mine[t] = s
  /\ \A t, u \in Threads : mine[t] = mine[u] /\ mine[t] # NoSlot => t = u

\* "Fired exactly once ... when the entry is actually being torn down"
\* (synth.h, release): a published entry has not been released, and a slot
\* is free again only after exactly one release.
ReleaseOnce ==
  \A s \in Slots :
    /\ refcount[s] > 0 => released[s] = 0
    /\ refcount[s] = 0 /\ ino[s] # NoIno => released[s] = 1

\* synth_active never hides an entry: while one is published the counter
\* of live entries is positive.
ActiveCoversPublished ==
  (\E s \in Slots : refcount[s] > 0) => live > 0

\* "Pinning holds the entry alive while the caller works with it" (synth.h):
\* a pinned entry is not freed, cleaned or re-registered under the pin, and
\* a dispatch works on the entry of the inode it looked up.
PinHoldsEntry ==
  \A t \in Threads :
    /\ held[t] # NoSlot => refcount[held[t]] > 0
    /\ tmp[t] # NoSlot => refcount[tmp[t]] > 0
    /\ pc[t] = "use" => ino[held[t]] = key[t]

\* The part of that promise a handler depends on: release never tears its
\* state down while a dispatch runs in it.
NoReleaseInUse ==
  \A t \in Threads : pc[t] = "use" => refcount[held[t]] > 0

\* The whole promise as long as post_close has dropped no producer's
\* reference twice.
PinHoldsUnlessDoubled == ~doubled => PinHoldsEntry

\* An entry lives exactly as long as the fds on it (the last one closed
\* through a shim).  An fd the application holds finds its entry published,
\* with the same exception: close and GC release an entry only when its last
\* fd is gone.  And nothing leaks: when all calls have returned, a probe fd is
\* open only on the inode of a wrap the application still holds.
EntryOutlivesItsFds ==
  /\ ~doubled =>
       \A f \in Fds :
         fds[f] \in Inos /\ Known(f) =>
           \E s \in Slots : refcount[s] > 0 /\ prod[s] /\ ino[s] = fds[f]
  /\ (\A t \in Threads : op[t] = "none") =>
       \A k \in probed : \E f \in Fds : fds[f] = k

\* "Retry only if that freed something (so we can't spin)" (synth.c,
\* synth_register): every call returns, unless other threads keep opening
\* wraps and take every slot it frees.
CallsReturn ==
  \A t \in Threads :
    \/ []<>(\E u \in Threads \ {t} : op[u] = "open")
    \/ op[t] # "none" ~> op[t] = "none"

\* The table implements SlotLife: what the reference counts and the threads'
\* places say of a slot goes round the cycle of registration, publication,
\* release and reuse, one owner at a time, whatever the application does.
Published == {s \in Slots : refcount[s] > 0}
Work == [s \in Slots |-> {<<t, pc[t]>> : t \in {u \in Threads : mine[u] = s}}]

Life == INSTANCE SlotLife WITH published <- Published, work <- Work

\* Every step of every call is a step of that cycle, or leaves it alone.
ImplementsSlotLife == Life!Spec

=============================================================================
