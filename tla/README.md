# Models and proofs for wslcompat

wslcompat is a preloaded library that gives programs on WSL1 the system calls
and semantics WSL1 lacks. It does so inside a process that knows nothing of
it, and two things make that hard. The library keeps state there: synthetic
fds, its own fds among the application's, cached terminal settings and
tunables, across threads, `vfork`, `fork` and `exec`. And it makes one call
out of several, on files, names, mappings and clocks that others use at the
same time. This directory models both in TLA+, model-checks the models with
TLC and proves with TLAPS, for every size, what twelve of the components must
never do: those that keep fds (the synthetic fd table, the views of hidden fds,
the library's own fds, the wraps across processes), those that wait for a tty
(`poll`, `read`), and those that make one call out of several (`open`,
`renameat2`, `statx`, record locks, `/proc` files, `copy_file_range`, `mmap`,
clocks).

    tlc -workers 2 -config SynthTable.cfg MCSynthTable
    tlapm SynthTableProofs.tla
    tlapm ViewFdProofs.tla
    tlapm InternalFdInv.tla
    tlapm InternalFdProofs.tla
    tlapm TtyWrapProofs.tla
    tlapm WaitProofs.tla
    tlapm PathProofs.tla
    tlapm CopyMapProofs.tla

`PROJECT.json` lists every run with its module, the source lines of every
definition, for every checked property a mutation of the code's model that
the run detects, the findings, the hazards and the theorems.

## The system and its parts

| part | source | module |
|---|---|---|
| table of synthetic fds: pin, register, sweep, release | `synth.c`, `synth.h`, `close.c`, `read.c` | `SynthTable`, `SlotLife`; proofs in `SynthTableProofs` |
| copy-on-write numbers of hidden fds in processes that share memory | `synth.c` | `ViewFd`; proofs in `ViewFdProofs` |
| the library's own fds, lazy open, relocation, `close_range` | `internal.c`, `logging.c`, `statx.c`, `close.c`, `utils.c` | `InternalFd`; proofs in `InternalFdInv`, `InternalFdProofs` |
| `poll`, `ppoll` | `poll.c` | `Poll`; proofs in `WaitProofs` |
| `select`, `pselect` | `poll.c` | `Select` |
| `epoll_ctl`; the timeout of `epoll_pwait2` | `epoll.c` | `Epoll`; `Clock` |
| tty wraps across processes, save and restore around exec | `tty.c`, `synth.c`, `close.c`, `execve.c` | `TtyWrap`; proofs in `TtyWrapProofs` |
| reads from a wrapped tty, cached settings | `tty.c` | `TtyRead`; proofs in `WaitProofs` |
| `execve` through the program interpreter | `execve.c` | `Execve` |
| record locks by `flock` | `fcntl.c` | `FcntlLock`; proofs in `PathProofs` |
| file creation, `O_TMPFILE`, birth times, `renameat2`, `statx` | `open.c`, `rename.c`, `statx.c` | `Namespace`; proofs in `PathProofs` |
| `copy_file_range` | `copy_file_range.c` | `CopyRange`; proofs in `CopyMapProofs` |
| made-up `/proc` files | `proc.c`, `open.c` | `ProcFile`; proofs in `PathProofs` |
| `mmap` | `mmap.c` | `Mmap`; proofs in `CopyMapProofs` |
| sleeping on and reading clocks | `clock.c` | `Clock`; proofs in `CopyMapProofs` |
| tunables and the cache at each use | `tunables.c`, `tunables.h` | `Tunables` |
| redirection of `syscall()` | `syscall.c` | `Redirect` |
| `mincore`, socket options, symbol interposition, `elfclamp`, prototypes in `future/` | | not modelled, see below |

How they meet: a `TCSETS` on a tty installs a *wrap*, an O_PATH fd on an
unlinked tmpfile in place of the tty, with the tty itself, the *backing*, on a
hidden number. The table maps the tmpfile's inode to the handler; every shim
looks fds up in it (`SynthTable`). `poll`, `select`, `epoll_ctl` and `mmap`
substitute the hidden fd for the wrap (`Poll`, `Select`, `Epoll`, `Mmap`).
Every `close`, `dup2` and `close_range` first moves the library's fds out of
the way (`InternalFd`, `ViewFd`, `TtyWrap`), then makes the call, then asks
whether the wrap is dead (`SynthTable`, `TtyWrap`). Before an exec the wraps
are swapped for their ttys and afterwards, if the process is still there,
swapped back (`TtyWrap`, and around the second try `Execve`). Reads on the wrap
implement VMIN and VTIME from a cache of the settings (`TtyRead`).

The modules are views of one system at the grain each question needs: a step
is one atomic operation or system call where threads share memory
(`SynthTable`, `ViewFd`, `InternalFd`, `TtyRead`, `ProcFile`, `Tunables`), one
system call where a library call runs against a changing world (`Poll`,
`Select`, `Epoll`, `FcntlLock`, `Namespace`, `CopyRange`, `Mmap`, `Clock`,
`Execve`), and one shim call, or one turn of its loop, where sequential
processes meet only at the fd table and the shared flock (`TtyWrap`,
`Redirect`).

## The modules

**SynthTable.** Threads of the installer call `dispatch` (any shim that looks
an fd up, runs a handler and unpins), `open`, `close` and `dup2`. A slot is
its `refcount` (0 free, -1 owned by one thread, n references) and its inode;
`live` is `synth_live_entries`. Every atomic operation is an action: lookup
pins each slot in turn and compares, registration claims, fills and publishes,
a full table is swept (`synth_table_gc`) and registration is tried again,
`post_close` looks for other fds and drops the producer's reference, the last
unpin cleans and frees. `Kernel` closes fds behind the shims' back
(`RawClose`). `Discipline` says what the application avoids: nothing, or
closing an fd that a call of another thread names. History variables record
whether the producer's reference is still there, whether one was ever dropped
twice, and how often `release` ran. The walk of `/proc/self/fd` in
`post_close` is one step here.

**SlotLife.** The abstract specification of a slot, without counts and program
counters: free, worked on by one thread, published, and round again.
`SynthTable!Life` instantiates it with the slots of positive refcount as the
published ones and the owners with their program counters as the work.

**ViewFd.** The number of one hidden fd, seen by the installer and by
processes that share its memory but have fd tables of their own. A close that
names the number loads the view, duplicates, and stores by compare-and-swap,
in the base value or in an override slot found or claimed under
`synth_acquire_lock`, after `override_gc` has swept stale slots. A process is
an incarnation; `PidOf` may give two of them one pid. Children are born
(`Spawn`, as a copy of the installer's fd table), and exec, exit or are killed
at any step of a close, the lock held or not (`Exit`). They leave the memory
then, but not `/proc`: an exec keeps pid and start time, and so does a process
that ended until it is waited for (`Reap`). The sweep goes by what `/proc` shows
(`known`), so their slots stay taken until then.

**InternalFd.** `debugfd` and `mount_fd`: lazy open with its race, use,
relocation by `wslcompat_relocate_internal_fd`, and `close`, `dup2` and
`close_range`, the last with its walk of `/proc/self/fd` in chunks.

**Poll**, **Select.** The complete dispatchers: canary call, substitution,
retry, unwinding. The kernel chooses readiness, or an error, at every call. In
`Poll` other threads wrap and unwrap fds between any two steps.

**Epoll.** Threads call `epoll_ctl` while descriptors are opened, wrapped,
duplicated, moved and closed. `interest` is the kernel's list, keyed by number
and description; `want` is the list of a kernel in which the wrap is the tty.

**TtyWrap.** Processes with fd tables and copies of the library's memory:
install (with or without a working liveness probe), close, dup3, fork, exit,
and exec as save, one fd at a time, execve or spawn, restore, one fd at a time.
`base` is what a memory holds for the numbers of a wrap, `view` what the process
goes by: the same for the installer, its own override for another process that
has moved a number. A fork copies `base`; the override is keyed by the parent's
pid and start time, and the child does not find it. A turn of save skips an fd
that cannot be parked, or whose tty is not where the process looks for it.

**TtyRead.** Threads read from and set a tty through wraps. Each load and
store of the cache, `poll` and `read` is a step. The kernel's read is WSL1's:
it waits for one byte. Canonical and non-blocking reads pass through. The
history variable `stale` has the wraps that the last call did not go through, or
at which it overlapped with another.

**Execve.** One call on any file (program headers, alignments, set-id,
readable) and argument list: first try, `elf_needs_fixup`, the new argument
vector, second try, cleanup. Strings are told apart only by their origin.

**FcntlLock.** Processes lock, unlock and query one file. `flock` is external
and modelled from its man page: conversion drops the old lock first. A query has
a description of its own, whose lock stands in the way of the others until it is
closed, and to which the asker's own lock is one of the others.

**Namespace.** Processes create, rename, unlink, write and stat files of one
directory, and may be killed between any two system calls: `open` with O_CREAT
(O_EXCL, then without, then the birth-time attribute), `O_TMPFILE` (create
under a random name, unlink), `renameat2` (link, unlink), `statx` (the kernel's
answer, then `getxattr`, which may fail). Any process may set an mtime back.

**CopyRange.** A program's copy loop around `copy_file_range`, with short and
failing reads and writes, within a file or between two.

**ProcFile.** `read` and `lseek` on the two made-up files by threads that share
the offset, one load or store at a time. Which paths are redirected to them is
left out.

**Mmap.** Threads map and unmap pages of one address space: the fallback to
the backing, the probe of MAP_FIXED_NOREPLACE, `mlock`; the wrap may be closed
meanwhile, and its number reused.

**Clock.** The polling loop of `handle_process_cputime`, with signals and
restarts, in wrapping arithmetic; absolute sleeps on TAI while the real-time
clock is set; CPU clock ids and the timeout of `epoll_pwait2` as operators.

**Tunables.** From the attributes of the executable, other programs' among
them, to the answer of a callsite: the constructor, which may fail to open the
executable or to list its attributes, the table with its buffer sizes, the scan
of a list, character by character, because its edges are the question, and the
two plain words of the cache, whose stores a thread makes in either order.

**Redirect.** Threads nest calls of `syscall()` and polyfills, in a process or
in its vfork child, and are replaced by `execve`.

Modules `MC...` give the constants that a configuration cannot express, and
symmetry sets. `MCTerminal`, `MCFiles` and `MCProcess` hold several components
that share no state; each of them steps only while the others are at rest, so
that such a run is the sum of the runs of its components, not their product.

## What the runs show

Runs that hold:

| run | what holds |
|---|---|
| `SynthTable` | a table of one slot, two threads: release runs exactly once per life of an entry (`ReleaseOnce`); the live counter covers published entries (`ActiveCoversPublished`); pins hold as long as no producer's reference was dropped twice (`PinHoldsUnlessDoubled`); an open wrap keeps its entry and a dead one leaves nothing (`EntryOutlivesItsFds`); every call returns, register-sweep-register included (`CallsReturn`); the table implements `SlotLife` (`ImplementsSlotLife`) |
| `ViewFd_children` | children that may exec or be killed at any step keep one copy each while there are slots enough and never change the installer's number (`OneCopyEach`), have one slot each (`OneSlotEach`), and their calls return (`CloseReturns`) |
| `InternalFd` | between calls the library's slots and fds agree (`SlotsKeepTheirFds`); it uses its own files (`UsesOwnFile`) and closes none of the application's (`AppFileKept`); `close_range` misses nothing although fds move under its walk (`RangeClosed`) |
| `Poll_array` | fds are restored on every path (`FdsRestored`), wraps report what their backing does and the timeout is waited once (`ReportsBacking`), the call returns (`PollReturns`) |
| `TtyWrap_exec` | across fork, close, dup, exec and spawn: hidden numbers lead to the wrap's files, but in the children of a process that moved them (`HoldsBacking`), a wrap is served as long as it is open (`WrapServed`), the application gets its fds back (`ExecUndone`), nothing is left behind (`NoStrayFd`) |
| `Terminal` | VMIN and VTIME as in termios(3), no byte lost (`ReadContract`, `TimedReadNeverBlocks`); the caches of two wraps settle on the settings in force (`CacheFresh`); `select` and `epoll_ctl` answer as a kernel that knows wraps (`SelectAsKernel`, `EpollAsKernel`) |
| `Files` | renames lose no file, tmpfiles are private, birth times are those of the file, `statx` answers about one file; copies are exact and offsets agree; reads of `/proc` files are in order; MAP_FIXED_NOREPLACE spares other mappings, a wrap's mapping is of its tty |
| `Process` | CPU-clock sleeps end neither early nor late, and end; clock values keep their meaning; shims are enabled as configured; `syscall()` redirects once and keeps doing so; `execve` runs what Linux would, or fails cleanly; locks exclude, are refused only for cause, and queries are true |

Runs in which the code and a statement of the repository disagree (quoted in
`PROJECT.json`, "findings"):

| run | what happens |
|---|---|
| `SynthTable_double` | two threads that close two fds of one wrap both drop the producer's reference; the second drop takes the pin of a third thread, and an entry is released while its handler runs |
| `TtyWrap_hangup` | save takes the liveness probe for a wrap; a copy of it remains and the hidden tty is kept |
| `Process_redirect` | with only `mmap` listed, `syscall(SYS_execve)` falls through into the next case and runs the polyfill of `mmap` |
| `Process_cache` | a thread sees the cached name before the cached result and runs a shim the user has disabled |

### Conditions in the properties

Several properties hold except after one particular event. A history variable
records the event and the property names it, so that a run checks everything
else. Dropping the condition, or changing the constant given here, makes TLC
show the event.

| condition | event | to see it |
|---|---|---|
| `doubled` (SynthTable) | the producer's reference is dropped twice: by two closers, or by a closer and the sweep of a full table (`synth.c:427`, `synth.c:925`) | `SynthTable_double` |
| others stop opening (`SynthTable!CallsReturn`) | another thread takes every slot the sweep frees, for ever (`synth.c:480`) | drop it |
| `most`: slots enough (`ViewFd!OneCopyEach`) | more children than slots were known to `/proc` at a time, those that had left by exec or were not waited for included (`synth.c:127`): all override slots are taken, and the relocation is dropped (`synth.c:259`) | drop it |
| the lock's holder lives (`ViewFd!CloseReturns`) | a child is killed holding `synth_acquire_lock`, and the others spin (`synth.c:161`) | drop it |
| pids differ (`MCPids`) | the start-time cache is compared by pid alone (`synth.c:83`), and a slot judged stale by pid and start time is freed by pid alone (`synth.c:132`), so a recycled pid can take over, or lose, a slot | give two children one pid |
| `InstallerRuns = FALSE` (ViewFd) | a child that has not moved its copy reads the installer's number, also after the installer moved its own | `TRUE` |
| `lost` (InternalFd) | an unconditional store overwrites a live fd: after a failed open (`statx.c:59`), after a failed dup (`internal.c:53`); an fd is installed or moved at a number another thread is about to close; a `dup2` that fails leaves a copy of a moved fd | drop it |
| the slot still names the number (`InternalFd!UsesOwnFile`) | a log call uses a number that has been given to the application since (`logging.c:52`, `logging.c:84`) | drop it |
| the walk took place (`InternalFd!RangeClosed`) | `/proc/self/fd` cannot be opened, nothing is visited, and `close_range` returns 0 (`utils.c:25`) | a state with no free number |
| `astray` (TtyWrap) | a process that is not the installer has moved a number of a wrap and forks: the child finds no override of its own and falls back on the base value (`synth.c:217`), a number that its parent gave to the application or that holds something else by now | drop it |
| `"cap"` in `slip` (TtyWrap) | the capacity of save counts fds, the probe included, so one wrap can exceed it and be inherited (`synth.c:739`) | drop it |
| `"room"` in `slip` (TtyWrap) | save finds no number to park a wrap at, skips it, and the new image inherits it (`synth.c:780`), as `tests/exec_rlimit_test.c:4` says | drop it |
| `"lost"` in `slip` (TtyWrap) | save does not find the wrap's tty: a full fd table made relocation mark it dead, or the process is astray (`synth.c:772`, `:786`) | drop it |
| `"probe"` in `slip` (TtyWrap) | as in `TtyWrap_hangup` | `TtyWrap_hangup` |
| `lapsed` (FcntlLock) | a refused conversion has lost the old lock; this is `flock`'s own doing | drop it |
| the asker has no lock (`FcntlLock!GetlkTrue`) | the query meets the asker's own lock (`fcntl.c:44`), which `LOCKS.md:38` calls a limitation and `tests/ofd_hybrid_test.c:34` expects to be ignored | drop it |
| a query is out (`FcntlLock!RefusedForCause`) | an `F_SETLK` is refused because of the lock a query holds from its try to its close (`fcntl.c:44`, `:60`) | drop it |
| one asker (FcntlLock) | two queries meet, and each sees the other's lock for a moment (`fcntl.c:44`) | `Askers = {a, b}` |
| nothing changed (`FcntlLock!GetlkTrue`) | a writer unlocks between the two tries, and the query names a read lock nobody held (`fcntl.c:60`) | drop it |
| `stolen` (TtyRead) | another reader takes the input between `poll` and `read` (`tty.c:105`) | drop it |
| `stale` (TtyRead) | the cache is one wrap's, so settings through another wrap or process do not reach it; two calls that overlap at one wrap can leave a mixture, until the next that is alone there (`tty.c:144`, although `tty.c:97` says "Stale only if the app drives TCSETS via raw syscall") | drop it |
| `odd` (Epoll) | a tty is registered and then wrapped; two descriptors of one wrap share the backing's entry; a registered backing is relocated; a registered descriptor is closed while a dup stays; a descriptor is closed or replaced during the call (`epoll.c:75`, `synth.c:701`) | drop it |
| `helped` (Execve) | a file that cannot be read, a set-id file, a static one, or one whose first alignment is 0 fails as on WSL1; without `--argv0`, argv[0] is the path (`execve.c:73-194`) | drop it |
| `rebound` (Namespace) | another process gives a name to another file between link and unlink (`rename.c:28`), or between the kernel's `statx` and `getxattr` (`statx.c:177`) | drop it |
| `low` (Namespace) | `utimes` has set the mtime back before the making of the file, and the heuristic birth time follows it (`statx.c:249`) | `born` for `low` |
| `Apart`, `Lost` (CopyRange) | overlapping ranges of one file; a copy within one file to behind its end, which the copy itself moves, so that later reads find the hole; an error after some chunks with a NULL offset, which then is not moved (`copy_file_range.c:49`, `:59`) | drop it |
| `raced` (ProcFile) | two calls on one file overlap, and return the same bytes or lose a seek (`proc.c:110`) | drop it |
| `dropped` (Mmap) | the fixed mapping fails after the kernel dropped the probe, and another thread maps there before `mmap.c:110` unmaps | drop it |
| `gone` (Mmap) | the retry without the flags (`mmap.c:105`) uses the backing's number after the unpin, and the wrap was closed | drop it |
| in range (Clock) | the target of a sleep leaves `long long` (`clock.c:99`); a timeout leaves `int` (`epoll.c:112`) | drop it |
| `late` (Clock) | several threads run, CPU time outpaces wall time and the sleep is late (`clock.c:108`) | drop it |
| `Fits` (Tunables) | a key or value is too long, there are too many, or a value fills its buffer and the scan goes on into the next option's key (`tunables.c:109`) | drop it |
| `unread`, the list is full (`Tunables!Wanted`) | `/proc/self/exe` cannot be opened (`tunables.c:64`), or the names of all attributes, other programs' included, exceed LIST_BUF - 1 bytes (`tunables.c:67`): no option is loaded, and a disabled shim runs | drop it |
| `early` (Tunables) | the callsite is first used before the constructor has run, and keeps that answer | drop it |
| `torn` (Tunables) | as in `Process_cache` | `Process_cache` |
| `over` (Redirect) | the `execve` polyfill replaces a vfork child, and `redir` stays raised in the parent (`syscall.c:18`) | drop it |

Most of these need a second thread or process, or an exec, at a particular
moment.

## Bounds

- *SynthTable*: two threads, one that opens, closes and dispatches and one
  that opens and dups over fds (three threads in `_double`), two inodes, two
  fds, one slot, so that every registration competes with a sweep. The
  application closes no fd that another thread's call names.
- *ViewFd*: fds 3 and 4, an installer and two children, one or two slots: a
  slot can be left stale, swept and claimed again while another process acts, or
  be kept by a child that has left and is still known.
  Relocation when no number is free is reached as well.
- *InternalFd*: numbers 3 to 7 and chunks of two entries, so that a walk takes
  several reads while fds move above and below its position. One application
  makes every call with one thread; the other has two threads that open
  lazily, log, close and dup over one number.
- *Poll*: three entries over two wraps of one tty, the tty, a plain fd and
  negative entries, two swaps: three wraps do not fit. *Select*: numbers 0 to
  4, FD_SETSIZE 4, two swaps, read and write sets (the third set is treated
  alike); backings may be shared, above `nfds` or beyond FD_SETSIZE. *Epoll*:
  two threads, two numbers of the program, the backing's number and the one it
  moves to. After one of the exceptions the process starts afresh.
- *TtyWrap*: two processes, whose ids later processes take over, so that two
  forks (`MaxForks`) make a grandchild; one wrap, with or without a probe, two
  application fds at a time (`MaxOwn`), the numbers 3 to 8, of which 7 and 8 are
  the ones to park at, so that save finds room for one fd or for two; one exec
  call (`MaxExecs`), a capacity of two for save. An application closes or dups
  over numbers it does not own, 4 and 7 (`Targets`), where hidden fds live. A
  dup at 7 is close-on-exec, the others are not (`MCFlags`). In
  `TtyWrap_hangup` parking starts at 5, and save carries four. A process astray
  installs no wrap of its own, and no chain of forks is so long that the
  override slots a child inherits run out.
- *TtyRead*: four bytes of input, reads of 0, 2 and 3, every case of VMIN and
  VTIME, VMIN above and below the size of the read; two threads, one of which
  changes the settings. A second instance has three threads that only change
  settings, two through one wrap and one through another, and two settings that
  differ in every field, so that every mixture shows.
- *Namespace*: two processes, two names and one random name, so that random
  names collide; two files, two times, no mtime in the future. *CopyRange*:
  files of 5 bytes, chunks of 2, starts 0, 1 and 5 (the end). *ProcFile*: two threads, two bytes, reads of
  1 and 3, `off_t` up to 3. *Mmap*: two threads, two pages, mappings of one or
  both; an address that is only a hint is always page 1.
- *Clock*: six units a second, a tick of two, `long long` up to 7, two cores.
  *Tunables*: lists with and without the name, empty entries, prefixes, the
  longest value and one too long; at most three options; the attribute of another
  program, which makes the names just fit the list of ten bytes or exceed it.
  *Redirect*: three
  nested calls. *Execve*: up to four program headers of three alignments, three
  arguments and a vector of six, which the longest call exceeds. *FcntlLock*:
  three processes.

`CHECK_DEADLOCK FALSE` stands in the runs where everyone may have exited, been
killed or finished (`TtyWrap_...`, `Files`, `Process...`). Symmetry is used
only in runs without liveness properties, over sets of threads, inodes, fds,
processes and file names that the model treats alike.

## Fairness

`SynthTable!FairSpec` and `ViewFd!FairSpec` have weak fairness of the steps of
every thread or process: a runnable thread is scheduled, handlers return.
Nothing is assumed of starting a call. `Poll!FairSpec` has weak fairness of the
steps of the call: the kernel's call returns. `ViewFd!CloseReturns` is stated
for a process whose competitors have become idle, as a test-and-set lock gives
no more. `MCProcess!FairSpec` has weak fairness of the sleeper, and strong
fairness of the process's other threads using CPU time: a process that stands
still never reaches the time, on Linux too.

## What is proved

The theorems are about `Spec`, without fairness, for every value of the
constants that the named assumptions, or a hypothesis of the theorem, allow.

| module | theorem | statement |
|---|---|---|
| `SynthTableProofs` | `TypeCorrect` | `Spec => []TypeOK` |
| | `SlotHasOneOwner` | `Spec => []OneOwner` |
| | `ReleasedExactlyOnce` | `Spec => []ReleaseOnce` |
| | `PinHolds` | `Spec => []PinHoldsUnlessDoubled` |
| | `ActiveSeesPublished` | `Spec => []ActiveCoversPublished` |
| | `ImplementsLife` | `Spec => ImplementsSlotLife`, the refinement of `SlotLife` |
| `ViewFdProofs` | `SlotsSerialised` | `Spec => []OneSlotEach` |
| | `ViewsKept` | `Spec => []OneCopyEach`, if pids differ and the installer waits for its children |
| `InternalFdProofs` | `SlotsAgree` | `Spec => []SlotsKeepTheirFds` |
| | `OwnFileUsed` | `Spec => []UsesOwnFile` |
| | `AppFilesKept` | `Spec => AppFileKept`, an action property |
| | `WalkMissesNothing` | `Spec => []RangeClosed`, if an application that calls `close_range` has one thread |
| `TtyWrapProofs` | `BackingHeld` | `Spec => []HoldsBacking` |
| | `SwapsBounded` | `Spec => []SwapsFit` |
| `WaitProofs` | `ArrayRestored` | `Spec => []FdsRestored` |
| | `AnswersAsBacking` | `Spec => []ReportsBacking` |
| | `ReadsServed` | `Tty!Spec => [](ReadContract /\ TimedReadNeverBlocks)` |
| `PathProofs` | `NamesServed` | `Spec => [](TmpfilePrivate /\ BirthRecorded)` |
| | `RenameKeepsNames` | `Spec => [][LastNameKept]_vars` |
| | `StatxAnswers` | `Spec => []StatxOneFile` |
| | `LocksExclude` | `Locks!Spec => [](Exclusion /\ RefusedForCause)` |
| | `LocksServed` | `Locks!Spec => []LocksAsLinux`, if `F_GETLK` is called on one description at most |
| | `ReadsThrough` | `Proc!Spec => [][ReadsInOrder]_vars` |
| `CopyMapProofs` | `MapsTheTty` | `Spec => [](MapsItsFile /\ NothingLeft)` |
| | `MapSparesOthers` | `Spec => [][SparesOthers]_vars` |
| | `CopiesServed` | `Range!Spec => [](CopiedExactly /\ OffsetsAgree)` |
| | `SleepsOnTime` | `Time!Spec => [](WakesOnTime /\ TaiAgrees)` |
| | `ClockIdsKnown` | `CpuClocksKnown` for every range of ids and set of pids |
| | `TimeoutsRoundUp` | `WaitsLongEnough` for every unit and every `int` |

None of the invariants is inductive as it stands (`TypeCorrect` apart). In each
component one invariant (`IInv`, or one named for the component) is; lemmas,
one per conjunct or one per action, show that a step keeps it. Where a proof
module speaks of more than one component, the second and third are instances
(`Locks!`, `Proc!`, `Range!`, `Time!`, `Tty!`). The runs of these components
have several of them in one MC module, which names the property again through
its instance: `LastNameKept` of `MCFiles` is `[][Space!LastNameKept]_spaceVars`.
The theorem is about the component's own definition, the one instantiated there.

**SynthTable**, for every finite set of threads, every number of slots, all sets
of inodes and fds, and every discipline. The assumptions are that there is a
slot, threads are finite, `NoIno` and `NoFd` are no inode and no fd, and the
ranges of the remaining parameters.

    IInv == TypeOK /\ Control /\ OneOwner /\ Releases /\ Accounting /\ UsesItsInode

`Control` ties a thread's position to its locals (a thread in `fill`,
`publish`, `cleanup` or `free` has a slot of its own, and so on).
`Releases` follows `released` through the transient states. `Accounting` is
the heart: while nothing was dropped twice, a slot with a positive refcount
has exactly as many references as there are threads that hold it, in `held`
or in `tmp`, plus one if the producer's is outstanding. A pin then holds
because its own thread is counted; and a compare-and-swap to -1 finds a count
of one, its own. `UsesItsInode` adds that a pinned entry keeps its inode.
`CountUpdate` and `CountZero` carry the arithmetic of cardinalities, which is
proved once. `ActiveSeesPublished` adds `LiveCount`: the counter is the number
of slots filled and not yet free again, plus the threads that have freed one and
not yet decremented it.

The refinement rests on the same invariant. Initial states map to initial
states; the steps that neither change a slot's standing (free, owned,
published) nor move an owner leave the abstract variables as they are; and each
of the six that do, the claiming and publishing of `register`, the fill, the
last unpin and its two steps of cleaning, is the abstract action of the same
idea. `OneOwner` and `Control` make the abstract work of a slot the singleton of
its owner; without them two threads could both fill a slot. `SlotLife` promises
nothing about pins, so the refinement holds also after a reference was dropped
twice.

**ViewFd**, for every finite set of processes, every number of slots and every
finite set of fds. `SlotsSerialised`
proves `OneSlotEach` without further hypotheses, for recycled pids too: whoever
is between finding no slot of its own and publishing one holds the lock
(`Serialised`), so two finds are never both under way; a killed holder keeps the
lock, and nobody finds or publishes again.

`ViewsKept` has the two hypotheses of the run, and the code needs both (see
"Conditions in the properties"). Its invariant

    IInv == OneSlot /\ CacheOk /\ Static /\ Ids /\ CohortBound
            /\ \A p \in Procs : Local(p) /\ Claims(p)
            /\ \A p \in alive : ViewAt(p)

says where the copies of the file are at every step of a relocation (`ViewAt`),
whose identity a slot may carry (`Ids`), that the sweep only frees slots of the
gone (`Claims`), and that a child that finds no slot had no claim to one. The
last needs an argument about the past: that each of n slots has an owner does
not mean that `/proc` shows n children, because owners go after the sweep has
passed. `CohortBound` supplies it. A *cohort* is a set of children each of which
`/proc` shows still, or which has left a slot behind, all of whom had looked at
the slots of those gone while the owners were still there (`Covers`): they
existed together when the youngest of them was born, so they are at most `most`,
the history of the largest number at a time. The owners of all slots and the
child that holds the lock and finds them all taken form a cohort (`Crowded`),
hence there are fewer slots than `most`, and the property claims nothing. A
child that left by exec keeps its slot and its place in the cohort until it is
waited for.

**InternalFd**, for every set of threads, registry, set of fd numbers and set of
applications.

    IInv == /\ TypeOK /\ Control
            /\ (~lost \/ Solo) => Agree
            /\ ~lost => Accounted
            /\ Solo => Alone /\ Remaining

`Agree` says that a slot names its own file, that a fd in the hand of a thread
(just opened, just duplicated, or about to be closed by the loser of a race) is
in no slot and in nobody else's hand, and that a close has moved every slot it
passed off its target. `Accounted` is the converse: an internal file is in its
slot, in a hand, or about to be closed. Together they give `SlotsKeepTheirFds`
and `UsesOwnFile`, and `AppFileKept` because what a thread closes on its own
account is what it has in hand. `lost` is the history variable described above.
An application with one thread (`Solo`) loses no race, so `Agree` holds for it
also after a loss, and `Remaining` says that an application fd of the range is
ahead of the directory position, in the chunk already read, or the one being
closed: at the end nothing is left. The hypothesis of `WalkMissesNothing` is
needed: another thread may open a file behind the walk.

**Poll**, for every number of entries, every limit `MaxSwaps` and every map of
wraps to backings.

    IInv == /\ TypeOK /\ Restorable /\ Counted
            /\ pc = "idle" => ~disturbed
            /\ ~disturbed => Progress

`Restorable` describes the array by the list of swaps at every step, and holds
whatever other threads do; `Counted` says that the list has no entry twice, so
that `MaxSwaps` bounds the entries swapped. `Progress` follows the answer: which
wraps have been swapped, what the last call reported, and that a call that has
waited found no wrap with an event, so that the retry does not wait again.

**TtyWrap**, for every number of processes, wraps and parking numbers, every
finite set of fds and every `PreexecMax`, whatever the applications close, dup
over, fork or exec.

    IInv == Types /\ Fresh /\ Placed /\ \A p \in Procs : FineAt(p)

`FineAt` says of a process, in the middle of an exec too: each number that a
live wrap knows, unless the process is astray for it (`Trusted`), leads to that
wrap's file and is none of the application's fds nor of those parked by save; no
private tty is two wraps'; the parked numbers differ and are not the
application's; and the fds still to be swapped and those swapped fit the array.
`Fresh` says that a wrap that was not installed is live nowhere. A child is fine
because where view and base of its parent agree it starts from what was in
order, and for the other wraps it is astray. For those it only duplicates what
it finds at their numbers, and it releases nothing: the installer of a wrap is
never astray for it (`Placed`).
What a shim does to a fd table and a memory is an operator on the two, so that
closing, relocation and release are lemmas about `InOrder`, used by every call.

**TtyRead** (hypothesis `TtyUse`: the constants are of their types).
`TtyInv` has, per thread, what the loop of `tty_read` knows (`ReadAt`: less than
was asked for and than VMIN while it goes on, enough when it is done) and why it
may enter the kernel's read (`LetIn`: there is input or a hang-up, unless the
history variable `stolen` names it). A thread's `LetIn` is disturbed by other
threads only where they take input, which is when they put it into `stolen`.

**Namespace** (`NamesApart`: names and random names differ).
`SpaceInv` says that the times of every file are in order, the earliest mtime
it ever had included, what each call in
progress has in hand (a file still to be dated, a random name and the file
behind it, the two names of a rename, the file statx asked about), that no two
calls date one file or share a temporary one (`Apart`), and that a random name
in the directory belongs to a call or somebody was killed. One lemma,
`SpaceGoes`, shows that a step which spares what the others have in hand keeps
all this; a lemma per system call shows that it is such a step. The proof
corrected the statement: `LastNameKept` speaks of the step that ends the rename,
for with three names another process may take the last name of a third file
while a rename is under way.

**FcntlLock.** `LockInv` relates the kernel's lock to the one a description was
promised, in both directions: who was promised a lock that no refusal has dropped
has it (`Promised`), and who has one was promised it (`Kept`). With `Probing`,
that only a query about to close has locked its description, every conflict has
a cause. `AskInv` follows a query, with the set of the strongest locks of others
that it has seen.
`LocksServed` needs its hypothesis: two queries see each other.

**ProcFile** (`OffsetsFit`: sizes, counts and offsets are within `off_t`).
`ProcInv` ties the locals of a call to the offset as long as no other call has
overlapped it. What overlapping calls do to the offset is only that it stays an
`off_t`; the next call that is alone starts from there.

**Mmap** (`FlagsDiffer`: the three flags are three). `MapInv` says where the
pages of a call are: what it mapped and has not yet returned lies where it put
it (`Tracks`), and what it relies on to be there is there (`Holds`), until the
history variable `dropped` is set; and a pinned entry has its backing (`Backs`).

**CopyRange** (`CopySizes`: a chunk is not empty). `CopyInv` is the loop
invariant of the two nested loops and of the program's loop around them: counters
(`Counted`), offsets (`Stands`), how far the target reaches (`Reaches`), and that
what was counted is in place while what is to come is intact (`Copied`). The
proof corrected the exception `Apart`: a copy within one file to behind its end
moves the end, and the source then reads the hole.

**Clock** (`Units`: sizes are numbers, and a tick is not 0). `ClockInv` says
that the target of a sleep is not before the time first asked for, also after a
restart with what remained, and that a clock that was read is used at once. The
arithmetic of `LongLong` is proved to be the identity within its range.
`ClockIdsKnown` and `TimeoutsRoundUp` are about the operators alone; the latter
assumes that a second is a whole number of milliseconds.

Model-checked only: liveness (`CallsReturn`, `CloseReturns`, `PollReturns`,
`SleepReturns`), which needs fairness and ENABLED; `EntryOutlivesItsFds` of
`SynthTable`; `WrapServed`, `ExecUndone` and `NoStrayFd` of `TtyWrap`, which
follow one exec through save and restore in order; `CacheFresh` and `NoByteLost`
of `TtyRead` (the latter is a sum over all threads); `GetlkTrue` is proved for
one asker only; and everything about `select`, `epoll_ctl`, `execve`, tunables
and `syscall()`, where the answer is computed by a recursion or a sum over the
input, which an induction over data would have to follow.

## What is not modelled

- Within modelled parts: the batches of the walk in `post_close`, and its
  failing to start there; two threads installing a wrap on one fd; stale bits
  at or above `nfds` in a caller's fd_set; fields of `stat` in the fstat shims;
  `wslcompat_view_fd_store`; the POSIX mirror of `flock` locks, whose result is
  ignored; conversions of integer and boolean tunables; the calls on made-up
  files that keep no offset. Each appears with its line under "hazards" where
  it can matter.
- `execveat.c` checks its arguments and spells a path for `execve`. The mount
  id and mount root of `statx.c` come from parsing `mountinfo`: text
  processing without state of its own.
- `mincore.c`, `getsockopt.c`, `setsockopt.c`: stateless translations of one
  call. `shim.h`: macros over the dynamic linker. `tools/elfclamp.c`: file I/O.
  `future/`: not built.
