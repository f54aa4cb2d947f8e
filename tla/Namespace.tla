----------------------------- MODULE Namespace -----------------------------
(***************************************************************************)
(* open.c, rename.c and the birth time of statx.c: library calls that are  *)
(* several system calls on names which other processes use too.            *)
(*                                                                         *)
(* Processes share one directory.  Each system call is one action, a       *)
(* process may be killed between two of them, and any process may create,  *)
(* rename, unlink, write, utimes or label a file meanwhile.  O_TMPFILE is  *)
(* a random name, drawn from TmpNames, that exists until it is unlinked.   *)
(***************************************************************************)
EXTENDS Integers, Sequences

CONSTANTS
  Procs, Names, TmpNames,
  MaxFiles, MaxTime     \* bounds: files ever made, the clock

Files == 1..MaxFiles
None  == -1

VARIABLES
  dir,      \* name -> file, or None
  file,     \* the files made so far
  clock,
  call      \* the call each process is in

vars == <<dir, file, clock, call>>

\* kind, the call; name and to, its paths; f, the file it works on; ts, a
\* timestamp it loaded.  rebound (history): another process changed what its
\* paths stand for since the first step.
Idle == [pc |-> "idle", kind |-> "none", name |-> None, to |-> None, f |-> None,
         ts |-> 0, rebound |-> FALSE]
Dead == [Idle EXCEPT !.pc = "dead"]

\* born, ready, hand, low (history): when the file was made, when the open that
\* made it was done, the birth time a user gave it, the earliest mtime it ever
\* had.  btime is user.wslcompat.btime.
New == [born |-> clock, ready |-> None, hand |-> None, low |-> clock,
        mtime |-> clock, ctime |-> clock, btime |-> None]

Init ==
  /\ dir = [n \in Names \cup TmpNames |-> None]
  /\ file = <<>>
  /\ clock = 0
  /\ call = [p \in Procs |-> Idle]

Made     == DOMAIN file
NamesOf(f) == {n \in DOMAIN dir : dir[n] = f}

\* The call of p goes on as c; the others notice if a name of theirs changed.
Goto(p, c) ==
  call' = [q \in Procs |->
             IF q = p THEN c
             ELSE [call[q] EXCEPT !.rebound =
                     @ \/ \E n \in {call[q].name, call[q].to} \ {None} : dir'[n] # dir[n]]]
Return(p) == Goto(p, Idle)

\* open(2) with O_CREAT makes a file under name n; r: its open is done.
Create(n, r) ==
  /\ dir[n] = None /\ Len(file) < MaxFiles
  /\ dir' = [dir EXCEPT ![n] = Len(file) + 1]
  /\ file' = Append(file, [New EXCEPT !.ready = r])

-----------------------------------------------------------------------------
\* openat

\* Mutant: the first attempt does not add O_EXCL.
OpenShared(p, n, excl) ==
  /\ call[p] = Idle
  /\ \/ Create(n, None) /\ Goto(p, [Idle EXCEPT !.pc = "gettime", !.kind = "open", !.f = dir'[n]])
     \/ /\ dir[n] # None /\ UNCHANGED <<dir, file>>
        /\ Goto(p, [Idle EXCEPT !.pc = "gettime", !.kind = "open", !.f = dir[n]])
  /\ UNCHANGED clock

\* O_CREAT: tried with O_EXCL first, so that only a file made here is dated.
Open(p, n, excl) ==
  /\ call[p] = Idle
  /\ \/ Create(n, None) /\ Goto(p, [Idle EXCEPT !.pc = "gettime", !.kind = "open", !.f = dir'[n]])
     \/ /\ dir[n] # None /\ UNCHANGED <<dir, file>>
        /\ IF excl THEN Return(p)
                   ELSE Goto(p, [Idle EXCEPT !.pc = "plain", !.kind = "open", !.name = n])
  /\ UNCHANGED clock

\* The second attempt; the name may be gone again, and the file is then new.
OpenPlain(p) ==
  /\ call[p].pc = "plain"
  /\ \/ Create(call[p].name, clock)
     \/ dir[call[p].name] # None /\ UNCHANGED <<dir, file>>
  /\ Return(p)
  /\ UNCHANGED clock

\* Mutant: the temporary name is opened without O_EXCL.
TmpfileShared(p, n) ==
  /\ call[p] = Idle
  /\ \/ Create(n, None)
     \/ dir[n] # None /\ UNCHANGED <<dir, file>>
  /\ Goto(p, [Idle EXCEPT !.pc = "gettime", !.kind = "tmpfile", !.name = n, !.f = dir'[n]])
  /\ UNCHANGED clock

\* handle_tmpfile_at, with the random name n.
Tmpfile(p, n) ==
  /\ call[p] = Idle
  /\ \/ /\ Create(n, None)
        /\ Goto(p, [Idle EXCEPT !.pc = "gettime", !.kind = "tmpfile", !.name = n, !.f = dir'[n]])
     \/ dir[n] # None /\ UNCHANGED <<dir, file>> /\ Return(p)
  /\ UNCHANGED clock

UnlinkTmp(p) ==
  /\ call[p].pc = "unlink tmp"
  /\ dir' = [dir EXCEPT ![call[p].name] = None]
  /\ Goto(p, [Idle EXCEPT !.pc = "tmp", !.kind = "tmpfile", !.f = call[p].f])
  /\ UNCHANGED <<file, clock>>

\* The application is done with its temporary file.
CloseTmp(p) == call[p].pc = "tmp" /\ UNCHANGED <<dir, file, clock>> /\ Return(p)

\* record_btime_now: the clock, then fsetxattr with XATTR_CREATE, which may
\* also be refused by the file system.
GetTime(p) ==
  /\ call[p].pc = "gettime"
  /\ UNCHANGED <<dir, file, clock>>
  /\ Goto(p, [call[p] EXCEPT !.pc = "setxattr", !.ts = clock])

Recorded(p) ==
  IF call[p].kind = "open" THEN Return(p) ELSE Goto(p, [call[p] EXCEPT !.pc = "unlink tmp", !.ts = 0])

\* Mutant: without XATTR_CREATE.
SetXattrOver(p) ==
  /\ call[p].pc = "setxattr"
  /\ \E ok \in BOOLEAN :
       file' = [file EXCEPT ![call[p].f].ready = IF @ = None THEN clock ELSE @,
                            ![call[p].f].btime = IF ok THEN call[p].ts ELSE @]
  /\ UNCHANGED <<dir, clock>>
  /\ Recorded(p)

SetXattr(p) ==
  /\ call[p].pc = "setxattr"
  /\ \E ok \in BOOLEAN :
       file' = [file EXCEPT ![call[p].f].ready = IF @ = None THEN clock ELSE @,
                            ![call[p].f].btime = IF ok /\ @ = None THEN call[p].ts ELSE @]
  /\ UNCHANGED <<dir, clock>>
  /\ Recorded(p)

-----------------------------------------------------------------------------
\* renameat2

\* Mutant: the result of linkat is not looked at.
LinkUnchecked(p, n, to) ==
  /\ call[p] = Idle /\ dir[n] # None
  /\ dir' = IF dir[to] = None THEN [dir EXCEPT ![to] = dir[n]] ELSE dir
  /\ Goto(p, [Idle EXCEPT !.pc = "unlink", !.kind = "rename", !.name = n, !.to = to, !.f = dir[n]])
  /\ UNCHANGED <<file, clock>>

\* RENAME_NOREPLACE, the first half: linkat, which fails when the old name is
\* gone or the new one is taken.
Link(p, n, to) ==
  /\ call[p] = Idle
  /\ \/ /\ dir[n] # None /\ dir[to] = None
        /\ dir' = [dir EXCEPT ![to] = dir[n]]
        /\ Goto(p, [Idle EXCEPT !.pc = "unlink", !.kind = "rename", !.name = n, !.to = to, !.f = dir[n]])
     \/ (dir[n] = None \/ dir[to] # None) /\ UNCHANGED <<dir, call>>
  /\ UNCHANGED <<file, clock>>

\* The second half: unlinkat of whatever the old name stands for now.
Unlinkat(p) ==
  /\ call[p].pc = "unlink"
  /\ dir' = [dir EXCEPT ![call[p].name] = None]
  /\ Return(p)
  /\ UNCHANGED <<file, clock>>

\* renameat2 without flags is renameat: one step; two names of one file stay.
Renameat(p, n, to) ==
  /\ call[p] = Idle /\ dir[n] # None /\ dir[n] # dir[to]
  /\ dir' = [dir EXCEPT ![to] = dir[n], ![n] = None]
  /\ Return(p)
  /\ UNCHANGED <<file, clock>>

-----------------------------------------------------------------------------
\* statx with STATX_BTIME, of a name ("path") or of an open file ("fd").
stx_ts_min(a, b) == IF a < b THEN a ELSE b

\* The kernel's answer; ts is the heuristic birth time it gives.
Statx(p, n, by) ==
  /\ call[p] = Idle /\ dir[n] # None
  /\ UNCHANGED <<dir, file, clock>>
  /\ LET f == dir[n] IN
       Goto(p, [Idle EXCEPT !.pc = "getxattr", !.kind = by, !.name = n, !.f = f,
                            !.ts = stx_ts_min(file[f].mtime, file[f].ctime)])

\* Mutant: the attribute is always read through the name.
read_btime_path(p, ok) ==
  LET g == dir[call[p].name] IN IF ~ok \/ g = None THEN None ELSE file[g].btime

\* read_btime_xattr: a name is looked up once more.  Not ok: getxattr is refused
\* (no permission, an O_PATH fd), or sscanf makes nothing of the value.
read_btime_xattr(p, ok) ==
  LET g == IF call[p].kind = "fd" THEN call[p].f ELSE dir[call[p].name] IN
  IF ~ok \/ g = None THEN None ELSE file[g].btime

StatxBtime(p, ok) ==
  IF read_btime_xattr(p, ok) # None THEN read_btime_xattr(p, ok) ELSE call[p].ts

StatxReturn(p, ok) == call[p].pc = "getxattr" /\ UNCHANGED <<dir, file, clock>> /\ Return(p)

-----------------------------------------------------------------------------
\* The rest of the world.
Unlink(p, n) ==
  /\ call[p] = Idle /\ dir[n] # None
  /\ dir' = [dir EXCEPT ![n] = None]
  /\ Return(p)
  /\ UNCHANGED <<file, clock>>

\* A write sets both times to now, utimes the mtime to t.  (Bound: to none later
\* than now.)
Touch(p, f, t) ==
  /\ call[p] = Idle /\ f \in Made /\ t <= clock
  /\ file' = [file EXCEPT ![f].mtime = t, ![f].ctime = clock, ![f].low = IF t < @ THEN t ELSE @]
  /\ UNCHANGED <<dir, clock, call>>

\* setfattr -n user.wslcompat.btime: TUNABLES.md lets a user do so.
SetByHand(p, f) ==
  /\ call[p] = Idle /\ f \in Made
  /\ file' = [file EXCEPT ![f].btime = 0, ![f].hand = 0]
  /\ UNCHANGED <<dir, clock, call>>

Kill(p) == call[p].pc # "dead" /\ UNCHANGED <<dir, file, clock>> /\ Goto(p, Dead)

Tick == clock < MaxTime /\ clock' = clock + 1 /\ UNCHANGED <<dir, file, call>>

Calls(p) ==
  \/ \E n \in Names, excl \in BOOLEAN : Open(p, n, excl)
  \/ \E n \in TmpNames : Tmpfile(p, n)
  \/ \E n, to \in Names : Link(p, n, to) \/ Renameat(p, n, to)
  \/ \E n \in Names, by \in {"path", "fd"} : Statx(p, n, by)
  \/ OpenPlain(p) \/ GetTime(p) \/ SetXattr(p) \/ UnlinkTmp(p) \/ CloseTmp(p)
  \/ Unlinkat(p)
  \/ \E ok \in BOOLEAN : StatxReturn(p, ok)

World(p) ==
  \/ \E n \in Names : Unlink(p, n)
  \/ \E f \in Files : SetByHand(p, f) \/ \E t \in 0..MaxTime : Touch(p, f, t)
  \/ Kill(p)

Next == Tick \/ \E p \in Procs : Calls(p) \/ World(p)

Spec == Init /\ [][Next]_vars

-----------------------------------------------------------------------------
\* A RENAME_NOREPLACE, whatever happens between linkat and unlinkat and wherever
\* it is killed, takes the last name from no file, unless another process
\* changed one of the two names in between (rename.c:28 removes what the old
\* name then stands for): no rename loses a file.
LastNameKept ==
  \A p \in Procs : call[p].kind = "rename" /\ call'[p].kind # "rename" /\ ~call[p].rebound =>
    \A f \in Made : NamesOf(f) # {} => NamesOf(f)' # {}

\* An O_TMPFILE file has no name once the call is done, no other process has it
\* open or dated it, and no name is left behind but by a process that was killed
\* in handle_tmpfile_at.
TmpfilePrivate ==
  /\ \A p, q \in Procs : p # q /\ call[p].kind = "tmpfile" => call[p].f # call[q].f
  /\ \A p \in Procs : call[p].pc = "tmp" => NamesOf(call[p].f) = {}
  /\ \A n \in TmpNames : dir[n] # None =>
       \/ \E p \in Procs : call[p].pc = "dead"
       \/ \E p \in Procs : call[p].kind = "tmpfile" /\ call[p].name = n /\ call[p].f = dir[n]

\* A recorded birth time is the one the user gave, or lies between the making of
\* the file and the end of the open that made it: opening an old file never
\* dates it anew, and open never overwrites a date given by hand.
BirthRecorded ==
  \A f \in Made : LET r == file[f] IN r.btime # None =>
    IF r.hand # None THEN r.btime = r.hand
    ELSE r.ready # None /\ r.born <= r.btime /\ r.btime <= r.ready

\* What statx says of the birth of a file is about that file: its recorded time
\* or, when there is none or it cannot be read, a time no later than its last
\* change and no earlier than its making, unless utimes once set its mtime back
\* before that.  Exception: the name was bound to another file between the
\* kernel's statx and the getxattr of statx.c:177.
StatxOneFile ==
  \A p \in Procs, ok \in BOOLEAN :
    call[p].pc = "getxattr" /\ (call[p].kind = "fd" \/ ~call[p].rebound) =>
      LET r == file[call[p].f] IN
      IF ok /\ r.btime # None THEN StatxBtime(p, ok) = r.btime
      ELSE r.low <= StatxBtime(p, ok) /\ StatxBtime(p, ok) <= r.ctime
=============================================================================
