----------------------------- MODULE ProcFile ------------------------------
(***************************************************************************)
(* proc.c: the files open.c makes up, /proc/sys/vm/mmap_min_addr ("addr")  *)
(* and /proc/<pid>/mem ("mem"), and the offset they keep in the entry.     *)
(*                                                                         *)
(* Threads share one open file.  e->pos is atomic, and each load or store  *)
(* of it is one action, in the order of the source.  A file is a number of *)
(* bytes: the text of the one, the readable addresses of the other.        *)
(***************************************************************************)
EXTENDS Integers, FiniteSets

CONSTANTS
  Threads,
  Size,       \* bytes in the file
  OffMax,     \* the largest off_t
  Counts, Offsets

\* The redirections of open.c.
dispatch == {"addr", "mem"}

VARIABLES
  kind,     \* the file that is open, or "none"
  pos,      \* e->pos
  pc, arg,  \* where a thread is, and count or offset of its call
  from, take,  \* locals: where the copy starts, how many bytes
  start,    \* history: e->pos when the call began
  raced     \* history: another thread's call overlapped this one

local == <<arg, from, take, start>>
vars  == <<kind, pos, pc, local, raced>>

NoArg == [whence |-> "set", n |-> 0]
Init ==
  /\ kind = "none" /\ pos = 0
  /\ pc = [t \in Threads |-> "idle"] /\ arg = [t \in Threads |-> NoArg]
  /\ from = [t \in Threads |-> 0] /\ take = [t \in Threads |-> 0]
  /\ start = [t \in Threads |-> 0] /\ raced = [t \in Threads |-> FALSE]

\* The table claims a path for one of the files, or for none (which paths is left
\* out); wslcompat_synth_open may fail, and the path is claimed then too.
Open ==
  /\ kind = "none"
  /\ kind' \in dispatch \cup {"none"}
  /\ UNCHANGED <<pos, pc, local, raced>>

Close ==
  /\ kind # "none" /\ \A t \in Threads : pc[t] = "idle"
  /\ kind' = "none" /\ pos' = 0
  /\ UNCHANGED <<pc, local, raced>>

Goto(t, l) == pc' = [pc EXCEPT ![t] = l]
Busy(t)    == pc[t] # "idle"

Begin(t, a, l) ==
  /\ kind # "none" /\ ~Busy(t)
  /\ arg' = [arg EXCEPT ![t] = a]
  /\ start' = [start EXCEPT ![t] = pos]
  /\ raced' = [u \in Threads |->
                 IF u = t THEN \E v \in Threads \ {t} : Busy(v) ELSE raced[u] \/ Busy(u)]
  /\ Goto(t, l)
  /\ UNCHANGED <<kind, pos, from, take>>

Return(t) ==
  /\ Goto(t, "idle")
  /\ arg' = [arg EXCEPT ![t] = NoArg] /\ start' = [start EXCEPT ![t] = 0]
  /\ from' = [from EXCEPT ![t] = 0] /\ take' = [take EXCEPT ![t] = 0]
  /\ raced' = [raced EXCEPT ![t] = FALSE]

-----------------------------------------------------------------------------
Read(t, n) == Begin(t, [whence |-> "set", n |-> n], kind)

\* mmap_min_addr_read: if (e->pos >= len) return 0
CheckEnd(t) ==
  /\ pc[t] = "addr"
  /\ IF pos >= Size THEN Return(t) ELSE Goto(t, "compare") /\ UNCHANGED <<local, raced>>
  /\ UNCHANGED <<kind, pos>>

\* if (take > (size_t)(len - e->pos)): a negative difference is a huge number
Compare(t) ==
  /\ pc[t] = "compare"
  /\ take' = [take EXCEPT ![t] = arg[t].n]
  /\ Goto(t, IF pos <= Size /\ arg[t].n > Size - pos THEN "clamp" ELSE "copy")
  /\ UNCHANGED <<kind, pos, arg, from, start, raced>>

\* take = len - e->pos: beyond any buffer if the offset has passed the end now.
Clamp(t) ==
  /\ pc[t] = "clamp"
  /\ IF pos <= Size THEN take' = [take EXCEPT ![t] = Size - pos] /\ Goto(t, "copy")
                    ELSE Goto(t, "crashed") /\ UNCHANGED take
  /\ UNCHANGED <<kind, pos, arg, from, start, raced>>

Copy(t) ==
  /\ pc[t] = "copy"
  /\ from' = [from EXCEPT ![t] = pos]
  /\ Goto(t, "advance")
  /\ UNCHANGED <<kind, pos, arg, take, start, raced>>

\* proc_pid_mem_read, _readv, _write, _writev: process_vm_readv or _writev at
\* e->pos moves some of the bytes, or none outside the readable addresses.
Vm(t) ==
  /\ pc[t] = "mem"
  /\ \E n \in 0..arg[t].n :
       /\ n > 0 => pos + n <= Size
       /\ take' = [take EXCEPT ![t] = n]
  /\ from' = [from EXCEPT ![t] = pos]
  /\ Goto(t, "advance")
  /\ UNCHANGED <<kind, pos, arg, start, raced>>

\* An atomic addition wraps around.
OffT(x) == IF x > OffMax THEN x - 2 * (OffMax + 1) ELSE x

\* Mutant: the offset is set from what was asked for.
AdvanceLost(t) ==
  /\ pc[t] = "advance"
  /\ pos' = arg[t].n
  /\ Return(t)
  /\ UNCHANGED kind

Advance(t) ==
  /\ pc[t] = "advance"
  /\ pos' = OffT(pos + take[t])
  /\ Return(t)
  /\ UNCHANGED kind

-----------------------------------------------------------------------------
\* lseek
Lseek(t, w, off) == Begin(t, [whence |-> w, n |-> off], "seek")

\* Mutant: without __builtin_add_overflow, the sum wraps.
NewPosWrapped(w, at, off) ==
  LET sum == at + off IN
  CASE w = "set" -> off
    [] w = "end" -> IF kind = "addr" THEN off ELSE -1
    [] w = "cur" -> IF sum > OffMax THEN sum - OffMax - 1 ELSE sum

\* Where the call would go; -1 stands for every offset that is refused.
NewPos(w, at, off) ==
  CASE w = "set" -> off
    [] w = "end" -> IF kind = "addr" THEN off ELSE -1
    [] w = "cur" -> IF at + off > OffMax THEN -1 ELSE at + off

SeekLoad(t) ==
  /\ pc[t] = "seek"
  /\ LET to == NewPos(arg[t].whence, pos, arg[t].n) IN
     IF to < 0 THEN Return(t)
     ELSE from' = [from EXCEPT ![t] = to] /\ Goto(t, "store") /\ UNCHANGED <<arg, take, start, raced>>
  /\ UNCHANGED <<kind, pos>>

SeekStore(t) ==
  /\ pc[t] = "store"
  /\ pos' = from[t]
  /\ Return(t)
  /\ UNCHANGED kind

Step(t) ==
  \/ \E n \in Counts : Read(t, n)
  \/ \E w \in {"set", "cur", "end"}, off \in Offsets : Lseek(t, w, off)
  \/ CheckEnd(t) \/ Compare(t) \/ Clamp(t) \/ Copy(t) \/ Vm(t) \/ Advance(t)
  \/ SeekLoad(t) \/ SeekStore(t)

Next == Open \/ Close \/ \E t \in Threads : Step(t)

Spec == Init /\ [][Next]_vars

-----------------------------------------------------------------------------
Smaller(a, b) == IF a < b THEN a ELSE b

\* A read that no other call on the file overlaps is a read of a file: it copies
\* from the offset where the last call left it, stays within the file (all of what
\* is asked for and there, from the text), and moves the offset by that much.
\* Exception: calls that did overlap took the offset past the end of off_t.
ReadsNext ==
  \A t \in Threads : pc[t] = "advance" /\ pc'[t] = "idle" /\ ~raced[t] /\ start[t] >= 0 =>
    /\ from[t] = start[t] /\ pos' = start[t] + take[t]
    /\ take[t] > 0 => pos' <= Size
    /\ kind = "addr" => take[t] = Smaller(arg[t].n, Size - start[t])

\* A seek that no other call overlaps goes where it was told, exactly, or leaves
\* the offset alone; one whose sum leaves off_t is refused.
SeeksThere ==
  \A t \in Threads :
    pc[t] \in {"seek", "store"} /\ pc'[t] = "idle" /\ ~raced[t] /\ start[t] >= 0 =>
      LET a == arg[t]
          to == IF a.whence = "cur" THEN start[t] + a.n ELSE a.n
          ok == to \in 0..OffMax /\ (kind = "mem" => a.whence # "end")
      IN pos' = IF ok THEN to ELSE start[t]

\* Both: what one thread at a time reads is the file, in order.
ReadsInOrder == ReadsNext /\ SeeksThere
=============================================================================
