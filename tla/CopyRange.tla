----------------------------- MODULE CopyRange -----------------------------
(***************************************************************************)
(* copy_file_range.c: copy_file_range done with pread and pwrite, and the  *)
(* loop a program runs around it.                                          *)
(*                                                                         *)
(* The program copies Want bytes from one open file to another, or within  *)
(* one file, and calls again until it has them, meets the end or gives up. *)
(* Each offset is a variable it passes or the file's own (a NULL pointer). *)
(* A read or a write may be short and may fail.                            *)
(***************************************************************************)
EXTENDS Integers, Sequences

CONSTANTS
  Chunk,      \* sizeof(buf)
  Size,       \* bytes in the file that is read
  Want,       \* bytes the program asks for
  Starts      \* the offsets it may start from

Ends == {"in", "out"}
Hole == 0

VARIABLES
  job,      \* the program's copy: see Jobs
  data,     \* what the two open files hold; only data.in if job.same
  offset,   \* the files' own offsets
  passed,   \* the program's offset variables
  done,     \* bytes the calls returned so far
  cut,      \* history: a call failed after some chunks
  pc, len, off, total, buf, written   \* locals of copy_file_range

locals == <<len, off, total, buf, written>>
vars   == <<job, data, offset, passed, done, cut, pc, locals>>

\* same: one file; null: the ends whose offset pointer is NULL; start: where.
Jobs == [same : BOOLEAN, null : SUBSET Ends, start : [Ends -> Starts]]
NoJob == [same |-> FALSE, null |-> {}, start |-> [e \in Ends |-> 0]]

Original == [i \in 1..Size |-> i]
Zero     == [e \in Ends |-> 0]

Quiet ==
  /\ len = 0 /\ off = Zero /\ total = 0 /\ buf = <<>> /\ written = 0

Init ==
  /\ job = NoJob /\ data = [e \in Ends |-> <<>>]
  /\ offset = Zero /\ passed = Zero /\ done = 0 /\ cut = FALSE
  /\ pc = "none" /\ Quiet

Target == IF job.same THEN "in" ELSE "out"

\* The program starts: an offset it does not pass is the file's own.
Start(j) ==
  /\ pc = "none"
  /\ j.same => j.start["in"] # j.start["out"] /\ j.null # Ends
  /\ job' = j
  /\ data' = [e \in Ends |-> IF e = "in" THEN Original ELSE <<>>]
  /\ offset' = [e \in Ends |-> IF e \in j.null THEN j.start[e] ELSE 0]
  /\ passed' = [e \in Ends |-> IF e \in j.null THEN 0 ELSE j.start[e]]
  /\ pc' = "idle"
  /\ UNCHANGED <<done, cut, locals>>

\* The call returns r bytes; -1 counts as none.
Return(r) ==
  /\ pc' = "idle"
  /\ done' = done + r
  /\ len' = 0 /\ off' = Zero /\ total' = 0 /\ buf' = <<>> /\ written' = 0

\* The program is satisfied, or gives up.
Stop ==
  /\ pc = "idle"
  /\ job' = NoJob /\ data' = [e \in Ends |-> <<>>]
  /\ offset' = Zero /\ passed' = Zero /\ done' = 0 /\ cut' = FALSE /\ pc' = "none"
  /\ UNCHANGED locals

\* The kernel has no such call; the offsets are loaded.
Call ==
  /\ pc = "idle" /\ done < Want
  /\ len' = Want - done
  /\ off' = [e \in Ends |-> IF e \in job.null THEN offset[e] ELSE passed[e]]
  /\ pc' = "read"
  /\ UNCHANGED <<job, data, offset, passed, done, cut, total, buf, written>>

\* What pread finds: n bytes at an offset, or what there is of them.
Bytes(s, at, n) == SubSeq(s, at + 1, IF at + n < Len(s) THEN at + n ELSE Len(s))

Fail ==
  /\ cut' = (cut \/ total > 0)
  /\ Return(total)
  /\ UNCHANGED <<job, data, offset, passed>>

\* pread: an error, the end, or at least one byte.
Read ==
  /\ pc = "read" /\ len > 0
  /\ LET chunk == IF len < Chunk THEN len ELSE Chunk
         full  == Bytes(data["in"], off["in"], chunk)
     IN \/ Fail
        \/ /\ full = <<>> /\ pc' = "seek"
           /\ UNCHANGED <<job, data, offset, passed, done, cut, locals>>
        \/ /\ \E n \in 1..Len(full) : buf' = SubSeq(full, 1, n)
           /\ pc' = "write"
           /\ UNCHANGED <<job, data, offset, passed, done, cut, len, off, total, written>>

\* pwrite extends the file over a hole.
Put(s, at, b) ==
  [i \in 1..(IF at + Len(b) > Len(s) THEN at + Len(b) ELSE Len(s)) |->
     IF i > at /\ i <= at + Len(b) THEN b[i - at] ELSE IF i <= Len(s) THEN s[i] ELSE Hole]

\* Mutant: a short write goes on from the start of the buffer.
WriteAgain ==
  /\ pc = "write" /\ written < Len(buf)
  /\ \/ Fail
     \/ /\ \E n \in 1..(Len(buf) - written) :
             /\ data' = [data EXCEPT ![Target] =
                           Put(@, off["out"] + written, SubSeq(buf, 1, n))]
             /\ written' = written + n
        /\ UNCHANGED <<job, offset, passed, done, cut, pc, len, off, total, buf>>

Write ==
  /\ pc = "write" /\ written < Len(buf)
  /\ \/ Fail
     \/ /\ \E n \in 1..(Len(buf) - written) :
             /\ data' = [data EXCEPT ![Target] =
                           Put(@, off["out"] + written, SubSeq(buf, written + 1, written + n))]
             /\ written' = written + n
        /\ UNCHANGED <<job, offset, passed, done, cut, pc, len, off, total, buf>>

\* A chunk is through: *off_in and *off_out, which may be the program's.
Advance ==
  /\ pc = "write" /\ written = Len(buf)
  /\ off' = [e \in Ends |-> off[e] + Len(buf)]
  /\ passed' = [e \in Ends |-> IF e \in job.null THEN passed[e] ELSE off[e] + Len(buf)]
  /\ total' = total + Len(buf) /\ len' = len - Len(buf)
  /\ buf' = <<>> /\ written' = 0
  /\ pc' = IF len = Len(buf) THEN "seek" ELSE "read"
  /\ UNCHANGED <<job, data, offset, done, cut>>

\* Mutant: both offsets are stored, asked for or not.
SeekBoth ==
  /\ pc = "seek"
  /\ offset' = off
  /\ Return(total)
  /\ UNCHANGED <<job, data, passed, cut>>

Seek ==
  /\ pc = "seek"
  /\ offset' = [e \in Ends |-> IF e \in job.null THEN off[e] ELSE offset[e]]
  /\ Return(total)
  /\ UNCHANGED <<job, data, passed, cut>>

Next == (\E j \in Jobs : Start(j)) \/ Stop \/ Call \/ Read \/ Write \/ Advance \/ Seek

Spec == Init /\ [][Next]_vars

-----------------------------------------------------------------------------
AtRest == pc \in {"none", "idle"}
Begin(e) == job.start[e]
Apart ==
  \/ ~job.same
  \/ Begin("out") + Want <= Begin("in")
  \/ Begin("in") + Want <= Begin("out") /\ Begin("in") + Want <= Size
\* An error after some chunks leaves a file's own offset where it was.
Lost == cut /\ job.null # {}

\* However the copy was cut into calls, chunks, short reads and writes, and
\* wherever it failed and was taken up again: the bytes the calls returned are the
\* bytes of the source, in place.  Exceptions: the two ranges of one file overlap;
\* the copy goes behind the file's end, which it moves, so that later reads find
\* the hole it left; or an error struck after some chunks of a call with a NULL
\* offset, whose offset then is not moved (copy_file_range.c:49,59 return before
\* the lseek).
CopiedExactly ==
  AtRest /\ Apart /\ ~Lost =>
    Bytes(data[Target], Begin("out"), done) = Bytes(Original, Begin("in"), done)

\* Between calls both ends stand as far on as the calls returned, a file whose
\* offset the program keeps itself has not moved, and what was written beyond
\* that is less than one chunk.
OffsetsAgree ==
  AtRest /\ ~Lost =>
    /\ \A e \in Ends : IF e \in job.null THEN offset[e] = Begin(e) + done
                       ELSE passed[e] = Begin(e) + done /\ offset[e] = 0
    /\ ~job.same => Len(data["out"]) < Begin("out") + done + Chunk
=============================================================================
