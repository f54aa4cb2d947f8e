------------------------------ MODULE MCFiles ------------------------------
(***************************************************************************)
(* Instances of Namespace, CopyRange, ProcFile and Mmap.  They share no    *)
(* state: each runs while the other three are at rest.                     *)
(***************************************************************************)
EXTENDS Integers, TLC

CONSTANTS
  Procs, Names, TmpNames, MaxFiles, MaxTime,
  Chunk, CopySize, Want, Starts,
  Threads, ProcSize, OffMax, Counts, Offsets,
  NumPages, NoReplace, Fixed, Locked

VARIABLES
  dir, file, clock, call,
  job, data, offset, passed, done, cut, at, len, off, total, buf, written,
  kind, pos, pc, arg, from, take, start, raced,
  page, back, closed, mapping, dropped

Space == INSTANCE Namespace
Range == INSTANCE CopyRange WITH Size <- CopySize, pc <- at
Proc  == INSTANCE ProcFile WITH Size <- ProcSize
Map   == INSTANCE Mmap WITH call <- mapping

spaceVars == <<dir, file, clock, call>>
rangeVars == <<job, data, offset, passed, done, cut, at, len, off, total, buf, written>>
procVars  == <<kind, pos, pc, arg, from, take, start, raced>>
mapVars   == <<page, back, closed, mapping, dropped>>
vars == <<spaceVars, rangeVars, procVars, mapVars>>

Init == Space!Init /\ Range!Init /\ Proc!Init /\ Map!Init

Next ==
  \/ Range!Init /\ Proc!Init /\ Map!Init /\ Space!Next /\ UNCHANGED <<rangeVars, procVars, mapVars>>
  \/ Space!Init /\ Proc!Init /\ Map!Init /\ Range!Next /\ UNCHANGED <<spaceVars, procVars, mapVars>>
  \/ Space!Init /\ Range!Init /\ Map!Init /\ Proc!Next /\ UNCHANGED <<spaceVars, rangeVars, mapVars>>
  \/ Space!Init /\ Range!Init /\ Proc!Init /\ Map!Next /\ UNCHANGED <<spaceVars, rangeVars, procVars>>

Spec == Init /\ [][Next]_vars

\* Offsets to seek to: none, the first and the last of off_t.
MCOffsets == {-1, 0, OffMax}

\* No behaviour depends on which process, thread or name is which.  (Threads are
\* called like processes: only one of the components runs.)
Symmetry == Permutations(Procs \cup Threads) \cup Permutations(Names)

\* renameat2 with RENAME_NOREPLACE loses no file: see Namespace.
LastNameKept == [][Space!LastNameKept]_spaceVars

\* An O_TMPFILE file is its opener's alone and has no name: see Namespace.
TmpfilePrivate == Space!TmpfilePrivate

\* The birth time open records is that of the file: see Namespace.
BirthRecorded == Space!BirthRecorded

\* statx answers about one file: see Namespace.
StatxOneFile == Space!StatxOneFile

\* copy_file_range copies what it says it copied, and leaves the offsets
\* behind it: see CopyRange.
CopiedExactly == Range!CopiedExactly /\ Range!OffsetsAgree

\* Reads of the files open makes up, and seeks in them: see ProcFile.
ReadsInOrder == [][Proc!ReadsInOrder]_procVars

\* mmap with MAP_FIXED_NOREPLACE spares the mappings of others: see Mmap.
SparesOthers == [][Map!SparesOthers]_mapVars

\* mmap of a wrapped descriptor maps its tty, and mmap leaves behind only what
\* it returns: see Mmap.
MapsItsFile == Map!MapsItsFile /\ Map!NothingLeft
=============================================================================
