------------------------------- MODULE Execve ------------------------------
(***************************************************************************)
(* execve.c: the second try of execve through the program interpreter, for *)
(* an ELF file that the WSL1 loader refuses because its PT_LOAD headers    *)
(* have different alignments.  One call, on any file and argument list up  *)
(* to the bounds.  Linux is the reference: it runs such a file.            *)
(***************************************************************************)
EXTENDS Integers, Sequences, SequencesExt

CONSTANTS
  Aligns, MaxPhdrs,     \* p_align values; bound on program headers
  MaxArgs, MaxNewArgv   \* bound on arguments; the size of new_argv

Load(a) == [type |-> "PT_LOAD", align |-> a]
Phdrs   == {Load(a) : a \in Aligns} \cup {[type |-> "PT_INTERP", align |-> 0]}

VARIABLES
  file,     \* elf: an ELF64 with program headers; phdrs; setid; readable
  argc,     \* arguments of the call, argv[0] included
  argv0,    \* the interpreter takes --argv0, and the tunable allows it
  step,     \* where the call is
  err,      \* saved_errno
  fd,       \* the file is open for elf_needs_fixup
  swapped   \* preexec_save is in effect

vars == <<file, argc, argv0, step, err, fd, swapped>>

Init ==
  /\ file \in [elf : BOOLEAN, phdrs : UNION {[1..n -> Phdrs] : n \in 1..MaxPhdrs},
               setid : BOOLEAN, readable : BOOLEAN]
  /\ argc \in 0..MaxArgs /\ argv0 \in BOOLEAN
  /\ step = "call" /\ err = "none" /\ fd = FALSE /\ swapped = FALSE

-----------------------------------------------------------------------------
loads(phdrs) == SelectSeq(phdrs, LAMBDA p : p.type = "PT_LOAD")

\* align is 0 until a header gives it a value.
Base(ls, i) ==
  LET given == {j \in 1..i : ls[j].align # 0} IN
  IF given = {} THEN 0 ELSE ls[CHOOSE j \in given : \A k \in given : j <= k].align

\* Mutant: = for |=, so that the last header decides.
mixed_last(phdrs) ==
  LET ls == loads(phdrs) IN ls # <<>> /\ Last(ls).align # Base(ls, Len(ls))

\* The loop of elf_needs_fixup.
mixed(phdrs) ==
  LET ls == loads(phdrs) IN \E i \in DOMAIN ls : ls[i].align # Base(ls, i)

dynamic(phdrs) == \E i \in DOMAIN phdrs : phdrs[i].type = "PT_INTERP"

elf_needs_fixup(f) == f.elf /\ mixed(f.phdrs) /\ dynamic(f.phdrs)

\* The arguments are argv[0], argv[1], ...
argv == [i \in 1..argc |-> <<"arg", i - 1>>]

Str(s) == <<s>>

\* new_argv before the arguments are copied.
Start ==
  <<Str("interp")>>
    \o (IF argv0 THEN <<Str("--argv0"), IF argc > 0 THEN argv[1] ELSE Str("path")>> ELSE <<>>)
    \o <<Str("path")>>

\* The loop copies argv[1] and on, the null at the end included: argc stores, none
\* if there is no argv[0].
new_argv == Start \o (IF argc > 0 THEN Tail(argv) ELSE <<>>)
TooBig   == argc > 0 /\ Len(Start) + argc >= MaxNewArgv

\* What the program finds as its arguments when the interpreter (external) runs it.
Seen(args) == IF args[2] = Str("--argv0") THEN <<args[3]>> \o SubSeq(args, 5, Len(args))
              ELSE SubSeq(args, 2, Len(args))

-----------------------------------------------------------------------------
Fail(e) == step' = "fail" /\ err' = e
Same    == UNCHANGED <<file, argc, argv0>>

Save == step = "call" /\ step' = "exec" /\ swapped' = TRUE /\ Same /\ UNCHANGED <<err, fd>>

\* The kernel refuses what is no ELF file, and on WSL1 an ELF file whose alignments
\* differ; another failure can always happen.
Differ(f) == \E i, j \in DOMAIN f.phdrs :
  f.phdrs[i].type = "PT_LOAD" /\ f.phdrs[j].type = "PT_LOAD" /\ f.phdrs[i].align # f.phdrs[j].align
Refused(f) == ~f.elf \/ Differ(f)

Exec ==
  /\ step = "exec" /\ Same
  /\ \/ ~Refused(file) /\ step' = "ran" /\ UNCHANGED err
     \/ Refused(file) /\ step' = "open" /\ err' = "ENOEXEC"
     \/ Fail("other")
  /\ UNCHANGED <<fd, swapped>>

Open ==
  /\ step = "open" /\ Same /\ UNCHANGED swapped
  /\ \/ file.readable /\ fd' = TRUE /\ step' = "examine" /\ UNCHANGED err
     \/ ~file.readable /\ Fail("ENOEXEC") /\ UNCHANGED fd

\* fstat and elf_needs_fixup.
Examine ==
  /\ step = "examine" /\ Same /\ UNCHANGED <<fd, swapped>>
  /\ IF file.setid \/ ~elf_needs_fixup(file) THEN Fail("ENOEXEC")
     ELSE IF TooBig THEN Fail("E2BIG")
     ELSE step' = "reexec" /\ UNCHANGED err

Reexec ==
  /\ step = "reexec" /\ Same /\ UNCHANGED <<fd, swapped>>
  /\ (step' = "reran" /\ UNCHANGED err) \/ Fail("other")

\* Mutant: the descriptors are left swapped.
CleanupKept ==
  /\ step = "fail" /\ Same
  /\ fd' = FALSE /\ step' = "failed" /\ UNCHANGED <<err, swapped>>

\* close, preexec_restore.
Cleanup ==
  /\ step = "fail" /\ Same
  /\ fd' = FALSE /\ swapped' = FALSE /\ step' = "failed" /\ UNCHANGED err

Next == Save \/ Exec \/ Open \/ Examine \/ Reexec \/ Cleanup

-----------------------------------------------------------------------------
\* execve runs the program on the arguments it was given, or fails and has undone
\* what it did; it fails with ENOEXEC only for a file that Linux would refuse too.
\* Exceptions, all at execve.c:73-194: a file that cannot be read, a set-id file, a
\* static one, and one whose first alignment is 0 fail as on
\* WSL1; argv[0] is the path without --argv0 or when there was none.
ExecsAsLinux ==
  LET given == IF argc = 0 THEN <<Str("path")>> ELSE IF argv0 THEN argv ELSE <<Str("path")>> \o Tail(argv)
      helped == /\ file.readable /\ ~file.setid /\ dynamic(file.phdrs)
                /\ loads(file.phdrs)[1].align # 0 IN
  /\ step = "reran" => file.elf /\ Seen(new_argv) = given /\ Len(new_argv) < MaxNewArgv
  /\ step = "failed" => ~fd /\ ~swapped
  /\ step = "failed" /\ err = "ENOEXEC" /\ file.elf => ~helped
  /\ step = "failed" /\ err = "E2BIG" => Len(new_argv) + 1 >= MaxNewArgv
=============================================================================
