-------------------------- MODULE SynthTableProofs --------------------------
(***************************************************************************)
(* Theorems about SynthTable, for every number of threads, slots, fds and  *)
(* inodes, every discipline of the application and every interleaving.     *)
(* First the types, the control invariant (what a thread's place in the    *)
(* code says of its locals), the owners of slots in the transient state    *)
(* and the history of releases; then the counting of references, the       *)
(* theorems, and the refinement of SlotLife.                               *)
(***************************************************************************)
EXTENDS SynthTable, TLAPS, FiniteSetTheorems

\* The steps of an unpin call, and where its thread continues afterwards.
Unpinning == {"unpin", "cleanup", "free", "declive"}
At(t) == IF pc[t] \in Unpinning THEN then[t] ELSE pc[t]

\* What a thread's place in the code says of the slots it has in hand.
ControlAt(t) ==
  /\ mine[t] # NoSlot <=> pc[t] \in {"fill", "publish", "cleanup", "free"}
  /\ tmp[t] # NoSlot <=> \/ pc[t] \in {"compare", "moved"}
                         \/ pc[t] = "unpin" /\ ref[t] = "tmp"
  /\ pc[t] \in Unpinning =>
       then[t] \in {"lookup", "reloc", "droppin", "return", "gccheck"}
  /\ pc[t] = "unpin" =>
       /\ ref[t] = "tmp" => then[t] \in {"lookup", "reloc"}
       /\ ref[t] = "held" => then[t] \in {"return", "gccheck"}
       /\ ref[t] = "producer" => then[t] = "droppin"
  /\ \/ At(t) \in {"use", "post", "droppin"}
     \/ pc[t] = "unpin" /\ ref[t] = "held"
     => held[t] # NoSlot
  /\ held[t] # NoSlot =>
       \/ At(t) \in {"use", "post", "droppin", "syscall"}
       \/ At(t) \in {"reloc", "moved"} /\ op[t] = "close"
       \/ pc[t] = "unpin" /\ ref[t] = "held"
  /\ At(t) \in {"fstat", "reloc", "moved", "syscall"} =>
       op[t] \in {"close", "dup2"} /\ fd[t] # NoFd
  /\ At(t) \in {"lookup", "compare"} =>
       \/ op[t] = "dispatch"
       \/ op[t] \in {"close", "dup2"} /\ fd[t] # NoFd
  /\ At(t) \in {"register", "fill", "gc", "gccheck"} =>
       op[t] = "open"
  /\ op[t] = "open" => key[t] \in Inos

Control == \A t \in Threads : ControlAt(t)

-----------------------------------------------------------------------------
\* The names of the places, calls and references, as members of their sets.
LEMMA Names ==
  /\ "idle" \in Pcs /\ "fstat" \in Pcs /\ "lookup" \in Pcs /\ "compare" \in Pcs
  /\ "use" \in Pcs /\ "reloc" \in Pcs /\ "moved" \in Pcs /\ "syscall" \in Pcs
  /\ "post" \in Pcs /\ "droppin" \in Pcs /\ "register" \in Pcs /\ "fill" \in Pcs
  /\ "publish" \in Pcs /\ "gc" \in Pcs /\ "gccheck" \in Pcs /\ "unpin" \in Pcs
  /\ "cleanup" \in Pcs /\ "free" \in Pcs /\ "declive" \in Pcs /\ "return" \in Pcs
  /\ "none" \in Ops /\ "dispatch" \in Ops /\ "close" \in Ops /\ "dup2" \in Ops
  /\ "open" \in Ops
  /\ "held" \in Refs /\ "tmp" \in Refs /\ "producer" \in Refs
BY SMTT(30) DEF Pcs, Ops, Refs

\* What the helpers return stays in the types.
LEMMA HelperTypes ==
  ASSUME NEW t \in Threads
  PROVE  /\ \A h : AfterLookup(t, h) \in Pcs
         /\ AfterPost(t) \in Pcs
         /\ \A n \in Int : n >= -1 => Dropped(n) \in Int /\ Dropped(n) >= -1
BY SMTT(30) DEF AfterLookup, AfterPost, Dropped, Pcs

\* Every step of every thread preserves the types: PreClose needs Control,
\* which says that the fd it reads is one of the application's.
LEMMA TypeStep == TypeOK /\ Control /\ [Next]_vars => TypeOK'
<1> SUFFICES ASSUME TypeOK, Control, [Next]_vars PROVE TypeOK'
  BY Zenon
<1> USE DEF TypeOK, table, locals, history
<1>1. ASSUME NEW t \in Threads, Return(t) PROVE TypeOK'
  BY <1>1, Names, SMTT(30) DEF Return
<1>2. ASSUME NEW t \in Threads, PreClose(t) PROVE TypeOK'
  <2>1. fd[t] \in Fds
    BY <1>2, TypeOK, Control, Zenon DEF Control, ControlAt, At, Unpinning, PreClose
  <2>2. key' \in [Threads -> Inos \cup {NoIno}]
    BY <1>2, <2>1, Zenon DEF PreClose
  <2> QED
    BY <1>2, Names, HelperTypes, <2>1, <2>2, SMTT(30) DEF PreClose
<1>3. ASSUME NEW t \in Threads, LookupPin(t) PROVE TypeOK'
  BY <1>3, Names, SMTT(30) DEF LookupPin, Pin
<1>4. ASSUME NEW t \in Threads, LookupSkip(t) PROVE TypeOK'
  BY <1>4, SMTT(30) DEF LookupSkip
<1>5. ASSUME NEW t \in Threads, LookupFail(t) PROVE TypeOK'
  BY <1>5, Names, HelperTypes, SMTT(30) DEF LookupFail
<1>6. ASSUME NEW t \in Threads, LookupHit(t) PROVE TypeOK'
  BY <1>6, Names, HelperTypes, SMTT(30) DEF LookupHit
<1>7. ASSUME NEW t \in Threads, LookupMiss(t) PROVE TypeOK'
  BY <1>7, Names, SMTT(30) DEF LookupMiss, CallUnpin
<1>8. ASSUME NEW t \in Threads, UseDone(t) PROVE TypeOK'
  BY <1>8, Names, Zenon DEF UseDone, CallUnpin
<1>9. ASSUME NEW t \in Threads, RelocPin(t) PROVE TypeOK'
  BY <1>9, Names, SMTT(30) DEF RelocPin, Pin
<1>10. ASSUME NEW t \in Threads, RelocUnpin(t) PROVE TypeOK'
  BY <1>10, Names, SMTT(30) DEF RelocUnpin, CallUnpin
<1>11. ASSUME NEW t \in Threads, RelocSkip(t) PROVE TypeOK'
  BY <1>11, SMTT(30) DEF RelocSkip
<1>12. ASSUME NEW t \in Threads, RelocDone(t) PROVE TypeOK'
  BY <1>12, Names, SMTT(30) DEF RelocDone
<1>13. ASSUME NEW t \in Threads, Syscall(t) PROVE TypeOK'
  BY <1>13, Names, ZenonT(30) DEF Syscall, AfterSyscall
<1>14. ASSUME NEW t \in Threads, PostClose(t) PROVE TypeOK'
  BY <1>14, Names, HelperTypes, SMTT(30) DEF PostClose, CallUnpin
<1>15. ASSUME NEW t \in Threads, DropPin(t) PROVE TypeOK'
  BY <1>15, Names, HelperTypes, Zenon DEF DropPin, CallUnpin
<1>16. ASSUME NEW t \in Threads, Unpin(t) PROVE TypeOK'
  <2>1. refcount' \in [Slots -> Int] /\ \A s \in Slots : refcount'[s] >= -1
    BY <1>16, HelperTypes, ZenonT(30) DEF Unpin
  <2>2. held' \in [Threads -> Slots \cup {NoSlot}] /\ tmp' \in [Threads -> Slots \cup {NoSlot}]
    BY <1>16, Zenon DEF Unpin, Forget
  <2>3. prod' \in [Slots -> BOOLEAN] /\ doubled' \in BOOLEAN
    BY <1>16, ZenonT(30) DEF Unpin, Forget
  <2>4. mine' \in [Threads -> Slots \cup {NoSlot}]
    BY <1>16, Zenon DEF Unpin, UnpinTarget
  <2>5. pc' \in [Threads -> Pcs]
    BY <1>16, Names, Zenon DEF Unpin
  <2> QED
    BY <1>16, Names, HelperTypes, <2>1, <2>2, <2>3, <2>4, <2>5, Zenon DEF Unpin
<1>17. ASSUME NEW t \in Threads, Cleanup(t) PROVE TypeOK'
  <2>1. mine[t] \in Slots
    BY <1>17, Control, Zenon DEF Control, ControlAt, Cleanup
  <2>2. released' \in [Slots -> Nat]
    BY <1>17, <2>1, SMTT(30) DEF Cleanup
  <2>3. probed' \subseteq Inos
    BY <1>17, <2>1, <2>2, Zenon DEF Cleanup
  <2> QED
    BY <1>17, Names, <2>1, <2>2, <2>3, Zenon DEF Cleanup
<1>18. ASSUME NEW t \in Threads, Free(t) PROVE TypeOK'
  <2>1. mine[t] \in Slots
    BY <1>18, Control, Zenon DEF Control, ControlAt, Free
  <2>2. refcount' \in [Slots -> Int] /\ \A s \in Slots : refcount'[s] >= -1
    BY <1>18, <2>1, SMTT(30) DEF Free
  <2> QED
    BY <1>18, Names, <2>1, <2>2, Zenon DEF Free
<1>19. ASSUME NEW t \in Threads, DecLive(t) PROVE TypeOK'
  BY <1>19, Names, SMTT(30) DEF DecLive
<1>20. ASSUME NEW t \in Threads, RegisterClaim(t) PROVE TypeOK'
  BY <1>20, Names, SMTT(30) DEF RegisterClaim
<1>21. ASSUME NEW t \in Threads, RegisterSkip(t) PROVE TypeOK'
  BY <1>21, SMTT(30) DEF RegisterSkip
<1>22. ASSUME NEW t \in Threads, RegisterFull(t) PROVE TypeOK'
  BY <1>22, Names, SMTT(30) DEF RegisterFull
<1>23. ASSUME NEW t \in Threads, RegisterFill(t) PROVE TypeOK'
  <2>1. released' \in [Slots -> Nat]
    BY <1>23, ZenonT(30) DEF RegisterFill
  <2>2. ino' \in [Slots -> Inos \cup {NoIno}]
    BY <1>23, ZenonT(30) DEF RegisterFill
  <2> QED
    BY <1>23, Names, <2>1, <2>2, SMTT(30) DEF RegisterFill
<1>24. ASSUME NEW t \in Threads, RegisterPublish(t) PROVE TypeOK'
  <2>1. mine[t] \in Slots
    BY <1>24, Control, Zenon DEF Control, ControlAt, RegisterPublish
  <2>2. refcount' \in [Slots -> Int] /\ \A s \in Slots : refcount'[s] >= -1
    BY <1>24, <2>1, SMTT(30) DEF RegisterPublish
  <2>3. prod' \in [Slots -> BOOLEAN]
    BY <1>24, <2>1, <2>2, Zenon DEF RegisterPublish
  <2> QED
    BY <1>24, Names, <2>1, <2>2, <2>3, Zenon DEF RegisterPublish
<1>25. ASSUME NEW t \in Threads, GcPin(t) PROVE TypeOK'
  BY <1>25, Names, SMTT(30) DEF GcPin, Pin
<1>26. ASSUME NEW t \in Threads, GcSkip(t) PROVE TypeOK'
  BY <1>26, SMTT(30) DEF GcSkip
<1>27. ASSUME NEW t \in Threads, GcCheck(t) PROVE TypeOK'
  BY <1>27, Names, SMTT(30) DEF GcCheck
<1>28. ASSUME NEW t \in Threads, OpenFail(t) PROVE TypeOK'
  BY <1>28, Names, ZenonT(30) DEF OpenFail
<1>29. ASSUME NEW t \in Threads, NEW f \in Fds, Dispatch(t, f) PROVE TypeOK'
  BY <1>29, Names, Zenon DEF Dispatch, Call
<1>30. ASSUME NEW t \in Threads, NEW f \in Fds, Close(t, f) PROVE TypeOK'
  BY <1>30, Names, Zenon DEF Close, Call
<1>31. ASSUME NEW t \in Threads, NEW f \in Fds, NEW g \in Fds, Dup2(t, g, f) PROVE TypeOK'
  BY <1>31, Names, Zenon DEF Dup2, Call
<1>32. ASSUME NEW t \in Threads, NEW f \in Fds, NEW k \in Inos, Open(t, f, k) PROVE TypeOK'
  BY <1>32, Names, Zenon DEF Open, Call
<1>33. ASSUME NEW f \in Fds, NEW g \in Fds, Dup(f, g) PROVE TypeOK'
  BY <1>33, Zenon DEF Dup
<1>34. ASSUME NEW f \in Fds, SyscallClose(f) PROVE TypeOK'
  BY <1>34, Zenon DEF SyscallClose
<1>35. CASE UNCHANGED vars
  BY <1>35, Zenon DEF vars
<1> QED
  <2> HIDE DEF TypeOK
  <2> QED
    BY Zenon, <1>1, <1>2, <1>3, <1>4, <1>5, <1>6, <1>7, <1>8, <1>9, <1>10,
       <1>11, <1>12, <1>13, <1>14, <1>15, <1>16, <1>17, <1>18, <1>19, <1>20,
       <1>21, <1>22, <1>23, <1>24, <1>25, <1>26, <1>27, <1>28, <1>29, <1>30,
       <1>31, <1>32, <1>33, <1>34, <1>35
    DEF Next, Step, Begin, Kernel

-----------------------------------------------------------------------------
\* Every step keeps Control: it changes the locals of one thread, in the
\* order the code prescribes.
LEMMA ControlStep == TypeOK /\ Control /\ [Next]_vars => Control'
<1> SUFFICES ASSUME TypeOK, Control, [Next]_vars, NEW u \in Threads
             PROVE ControlAt(u)'
  BY Zenon DEF Control
<1> USE DEF TypeOK, Control, ControlAt, At, Unpinning, table, locals, history
<1>1. ASSUME NEW t \in Threads, Return(t) PROVE ControlAt(u)'
  BY <1>1, SMTT(30) DEF Return
<1>2. ASSUME NEW t \in Threads, PreClose(t) PROVE ControlAt(u)'
  BY <1>2, SMTT(30) DEF PreClose, AfterLookup
<1>3. ASSUME NEW t \in Threads, LookupPin(t) PROVE ControlAt(u)'
  <2>1. cur[t] # NoSlot
    BY <1>3, Zenon DEF LookupPin, Slots, NoSlot
  <2> QED BY <1>3, <2>1, SMTT(30) DEF LookupPin, Pin
<1>4. ASSUME NEW t \in Threads, LookupSkip(t) PROVE ControlAt(u)'
  BY <1>4, SMTT(30) DEF LookupSkip
<1>5. ASSUME NEW t \in Threads, LookupFail(t) PROVE ControlAt(u)'
  BY <1>5, SMTT(30) DEF LookupFail, AfterLookup
<1>6. ASSUME NEW t \in Threads, LookupHit(t) PROVE ControlAt(u)'
  BY <1>6, SMTT(30) DEF LookupHit, AfterLookup
<1>7. ASSUME NEW t \in Threads, LookupMiss(t) PROVE ControlAt(u)'
  BY <1>7, SMTT(30) DEF LookupMiss, CallUnpin
<1>8. ASSUME NEW t \in Threads, UseDone(t) PROVE ControlAt(u)'
  BY <1>8, SMTT(30) DEF UseDone, CallUnpin
<1>9. ASSUME NEW t \in Threads, RelocPin(t) PROVE ControlAt(u)'
  <2>1. cur[t] # NoSlot
    BY <1>9, Zenon DEF RelocPin, Slots, NoSlot
  <2> QED BY <1>9, <2>1, SMTT(30) DEF RelocPin, Pin
<1>10. ASSUME NEW t \in Threads, RelocUnpin(t) PROVE ControlAt(u)'
  BY <1>10, SMTT(30) DEF RelocUnpin, CallUnpin
<1>11. ASSUME NEW t \in Threads, RelocSkip(t) PROVE ControlAt(u)'
  BY <1>11, SMTT(30) DEF RelocSkip
<1>12. ASSUME NEW t \in Threads, RelocDone(t) PROVE ControlAt(u)'
  BY <1>12, SMTT(30) DEF RelocDone
<1>13. ASSUME NEW t \in Threads, Syscall(t) PROVE ControlAt(u)'
  BY <1>13, SMTT(30) DEF Syscall
<1>14. ASSUME NEW t \in Threads, PostClose(t) PROVE ControlAt(u)'
  BY <1>14, SMTT(30) DEF PostClose, CallUnpin, AfterPost
<1>15. ASSUME NEW t \in Threads, DropPin(t) PROVE ControlAt(u)'
  BY <1>15, SMTT(30) DEF DropPin, CallUnpin, AfterPost
<1>16. ASSUME NEW t \in Threads, Unpin(t) PROVE ControlAt(u)'
  <2>1. UnpinTarget(t) # NoSlot
    BY <1>16, Zenon DEF Unpin, UnpinTarget, Refs
  <2>2. CASE u # t
    BY <1>16, <2>2, SMTT(30) DEF Unpin, Forget
  <2>3. CASE u = t /\ refcount[UnpinTarget(t)] = 1
    BY <1>16, <2>1, <2>3, SMTT(30) DEF Unpin, Forget
  <2>4. CASE u = t /\ refcount[UnpinTarget(t)] # 1
    BY <1>16, <2>4, SMTT(30) DEF Unpin, Forget
  <2> QED BY <2>2, <2>3, <2>4, Zenon
<1>17. ASSUME NEW t \in Threads, Cleanup(t) PROVE ControlAt(u)'
  BY <1>17, SMTT(30) DEF Cleanup
<1>18. ASSUME NEW t \in Threads, Free(t) PROVE ControlAt(u)'
  BY <1>18, SMTT(30) DEF Free
<1>19. ASSUME NEW t \in Threads, DecLive(t) PROVE ControlAt(u)'
  BY <1>19, SMTT(30) DEF DecLive
<1>20. ASSUME NEW t \in Threads, RegisterClaim(t) PROVE ControlAt(u)'
  <2>1. cur[t] # NoSlot
    BY <1>20, SMTT(30) DEF RegisterClaim, Slots, NoSlot
  <2> QED BY <1>20, <2>1, SMTT(30) DEF RegisterClaim
<1>21. ASSUME NEW t \in Threads, RegisterSkip(t) PROVE ControlAt(u)'
  BY <1>21, ZenonT(30) DEF RegisterSkip
<1>22. ASSUME NEW t \in Threads, RegisterFull(t) PROVE ControlAt(u)'
  BY <1>22, SMTT(30) DEF RegisterFull
<1>23. ASSUME NEW t \in Threads, RegisterFill(t) PROVE ControlAt(u)'
  BY <1>23, SMTT(30) DEF RegisterFill
<1>24. ASSUME NEW t \in Threads, RegisterPublish(t) PROVE ControlAt(u)'
  BY <1>24, SMTT(30) DEF RegisterPublish
<1>25. ASSUME NEW t \in Threads, GcPin(t) PROVE ControlAt(u)'
  <2>1. cur[t] # NoSlot
    BY <1>25, Zenon DEF GcPin, Slots, NoSlot
  <2> QED BY <1>25, <2>1, SMTT(30) DEF GcPin, Pin
<1>26. ASSUME NEW t \in Threads, GcSkip(t) PROVE ControlAt(u)'
  BY <1>26, SMTT(30) DEF GcSkip
<1>27. ASSUME NEW t \in Threads, GcCheck(t) PROVE ControlAt(u)'
  BY <1>27, SMTT(30) DEF GcCheck
<1>28. ASSUME NEW t \in Threads, OpenFail(t) PROVE ControlAt(u)'
  BY <1>28, ZenonT(30) DEF OpenFail
<1>29. ASSUME NEW t \in Threads, NEW f \in Fds, Dispatch(t, f) PROVE ControlAt(u)'
  BY <1>29, ZenonT(30) DEF Dispatch, Call
<1>30. ASSUME NEW t \in Threads, NEW f \in Fds, Close(t, f) PROVE ControlAt(u)'
  BY <1>30, NoFdAssumption, ZenonT(30) DEF Close, Call
<1>31. ASSUME NEW t \in Threads, NEW f \in Fds, NEW g \in Fds, Dup2(t, g, f) PROVE ControlAt(u)'
  BY <1>31, NoFdAssumption, ZenonT(30) DEF Dup2, Call
<1>32. ASSUME NEW t \in Threads, NEW f \in Fds, NEW k \in Inos, Open(t, f, k) PROVE ControlAt(u)'
  BY <1>32, NoFdAssumption, SMTT(30) DEF Open, Call
<1>33. CASE UNCHANGED locals
  BY <1>33, SMTT(30)
<1> QED
  <2> HIDE DEF TypeOK, Control, ControlAt
  <2> QED
    BY Zenon, <1>1, <1>2, <1>3, <1>4, <1>5, <1>6, <1>7, <1>8, <1>9, <1>10,
       <1>11, <1>12, <1>13, <1>14, <1>15, <1>16, <1>17, <1>18, <1>19, <1>20,
       <1>21, <1>22, <1>23, <1>24, <1>25, <1>26, <1>27, <1>28, <1>29, <1>30,
       <1>31, <1>32, <1>33
    DEF Next, Step, Begin, Kernel, Dup, SyscallClose, vars

-----------------------------------------------------------------------------
\* What release has been called for, slot by slot.
Releases ==
  /\ ReleaseOnce
  /\ \A t \in Threads :
       /\ pc[t] \in {"publish", "cleanup"} => released[mine[t]] = 0
       /\ pc[t] = "free" => released[mine[t]] = 1

\* A step that leaves the table's reference counts and the threads' hold on
\* it alone, and brings no thread into a handler or a cleanup.
Quiet ==
  /\ UNCHANGED <<refcount, ino, held, tmp, mine, history>>
  /\ \A u \in Threads :
       pc'[u] \in {"fill", "publish", "cleanup", "free", "use"} =>
         pc'[u] = pc[u] /\ key'[u] = key[u]

\* The steps of Next that are not quiet.
Loud(t) ==
  \/ LookupPin(t) \/ RelocPin(t) \/ GcPin(t) \/ LookupHit(t)
  \/ Unpin(t) \/ Cleanup(t) \/ Free(t)
  \/ RegisterClaim(t) \/ RegisterFill(t) \/ RegisterPublish(t)

\* Ten of the actions touch the reference counts; all the others, and the
\* kernel's, are quiet.
LEMMA QuietOrLoud ==
  ASSUME TypeOK, Control, [Next]_vars
  PROVE  Quiet \/ \E t \in Threads : Loud(t)
<1> USE DEF table, locals, history
<1>1. ASSUME NEW t \in Threads, Return(t) PROVE Quiet
  BY <1>1, Zenon DEF TypeOK, Quiet, Return
<1>2. ASSUME NEW t \in Threads, PreClose(t) PROVE Quiet
  BY <1>2, SMTT(30) DEF TypeOK, Quiet, PreClose, AfterLookup
<1>3. ASSUME NEW t \in Threads, LookupSkip(t) PROVE Quiet
  BY <1>3, Zenon DEF TypeOK, Quiet, LookupSkip
<1>4. ASSUME NEW t \in Threads, LookupFail(t) PROVE Quiet
  BY <1>4, Zenon DEF TypeOK, Quiet, LookupFail, AfterLookup
<1>5. ASSUME NEW t \in Threads, LookupMiss(t) PROVE Quiet
  BY <1>5, Zenon DEF TypeOK, Quiet, LookupMiss, CallUnpin
<1>6. ASSUME NEW t \in Threads, UseDone(t) PROVE Quiet
  BY <1>6, Zenon DEF TypeOK, Quiet, UseDone, CallUnpin
<1>7. ASSUME NEW t \in Threads, RelocUnpin(t) PROVE Quiet
  BY <1>7, Zenon DEF TypeOK, Quiet, RelocUnpin, CallUnpin
<1>8. ASSUME NEW t \in Threads, RelocSkip(t) PROVE Quiet
  BY <1>8, Zenon DEF TypeOK, Quiet, RelocSkip
<1>9. ASSUME NEW t \in Threads, RelocDone(t) PROVE Quiet
  BY <1>9, Zenon DEF TypeOK, Quiet, RelocDone
<1>10. ASSUME NEW t \in Threads, Syscall(t) PROVE Quiet
  BY <1>10, Zenon DEF TypeOK, Quiet, Syscall
<1>11. ASSUME NEW t \in Threads, PostClose(t) PROVE Quiet
  BY <1>11, SMTT(30) DEF TypeOK, Quiet, PostClose, CallUnpin
<1>12. ASSUME NEW t \in Threads, DropPin(t) PROVE Quiet
  BY <1>12, Zenon DEF TypeOK, Quiet, DropPin, CallUnpin
<1>13. ASSUME NEW t \in Threads, DecLive(t) PROVE Quiet
  BY <1>13, Zenon DEF TypeOK, Quiet, DecLive, Control, ControlAt, Unpinning
<1>14. ASSUME NEW t \in Threads, RegisterSkip(t) PROVE Quiet
  BY <1>14, Zenon DEF TypeOK, Quiet, RegisterSkip
<1>15. ASSUME NEW t \in Threads, RegisterFull(t) PROVE Quiet
  BY <1>15, Zenon DEF TypeOK, Quiet, RegisterFull
<1>16. ASSUME NEW t \in Threads, GcSkip(t) PROVE Quiet
  BY <1>16, Zenon DEF TypeOK, Quiet, GcSkip
<1>17. ASSUME NEW t \in Threads, GcCheck(t) PROVE Quiet
  BY <1>17, SMTT(30) DEF TypeOK, Quiet, GcCheck
<1>18. ASSUME NEW t \in Threads, OpenFail(t) PROVE Quiet
  BY <1>18, Zenon DEF TypeOK, Quiet, OpenFail
<1>19. ASSUME NEW t \in Threads, NEW f \in Fds, Dispatch(t, f) PROVE Quiet
  BY <1>19, Zenon DEF TypeOK, Quiet, Dispatch, Call
<1>20. ASSUME NEW t \in Threads, NEW f \in Fds, Close(t, f) PROVE Quiet
  BY <1>20, Zenon DEF TypeOK, Quiet, Close, Call
<1>21. ASSUME NEW t \in Threads, NEW f \in Fds, NEW g \in Fds, Dup2(t, g, f) PROVE Quiet
  BY <1>21, Zenon DEF TypeOK, Quiet, Dup2, Call
<1>22. ASSUME NEW t \in Threads, NEW f \in Fds, NEW k \in Inos, Open(t, f, k) PROVE Quiet
  BY <1>22, Zenon DEF TypeOK, Quiet, Open, Call
<1>23. CASE UNCHANGED <<table, locals, history>>
  BY <1>23, Zenon DEF Quiet
<1> QED
  BY Zenon, <1>1, <1>2, <1>3, <1>4, <1>5, <1>6, <1>7, <1>8, <1>9, <1>10,
     <1>11, <1>12, <1>13, <1>14, <1>15, <1>16, <1>17, <1>18, <1>19, <1>20,
     <1>21, <1>22, <1>23
  DEF Next, Step, Begin, Kernel, Loud, Dup, SyscallClose, vars

\* The slot an unpin call works on is a slot of the table.
LEMMA UnpinTargetSlot ==
  ASSUME TypeOK, Control, NEW t \in Threads, pc[t] = "unpin"
  PROVE  UnpinTarget(t) \in Slots
BY SMTT(30) DEF TypeOK, Control, ControlAt, At, Unpinning, UnpinTarget, Refs

\* A slot a thread has moved to -1 is a slot of the table.
LEMMA MineSlot ==
  ASSUME TypeOK, NEW t \in Threads, mine[t] # NoSlot
  PROVE  mine[t] \in Slots
BY Zenon DEF TypeOK

\* A thread that fills a slot registers an inode of its own.
LEMMA FillsWithIno ==
  ASSUME Control, NEW t \in Threads, pc[t] = "fill"
  PROVE  key[t] \in Inos
<1>1. At(t) = "fill"
  BY Zenon DEF At, Unpinning
<1>2. ControlAt(t)
  BY Zenon DEF Control
<1> QED BY <1>1, <1>2, Zenon DEF ControlAt

\* 0 is not the number of a slot.
LEMMA NoSlotIsNone == NoSlot \notin Slots
BY SMTT(30) DEF NoSlot, Slots

\* Every step keeps the transient state -1 a lock: register and unpin enter
\* it from a state no thread owns, publish and free leave it.
LEMMA OwnerStep == TypeOK /\ Control /\ OneOwner /\ [Next]_vars => OneOwner'
<1> SUFFICES ASSUME TypeOK, Control, OneOwner, [Next]_vars PROVE OneOwner'
  BY Zenon
<1>1. CASE Quiet
  BY <1>1, Zenon DEF OneOwner, Quiet
<1>2. ASSUME NEW t \in Threads, LookupPin(t) \/ RelocPin(t) \/ GcPin(t) PROVE OneOwner'
  <2>1. mine' = mine
    BY <1>2, Zenon DEF LookupPin, RelocPin, GcPin
  <2>2. cur[t] \in Slots /\ Pinnable(cur[t]) /\ Pin(cur[t])
    BY <1>2, Zenon DEF LookupPin, RelocPin, GcPin
  <2>3. \A s \in Slots : refcount'[s] = -1 <=> refcount[s] = -1
    BY <2>2, SMTT(30) DEF TypeOK, Pin, Pinnable
  <2> QED BY <2>1, <2>3, MineSlot, Zenon DEF OneOwner
<1>3. ASSUME NEW t \in Threads, LookupHit(t) \/ Cleanup(t) \/ RegisterFill(t) PROVE OneOwner'
  BY <1>3, ZenonT(30) DEF OneOwner, LookupHit, Cleanup, RegisterFill, table
<1>4. ASSUME NEW t \in Threads, Unpin(t) PROVE OneOwner'
  <2> DEFINE s == UnpinTarget(t)
  <2>1. s \in Slots /\ mine[t] = NoSlot
    BY <1>4, UnpinTargetSlot, ZenonT(30) DEF Control, ControlAt, Unpin
  <2>2. \A u \in Threads : mine[u] = s => refcount[s] = -1
    BY <2>1, NoSlotIsNone, SMTT(30) DEF OneOwner
  <2>3. mine' = [mine EXCEPT ![t] = IF refcount[s] = 1 THEN s ELSE @]
    BY <1>4, Zenon DEF Unpin
  <2>4. refcount' = [refcount EXCEPT ![s] = Dropped(@)]
    BY <1>4, Zenon DEF Unpin
  <2> HIDE DEF s
  <2>5. CASE refcount[s] = 1
    <3>1. refcount'[s] = -1 /\ \A r \in Slots : r # s => refcount'[r] = refcount[r]
      BY <2>1, <2>4, <2>5, Zenon DEF Dropped, TypeOK
    <3>2. mine'[t] = s /\ \A u \in Threads : u # t => mine'[u] = mine[u]
      BY <2>3, <2>5, Zenon DEF TypeOK
    <3> QED BY <2>1, <2>2, <2>5, <3>1, <3>2, MineSlot, NoSlotIsNone, SMTT(30) DEF OneOwner
  <2>6. CASE refcount[s] # 1
    <3>1. \A r \in Slots : refcount'[r] = -1 <=> refcount[r] = -1
      BY <2>1, <2>4, <2>6, SMTT(30) DEF Dropped, TypeOK
    <3>2. mine' = mine
      BY <2>3, <2>6, Zenon DEF TypeOK
    <3> QED BY <3>1, <3>2, MineSlot, Zenon DEF OneOwner
  <2> QED BY <2>5, <2>6, Zenon
<1>5. ASSUME NEW t \in Threads, Free(t) PROVE OneOwner'
  <2>1. mine[t] # NoSlot /\ mine[t] \in Slots
    BY <1>5, MineSlot, Zenon DEF Control, ControlAt, Free
  <2>2. refcount'[mine[t]] = 0 /\ \A r \in Slots : r # mine[t] => refcount'[r] = refcount[r]
    BY <1>5, <2>1, Zenon DEF TypeOK, Free
  <2>3. mine'[t] = NoSlot /\ \A u \in Threads : u # t => mine'[u] = mine[u]
    BY <1>5, Zenon DEF TypeOK, Free
  <2> QED BY <2>1, <2>2, <2>3, MineSlot, SMTT(30) DEF OneOwner
<1>6. ASSUME NEW t \in Threads, RegisterClaim(t) PROVE OneOwner'
  <2> DEFINE s == cur[t]
  <2>1. s \in Slots /\ refcount[s] = 0 /\ mine[t] = NoSlot
    BY <1>6, Zenon DEF Control, ControlAt, RegisterClaim
  <2>2. refcount'[s] = -1 /\ \A r \in Slots : r # s => refcount'[r] = refcount[r]
    BY <1>6, <2>1, Zenon DEF TypeOK, RegisterClaim
  <2>3. mine'[t] = s /\ \A u \in Threads : u # t => mine'[u] = mine[u]
    BY <1>6, Zenon DEF TypeOK, RegisterClaim
  <2> HIDE DEF s
  <2> QED BY <2>1, <2>2, <2>3, MineSlot, NoSlotIsNone, SMTT(30) DEF OneOwner
<1>7. ASSUME NEW t \in Threads, RegisterPublish(t) PROVE OneOwner'
  <2>1. mine[t] # NoSlot /\ mine[t] \in Slots
    BY <1>7, MineSlot, Zenon DEF Control, ControlAt, RegisterPublish
  <2>2. refcount'[mine[t]] = 1 /\ \A r \in Slots : r # mine[t] => refcount'[r] = refcount[r]
    BY <1>7, <2>1, Zenon DEF TypeOK, RegisterPublish
  <2>3. mine'[t] = NoSlot /\ \A u \in Threads : u # t => mine'[u] = mine[u]
    BY <1>7, Zenon DEF TypeOK, RegisterPublish
  <2> QED BY <2>1, <2>2, <2>3, MineSlot, SMTT(30) DEF OneOwner
<1> QED
  BY <1>1, <1>2, <1>3, <1>4, <1>5, <1>6, <1>7, QuietOrLoud, Zenon DEF Loud

\* Every step keeps the account of releases: only the cleaner of a slot
\* calls release, once, between the last unpin and the return to free.
LEMMA ReleaseStep ==
  TypeOK /\ Control /\ OneOwner /\ Releases /\ [Next]_vars => Releases'
<1> SUFFICES ASSUME TypeOK, Control, OneOwner, Releases, [Next]_vars
             PROVE  Releases'
  BY Zenon
<1> USE DEF Releases, ReleaseOnce
<1>0. /\ refcount \in [Slots -> Int]
      /\ ino \in [Slots -> Inos \cup {NoIno}]
      /\ released \in [Slots -> Nat]
      /\ pc \in [Threads -> Pcs]
      /\ mine \in [Threads -> Slots \cup {NoSlot}]
      /\ \A u \in Threads :
           mine[u] # NoSlot <=> pc[u] \in {"fill", "publish", "cleanup", "free"}
  BY Zenon DEF TypeOK, Control, ControlAt
<1>1. CASE Quiet
  BY <1>1, ZenonT(30) DEF Quiet, history
<1>2. ASSUME NEW t \in Threads, LookupPin(t) \/ RelocPin(t) \/ GcPin(t) PROVE Releases'
  BY <1>2, SMTT(30) DEF TypeOK, LookupPin, RelocPin, GcPin, Pin, Pinnable, history
<1>3. ASSUME NEW t \in Threads, LookupHit(t) PROVE Releases'
  BY <1>3, Zenon DEF TypeOK, LookupHit, AfterLookup, table, history
<1>4. ASSUME NEW t \in Threads, Unpin(t) PROVE Releases'
  <2> DEFINE s == UnpinTarget(t)
  <2>1. s \in Slots
    BY <1>4, UnpinTargetSlot, ZenonT(30) DEF Unpin
  <2>2. \A r \in Slots : /\ refcount'[r] > 0 => refcount[r] > 0
                         /\ refcount'[r] = 0 => refcount[r] = 0
    BY <1>4, <2>1, SMTT(30) DEF Unpin, Dropped, TypeOK
  <2>3. ReleaseOnce'
    BY <1>4, <2>2, ZenonT(30) DEF Unpin
  <2>4. ASSUME NEW u \in Threads, u # t
        PROVE  pc'[u] = pc[u] /\ mine'[u] = mine[u]
    BY <1>4, <2>4, Zenon DEF Unpin, TypeOK
  <2>5. CASE refcount[s] = 1
    <3>1. pc'[t] = "cleanup" /\ mine'[t] = s /\ released[s] = 0
      BY <1>4, <2>1, <2>5, SMTT(30) DEF Unpin, TypeOK
    <3> QED BY <1>4, <2>3, <2>4, <3>1, SMTT(30) DEF Unpin
  <2>6. CASE refcount[s] # 1
    <3>1. pc'[t] \notin {"publish", "cleanup", "free"}
      BY <1>4, <2>6, Zenon DEF Unpin, TypeOK, Control, ControlAt, Unpinning
    <3> QED BY <1>4, <2>3, <2>4, <3>1, SMTT(30) DEF Unpin
  <2> QED BY <2>5, <2>6, ZenonT(30)
<1>5. ASSUME NEW t \in Threads, Cleanup(t) PROVE Releases'
  BY <1>0, <1>5, SMTT(30) DEF OneOwner, Cleanup
<1>6. ASSUME NEW t \in Threads, Free(t) PROVE Releases'
  BY <1>0, <1>6, SMTT(30) DEF OneOwner, Free, history
<1>7. ASSUME NEW t \in Threads, RegisterClaim(t) PROVE Releases'
  BY <1>0, <1>7, SMTT(30) DEF OneOwner, RegisterClaim, history
<1>8. ASSUME NEW t \in Threads, RegisterFill(t) PROVE Releases'
  BY <1>0, <1>8, SMTT(30) DEF OneOwner, RegisterFill
<1>9. ASSUME NEW t \in Threads, RegisterPublish(t) PROVE Releases'
  BY <1>0, <1>9, SMTT(30) DEF OneOwner, RegisterPublish
<1> QED
  BY <1>1, <1>2, <1>3, <1>4, <1>5, <1>6, <1>7, <1>8, <1>9, QuietOrLoud, ZenonT(30) DEF Loud


\* How many threads have s in the per-thread variable f.
Count(f, s) == Cardinality({u \in Threads : f[u] = s})

\* Updating f at one thread moves that thread between the sets Count counts.
LEMMA CountUpdate ==
  ASSUME NEW f, NEW g, NEW t \in Threads, NEW s,
         \A u \in Threads : u # t => g[u] = f[u]
  PROVE  /\ Count(f, s) \in Nat /\ Count(g, s) \in Nat
         /\ (g[t] = s <=> f[t] = s) => Count(g, s) = Count(f, s)
         /\ g[t] = s /\ f[t] # s => Count(g, s) = Count(f, s) + 1
         /\ g[t] # s /\ f[t] = s => Count(g, s) = Count(f, s) - 1
<1> DEFINE A == {u \in Threads : f[u] = s}
           B == {u \in Threads : g[u] = s}
<1>1. IsFiniteSet(A) /\ Cardinality(A) \in Nat
  BY ThreadsAssumption, FS_Subset, FS_CardinalityType, Zenon
<1>2. IsFiniteSet(A \ {t}) /\ Cardinality(A \ {t}) \in Nat
  BY <1>1, FS_RemoveElement, FS_CardinalityType, ZenonT(30)
<1>3. Cardinality(A) = Cardinality(A \ {t}) + (IF f[t] = s THEN 1 ELSE 0)
  <2>1. CASE f[t] = s
    <3>1. Cardinality(A \ {t}) = Cardinality(A) - 1
      <4>1. t \in A
        BY <2>1, Zenon
      <4> HIDE DEF A
      <4> QED BY <1>1, <4>1, FS_RemoveElement, Zenon
    <3> HIDE DEF A
    <3> QED BY <1>1, <2>1, <3>1, SMTT(30)
  <2>2. CASE f[t] # s
    <3>1. A \ {t} = A
      BY <2>2, Zenon
    <3> QED BY <1>1, <2>2, <3>1, SMTT(30)
  <2> QED BY <2>1, <2>2, Zenon
<1>4. Cardinality(B) = Cardinality(A \ {t}) + (IF g[t] = s THEN 1 ELSE 0)
  <2>1. CASE g[t] = s
    <3>1. B = (A \ {t}) \cup {t}
      BY <2>1, Zenon
    <3>2. t \notin A \ {t}
      BY Zenon
    <3>3. Cardinality((A \ {t}) \cup {t}) = Cardinality(A \ {t}) + 1
      BY <1>2, <3>2, FS_AddElement, Zenon
    <3> QED BY <2>1, <3>1, <3>3, Zenon
  <2>2. CASE g[t] # s
    <3>1. B = A \ {t}
      BY <2>2, Zenon
    <3> QED BY <1>2, <2>2, <3>1, SMTT(30)
  <2> QED BY <2>1, <2>2, Zenon
<1> QED
  <2>1. Count(f, s) = Cardinality(A) /\ Count(g, s) = Cardinality(B)
    BY Zenon DEF Count
  <2> HIDE DEF A, B
  <2> QED BY <1>1, <1>2, <1>3, <1>4, <2>1, SMTT(30)

\* A count is a natural number, and zero exactly when no thread is counted.
LEMMA CountZero ==
  ASSUME NEW f, NEW s
  PROVE  /\ Count(f, s) \in Nat
         /\ Count(f, s) = 0 <=> \A u \in Threads : f[u] # s
<1> DEFINE A == {u \in Threads : f[u] = s}
<1>1. IsFiniteSet(A) /\ Cardinality(A) \in Nat
  BY ThreadsAssumption, FS_Subset, FS_CardinalityType, Zenon
<1>2. Cardinality(A) = 0 <=> A = {}
  BY <1>1, FS_EmptySet, Zenon
<1> QED BY <1>1, <1>2, Zenon DEF Count

-----------------------------------------------------------------------------
\* The inductive invariant.
\* The refcount of a live entry counts exactly its references; a slot that
\* is not live has none.
Accounted(s) ==
  IF refcount[s] > 0
    THEN refcount[s] = Count(held, s) + Count(tmp, s) + (IF prod[s] THEN 1 ELSE 0)
    ELSE Count(held, s) = 0 /\ Count(tmp, s) = 0 /\ ~prod[s]

Accounting == ~doubled => \A s \in Slots : Accounted(s)

\* Accounted, after a step, in terms of the new values.
LEMMA AccountedNext ==
  ASSUME NEW s
  PROVE  Accounted(s)' <=>
           IF refcount'[s] > 0
             THEN refcount'[s] = Count(held', s) + Count(tmp', s)
                                   + (IF prod'[s] THEN 1 ELSE 0)
             ELSE Count(held', s) = 0 /\ Count(tmp', s) = 0 /\ ~prod'[s]
BY Zenon DEF Accounted, Count

\* What a change of one thread's pin does to the counts.
LEMMA CountHeld ==
  ASSUME NEW t \in Threads, NEW v, held'[t] = v,
         \A u \in Threads : u # t => held'[u] = held[u], NEW s
  PROVE  /\ Count(held, s) \in Nat /\ Count(held', s) \in Nat
         /\ (v = s <=> held[t] = s) => Count(held', s) = Count(held, s)
         /\ v = s /\ held[t] # s => Count(held', s) = Count(held, s) + 1
         /\ v # s /\ held[t] = s => Count(held', s) = Count(held, s) - 1
BY CountUpdate, SMTT(30)

\* The same for the pins of a table scan.
LEMMA CountTmp ==
  ASSUME NEW t \in Threads, NEW v, tmp'[t] = v,
         \A u \in Threads : u # t => tmp'[u] = tmp[u], NEW s
  PROVE  /\ Count(tmp, s) \in Nat /\ Count(tmp', s) \in Nat
         /\ (v = s <=> tmp[t] = s) => Count(tmp', s) = Count(tmp, s)
         /\ v = s /\ tmp[t] # s => Count(tmp', s) = Count(tmp, s) + 1
         /\ v # s /\ tmp[t] = s => Count(tmp', s) = Count(tmp, s) - 1
BY CountUpdate, SMTT(30)

\* A counted reference keeps the count positive.
LEMMA CountedIsLive ==
  ASSUME TypeOK, NEW s \in Slots, Accounted(s)
  PROVE  /\ \A t \in Threads : held[t] = s \/ tmp[t] = s => refcount[s] > 0
         /\ prod[s] => refcount[s] > 0
<1>1. /\ Count(held, s) \in Nat /\ (Count(held, s) = 0 <=> \A u \in Threads : held[u] # s)
      /\ Count(tmp, s) \in Nat /\ (Count(tmp, s) = 0 <=> \A u \in Threads : tmp[u] # s)
  BY CountZero, Zenon
<1> QED BY <1>1, Zenon DEF Accounted, TypeOK

\* Every step keeps the account of references, as long as no producer's
\* reference is dropped twice.
LEMMA AccountingStep ==
  TypeOK /\ Control /\ OneOwner /\ Accounting /\ [Next]_vars => Accounting'
<1> SUFFICES ASSUME TypeOK, Control, OneOwner, Accounting, [Next]_vars, ~doubled',
                    NEW r \in Slots
             PROVE  Accounted(r)'
  BY Zenon DEF Accounting
<1>1. Count(held, r) \in Nat /\ Count(tmp, r) \in Nat
  BY CountZero, Zenon
<1>2. ~doubled => Accounted(r)
  BY Zenon DEF Accounting
<1>3. r # NoSlot
  BY NoSlotIsNone, Zenon
<1>4. CASE Quiet
  BY <1>2, <1>4, Zenon DEF Quiet, Accounted, Count, history
<1>5. ASSUME NEW t \in Threads, LookupPin(t) \/ RelocPin(t) PROVE Accounted(r)'
  <2>1. /\ cur[t] \in Slots /\ refcount[cur[t]] > 0
        /\ tmp' = [tmp EXCEPT ![t] = cur[t]]
        /\ refcount' = [refcount EXCEPT ![cur[t]] = @ + 1]
        /\ UNCHANGED <<held, prod, doubled>>
    BY <1>5, Zenon DEF LookupPin, RelocPin, Pin, Pinnable, history
  <2>2. tmp[t] = NoSlot
    BY <1>5, Zenon DEF LookupPin, RelocPin, Control, ControlAt, At, Unpinning
  <2>3. tmp'[t] = cur[t] /\ \A u \in Threads : u # t => tmp'[u] = tmp[u]
    BY <2>1, Zenon DEF TypeOK
  <2>4. Count(tmp', r) = IF cur[t] = r THEN Count(tmp, r) + 1 ELSE Count(tmp, r)
    BY <1>3, <2>2, <2>3, CountTmp, SMTT(30)
  <2>5. Accounted(r)
    BY <1>2, <2>1, Zenon
  <2>6. refcount'[r] = IF cur[t] = r THEN refcount[r] + 1 ELSE refcount[r]
    BY <2>1, Zenon DEF TypeOK
  <2>7. refcount[r] \in Int /\ (cur[t] = r => refcount[r] > 0) /\ held' = held /\ prod' = prod
    BY <2>1, Zenon DEF TypeOK
  <2> QED BY <1>1, <2>4, <2>5, <2>6, <2>7, AccountedNext, SMTT(30) DEF Accounted
<1>6. ASSUME NEW t \in Threads, GcPin(t) PROVE Accounted(r)'
  <2>1. /\ cur[t] \in Slots /\ refcount[cur[t]] > 0
        /\ held' = [held EXCEPT ![t] = cur[t]]
        /\ refcount' = [refcount EXCEPT ![cur[t]] = @ + 1]
        /\ UNCHANGED <<tmp, prod, doubled>>
    BY <1>6, Zenon DEF GcPin, Pin, Pinnable, history
  <2>2. held[t] = NoSlot
    BY <1>6, Zenon DEF GcPin, Control, ControlAt, At, Unpinning
  <2>3. held'[t] = cur[t] /\ \A u \in Threads : u # t => held'[u] = held[u]
    BY <2>1, SMTT(30) DEF TypeOK
  <2>4. Count(held', r) = IF cur[t] = r THEN Count(held, r) + 1 ELSE Count(held, r)
    BY <1>3, <2>2, <2>3, CountHeld, SMTT(30)
  <2>5. Accounted(r)
    BY <1>2, <2>1, SMTT(30)
  <2>6. refcount'[r] = IF cur[t] = r THEN refcount[r] + 1 ELSE refcount[r]
    BY <2>1, Zenon DEF TypeOK
  <2>7. refcount[r] \in Int /\ (cur[t] = r => refcount[r] > 0) /\ tmp' = tmp /\ prod' = prod
    BY <2>1, Zenon DEF TypeOK
  <2> QED BY <1>1, <2>4, <2>5, <2>6, <2>7, AccountedNext, SMTT(30) DEF Accounted
<1>7. ASSUME NEW t \in Threads, LookupHit(t) PROVE Accounted(r)'
  <2>1. /\ held' = [held EXCEPT ![t] = tmp[t]]
        /\ tmp' = [tmp EXCEPT ![t] = NoSlot]
        /\ UNCHANGED <<refcount, prod, doubled>>
    BY <1>7, Zenon DEF LookupHit, table, history
  <2>2. held[t] = NoSlot
    BY <1>7, Zenon DEF LookupHit, Control, ControlAt, At, Unpinning
  <2>3. held'[t] = tmp[t] /\ \A u \in Threads : u # t => held'[u] = held[u]
    BY <2>1, Zenon DEF TypeOK
  <2>4. tmp'[t] = NoSlot /\ \A u \in Threads : u # t => tmp'[u] = tmp[u]
    BY <2>1, Zenon DEF TypeOK
  <2>5. Count(held', r) = IF tmp[t] = r THEN Count(held, r) + 1 ELSE Count(held, r)
    BY <1>3, <2>2, <2>3, CountHeld, SMTT(30)
  <2>6. Count(tmp', r) = IF tmp[t] = r THEN Count(tmp, r) - 1 ELSE Count(tmp, r)
    BY <1>3, <2>4, CountTmp, SMTT(30)
  <2>7. Accounted(r) /\ refcount' = refcount /\ prod' = prod
    BY <1>2, <2>1, Zenon
  <2>8. tmp[t] = r => refcount[r] > 0
    BY <2>7, CountedIsLive, Zenon
  <2> QED BY <1>1, <2>5, <2>6, <2>7, <2>8, AccountedNext, SMTT(30) DEF Accounted
<1>8. ASSUME NEW t \in Threads, Unpin(t) PROVE Accounted(r)'
  <2> DEFINE s == UnpinTarget(t)
  <2>1. s \in Slots /\ ref[t] \in Refs
    BY <1>8, UnpinTargetSlot, Zenon DEF Unpin, TypeOK
  <2>2. refcount' = [refcount EXCEPT ![s] = Dropped(@)] /\ Forget(t, s)
    BY <1>8, Zenon DEF Unpin
  <2>3. ~doubled /\ Accounted(r) /\ Accounted(s)
    BY <1>2, <2>1, <2>2, ZenonT(30) DEF Forget, Accounting
  <2>4. refcount[s] > 0 /\ refcount[s] \in Int
    BY <2>1, <2>3, CountedIsLive, Zenon DEF UnpinTarget, TypeOK, Refs
  <2>5. CASE r # s
    <3>1. refcount'[r] = refcount[r] /\ prod'[r] = prod[r]
      BY <2>1, <2>2, <2>5, Zenon DEF Forget, TypeOK
    <3>2. Count(held', r) = Count(held, r)
      <4>1. CASE ref[t] = "held"
        <5>1. held'[t] = NoSlot /\ \A u \in Threads : u # t => held'[u] = held[u]
          BY <2>2, <4>1, Zenon DEF Forget, TypeOK
        <5>2. held[t] # r
          BY <2>5, <4>1, Zenon DEF UnpinTarget
        <5> QED BY <1>3, <5>1, <5>2, CountHeld, SMTT(30)
      <4>2. CASE ref[t] # "held"
        BY <2>2, <4>2, Zenon DEF Forget
      <4> QED BY <4>1, <4>2, Zenon
    <3>3. Count(tmp', r) = Count(tmp, r)
      <4>1. CASE ref[t] = "tmp"
        <5>1. tmp'[t] = NoSlot /\ \A u \in Threads : u # t => tmp'[u] = tmp[u]
          BY <2>2, <4>1, Zenon DEF Forget, TypeOK
        <5>2. tmp[t] # r
          BY <2>5, <4>1, Zenon DEF UnpinTarget
        <5> QED BY <1>3, <5>1, <5>2, CountTmp, SMTT(30)
      <4>2. CASE ref[t] # "tmp"
        BY <2>2, <4>2, Zenon DEF Forget
      <4> QED BY <4>1, <4>2, Zenon
    <3> QED BY <2>3, <3>1, <3>2, <3>3, AccountedNext, Zenon DEF Accounted
  <2>6. CASE r = s
    <3>1. refcount'[r] = IF refcount[r] = 1 THEN -1 ELSE refcount[r] - 1
      BY <2>1, <2>2, <2>4, <2>6, Zenon DEF Dropped, TypeOK
    <3>2. CASE ref[t] = "held"
      <4>1. /\ held[t] = r /\ held' = [held EXCEPT ![t] = NoSlot]
            /\ tmp' = tmp /\ prod' = prod
        BY <2>2, <2>6, <3>2, Zenon DEF Forget, UnpinTarget
      <4>2. held'[t] = NoSlot /\ \A u \in Threads : u # t => held'[u] = held[u]
        BY <4>1, Zenon DEF TypeOK
      <4>3. held[t] = r /\ tmp' = tmp /\ prod' = prod
        BY <4>1, Zenon
      <4>4. Count(held', r) = Count(held, r) - 1 /\ Count(held', r) \in Nat
        BY <1>3, <4>2, <4>3, CountHeld, Zenon
      <4>5. refcount[r] \in Int /\ refcount[r] > 0 /\ Accounted(r)
        BY <2>3, <2>4, <2>6, Zenon
      <4>6. CASE refcount[r] = 1
        <5>1. Count(held', r) = 0 /\ Count(tmp, r) = 0 /\ ~prod[r]
          <6>1. 1 = Count(held, r) + Count(tmp, r) + (IF prod[r] THEN 1 ELSE 0)
            BY <4>5, <4>6, Zenon DEF Accounted
          <6>2. CASE prod[r]
            BY <1>1, <4>4, <6>1, <6>2, SMTT(30)
          <6>3. CASE ~prod[r]
            BY <1>1, <4>4, <6>1, <6>3, SMTT(30)
          <6> QED BY <6>2, <6>3, Zenon
        <5> QED BY <3>1, <4>3, <4>6, <5>1, AccountedNext, SMTT(30)
      <4>7. CASE refcount[r] # 1
        <5>1. refcount'[r] > 0 /\ refcount'[r] = refcount[r] - 1
          BY <3>1, <4>5, <4>7, SMTT(30)
        <5>2. refcount[r] = Count(held, r) + Count(tmp, r) + (IF prod[r] THEN 1 ELSE 0)
          BY <4>5, Zenon DEF Accounted
        <5> QED BY <1>1, <4>3, <4>4, <5>1, <5>2, AccountedNext, SMTT(30)
      <4> QED BY <4>6, <4>7, Zenon
    <3>3. CASE ref[t] = "tmp"
      <4>1. /\ tmp[t] = r /\ tmp' = [tmp EXCEPT ![t] = NoSlot]
            /\ held' = held /\ prod' = prod
        BY <2>2, <2>6, <3>3, Zenon DEF Forget, UnpinTarget
      <4>2. tmp'[t] = NoSlot /\ \A u \in Threads : u # t => tmp'[u] = tmp[u]
        BY <4>1, Zenon DEF TypeOK
      <4>3. tmp[t] = r /\ held' = held /\ prod' = prod
        BY <4>1, SMTT(30)
      <4>4. Count(tmp', r) = Count(tmp, r) - 1 /\ Count(tmp', r) \in Nat
        BY <1>3, <4>2, <4>3, CountTmp, SMTT(30)
      <4>5. refcount[r] \in Int /\ refcount[r] > 0 /\ Accounted(r)
        BY <2>3, <2>4, <2>6, SMTT(30)
      <4>6. CASE refcount[r] = 1
        <5>1. Count(tmp', r) = 0 /\ Count(held, r) = 0 /\ ~prod[r]
          <6>1. 1 = Count(held, r) + Count(tmp, r) + (IF prod[r] THEN 1 ELSE 0)
            BY <4>5, <4>6, SMTT(30) DEF Accounted
          <6>2. CASE prod[r]
            BY <1>1, <4>4, <6>1, <6>2, SMTT(30)
          <6>3. CASE ~prod[r]
            BY <1>1, <4>4, <6>1, <6>3, SMTT(30)
          <6> QED BY <6>2, <6>3, SMTT(30)
        <5> QED BY <3>1, <4>3, <4>6, <5>1, AccountedNext, SMTT(30)
      <4>7. CASE refcount[r] # 1
        <5>1. refcount'[r] > 0 /\ refcount'[r] = refcount[r] - 1
          BY <3>1, <4>5, <4>7, SMTT(30)
        <5>2. refcount[r] = Count(held, r) + Count(tmp, r) + (IF prod[r] THEN 1 ELSE 0)
          BY <4>5, SMTT(30) DEF Accounted
        <5> QED BY <1>1, <4>3, <4>4, <5>1, <5>2, AccountedNext, SMTT(30)
      <4> QED BY <4>6, <4>7, SMTT(30)
    <3>4. CASE ref[t] = "producer"
      <4>1. /\ held[t] = r /\ prod[r] /\ ~prod'[r]
            /\ held' = held /\ tmp' = tmp
        BY <2>1, <2>2, <2>6, <3>4, ZenonT(30) DEF Forget, UnpinTarget, TypeOK
      <4>2. Count(held, r) # 0
        BY <4>1, CountZero, Zenon
      <4> QED BY <1>1, <2>3, <2>4, <2>6, <3>1, <4>1, <4>2, AccountedNext, SMTT(30) DEF Accounted
    <3> QED BY <2>1, <3>2, <3>3, <3>4, Zenon DEF Refs
  <2> QED BY <2>5, <2>6, Zenon
<1>9. ASSUME NEW t \in Threads, Cleanup(t) \/ RegisterFill(t) PROVE Accounted(r)'
  <2>1. UNCHANGED <<refcount, held, tmp, prod, doubled>>
    BY <1>9, Zenon DEF Cleanup, RegisterFill
  <2> QED BY <1>2, <2>1, AccountedNext, Zenon DEF Accounted
<1>10. ASSUME NEW t \in Threads, Free(t) PROVE Accounted(r)'
  <2>1. /\ refcount[mine[t]] = -1
        /\ refcount' = [refcount EXCEPT ![mine[t]] = 0]
        /\ UNCHANGED <<held, tmp, prod, doubled>>
    BY <1>10, Zenon DEF Free, Control, ControlAt, OneOwner, history
  <2> QED BY <1>2, <2>1, AccountedNext, SMTT(30) DEF Accounted, TypeOK
<1>11. ASSUME NEW t \in Threads, RegisterClaim(t) PROVE Accounted(r)'
  <2>1. /\ refcount[cur[t]] = 0
        /\ refcount' = [refcount EXCEPT ![cur[t]] = -1]
        /\ UNCHANGED <<held, tmp, prod, doubled>>
    BY <1>11, Zenon DEF RegisterClaim, history
  <2> QED BY <1>2, <2>1, AccountedNext, SMTT(30) DEF Accounted, TypeOK
<1>12. ASSUME NEW t \in Threads, RegisterPublish(t) PROVE Accounted(r)'
  <2>1. /\ refcount[mine[t]] = -1
        /\ refcount' = [refcount EXCEPT ![mine[t]] = 1]
        /\ prod' = [prod EXCEPT ![mine[t]] = TRUE]
        /\ UNCHANGED <<held, tmp, doubled>>
    BY <1>12, Zenon DEF RegisterPublish, Control, ControlAt, OneOwner
  <2> QED BY <1>2, <2>1, AccountedNext, SMTT(30) DEF Accounted, TypeOK
<1> QED
  BY <1>4, <1>5, <1>6, <1>7, <1>8, <1>9, <1>10, <1>11, <1>12, QuietOrLoud, Zenon DEF Loud

-----------------------------------------------------------------------------
\* A dispatch in the handler works on the inode it looked up.
UsesItsInode ==
  ~doubled => \A t \in Threads : pc[t] = "use" => ino[held[t]] = key[t]

IInv == TypeOK /\ Control /\ OneOwner /\ Releases /\ Accounting /\ UsesItsInode

\* Every step keeps a dispatch on the inode it looked up: a slot is filled
\* anew only while its count is -1, and the dispatch's pin keeps it positive.
LEMMA UsesStep ==
  TypeOK /\ Control /\ OneOwner /\ Accounting /\ UsesItsInode /\ [Next]_vars
    => UsesItsInode'
<1> SUFFICES ASSUME TypeOK, Control, OneOwner, Accounting, UsesItsInode,
                    [Next]_vars, ~doubled',
                    NEW u \in Threads, pc'[u] = "use"
             PROVE  ino'[held'[u]] = key'[u]
  BY Zenon DEF UsesItsInode
<1> USE DEF UsesItsInode
<1>1. CASE Quiet
  BY <1>1, Zenon DEF Quiet, history
<1>2. ASSUME NEW t \in Threads, LookupPin(t) \/ RelocPin(t) \/ GcPin(t)
      PROVE  ino'[held'[u]] = key'[u]
  BY <1>2, SMTT(30) DEF TypeOK, LookupPin, RelocPin, GcPin, Pin, history
<1>3. ASSUME NEW t \in Threads, LookupHit(t) PROVE ino'[held'[u]] = key'[u]
  BY <1>3, Zenon DEF TypeOK, LookupHit, table, history
<1>4. ASSUME NEW t \in Threads, Unpin(t) PROVE ino'[held'[u]] = key'[u]
  <2>1. ~doubled /\ ino' = ino /\ key' = key
    BY <1>4, ZenonT(30) DEF Unpin, Forget
  <2>2. u # t
    BY <1>4, Zenon DEF TypeOK, Unpin, Control, ControlAt, Unpinning
  <2>3. pc'[u] = pc[u] /\ held'[u] = held[u]
    BY <1>4, <2>2, Zenon DEF TypeOK, Unpin, Forget
  <2> QED BY <2>1, <2>3, Zenon
<1>5. ASSUME NEW t \in Threads, Cleanup(t) \/ Free(t) PROVE ino'[held'[u]] = key'[u]
  BY <1>5, Zenon DEF TypeOK, Cleanup, Free, history
<1>6. ASSUME NEW t \in Threads, RegisterClaim(t) \/ RegisterPublish(t)
      PROVE  ino'[held'[u]] = key'[u]
  BY <1>6, SMTT(30) DEF TypeOK, RegisterClaim, RegisterPublish, history
<1>7. ASSUME NEW t \in Threads, RegisterFill(t) PROVE ino'[held'[u]] = key'[u]
  <2>1. ~doubled /\ pc[u] = "use" /\ held' = held /\ key' = key
    BY <1>7, Zenon DEF TypeOK, RegisterFill
  <2>2. held[u] \in Slots
    BY <2>1, SMTT(30) DEF TypeOK, Control, ControlAt, At, Unpinning
  <2>3. refcount[held[u]] > 0
    BY <2>1, <2>2, CountedIsLive, Zenon DEF Accounting
  <2>4. refcount[mine[t]] = -1
    BY <1>7, Zenon DEF RegisterFill, Control, ControlAt, OneOwner
  <2>5. ino'[held[u]] = ino[held[u]]
    BY <1>7, <2>2, <2>3, <2>4, SMTT(30) DEF RegisterFill, TypeOK
  <2> QED BY <2>1, <2>5, Zenon
<1> HIDE DEF UsesItsInode
<1>8. ASSUME NEW t \in Threads, Loud(t) PROVE ino'[held'[u]] = key'[u]
  BY <1>2, <1>3, <1>4, <1>5, <1>6, <1>7, <1>8, Zenon DEF Loud
<1> QED
  BY <1>1, <1>8, QuietOrLoud, Zenon

\* The initial state satisfies the inductive invariant.
LEMMA InitIInv == Init => IInv
<1> SUFFICES ASSUME Init PROVE IInv
  BY Zenon
<1>1. TypeOK
  <2>1. /\ refcount \in [Slots -> Int] /\ \A s \in Slots : refcount[s] >= -1
        /\ ino \in [Slots -> Inos \cup {NoIno}] /\ live \in Int /\ probed \subseteq Inos
        /\ fds \in [Fds -> Inos \cup {NoIno}]
    BY SMTT(30) DEF Init
  <2>2. /\ pc \in [Threads -> Pcs] /\ op \in [Threads -> Ops]
        /\ ref \in [Threads -> Refs] /\ then \in [Threads -> Pcs]
    BY Names, Zenon DEF Init
  <2>3. /\ cur \in [Threads -> Nat \ {0}] /\ key \in [Threads -> Inos \cup {NoIno}]
        /\ fd \in [Threads -> Fds \cup {NoFd}] /\ src \in [Threads -> Fds \cup {NoFd}]
    BY SMTT(30) DEF Init
  <2>4. /\ held \in [Threads -> Slots \cup {NoSlot}]
        /\ tmp \in [Threads -> Slots \cup {NoSlot}]
        /\ mine \in [Threads -> Slots \cup {NoSlot}]
    BY Zenon DEF Init
  <2>5. prod \in [Slots -> BOOLEAN] /\ doubled \in BOOLEAN /\ released \in [Slots -> Nat]
    BY ZenonT(30) DEF Init
  <2> QED BY <2>1, <2>2, <2>3, <2>4, <2>5, Zenon DEF TypeOK
<1>2. Control
  BY SMTT(30) DEF Init, Control, ControlAt, At, Unpinning
<1>3. OneOwner
  BY SMTT(30) DEF Init, OneOwner
<1>4. Releases
  BY Zenon DEF Init, Releases, ReleaseOnce
<1>5. Accounting
  <2> SUFFICES ASSUME NEW s \in Slots PROVE Accounted(s)
    BY Zenon DEF Accounting
  <2>1. Count(held, s) = 0 /\ Count(tmp, s) = 0
    BY CountZero, NoSlotIsNone, Zenon DEF Init
  <2> QED BY <2>1, SMTT(30) DEF Accounted, Init
<1>6. UsesItsInode
  BY Zenon DEF Init, UsesItsInode
<1> QED BY <1>1, <1>2, <1>3, <1>4, <1>5, <1>6, Zenon DEF IInv

\* IInv is an invariant of every behaviour.
LEMMA Invariance == Spec => []IInv
<1>1. IInv /\ [Next]_vars => IInv'
  BY TypeStep, ControlStep, OwnerStep, ReleaseStep, AccountingStep, UsesStep, Zenon DEF IInv
<1> QED BY InitIInv, <1>1, PTL DEF Spec

\* Type correctness of the table, the fds and the threads' locals.
THEOREM TypeCorrect == Spec => []TypeOK
<1>1. IInv => TypeOK
  BY Zenon DEF IInv
<1> QED BY Invariance, <1>1, PTL

\* The transient refcount -1 of synth_register and wslcompat_synth_unpin is a
\* lock with exactly one owner, for any number of threads and slots.
THEOREM SlotHasOneOwner == Spec => []OneOwner
<1>1. IInv => OneOwner
  BY Zenon DEF IInv
<1> QED BY Invariance, <1>1, PTL

\* ops->release runs exactly once between the registration of an entry and
\* the reuse of its slot, whatever the application does.
THEOREM ReleasedExactlyOnce == Spec => []ReleaseOnce
<1>1. IInv => ReleaseOnce
  BY Zenon DEF IInv, Releases
<1> QED BY Invariance, <1>1, PTL

\* A pin keeps its entry alive and on its inode as long as post_close has not
\* dropped one producer's reference twice.
THEOREM PinHolds == Spec => []PinHoldsUnlessDoubled
<1>1. IInv => PinHoldsUnlessDoubled
  <2> SUFFICES ASSUME IInv, ~doubled, NEW t \in Threads
               PROVE  /\ held[t] # NoSlot => refcount[held[t]] > 0
                      /\ tmp[t] # NoSlot => refcount[tmp[t]] > 0
                      /\ pc[t] = "use" => ino[held[t]] = key[t]
    BY Zenon DEF PinHoldsUnlessDoubled, PinHoldsEntry
  <2>1. /\ held[t] # NoSlot => held[t] \in Slots /\ Accounted(held[t])
        /\ tmp[t] # NoSlot => tmp[t] \in Slots /\ Accounted(tmp[t])
    BY Zenon DEF IInv, TypeOK, Accounting
  <2>2. TypeOK /\ UsesItsInode
    BY Zenon DEF IInv
  <2> QED BY <2>1, <2>2, CountedIsLive, Zenon DEF UsesItsInode
<1> QED BY Invariance, <1>1, PTL

-----------------------------------------------------------------------------
\* The count of live entries.

\* The slots that are filled and not yet free again, and the threads that have
\* freed one and not yet taken it off the count.
LiveSlots == {s \in Slots : refcount[s] # 0 /\ \A t \in Threads : mine[t] = s => pc[t] # "fill"}
Falling   == {t \in Threads : pc[t] = "declive"}

\* synth_live_entries is the number of both.
LiveCount == live = Cardinality(LiveSlots) + Cardinality(Falling)

\* The table and the threads are finite, so that both can be counted.
LEMMA LiveFinite ==
  /\ IsFiniteSet(LiveSlots) /\ Cardinality(LiveSlots) \in Nat
  /\ IsFiniteSet(Falling) /\ Cardinality(Falling) \in Nat
<1>1. IsFiniteSet(Slots)
  <2>1. NumSlots \in Nat /\ 1 \in Int
    BY SlotsAssumption, SMTT(30)
  <2> QED BY <2>1, FS_Interval, SMTT(30) DEF Slots
<1>2. LiveSlots \in SUBSET Slots /\ Falling \in SUBSET Threads
  BY Zenon DEF LiveSlots, Falling
<1> QED BY <1>1, <1>2, ThreadsAssumption, FS_Subset, FS_CardinalityType, Zenon

\* Only a thread that fills a slot, or takes one off the count, changes the
\* counter; only one that frees a slot goes on to take it off.
LEMMA CounterMoves ==
  ASSUME TypeOK, Control, Next
  PROVE  \/ \E t \in Threads : DecLive(t) \/ Free(t) \/ RegisterFill(t)
         \/ live' = live /\ Falling' = Falling
<1> DEFINE Same == live' = live /\ Falling' = Falling
<1>0. pc = [u \in Threads |-> pc[u]]
  BY Zenon DEF TypeOK
<1>1. CASE UNCHANGED <<table, locals, history>>
  BY <1>1, Zenon DEF table, locals, Falling
<1>2. ASSUME NEW t \in Threads, live' = live, NEW p, p # "declive", pc[t] # "declive",
             pc' = [pc EXCEPT ![t] = p]
      PROVE  Same
  <2>1. \A u \in Threads : pc'[u] = IF u = t THEN p ELSE pc[u]
    BY <1>0, <1>2, Zenon
  <2> QED BY <1>2, <2>1, Zenon DEF Falling
<1>3. ASSUME NEW t \in Threads, live' = live, pc' = pc PROVE Same
  BY <1>3, Zenon DEF Falling
<1>4. \A t \in Threads : \A h : AfterLookup(t, h) # "declive"
  BY Zenon DEF AfterLookup
<1>5. \A t \in Threads : AfterPost(t) # "declive"
  BY Zenon DEF AfterPost
<1>6. ASSUME NEW t \in Threads, Begin(t) PROVE Same
  <2>1. live' = live /\ pc[t] # "declive" /\ \E p : p # "declive" /\ pc' = [pc EXCEPT ![t] = p]
    BY <1>6, Zenon DEF Begin, Dispatch, Close, Dup2, Open, Call, table
  <2> QED BY <1>2, <2>1, Zenon
<1>7. ASSUME NEW t \in Threads, Unpin(t) PROVE Same
  <2>1. live' = live /\ pc[t] = "unpin" /\ then[t] # "declive"
    BY <1>7, Zenon DEF Unpin, Control, ControlAt, Unpinning
  <2>2. \E p : p \in {"cleanup", then[t]} /\ pc' = [pc EXCEPT ![t] = p]
    BY <1>7, Zenon DEF Unpin
  <2> QED BY <1>2, <2>1, <2>2, Zenon
<1>9. ASSUME NEW t \in Threads,
             \/ Return(t) \/ LookupPin(t) \/ RelocPin(t) \/ RelocDone(t) \/ Syscall(t) \/ Cleanup(t)
             \/ RegisterClaim(t) \/ RegisterFull(t) \/ RegisterPublish(t) \/ GcPin(t) \/ OpenFail(t)
      PROVE  Same
  <2>1. live' = live /\ pc[t] # "declive" /\ \E p : p # "declive" /\ pc' = [pc EXCEPT ![t] = p]
    BY <1>9, Zenon DEF Return, LookupPin, RelocPin, RelocDone, Syscall, Cleanup, RegisterClaim, RegisterFull,
                       RegisterPublish, GcPin, OpenFail, table
  <2> QED BY <1>2, <2>1, Zenon
<1>10. ASSUME NEW t \in Threads, LookupSkip(t) \/ RelocSkip(t) \/ RegisterSkip(t) \/ GcSkip(t) PROVE Same
  BY <1>3, <1>10, Zenon DEF LookupSkip, RelocSkip, RegisterSkip, GcSkip, table
<1>11. ASSUME NEW t \in Threads, PreClose(t) \/ LookupFail(t) \/ LookupHit(t) PROVE Same
  <2>1. live' = live /\ pc[t] # "declive" /\ \E p : p # "declive" /\ pc' = [pc EXCEPT ![t] = p]
    BY <1>4, <1>11, Zenon DEF PreClose, LookupFail, LookupHit, table
  <2> QED BY <1>2, <2>1, Zenon
<1>12. ASSUME NEW t \in Threads, LookupMiss(t) \/ UseDone(t) \/ RelocUnpin(t) \/ PostClose(t) \/ DropPin(t) PROVE Same
  <2>1. live' = live /\ pc[t] # "declive" /\ \E p : p # "declive" /\ pc' = [pc EXCEPT ![t] = p]
    BY <1>12, Zenon DEF LookupMiss, UseDone, RelocUnpin, PostClose, DropPin, CallUnpin, table
  <2> QED BY <1>2, <2>1, Zenon
<1>13. ASSUME NEW t \in Threads, GcCheck(t) PROVE Same
  <2>1. live' = live /\ pc[t] # "declive" /\ \E p : p # "declive" /\ pc' = [pc EXCEPT ![t] = p]
    BY <1>13, Zenon DEF GcCheck, table
  <2> QED BY <1>2, <2>1, Zenon
<1> QED BY <1>1, <1>6, <1>7, <1>9, <1>10, <1>11, <1>12, <1>13, Zenon DEF Next, Kernel, Dup, SyscallClose, Step

\* Only filling and freeing change which slots are live: a claim leaves its slot
\* unfilled, and pins, unpins and publication one that is not free.
LEMMA LiveSlotsMove ==
  ASSUME TypeOK, Control, OneOwner, [Next]_vars
  PROVE  (\E t \in Threads : Free(t) \/ RegisterFill(t)) \/ LiveSlots' = LiveSlots
<1>0. Control' /\ OneOwner'
  BY ControlStep, OwnerStep, Zenon
<1>1. CASE Quiet
  <2>1. \A u \in Threads : mine'[u] = mine[u] /\ (pc'[u] = "fill" => pc[u] = "fill")
    BY <1>1, Zenon DEF Quiet
  <2>2. \A u \in Threads : mine[u] # NoSlot /\ pc[u] = "fill" => pc'[u] = "fill"
    BY <1>0, <1>1, <2>1, Zenon DEF Quiet, Control, ControlAt
  <2>3. \A u \in Threads : mine[u] \in Slots => (pc'[u] = "fill" <=> pc[u] = "fill")
    BY <2>1, <2>2, NoSlotIsNone, Zenon
  <2>4. refcount' = refcount
    BY <1>1, Zenon DEF Quiet
  <2> QED BY <2>1, <2>3, <2>4, Zenon DEF LiveSlots
<1>2. ASSUME NEW t \in Threads, LookupPin(t) \/ RelocPin(t) \/ GcPin(t) PROVE LiveSlots' = LiveSlots
  <2>1. cur[t] \in Slots /\ Pinnable(cur[t]) /\ Pin(cur[t]) /\ mine' = mine
    BY <1>2, Zenon DEF LookupPin, RelocPin, GcPin
  <2>2. \A s \in Slots : refcount'[s] = 0 <=> refcount[s] = 0
    BY <2>1, SMTT(30) DEF TypeOK, Pin, Pinnable
  <2>3. \A u \in Threads : pc'[u] = "fill" <=> pc[u] = "fill"
    BY <1>2, Zenon DEF LookupPin, RelocPin, GcPin, TypeOK
  <2> QED BY <2>1, <2>2, <2>3, Zenon DEF LiveSlots
<1>3. ASSUME NEW t \in Threads, LookupHit(t) \/ Cleanup(t) PROVE LiveSlots' = LiveSlots
  <2>1. refcount' = refcount /\ mine' = mine /\ pc[t] \in {"compare", "cleanup"}
        /\ (\A u \in Threads \ {t} : pc'[u] = pc[u]) /\ pc'[t] # "fill"
    BY <1>3, Zenon DEF LookupHit, Cleanup, table, AfterLookup, TypeOK
  <2>2. \A u \in Threads : pc'[u] = "fill" <=> pc[u] = "fill"
    BY <2>1, Zenon
  <2> QED BY <2>1, <2>2, Zenon DEF LiveSlots
<1>4. ASSUME NEW t \in Threads, Unpin(t) PROVE LiveSlots' = LiveSlots
  <2> DEFINE s == UnpinTarget(t)
  <2>1. s \in Slots /\ mine[t] = NoSlot /\ pc[t] = "unpin" /\ then[t] # "fill"
    BY <1>4, UnpinTargetSlot, Zenon DEF Control, ControlAt, Unpin, Unpinning
  <2>2. refcount' = [refcount EXCEPT ![s] = Dropped(@)]
        /\ mine' = [mine EXCEPT ![t] = IF refcount[s] = 1 THEN s ELSE @]
    BY <1>4, Zenon DEF Unpin
  <2>3. pc'[t] # "fill" /\ \A u \in Threads \ {t} : pc'[u] = pc[u]
    BY <1>4, <2>1, Zenon DEF Unpin, TypeOK
  <2> HIDE DEF s
  <2>4. \A r \in Slots : refcount'[r] = 0 <=> refcount[r] = 0
    BY <2>1, <2>2, SMTT(30) DEF TypeOK, Dropped
  <2>5. \A u \in Threads \ {t} : mine'[u] = mine[u]
    BY <2>2, Zenon DEF TypeOK
  <2>6. \A u \in Threads, r \in Slots : (mine'[u] = r => pc'[u] # "fill") <=> (mine[u] = r => pc[u] # "fill")
    BY <2>1, <2>3, <2>5, NoSlotIsNone, Zenon
  <2> QED BY <2>4, <2>6, Zenon DEF LiveSlots
<1>5. ASSUME NEW t \in Threads, RegisterClaim(t) PROVE LiveSlots' = LiveSlots
  <2> DEFINE s == cur[t]
  <2>1. s \in Slots /\ refcount[s] = 0 /\ mine[t] = NoSlot /\ pc'[t] = "fill" /\ mine'[t] = s
        /\ \A u \in Threads \ {t} : mine'[u] = mine[u] /\ pc'[u] = pc[u]
    BY <1>5, Zenon DEF Control, ControlAt, RegisterClaim, TypeOK
  <2>2. \A r \in Slots \ {s} : refcount'[r] = refcount[r]
    BY <1>5, Zenon DEF RegisterClaim, TypeOK
  <2> HIDE DEF s
  <2>3. \A r \in Slots \ {s}, u \in Threads :
          (mine'[u] = r => pc'[u] # "fill") <=> (mine[u] = r => pc[u] # "fill")
    BY <2>1, NoSlotIsNone, Zenon
  <2>4. s \notin LiveSlots /\ s \notin LiveSlots'
    BY <2>1, Zenon DEF LiveSlots
  <2>5. \A r \in Slots \ {s} : r \in LiveSlots' <=> r \in LiveSlots
    BY <2>2, <2>3, Zenon DEF LiveSlots
  <2>6. \A r \in Slots : r \in LiveSlots' <=> r \in LiveSlots
    BY <2>4, <2>5, Zenon
  <2> QED BY <2>6, SMTT(30) DEF LiveSlots
<1>6. ASSUME NEW t \in Threads, RegisterPublish(t) PROVE LiveSlots' = LiveSlots
  <2> DEFINE s == mine[t]
  <2>1. s \in Slots /\ refcount[s] = -1 /\ pc[t] = "publish" /\ pc'[t] = "return" /\ mine'[t] = NoSlot
        /\ refcount'[s] = 1
        /\ \A u \in Threads \ {t} : mine'[u] = mine[u] /\ pc'[u] = pc[u]
    BY <1>6, MineSlot, ZenonT(30) DEF Control, ControlAt, RegisterPublish, OneOwner, TypeOK
  <2>2. \A r \in Slots \ {s} : refcount'[r] = refcount[r]
    BY <1>6, Zenon DEF RegisterPublish, TypeOK
  <2>3. \A r \in Slots, u \in Threads :
          (mine'[u] = r => pc'[u] # "fill") <=> (mine[u] = r => pc[u] # "fill")
    BY <2>1, NoSlotIsNone, Zenon
  <2> HIDE DEF s
  <2>4. \A r \in Slots : refcount'[r] = 0 <=> refcount[r] = 0
    BY <2>1, <2>2, SMTT(30)
  <2> QED BY <2>3, <2>4, Zenon DEF LiveSlots
<1> QED BY <1>1, <1>2, <1>3, <1>4, <1>5, <1>6, QuietOrLoud, Zenon DEF Loud

\* The counter counts.
LEMMA LiveCountStep ==
  ASSUME IInv, LiveCount, [Next]_vars
  PROVE  LiveCount'
<1>0. TypeOK /\ Control /\ OneOwner
  BY Zenon DEF IInv
<1>1. IsFiniteSet(LiveSlots) /\ Cardinality(LiveSlots) \in Nat /\ IsFiniteSet(Falling) /\ Cardinality(Falling) \in Nat
  BY LiveFinite, Zenon
<1>2. live \in Int
  BY <1>0, Zenon DEF TypeOK
<1>3. ASSUME NEW t \in Threads, DecLive(t) PROVE LiveCount'
  <2>1. pc[t] = "declive" /\ live' = live - 1 /\ then[t] # "declive"
    BY <1>0, <1>3, Zenon DEF DecLive, Control, ControlAt, Unpinning
  <2>2. pc'[t] # "declive" /\ \A u \in Threads \ {t} : pc'[u] = pc[u]
    BY <1>0, <1>3, <2>1, Zenon DEF DecLive, TypeOK
  <2>3. t \in Falling /\ Falling' = Falling \ {t}
    BY <2>1, <2>2, Zenon DEF Falling
  <2>4. Cardinality(Falling') = Cardinality(Falling) - 1
    BY <1>1, <2>3, FS_RemoveElement, Zenon
  <2>5. LiveSlots' = LiveSlots
    <3>1. ~\E u \in Threads : Free(u) \/ RegisterFill(u)
      <4>1. refcount' = refcount /\ ino' = ino /\ mine' = mine /\ released' = released
        BY <1>3, Zenon DEF DecLive, history
      <4>2. ASSUME NEW u \in Threads, Free(u) PROVE FALSE
        <5>1. pc[u] = "free" /\ mine'[u] = NoSlot /\ mine[u] # NoSlot
          BY <1>0, <4>2, Zenon DEF Free, TypeOK, Control, ControlAt
        <5> QED BY <4>1, <5>1, Zenon
      <4>3. ASSUME NEW u \in Threads, RegisterFill(u) PROVE FALSE
        <5>1. pc[u] = "fill" /\ pc'[u] = "publish"
          BY <1>0, <4>3, Zenon DEF RegisterFill, TypeOK
        <5>2. u # t
          BY <2>1, <5>1, Zenon
        <5> QED BY <2>2, <5>1, <5>2, Zenon
      <4> QED BY <4>2, <4>3, Zenon
    <3> QED BY <1>0, <3>1, LiveSlotsMove, Zenon
  <2> QED BY <1>1, <1>2, <2>1, <2>4, <2>5, SMTT(30) DEF LiveCount
<1>4. ASSUME NEW t \in Threads, Free(t) PROVE LiveCount'
  <2> DEFINE s == mine[t]
  <2>1. pc[t] = "free" /\ s \in Slots /\ refcount[s] = -1 /\ live' = live /\ refcount'[s] = 0 /\ mine'[t] = NoSlot
    BY <1>0, <1>4, MineSlot, ZenonT(30) DEF Free, TypeOK, Control, ControlAt, OneOwner
  <2>2. pc'[t] = "declive" /\ (\A u \in Threads \ {t} : pc'[u] = pc[u] /\ mine'[u] = mine[u])
        /\ \A r \in Slots \ {s} : refcount'[r] = refcount[r]
    BY <1>0, <1>4, Zenon DEF Free, TypeOK
  <2>3. t \notin Falling /\ Falling' = Falling \cup {t}
    BY <2>1, <2>2, Zenon DEF Falling
  <2>4. Cardinality(Falling') = Cardinality(Falling) + 1
    BY <1>1, <2>3, FS_AddElement, Zenon
  <2>5. \A u \in Threads : mine[u] = s => u = t
    BY <1>0, <2>1, NoSlotIsNone, Zenon DEF OneOwner
  <2>6. \A r \in Slots, u \in Threads : r # s =>
          ((mine'[u] = r => pc'[u] # "fill") <=> (mine[u] = r => pc[u] # "fill"))
    BY <2>1, <2>2, NoSlotIsNone, Zenon
  <2> HIDE DEF s
  <2>7. refcount[s] # 0
    BY <2>1, SMTT(30)
  <2>8. s \in LiveSlots /\ LiveSlots' = LiveSlots \ {s}
    <3>1. s \in LiveSlots /\ s \notin LiveSlots'
      BY <2>1, <2>5, <2>7, Zenon DEF LiveSlots
    <3>2. \A r \in Slots \ {s} : r \in LiveSlots' <=> r \in LiveSlots
      BY <2>2, <2>6, Zenon DEF LiveSlots
    <3>3. LiveSlots \subseteq Slots /\ LiveSlots' \subseteq Slots
      BY Zenon DEF LiveSlots
    <3> QED BY <3>1, <3>2, <3>3, Zenon
  <2>9. Cardinality(LiveSlots') = Cardinality(LiveSlots) - 1
    BY <1>1, <2>8, FS_RemoveElement, Zenon
  <2> QED BY <1>1, <1>2, <2>1, <2>4, <2>9, SMTT(30) DEF LiveCount
<1>5. ASSUME NEW t \in Threads, RegisterFill(t) PROVE LiveCount'
  <2> DEFINE s == mine[t]
  <2>1. pc[t] = "fill" /\ s \in Slots /\ refcount[s] = -1 /\ live' = live + 1 /\ refcount' = refcount /\ mine' = mine
    BY <1>0, <1>5, MineSlot, ZenonT(30) DEF RegisterFill, TypeOK, Control, ControlAt, OneOwner
  <2>2. pc'[t] = "publish" /\ \A u \in Threads \ {t} : pc'[u] = pc[u]
    BY <1>0, <1>5, Zenon DEF RegisterFill, TypeOK
  <2>3. Falling' = Falling
    BY <2>1, <2>2, Zenon DEF Falling
  <2>4. \A u \in Threads : mine[u] = s => u = t
    BY <1>0, <2>1, NoSlotIsNone, Zenon DEF OneOwner
  <2>5. \A r \in Slots, u \in Threads : r # s =>
          ((mine'[u] = r => pc'[u] # "fill") <=> (mine[u] = r => pc[u] # "fill"))
    BY <2>1, <2>2, Zenon
  <2>6. mine[t] = s
    OBVIOUS
  <2> HIDE DEF s
  <2>7. refcount[s] # 0
    BY <2>1, SMTT(30)
  <2>8. s \notin LiveSlots /\ LiveSlots' = LiveSlots \cup {s}
    <3>1. s \notin LiveSlots /\ s \in LiveSlots'
      BY <2>1, <2>2, <2>4, <2>6, <2>7, Zenon DEF LiveSlots
    <3>2. \A r \in Slots \ {s} : r \in LiveSlots' <=> r \in LiveSlots
      BY <2>1, <2>5, Zenon DEF LiveSlots
    <3>3. LiveSlots \subseteq Slots /\ LiveSlots' \subseteq Slots
      BY Zenon DEF LiveSlots
    <3> QED BY <3>1, <3>2, <3>3, Zenon
  <2>9. Cardinality(LiveSlots') = Cardinality(LiveSlots) + 1
    BY <1>1, <2>8, FS_AddElement, Zenon
  <2> QED BY <1>1, <1>2, <2>1, <2>3, <2>9, SMTT(30) DEF LiveCount
<1>6. CASE live' = live /\ Falling' = Falling /\ LiveSlots' = LiveSlots
  BY <1>6, Zenon DEF LiveCount
<1>7. CASE UNCHANGED vars
  BY <1>7, Zenon DEF vars, table, locals, LiveCount, LiveSlots, Falling
<1> QED BY <1>0, <1>3, <1>4, <1>5, <1>6, <1>7, CounterMoves, LiveSlotsMove, Zenon

\* synth_active hides no entry: the counter it reads is positive as long as an
\* entry is published, whatever the threads that register, release and sweep
\* are doing, and also after a reference was dropped twice.
THEOREM ActiveSeesPublished == Spec => []ActiveCoversPublished
<1>1. Init => LiveCount
  <2> SUFFICES ASSUME Init PROVE LiveCount
    BY Zenon
  <2>1. LiveSlots = {} /\ Falling = {} /\ live = 0
    BY Zenon DEF Init, LiveSlots, Falling
  <2>2. Cardinality(LiveSlots) = 0 /\ Cardinality(Falling) = 0
    BY <2>1, FS_EmptySet, Zenon
  <2> QED BY <2>1, <2>2, SMTT(30) DEF LiveCount
<1>2. IInv /\ LiveCount => ActiveCoversPublished
  <2> SUFFICES ASSUME IInv, LiveCount, NEW s \in Slots, refcount[s] > 0 PROVE live > 0
    BY Zenon DEF ActiveCoversPublished
  <2>1. \A t \in Threads : mine[t] = s => refcount[s] = -1
    BY NoSlotIsNone, Zenon DEF IInv, OneOwner
  <2>2. refcount[s] # 0 /\ refcount[s] # -1
    BY SMTT(30)
  <2>3. s \in LiveSlots
    BY <2>1, <2>2, Zenon DEF LiveSlots
  <2>4. IsFiniteSet(LiveSlots) /\ Cardinality(LiveSlots) \in Nat /\ Cardinality(Falling) \in Nat
    BY LiveFinite, Zenon
  <2>5. Cardinality(LiveSlots) # 0
    BY <2>3, <2>4, FS_EmptySet, Zenon
  <2> QED BY <2>4, <2>5, SMTT(30) DEF LiveCount
<1> QED BY Invariance, <1>1, <1>2, LiveCountStep, PTL DEF Spec

-----------------------------------------------------------------------------
\* Each step of the table is a step of a slot's life.

\* A step that leaves the table's inodes, the set of published slots and every
\* owner alone is none of them.
LEMMA LifeSame ==
  ASSUME TypeOK, ino' = ino, \A s \in Slots : refcount'[s] > 0 <=> refcount[s] > 0,
         \A u \in Threads : mine'[u] = mine[u] /\ (mine[u] \in Slots => pc'[u] = pc[u])
  PROVE  UNCHANGED Life!life
<1>1. Work' = Work
  <2>1. ASSUME NEW s \in Slots
        PROVE  {<<t, pc'[t]>> : t \in {u \in Threads : mine'[u] = s}}
                 = {<<t, pc[t]>> : t \in {u \in Threads : mine[u] = s}}
    BY Zenon
  <2> QED BY <2>1, ZenonT(30) DEF Work
<1>2. Published' = Published
  BY Zenon DEF Published
<1> QED BY <1>1, <1>2, Zenon DEF Life!life

\* The other threads keep what they own and where they are.
Alone(t) == \A u \in Threads : u # t => mine'[u] = mine[u] /\ pc'[u] = pc[u]

\* The work on slot s, and on no other, changes from old to new.
WorkMoves(s, old, new) == Work[s] = old /\ Work' = [Work EXCEPT ![s] = new]

\* A thread that owns slot s, or takes it while nobody does, moves the work
\* on s.
LEMMA LifeMoves ==
  ASSUME TypeOK, NEW t \in Threads, NEW s \in Slots, Alone(t),
         \A u \in Threads : u # t => mine[u] # s,
         mine[t] \in {s, NoSlot}, mine'[t] \in {s, NoSlot}
  PROVE  WorkMoves(s, IF mine[t] = s THEN {<<t, pc[t]>>} ELSE {},
                      IF mine'[t] = s THEN {<<t, pc'[t]>>} ELSE {})
<1> DEFINE new == IF mine'[t] = s THEN {<<t, pc'[t]>>} ELSE {}
<1>2. {<<u, pc[u]>> : u \in {v \in Threads : mine[v] = s}}
        = IF mine[t] = s THEN {<<t, pc[t]>>} ELSE {}
  BY NoSlotIsNone, Zenon
<1>3. {<<u, pc'[u]>> : u \in {v \in Threads : mine'[v] = s}} = new
  BY NoSlotIsNone, Zenon DEF Alone
<1>4. ASSUME NEW r \in Slots, r # s
      PROVE  {<<u, pc'[u]>> : u \in {v \in Threads : mine'[v] = r}}
               = {<<u, pc[u]>> : u \in {v \in Threads : mine[v] = r}}
  <2>1. mine[t] # r /\ mine'[t] # r
    BY <1>4, NoSlotIsNone, Zenon
  <2> QED BY <2>1, Zenon DEF Alone
<1>5. Work[s] = IF mine[t] = s THEN {<<t, pc[t]>>} ELSE {}
  BY <1>2, Zenon DEF Work
<1>6. Work' = [Work EXCEPT ![s] = new]
  <2> HIDE DEF new
  <2>1. ASSUME NEW r \in Slots
        PROVE  {<<u, pc'[u]>> : u \in {v \in Threads : mine'[v] = r}}
                 = IF r = s THEN new ELSE Work[r]
    BY <1>3, <1>4, Zenon DEF Work
  <2>2. Work' = [r \in Slots |-> IF r = s THEN new ELSE Work[r]]
    BY <2>1, ZenonT(30) DEF Work
  <2>3. Work = [r \in Slots |-> Work[r]]
    BY Zenon DEF Work
  <2> HIDE DEF Work
  <2> QED BY <2>2, <2>3, Zenon
<1> QED BY <1>5, <1>6, Zenon DEF WorkMoves

\* A thread that owns no slot takes one that nobody owns, and is at p then.
LEMMA Takes ==
  ASSUME TypeOK, OneOwner, NEW t \in Threads, NEW s \in Slots, NEW p, Alone(t),
         mine[t] = NoSlot, refcount[s] # -1, mine'[t] = s, pc'[t] = p
  PROVE  WorkMoves(s, {}, {<<t, p>>})
<1>1. \A u \in Threads : mine[u] # s
  BY NoSlotIsNone, Zenon DEF OneOwner
<1>2. s # NoSlot
  BY NoSlotIsNone, Zenon
<1>3. WorkMoves(s, IF mine[t] = s THEN {<<t, pc[t]>>} ELSE {},
                   IF mine'[t] = s THEN {<<t, pc'[t]>>} ELSE {})
  BY <1>1, LifeMoves, Zenon
<1> QED BY <1>2, <1>3, Zenon

\* The owner of a slot goes on from p to q and keeps it.
LEMMA Carries ==
  ASSUME TypeOK, OneOwner, NEW t \in Threads, NEW s \in Slots, NEW p, NEW q,
         Alone(t), mine[t] = s, pc[t] = p, mine'[t] = s, pc'[t] = q
  PROVE  WorkMoves(s, {<<t, p>>}, {<<t, q>>})
<1>1. \A u \in Threads : u # t => mine[u] # s
  BY NoSlotIsNone, Zenon DEF OneOwner
<1>2. WorkMoves(s, IF mine[t] = s THEN {<<t, pc[t]>>} ELSE {},
                   IF mine'[t] = s THEN {<<t, pc'[t]>>} ELSE {})
  BY <1>1, LifeMoves, Zenon
<1> QED BY <1>2, Zenon

\* The owner of a slot gives it up at p.
LEMMA Leaves ==
  ASSUME TypeOK, OneOwner, NEW t \in Threads, NEW s \in Slots, NEW p,
         Alone(t), mine[t] = s, pc[t] = p, mine'[t] = NoSlot
  PROVE  WorkMoves(s, {<<t, p>>}, {})
<1>1. \A u \in Threads : u # t => mine[u] # s
  BY NoSlotIsNone, Zenon DEF OneOwner
<1>2. s # NoSlot
  BY NoSlotIsNone, Zenon
<1>3. WorkMoves(s, IF mine[t] = s THEN {<<t, pc[t]>>} ELSE {},
                   IF mine'[t] = s THEN {<<t, pc'[t]>>} ELSE {})
  BY <1>1, LifeMoves, Zenon
<1> QED BY <1>2, <1>3, Zenon

\* No count but that of slot s changes.
OneCount(s) == \A r \in Slots : r # s => refcount'[r] = refcount[r]

\* What a change of one count does to the set of published slots.
LEMMA PublishedMoves ==
  ASSUME NEW s \in Slots, OneCount(s)
  PROVE  /\ refcount'[s] = 1 => Published' = Published \cup {s}
         /\ refcount'[s] \in {0, -1} => Published' = Published \ {s}
         /\ refcount'[s] \in {0, -1} /\ ~(refcount[s] > 0) => Published' = Published
<1>1. refcount'[s] = 1 => refcount'[s] > 0
  BY SMTT(30)
<1>2. refcount'[s] \in {0, -1} => ~(refcount'[s] > 0)
  BY SMTT(30)
<1> QED BY <1>1, <1>2, Zenon DEF Published, OneCount

\* The signs of a slot's count that nobody pins.
LEMMA Signs == ~(0 > 0) /\ ~(-1 > 0) /\ 0 # -1
BY SMTT(30)

\* Ten actions of the table take part in a slot's life; six of them, and the
\* last unpin, are its steps, and the rest leaves it alone.
LEMMA LifeStep ==
  ASSUME TypeOK, Control, OneOwner, Control', [Next]_vars
  PROVE  [Life!Next]_(Life!life)
<1>1. CASE Quiet
  <2>1. \A u \in Threads : mine[u] \in Slots => pc'[u] = pc[u]
    <3> SUFFICES ASSUME NEW u \in Threads, mine[u] \in Slots PROVE pc'[u] = pc[u]
      BY Zenon
    <3>1. mine'[u] # NoSlot
      BY <1>1, NoSlotIsNone, Zenon DEF Quiet
    <3>2. pc'[u] \in {"fill", "publish", "cleanup", "free"}
      BY <3>1, Zenon DEF Control, ControlAt
    <3> QED BY <1>1, <3>2, Zenon DEF Quiet
  <2> QED BY <1>1, <2>1, LifeSame, Zenon DEF Quiet
<1>2. ASSUME NEW t \in Threads, LookupPin(t) \/ RelocPin(t) \/ GcPin(t)
      PROVE  UNCHANGED Life!life
  <2>1. mine[t] = NoSlot
    BY <1>2, Zenon DEF LookupPin, RelocPin, GcPin, Control, ControlAt
  <2>2. \A s \in Slots : refcount'[s] > 0 <=> refcount[s] > 0
    BY <1>2, SMTT(30) DEF LookupPin, RelocPin, GcPin, Pin, Pinnable, TypeOK
  <2>3. ino' = ino /\ mine' = mine /\ \A u \in Threads : u # t => pc'[u] = pc[u]
    BY <1>2, Zenon DEF LookupPin, RelocPin, GcPin, TypeOK
  <2> QED BY <2>1, <2>2, <2>3, LifeSame, NoSlotIsNone, Zenon
<1>3. ASSUME NEW t \in Threads, LookupHit(t) PROVE UNCHANGED Life!life
  <2>1. mine[t] = NoSlot
    BY <1>3, Zenon DEF LookupHit, Control, ControlAt
  <2>2. /\ ino' = ino /\ mine' = mine /\ refcount' = refcount
        /\ \A u \in Threads : u # t => pc'[u] = pc[u]
    BY <1>3, Zenon DEF LookupHit, table, TypeOK
  <2> QED BY <2>1, <2>2, LifeSame, NoSlotIsNone, Zenon
<1>4. ASSUME NEW t \in Threads, Unpin(t) PROVE [Life!Next]_(Life!life)
  <2> DEFINE s == UnpinTarget(t)
  <2>1. s \in Slots /\ mine[t] = NoSlot
    BY <1>4, UnpinTargetSlot, Zenon DEF Unpin, Control, ControlAt
  <2>2. /\ refcount' = [refcount EXCEPT ![s] = Dropped(refcount[s])]
        /\ mine' = [mine EXCEPT ![t] = IF refcount[s] = 1 THEN s ELSE @]
        /\ pc' = [pc EXCEPT ![t] = IF refcount[s] = 1 THEN "cleanup" ELSE then[t]]
        /\ ino' = ino
    BY <1>4, Zenon DEF Unpin
  <2> HIDE DEF s
  <2>3. Alone(t)
    BY <2>2, Zenon DEF TypeOK, Alone
  <2>4. CASE refcount[s] = 1
    <3>1. mine'[t] = s /\ pc'[t] = "cleanup"
      BY <2>2, <2>4, Zenon DEF TypeOK
    <3>2. refcount[s] # -1 /\ refcount[s] > 0 /\ Dropped(refcount[s]) = -1
      BY <2>4, SMTT(30) DEF Dropped
    <3>3. WorkMoves(s, {}, {<<t, "cleanup">>})
      BY <2>1, <2>3, <3>1, <3>2, Takes, Zenon
    <3>4. refcount'[s] = -1 /\ OneCount(s)
      BY <2>1, <2>2, <3>2, Zenon DEF OneCount, TypeOK
    <3>5. Published' = Published \ {s}
      BY <2>1, <3>4, PublishedMoves, Zenon
    <3>6. s \in Published
      BY <2>1, <3>2, Zenon DEF Published
    <3>7. Life!Retire(t, s)
      BY <2>2, <3>3, <3>5, <3>6, Zenon DEF Life!Retire, Life!Advance, WorkMoves
    <3> QED BY <2>1, <3>7, Zenon DEF Life!Next
  <2>5. CASE refcount[s] # 1
    <3>1. \A r \in Slots : refcount'[r] > 0 <=> refcount[r] > 0
      BY <2>1, <2>2, <2>5, SMTT(30) DEF Dropped, TypeOK
    <3>2. mine'[t] = mine[t]
      BY <2>2, <2>5, Zenon DEF TypeOK
    <3> QED BY <2>1, <2>2, <2>3, <3>1, <3>2, LifeSame, NoSlotIsNone, Zenon DEF Alone
  <2> QED BY <2>4, <2>5, Zenon
<1>5. ASSUME NEW t \in Threads, Cleanup(t) PROVE Life!Next
  <2> DEFINE s == mine[t]
  <2>1. mine[t] = s /\ s \in Slots /\ pc[t] = "cleanup"
    BY <1>5, MineSlot, Zenon DEF Cleanup, Control, ControlAt
  <2>2. refcount' = refcount /\ ino' = ino
    BY <1>5, Zenon DEF Cleanup
  <2>3. mine'[t] = s /\ pc'[t] = "free" /\ Alone(t)
    BY <1>5, Zenon DEF Cleanup, TypeOK, Alone
  <2> HIDE DEF s
  <2>4. WorkMoves(s, {<<t, "cleanup">>}, {<<t, "free">>})
    BY <2>1, <2>3, Carries, Zenon
  <2>5. Published' = Published
    BY <2>2, Zenon DEF Published
  <2>6. Life!Release(t, s)
    BY <2>2, <2>4, <2>5, Zenon DEF Life!Release, Life!Advance, WorkMoves
  <2> QED BY <2>1, <2>6, Zenon DEF Life!Next
<1>6. ASSUME NEW t \in Threads, Free(t) PROVE Life!Next
  <2> DEFINE s == mine[t]
  <2>1. mine[t] = s /\ s \in Slots /\ pc[t] = "free"
    BY <1>6, MineSlot, Zenon DEF Free, Control, ControlAt
  <2>2. refcount'[s] = 0 /\ OneCount(s) /\ ino' = ino
    BY <1>6, <2>1, Zenon DEF Free, TypeOK, OneCount
  <2>3. mine'[t] = NoSlot /\ Alone(t)
    BY <1>6, Zenon DEF Free, TypeOK, Alone
  <2> HIDE DEF s
  <2>4. WorkMoves(s, {<<t, "free">>}, {})
    BY <2>1, <2>3, Leaves, Zenon
  <2>5. refcount[s] = -1
    BY <2>1, NoSlotIsNone, Zenon DEF OneOwner
  <2>6. Published' = Published
    BY <2>1, <2>2, <2>5, PublishedMoves, Signs, Zenon
  <2>7. Life!Free(t, s)
    BY <2>2, <2>4, <2>6, Zenon DEF Life!Free, Life!Advance, WorkMoves
  <2> QED BY <2>1, <2>7, Zenon DEF Life!Next
<1>7. ASSUME NEW t \in Threads, RegisterFill(t) PROVE Life!Next
  <2> DEFINE s == mine[t]
  <2>1. mine[t] = s /\ s \in Slots /\ pc[t] = "fill"
    BY <1>7, MineSlot, Zenon DEF RegisterFill, Control, ControlAt
  <2>2. refcount' = refcount /\ ino' = [ino EXCEPT ![s] = key[t]]
    BY <1>7, Zenon DEF RegisterFill
  <2>3. mine'[t] = s /\ pc'[t] = "publish" /\ Alone(t)
    BY <1>7, Zenon DEF RegisterFill, TypeOK, Alone
  <2> HIDE DEF s
  <2>4. WorkMoves(s, {<<t, "fill">>}, {<<t, "publish">>})
    BY <2>1, <2>3, Carries, Zenon
  <2>5. Published' = Published
    BY <2>2, Zenon DEF Published
  <2>6. Life!Fill(t, s, key[t]) /\ key[t] \in Inos
    BY <2>1, <2>2, <2>4, <2>5, FillsWithIno, Zenon DEF Life!Fill, Life!Advance, WorkMoves
  <2> QED BY <2>1, <2>6, Zenon DEF Life!Next
<1>8. ASSUME NEW t \in Threads, RegisterPublish(t) PROVE Life!Next
  <2> DEFINE s == mine[t]
  <2>1. mine[t] = s /\ s \in Slots /\ pc[t] = "publish"
    BY <1>8, MineSlot, Zenon DEF RegisterPublish, Control, ControlAt
  <2>2. refcount'[s] = 1 /\ OneCount(s) /\ ino' = ino
    BY <1>8, <2>1, Zenon DEF RegisterPublish, TypeOK, OneCount
  <2>3. mine'[t] = NoSlot /\ Alone(t)
    BY <1>8, Zenon DEF RegisterPublish, TypeOK, Alone
  <2> HIDE DEF s
  <2>4. WorkMoves(s, {<<t, "publish">>}, {})
    BY <2>1, <2>3, Leaves, Zenon
  <2>5. Published' = Published \cup {s}
    BY <2>1, <2>2, PublishedMoves, Zenon
  <2>6. Life!Publish(t, s)
    BY <2>2, <2>4, <2>5, Zenon DEF Life!Publish, Life!Advance, WorkMoves
  <2> QED BY <2>1, <2>6, Zenon DEF Life!Next
<1>9. ASSUME NEW t \in Threads, RegisterClaim(t) PROVE Life!Next
  <2> DEFINE s == cur[t]
  <2>1. s \in Slots /\ refcount[s] = 0 /\ mine[t] = NoSlot
    BY <1>9, Zenon DEF RegisterClaim, Control, ControlAt
  <2>2. refcount'[s] = -1 /\ OneCount(s) /\ ino' = ino
    BY <1>9, <2>1, Zenon DEF RegisterClaim, TypeOK, OneCount
  <2>3. mine'[t] = s /\ pc'[t] = "fill" /\ Alone(t)
    BY <1>9, Zenon DEF RegisterClaim, TypeOK, Alone
  <2> HIDE DEF s
  <2>4. refcount[s] # -1 /\ ~(refcount[s] > 0)
    BY <2>1, Signs, Zenon
  <2>5. WorkMoves(s, {}, {<<t, "fill">>})
    BY <2>1, <2>3, <2>4, Takes, Zenon
  <2>6. s \notin Published /\ Published' = Published
    BY <2>1, <2>2, <2>4, PublishedMoves, Zenon DEF Published
  <2>7. Life!Claim(t, s)
    BY <2>2, <2>5, <2>6, Zenon DEF Life!Claim, Life!Advance, WorkMoves
  <2> QED BY <2>1, <2>7, Zenon DEF Life!Next
<1>10. ASSUME NEW t \in Threads, Loud(t) PROVE [Life!Next]_(Life!life)
  BY <1>2, <1>3, <1>4, <1>5, <1>6, <1>7, <1>8, <1>9, <1>10, Zenon DEF Loud
<1> QED BY <1>1, <1>10, QuietOrLoud, Zenon

\* The table is a SlotLife: whatever the application does, a slot goes round
\* the cycle claim, fill, publish, retire, release, free; one thread at a time
\* works on it, and only while no lookup can find it.
THEOREM ImplementsLife == Spec => ImplementsSlotLife
<1>1. Init => Life!Init
  <2> SUFFICES ASSUME Init PROVE Life!Init
    OBVIOUS
  <2>1. Published = {} /\ ino = [s \in Slots |-> NoIno]
    BY SMTT(30) DEF Init, Published
  <2>2. ASSUME NEW s \in Slots
        PROVE  {<<t, pc[t]>> : t \in {u \in Threads : mine[u] = s}} = {}
    BY NoSlotIsNone, Zenon DEF Init
  <2>3. Work = [s \in Slots |-> {}]
    BY <2>2, ZenonT(30) DEF Work
  <2> QED BY <2>1, <2>3, Zenon DEF Life!Init
<1>2. IInv /\ IInv' /\ [Next]_vars => [Life!Next]_(Life!life)
  BY LifeStep, Zenon DEF IInv
<1> QED BY <1>1, <1>2, Invariance, PTL DEF Spec, ImplementsSlotLife, Life!Spec
=============================================================================
