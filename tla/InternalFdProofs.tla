-------------------------- MODULE InternalFdProofs --------------------------
(***************************************************************************)
(* Theorems about InternalFd, for every number of threads, every registry, *)
(* every set of fd numbers and every application; first, every step keeps  *)
(* the types and the locals, and nothing changes under a lone thread.      *)
(***************************************************************************)
EXTENDS InternalFdInv, FiniteSetTheorems

\* A finite set of numbers has a least and a greatest one: the smallest subset
\* that had none could do without one of its elements.
LEMMA Extremes ==
  ASSUME NEW S, S \subseteq Int, IsFiniteSet(S), S # {}
  PROVE  /\ Min(S) \in S /\ \A y \in S : Min(S) <= y
         /\ Max(S) \in S /\ \A y \in S : Max(S) >= y
<1> DEFINE Bounds(x, z, T) == x \in T /\ z \in T /\ \A y \in T : x <= y /\ z >= y
           Sets == {T \in SUBSET S : T # {} /\ ~\E x, z : Bounds(x, z, T)}
<1> HIDE DEF Bounds
<1>1. ASSUME Sets # {} PROVE FALSE
  <2>1. Sets \subseteq FiniteSubsetsOf(S)
    BY FS_Subset DEF FiniteSubsetsOf
  <2>2. PICK T \in Sets : \A U \in Sets : ~(<<U, T>> \in StrictSubsetOrdering(S))
    BY <1>1, <2>1, FS_StrictSubsetOrderingWellFounded, WFMin, Zenon
  <2>3. T \in SUBSET S /\ ~\E x, z : Bounds(x, z, T)
    OBVIOUS
  <2>4. PICK a \in T : TRUE
    BY Zenon
  <2>5. T \ {a} \notin Sets
    BY <2>2, Zenon DEF StrictSubsetOrdering
  <2>6. CASE T = {a}
    <3>1. a \in Int
      BY <2>3
    <3>2. Bounds(a, a, T)
      BY <2>6, <3>1 DEF Bounds
    <3> QED BY <2>3, <3>2
  <2>7. CASE T # {a}
    <3>1. T \ {a} # {}
      BY <2>7
    <3>2. PICK x, z : Bounds(x, z, T \ {a})
      BY <2>3, <2>5, <3>1
    <3> HIDE DEF Sets
    <3>3. \A y \in T : y \in Int
      BY <2>3
    <3>4. x \in T /\ z \in T /\ \A y \in T : y = a \/ (x <= y /\ z >= y)
      BY <3>2 DEF Bounds
    <3>5. Bounds(IF a < x THEN a ELSE x, IF a > z THEN a ELSE z, T)
      BY <3>3, <3>4 DEF Bounds
    <3> QED BY <2>3, <3>5
  <2> QED BY <2>6, <2>7
<1>2. PICK x, z : Bounds(x, z, S)
  BY <1>1
<1> QED BY <1>2, Zenon DEF Min, Max, Bounds

\* The kernel hands out a free number.
LEMMA LowestFree ==
  ASSUME TypeOK, FreeFds # {}
  PROVE  Min(FreeFds) \in Fds /\ fds[Min(FreeFds)] = "none"
<1>1. FreeFds \in SUBSET Fds
  BY AppsAssumption DEF TypeOK, FreeFds
<1>2. FreeFds \subseteq Int
  BY <1>1, FdsAssumption
<1>3. IsFiniteSet(FreeFds)
  BY <1>1, FdsAssumption, FS_Subset, Zenon
<1>4. Min(FreeFds) \in FreeFds
  BY <1>2, <1>3, Extremes, Zenon
<1> QED BY <1>1, <1>4 DEF FreeFds

\* What a read of the directory returns: the lowest entries that are left.
LEMMA ReadBatch ==
  ASSUME TypeOK, NEW t \in Threads, Entries(t) # {}
  PROVE  /\ Batch(t) \subseteq Fds /\ Max(Batch(t)) \in Nat
         /\ \A f \in Entries(t) : f \in Batch(t) \/ f >= Max(Batch(t)) + 1
<1> DEFINE Before(f) == {g \in Entries(t) : g < f}
<1>1. \A f \in Entries(t) : f \in Fds /\ f \in Nat
  BY FdsAssumption DEF Entries
<1>2. Entries(t) \subseteq Int /\ IsFiniteSet(Entries(t))
  <2>1. Entries(t) \in SUBSET Fds /\ Entries(t) \subseteq Int
    BY <1>1
  <2> QED BY <2>1, FdsAssumption, FS_Subset
<1>3. \A f : IsFiniteSet(Before(f)) /\ Cardinality(Before(f)) \in Nat
  <2> TAKE f
  <2>1. Before(f) \in SUBSET Entries(t)
    OBVIOUS
  <2> QED BY <1>2, <2>1, FS_Subset, FS_CardinalityType
<1>4. Batch(t) = {f \in Entries(t) : Cardinality(Before(f)) < Chunk}
  BY DEF Batch
<1> DEFINE low == Min(Entries(t))
<1>5. low \in Entries(t) /\ \A y \in Entries(t) : low <= y
  BY <1>2, Extremes
<1>6. Before(low) = {}
  <2>1. ASSUME NEW g \in Entries(t) PROVE ~(g < low)
    <3>1. low \in Nat /\ g \in Nat /\ low <= g
      BY <1>1, <1>5
    <3> QED BY <3>1
  <2> QED BY <2>1
<1>7. low \in Batch(t)
  BY <1>4, <1>5, <1>6, FS_EmptySet, ChunkAssumption
<1>8. Batch(t) \subseteq Entries(t)
  BY <1>4
<1> DEFINE top == Max(Batch(t))
<1>9. top \in Batch(t) /\ top \in Nat
  <2>1. Batch(t) \subseteq Int /\ IsFiniteSet(Batch(t)) /\ Batch(t) # {}
    BY <1>2, <1>7, <1>8, FS_Subset
  <2> QED BY <2>1, <1>1, <1>8, Extremes
<1> HIDE DEF low, top
<1>10. ASSUME NEW f \in Entries(t), f \notin Batch(t) PROVE f >= top + 1
  <2>1. Cardinality(Before(top)) < Chunk /\ ~(Cardinality(Before(f)) < Chunk)
    BY <1>4, <1>9, <1>10
  <2>2. ASSUME f <= top PROVE FALSE
    <3>1. Before(f) \in SUBSET Before(top)
      <4>1. ASSUME NEW g \in Entries(t), g < f PROVE g < top
        <5>1. g \in Nat /\ f \in Nat
          BY <1>1
        <5> QED BY <1>9, <2>2, <4>1, <5>1
      <4> QED BY <4>1
    <3>2. Cardinality(Before(f)) <= Cardinality(Before(top))
      BY <1>3, <3>1, FS_Subset
    <3>3. Cardinality(Before(f)) \in Nat /\ Cardinality(Before(top)) \in Nat
      BY <1>3
    <3> HIDE DEF Before
    <3> QED BY <2>1, <3>2, <3>3, ChunkAssumption
  <2>3. f \in Nat
    BY <1>1, Zenon
  <2> QED BY <1>9, <2>2, <2>3
<1> QED BY <1>1, <1>8, <1>9, <1>10 DEF top

\* The next entry a walk visits.
LEMMA LowestLeft ==
  ASSUME TypeOK, NEW t \in Threads, todo[t] # {}
  PROVE  Min(todo[t]) \in Fds /\ Min(todo[t]) \in todo[t]
<1>1. todo[t] \in SUBSET Fds
  BY DEF TypeOK
<1>2. todo[t] \subseteq Int
  <2>1. Fds \subseteq Int
    BY FdsAssumption
  <2> QED BY <1>1, <2>1, Zenon
<1>3. IsFiniteSet(todo[t])
  BY <1>1, FdsAssumption, FS_Subset, Zenon
<1>4. Min(todo[t]) \in todo[t]
  BY <1>2, <1>3, Extremes, Zenon
<1> QED BY <1>1, <1>4

-----------------------------------------------------------------------------
\* Every step keeps the types.
LEMMA TypeStep == TypeOK /\ Control /\ [Next]_vars => TypeOK'
<1> SUFFICES ASSUME TypeOK, Control, [Next]_vars PROVE TypeOK'
  OBVIOUS
<1> USE DEF TypeOK, Goto, walk, locals, Pcs, Closing, Calls, Files
<1>1. ASSUME NEW t \in Threads, Load(t) \/ Reload(t) PROVE TypeOK'
  BY <1>1, LoadEffect, SMTT(30) DEF To
<1>2. ASSUME NEW t \in Threads, LazyOpen(t) PROVE TypeOK'
  BY <1>2, LowestFree, SMTT(30) DEF LazyOpen, Control, ControlAt
<1>3. ASSUME NEW t \in Threads, Install(t) PROVE TypeOK'
  <2>1. slot' = slot \/ slot' = [slot EXCEPT ![name[t]] = fd[t]]
    BY <1>3, InstallEffect, Zenon
  <2>2. tgt' = tgt \/ (tgt' = [tgt EXCEPT ![t] = fd[t]] /\ fd[t] \in Fds)
    BY <1>3, InstallEffect, Zenon
  <2>3. \E p \in {"io", "reload", "return", "lose"}, v \in {fd[t], slot[name[t]], NoFd} :
           To(t, p, v) /\ (v = slot[name[t]] => v # Uninit)
    BY <1>3, InstallEffect, Numbers
  <2>4. name[t] \in Slots /\ fd[t] \in Fds \cup {Failed} /\ lost' \in BOOLEAN
        /\ UNCHANGED <<app, fds, op, name, idx, dir, todo, pos, range>>
    BY <1>3, InstallEffect, Zenon
  <2>5. slot' \in [Slots -> Fds \cup {Uninit, Failed}] /\ tgt' \in [Threads -> Fds \cup {NoFd}]
    BY <2>1, <2>2, <2>4, SMTT(30)
  <2>6. pc' \in [Threads -> Pcs] /\ fd' \in [Threads -> Fds \cup {Failed, NoFd}]
    BY <2>3, <2>4, SMTT(30) DEF To
  <2> QED BY <2>4, <2>5, <2>6
<1>4. ASSUME NEW t \in Threads, Lose(t) PROVE TypeOK'
  BY <1>4, LoseEffect, SMTT(30) DEF To
<1>6. ASSUME NEW t \in Threads, Io(t) \/ Return(t) PROVE TypeOK'
  BY <1>6, SMTT(30) DEF Io, Return
<1>7. ASSUME NEW t \in Threads, Scan(t) \/ ScanDone(t) PROVE TypeOK'
  BY <1>7, SMTT(30) DEF Scan, ScanDone
<1>8. ASSUME NEW t \in Threads, DupFd(t) PROVE TypeOK'
  <2>1. tgt[t] \in Fds
    BY <1>8, SMTT(30) DEF DupFd, Control, ControlAt
  <2>2. CASE FreeFds # {} /\ fds[tgt[t]] # "none"
    BY <1>8, <2>1, <2>2, LowestFree, SMTT(30) DEF DupFd
  <2>3. CASE ~(FreeFds # {} /\ fds[tgt[t]] # "none")
    BY <1>8, <2>3, Zenon DEF DupFd
  <2> QED BY <2>2, <2>3, Zenon
<1>9. ASSUME NEW t \in Threads, Reset(t) PROVE TypeOK'
  BY <1>9, Numbers, SMTT(30) DEF Reset, Control, ControlAt
<1>10. ASSUME NEW t \in Threads, Cas(t) PROVE TypeOK'
  <2>1. Registry[idx[t]] \in Slots /\ fd[t] \in Fds
    BY <1>10, Numbers, Zenon DEF Cas, Control, ControlAt
  <2>2. CASE slot[Registry[idx[t]]] = tgt[t]
    BY <1>10, <2>1, <2>2, SMTT(30) DEF Cas, Moved
  <2>3. CASE slot[Registry[idx[t]]] # tgt[t]
    BY <1>10, <2>1, <2>3 DEF Cas
  <2> QED BY <2>2, <2>3, Zenon
<1>11. ASSUME NEW t \in Threads, Undo(t) PROVE TypeOK'
  BY <1>11, Numbers, SMTT(30) DEF Undo, Moved, Control, ControlAt
<1>12. ASSUME NEW t \in Threads, Syscall(t) PROVE TypeOK'
  BY <1>12, Numbers, SMTT(30) DEF Syscall, After, Control, ControlAt
<1>13. ASSUME NEW t \in Threads, GetDents(t) PROVE TypeOK'
  <2>1. dir[t] \in Fds
    BY <1>13, SMTT(30) DEF GetDents, Control, ControlAt
  <2>2. CASE Entries(t) = {} \/ fds[dir[t]] # "dir"
    BY <1>13, <2>1, <2>2, SMTT(30) DEF GetDents
  <2>3. CASE ~(Entries(t) = {} \/ fds[dir[t]] # "dir")
    <3>1. Batch(t) \in SUBSET Fds /\ Max(Batch(t)) + 1 \in Nat
      BY <2>3, ReadBatch, SMTT(30)
    <3> QED BY <1>13, <2>3, <3>1 DEF GetDents
  <2> QED BY <2>2, <2>3, Zenon
<1>14. ASSUME NEW t \in Threads, Visit(t) PROVE TypeOK'
  <2>1. todo[t] # {} => Min(todo[t]) \in Fds
    BY LowestLeft, Zenon
  <2> QED BY <1>14, <2>1, SMTT(30) DEF Visit
<1>15. ASSUME NEW t \in Threads, Open(t) PROVE TypeOK'
  BY <1>15, LowestFree, Zenon DEF Open
<1>16. ASSUME NEW t \in Threads, NEW s \in Slots, Use(t, s) PROVE TypeOK'
  BY <1>16, Zenon DEF Use
<1>17. ASSUME NEW t \in Threads, NEW o \in app.calls, NEW f \in Fds, Replace(t, o, f) PROVE TypeOK'
  BY <1>17, Zenon DEF Replace
<1>18. ASSUME NEW t \in Threads, NEW lo \in Fds, NEW hi \in Fds, CloseRange(t, lo, hi) PROVE TypeOK'
  <2>1. CASE FreeFds = {}
    BY <1>18, <2>1, SMTT(30) DEF CloseRange
  <2>2. CASE FreeFds # {}
    <3>1. lo..hi \in SUBSET Nat
      BY Numbers, SMTT(30)
    <3>2. Min(FreeFds) \in Fds
      BY <2>2, LowestFree, Zenon
    <3>3. /\ dir' = [dir EXCEPT ![t] = Min(FreeFds)]
          /\ fds' = [fds EXCEPT ![Min(FreeFds)] = "dir"]
          /\ range' = [range EXCEPT ![t] = lo..hi]
          /\ pc' = [pc EXCEPT ![t] = "read"] /\ op' = [op EXCEPT ![t] = "range"]
          /\ UNCHANGED <<todo, pos, app, lost, slot, name, fd, tgt, idx>>
      BY <1>18, <2>2, Zenon DEF CloseRange
    <3> QED BY <3>1, <3>2, <3>3, Zenon
  <2> QED BY <2>1, <2>2, Zenon
<1>19. CASE UNCHANGED vars
  BY <1>19 DEF vars
<1>20. app.threads \subseteq Threads
  BY AppsAssumption
<1> HIDE DEF TypeOK
<1> QED
  BY <1>1, <1>2, <1>3, <1>4, <1>6, <1>7, <1>8, <1>9, <1>10, <1>11, <1>12,
     <1>13, <1>14, <1>15, <1>16, <1>17, <1>18, <1>19, <1>20 DEF Next, Step

\* A step leaves the locals as the code at its new place expects them.
LEMMA ControlAct ==
  ASSUME TypeOK, Control, NEW t \in app.threads, t \in Threads, Act(t)
  PROVE  ControlAt(t)'
<1> DEFINE Fn(f) == f = [u \in Threads |-> f[u]]
<1>1. Fn(pc) /\ Fn(op) /\ Fn(name) /\ Fn(fd) /\ Fn(tgt) /\ Fn(idx) /\ Fn(dir) /\ Fn(todo)
      /\ Fn(pos) /\ Fn(range)
  BY SMTT(30) DEF TypeOK
<1>2. /\ ControlAt(t) /\ app' = app
      /\ tgt[t] \in Fds \cup {NoFd} /\ dir[t] \in Fds \cup {NoFd} /\ idx[t] \in Nat \ {0}
  BY OtherThreads DEF TypeOK, Control, Others
<1>3. NoFd \notin Fds /\ Failed # NoFd /\ Uninit # NoFd
  BY Numbers, Zenon
<1>4. CASE Load(t) \/ Reload(t)
  <2>1. /\ pc[t] \in {"load", "reload"} /\ UNCHANGED <<op, name, tgt, idx, dir, todo, pos, range>>
        /\ (pc'[t] = "io" /\ fd'[t] \in Fds) \/ pc'[t] \in {"open", "return"}
    BY <1>1, <1>4, LoadEffect, SMTT(30) DEF To
  <2> QED BY <1>2, <1>3, <2>1, Zenon DEF ControlAt, Closing
<1>5. CASE LazyOpen(t)
  <2>1. /\ pc[t] = "open" /\ pc'[t] = "install" /\ fd'[t] # NoFd
        /\ UNCHANGED <<op, name, tgt, idx, dir, todo, pos, range>>
    BY <1>1, <1>3, <1>5, LowestFree, Zenon DEF LazyOpen, Goto, walk
  <2> QED BY <1>2, <1>3, <2>1, Zenon DEF ControlAt, Closing
<1>6. CASE Install(t)
  <2>1. /\ pc[t] = "install" /\ UNCHANGED <<op, name, idx, dir, todo, pos, range>>
        /\ \/ tgt' = tgt /\ ((pc'[t] = "io" /\ fd'[t] \in Fds) \/ pc'[t] \in {"reload", "return"})
           \/ pc'[t] = "lose" /\ tgt'[t] \in Fds /\ fd'[t] = slot[name[t]]
    <3>1. \A q, v : To(t, q, v) => pc'[t] = q /\ fd'[t] = v
      BY <1>1 DEF To
    <3>2. tgt' = [tgt EXCEPT ![t] = fd[t]] => tgt'[t] = fd[t]
      BY <1>1, Zenon
    <3> QED BY <1>6, <3>1, <3>2, InstallEffect, Zenon
  <2>2. name[t] \in Slots /\ slot[name[t]] # NoFd
    BY <1>3, <1>6, InstallEffect, SMTT(30) DEF TypeOK
  <2> QED BY <1>2, <1>3, <2>1, <2>2, Zenon DEF ControlAt, Closing
<1>7. CASE Lose(t)
  <2>1. /\ pc[t] = "lose" /\ UNCHANGED <<op, name, idx, dir, todo, pos, range>> /\ tgt'[t] = NoFd
        /\ (pc'[t] = "io" /\ fd'[t] \in Fds) \/ pc'[t] \in {"reload", "return"}
    BY <1>1, <1>7, LoseEffect, SMTT(30) DEF To
  <2> QED BY <1>2, <1>3, <2>1, Zenon DEF ControlAt, Closing
<1>8. CASE Io(t) \/ Return(t)
  <2>1. /\ UNCHANGED <<tgt, idx, dir, todo, pos, range>>
        /\ \/ pc[t] = "io" /\ pc'[t] = "return" /\ op' = op
           \/ pc[t] = "return" /\ pc'[t] = "idle" /\ op'[t] = "none"
    BY <1>1, <1>8, Zenon DEF Io, Return, Goto, locals, walk
  <2> QED BY <1>2, <1>3, <2>1, Zenon DEF ControlAt, Closing
<1>9. CASE Scan(t) \/ ScanDone(t)
  <2>1. /\ UNCHANGED <<op, tgt, dir, todo, pos, range>> /\ pc[t] = "scan"
        /\ \/ pc'[t] = "dup" /\ idx'[t] = idx[t] /\ idx[t] \in DOMAIN Registry
           \/ pc'[t] = "scan" \/ (pc'[t] = "syscall" /\ idx'[t] = 1)
    BY <1>1, <1>9, Zenon DEF Scan, ScanDone, Goto, walk
  <2> QED BY <1>2, <1>3, <2>1, Zenon DEF ControlAt, Closing
<1>10. CASE DupFd(t)
  <2>1. /\ UNCHANGED <<op, tgt, idx, dir, todo, pos, range>> /\ pc[t] = "dup"
        /\ (pc'[t] = "cas" /\ fd'[t] \in Fds) \/ pc'[t] = "reset"
    BY <1>1, <1>10, LowestFree, Zenon DEF DupFd, Goto, walk
  <2> QED BY <1>2, <1>3, <2>1, Zenon DEF ControlAt, Closing
<1>11. CASE Reset(t) \/ Cas(t) \/ Undo(t)
  <2>1. /\ UNCHANGED <<op, tgt, dir, todo, pos, range>> /\ pc[t] \in {"reset", "cas", "undo"}
        /\ pc'[t] = "scan" \/ (pc'[t] = "undo" /\ UNCHANGED <<idx, fd>> /\ pc[t] = "cas")
    BY <1>1, <1>11, Zenon DEF Reset, Cas, Undo, Moved, Goto, walk
  <2> QED BY <1>2, <1>3, <2>1, Zenon DEF ControlAt, Closing
<1>12. CASE Syscall(t)
  <2>1. /\ UNCHANGED <<op, idx, dir, todo, pos, range>> /\ pc[t] = "syscall" /\ tgt'[t] = NoFd
        /\ pc'[t] = IF op[t] = "range" THEN "visit" ELSE "return"
    BY <1>1, <1>12, Zenon DEF Syscall, Goto, walk
  <2> QED BY <1>2, <1>3, <2>1, Zenon DEF ControlAt, Closing
<1>13. CASE GetDents(t)
  <2>1. /\ UNCHANGED <<op, tgt, idx>> /\ pc[t] = "read"
        /\ \/ /\ pc'[t] = "return" /\ dir'[t] = NoFd /\ pos'[t] = 0 /\ range'[t] = {}
              /\ todo'[t] = todo[t]
           \/ pc'[t] = "visit" /\ dir'[t] = dir[t]
    BY <1>1, <1>13, Zenon DEF GetDents, Goto
  <2> QED BY <1>2, <1>3, <2>1, Zenon DEF ControlAt, Closing
<1>14. CASE Visit(t)
  <2>1. /\ UNCHANGED <<op, idx, dir, pos, range>> /\ pc[t] = "visit"
        /\ \/ pc'[t] = "read" /\ todo[t] = {} /\ UNCHANGED <<todo, tgt>>
           \/ pc'[t] = "scan" /\ tgt'[t] \in Fds /\ tgt'[t] # dir[t]
           \/ pc'[t] = "visit" /\ tgt' = tgt
    BY <1>1, <1>14, LowestLeft, SMTT(30) DEF Visit, Goto
  <2> QED BY <1>2, <1>3, <2>1, Zenon DEF ControlAt, Closing
<1>15. CASE Open(t)
  <2>1. UNCHANGED <<pc, op, name, fd, tgt, idx, dir, todo, pos, range>>
    BY <1>15, Zenon DEF Open, locals, walk
  <2> QED BY <1>2, <2>1, Zenon DEF ControlAt
<1>16. CASE \E s \in Slots : Use(t, s)
  <2>1. /\ UNCHANGED <<tgt, idx, dir, todo, pos, range>> /\ pc[t] = "idle"
        /\ pc'[t] = "load" /\ op'[t] = "use" /\ name'[t] \in Slots
    BY <1>1, <1>16, Zenon DEF Use, Goto, walk
  <2> QED BY <1>2, <1>3, <2>1, Zenon DEF ControlAt, Closing
<1>17. CASE \E o \in app.calls, f \in Fds : Replace(t, o, f)
  <2>1. /\ UNCHANGED <<idx, dir, todo, pos, range>> /\ pc[t] = "idle" /\ tgt'[t] \in Fds
        /\ pc'[t] = "scan" /\ op'[t] \in {"close", "dup2", "baddup2"}
    BY <1>1, <1>17, Zenon DEF Replace, Goto, walk
  <2> QED BY <1>2, <1>3, <2>1, Zenon DEF ControlAt, Closing
<1>18. CASE \E lo, hi \in Fds : CloseRange(t, lo, hi)
  <2>1. /\ UNCHANGED <<tgt, idx, pos, todo>> /\ pc[t] = "idle" /\ op'[t] = "range" /\ "range" \in app.calls
        /\ \/ pc'[t] = "return" /\ dir'[t] = dir[t] /\ range'[t] = range[t]
           \/ pc'[t] = "read" /\ dir'[t] \in Fds
    BY <1>1, <1>18, LowestFree DEF CloseRange, Goto, walk
  <2> QED BY <1>2, <1>3, <2>1, Zenon DEF ControlAt, Closing
<1> QED
  BY <1>4, <1>5, <1>6, <1>7, <1>8, <1>9, <1>10, <1>11, <1>12, <1>13, <1>14, <1>15, <1>16,
     <1>17, <1>18, Zenon DEF Act, Step

\* Every thread uses its locals where the code does.
LEMMA ControlStep == TypeOK /\ Control /\ [Next]_vars => Control'
<1> SUFFICES ASSUME TypeOK, Control, [Next]_vars, NEW u \in Threads
             PROVE  ControlAt(u)'
  BY DEF Control
<1>1. ControlAt(u) /\ \A t \in app.threads : t \in Threads
  BY AppsAssumption DEF TypeOK, Control
<1>2. ASSUME NEW t \in app.threads, Act(t) PROVE ControlAt(u)'
  <2>1. CASE u = t
    BY <1>1, <1>2, <2>1, ControlAct, Zenon
  <2>2. CASE u # t
    <3>1. Others(t)
      BY <1>1, <1>2, OtherThreads, Zenon
    <3> QED BY <1>1, <2>2, <3>1, SMTT(30) DEF Others, ControlAt
  <2> QED BY <2>1, <2>2, Zenon
<1>3. CASE UNCHANGED vars
  BY <1>1, <1>3 DEF vars, locals, walk, ControlAt
<1> QED BY <1>2, <1>3, Zenon DEF Next, Act

-----------------------------------------------------------------------------
\* Nothing changes under a thread that is alone: it never loses a race for a
\* slot, and its walk leaves no application fd behind.
LEMMA SoloStep ==
  ASSUME IInv, NEW t \in app.threads, t \in Threads, Act(t), Solo
  PROVE  Alone' /\ Remaining'
<1>1. TypeOK /\ Control /\ ControlAt(t) /\ Others(t) /\ Agree /\ HandAt(t)
  BY OtherThreads, Zenon DEF IInv, Control, Agree
<1> DEFINE AloneAt == /\ pc[t] \in {"open", "install"} => slot[name[t]] = Uninit
                      /\ pc[t] \in {"cas", "dup", "reset"} => slot[Registry[idx[t]]] = tgt[t]
                      /\ pc[t] # "lose"
           Left(f) == f >= pos[t] \/ f \in todo[t] \/ tgt[t] = f
<1>2. AloneAt /\ (op[t] = "range" => \A f \in range[t] \cap Fds : fds[f] = "app" => Left(f))
  BY DEF IInv, Alone, Remaining
<1>3. \A u \in Threads \ {t} : pc'[u] = "idle" /\ op'[u] = "none"
  BY <1>1, SoloIdle DEF Others
<1> SUFFICES AloneAt' /\ (op'[t] = "range" => \A f \in range'[t] \cap Fds : fds'[f] = "app" => Left(f)')
  BY <1>3 DEF Alone, Remaining
<1>4. \A u \in Threads : pos[u] \in Nat
  BY <1>1 DEF TypeOK
<1>5. CASE Load(t) \/ Reload(t)
  <2>1. /\ UNCHANGED <<slot, op, name>> /\ op[t] = "use"
        /\ pc'[t] \in {"open", "io", "return"} /\ (pc'[t] = "open" => slot[name[t]] = Uninit)
    BY <1>1, <1>5, LoadEffect, SMTT(30) DEF To, TypeOK, ControlAt
  <2> QED BY <2>1, Zenon
<1>6. CASE LazyOpen(t)
  <2>1. UNCHANGED <<slot, op, name>> /\ op[t] = "use" /\ pc[t] = "open" /\ pc'[t] = "install"
    BY <1>1, <1>6 DEF LazyOpen, Goto, TypeOK, ControlAt
  <2> QED BY <1>2, <2>1, Zenon
<1>7. CASE Install(t)
  <2>1. op' = op /\ op[t] = "use" /\ slot[name[t]] = Uninit
    BY <1>1, <1>2, <1>7, InstallEffect, Zenon DEF ControlAt
  <2>2. \A p, v : To(t, p, v) => pc'[t] = p
    BY <1>1, Zenon DEF To, TypeOK
  <2>3. pc'[t] \in {"io", "reload", "return"}
    BY <1>1, <1>7, <2>1, <2>2, InstallEffect, Zenon
  <2> QED BY <2>1, <2>3, Zenon
<1>8. CASE Io(t) \/ Return(t) \/ (\E s \in Slots : Use(t, s)) \/ (\E o \in app.calls, f \in Fds : Replace(t, o, f))
  <2>1. pc'[t] \in {"return", "idle", "load", "scan"}
    BY <1>1, <1>8, Zenon DEF Io, Return, Use, Replace, Goto, TypeOK
  <2>2. op'[t] # "range" \/ (UNCHANGED <<op, fds, range, pos, todo, tgt>>)
    BY <1>1, <1>8, SMTT(30) DEF Io, Return, Use, Replace, TypeOK, locals, walk
  <2> QED BY <1>2, <2>1, <2>2, Zenon
<1>9. CASE Open(t)
  <2>1. UNCHANGED <<slot, op, pc>> /\ pc[t] = "idle"
    BY <1>9, Zenon DEF Open, locals
  <2> QED BY <1>1, <2>1 DEF ControlAt
<1>10. CASE Scan(t) \/ ScanDone(t)
  <2>1. /\ UNCHANGED <<slot, op, fds, range, pos, todo, tgt>> /\ pc'[t] \in {"scan", "syscall", "dup"}
        /\ pc'[t] = "dup" => slot[Registry[idx[t]]] = tgt[t] /\ idx' = idx
    BY <1>1, <1>10, Zenon DEF Scan, ScanDone, Goto, walk, TypeOK
  <2> QED BY <1>2, <2>1, Zenon
<1>11. CASE DupFd(t)
  <2>1. /\ UNCHANGED <<slot, op, range, pos, todo, tgt, idx>> /\ pc[t] = "dup" /\ pc'[t] \in {"reset", "cas"}
        /\ fds' = fds \/ (Min(FreeFds) \in Fds /\ fds' = [fds EXCEPT ![Min(FreeFds)] = fds[tgt[t]]])
    BY <1>1, <1>11, LowestFree, SMTT(30) DEF DupFd, Goto, walk, TypeOK
  <2>2. fds[tgt[t]] # "app"
    <3>1. Registry[idx[t]] \in Slots /\ slot[Registry[idx[t]]] = tgt[t] /\ tgt[t] \in Fds
      BY <1>1, <1>2, <2>1, Numbers, Zenon DEF ControlAt, TypeOK, Closing
    <3> QED BY <1>1, <3>1, Numbers, Zenon DEF Agree, SlotsOwn
  <2>3. \A f \in Fds : fds'[f] = "app" => fds[f] = "app"
    BY <1>1, <2>1, <2>2, Zenon DEF TypeOK
  <2> QED BY <1>2, <2>1, <2>3, Zenon
<1>12. CASE Reset(t) \/ Cas(t)
  <2>1. UNCHANGED <<op, fds, range, pos, todo, tgt>> /\ pc[t] \in {"reset", "cas"} /\ pc'[t] \in {"scan", "undo"}
    BY <1>1, <1>12, SMTT(30) DEF Reset, Cas, Moved, Goto, walk, TypeOK
  <2> QED BY <1>2, <2>1, Zenon
<1>13. CASE Undo(t)
  <2>1. /\ UNCHANGED <<op, range, pos, todo, tgt>> /\ pc'[t] = "scan" /\ fd[t] \in Fds
        /\ fds' = [fds EXCEPT ![fd[t]] = "none"]
    BY <1>1, <1>13, Zenon DEF Undo, Moved, Goto, walk, TypeOK, ControlAt
  <2>2. \A f \in Fds : fds'[f] = "app" => fds[f] = "app"
    BY <1>1, <2>1, Zenon DEF TypeOK
  <2> QED BY <1>2, <2>1, <2>2, Zenon
<1>14. CASE Syscall(t)
  <2>1. /\ UNCHANGED <<op, range, pos, todo>> /\ pc'[t] \in {"visit", "return"} /\ tgt[t] \in Fds
        /\ fds' = [fds EXCEPT ![tgt[t]] = After(t)]
    BY <1>1, <1>14, SMTT(30) DEF Syscall, Goto, walk, TypeOK, ControlAt, Closing
  <2>2. op[t] = "range" => After(t) = "none"
    BY Zenon DEF After
  <2>3. op[t] = "range" => \A f \in Fds : fds'[f] = "app" => fds[f] = "app" /\ f # tgt[t]
    BY <1>1, <2>1, <2>2, Zenon DEF TypeOK
  <2> QED BY <1>2, <2>1, <2>3, Zenon
<1>15. CASE \E lo, hi \in Fds : CloseRange(t, lo, hi)
  <2>1. /\ pc[t] = "idle" /\ pos' = pos /\ pc'[t] \in {"return", "read"}
    BY <1>1, <1>15, SMTT(30) DEF CloseRange, Goto, walk, TypeOK
  <2>2. pos'[t] = 0
    BY <1>1, <2>1, Zenon DEF ControlAt, Closing
  <2> QED BY <2>1, <2>2, Nonnegative, Zenon
<1>16. CASE GetDents(t)
  <2>1. pc[t] = "read" /\ todo[t] = {} /\ tgt[t] = NoFd /\ op' = op /\ op[t] = "range"
    BY <1>1, <1>16, Zenon DEF GetDents, ControlAt, Closing
  <2>2. CASE pc'[t] = "return" /\ range'[t] = {}
    BY <2>2
  <2>3. CASE /\ Entries(t) # {} /\ pc'[t] = "visit" /\ UNCHANGED <<fds, range>>
             /\ todo'[t] = Batch(t) /\ pos'[t] = Max(Batch(t)) + 1
    <3>1. \A f \in range[t] \cap Fds : fds[f] = "app" => f \in Entries(t)
      BY <1>2, <2>1, Numbers, Zenon DEF Entries
    <3>2. \A f \in Entries(t) : f \in todo'[t] \/ f >= pos'[t]
      BY <1>1, <2>3, ReadBatch, Zenon
    <3> QED BY <2>3, <3>1, <3>2, Zenon
  <2> QED BY <1>1, <1>16, <2>2, <2>3, SMTT(30) DEF GetDents, Goto, TypeOK
<1>17. CASE Visit(t)
  <2>1. /\ pc[t] = "visit" /\ tgt[t] = NoFd /\ op[t] = "range" /\ dir[t] \in Fds
        /\ UNCHANGED <<op, fds, range, pos>>
    BY <1>1, <1>17, Zenon DEF Visit, ControlAt, Closing, TypeOK
  <2>2. CASE todo[t] = {} /\ UNCHANGED <<todo, tgt>> /\ pc'[t] = "read"
    BY <1>2, <2>1, <2>2, Zenon
  <2>3. CASE /\ Min(todo[t]) \in Fds /\ todo'[t] = todo[t] \ {Min(todo[t])} /\ pc'[t] \in {"scan", "visit"}
             /\ IF Min(todo[t]) \in range[t] \ {dir[t]} THEN tgt'[t] = Min(todo[t]) ELSE tgt' = tgt
    <3>1. fds[dir[t]] = "dir"
      BY <1>1, <2>1, Numbers, Zenon DEF HandAt
    <3> QED BY <1>2, <2>1, <2>3, <3>1, Numbers, Zenon
  <2> QED BY <1>1, <1>17, <2>2, <2>3, LowestLeft, SMTT(30) DEF Visit, Goto, TypeOK
<1>18. ~Lose(t)
  BY <1>2 DEF Lose
<1> QED
  BY <1>5, <1>6, <1>7, <1>8, <1>9, <1>10, <1>11, <1>12, <1>13, <1>14, <1>15, <1>16, <1>17, <1>18,
     Zenon DEF Act, Step

-----------------------------------------------------------------------------
\* Every slot starts unset, and no thread has anything in hand.
LEMMA InitIInv == Init => IInv
<1> SUFFICES ASSUME Init PROVE IInv
  OBVIOUS
<1>1. TypeOK
  <2>1. 1 \in Nat \ {0} /\ 0 \in Nat
    OBVIOUS
  <2> QED BY <2>1, Zenon DEF Init, TypeOK, Pcs
<1>2. Control
  BY Numbers DEF Init, Control, ControlAt, Closing
<1>3. \A t \in Threads : Flight(t) = NoFd /\ dir[t] = NoFd /\ pc[t] = "idle" /\ op[t] = "none"
  BY DEF Init, Flight
<1>4. Agree
  BY <1>3, Numbers, Zenon DEF Init, Agree, SlotsOwn, PassedAt, HandAt, Apart, Closing
<1>5. Accounted
  BY Numbers DEF Init, Accounted
<1>6. Alone /\ Remaining
  BY <1>3 DEF Alone, Remaining
<1> QED BY <1>1, <1>2, <1>4, <1>5, <1>6, Zenon DEF IInv

\* The invariant is kept by every step.
LEMMA StepIInv == IInv /\ [Next]_vars => IInv'
<1> SUFFICES ASSUME IInv, [Next]_vars PROVE IInv'
  OBVIOUS
<1>1. TypeOK' /\ Control'
  BY TypeStep, ControlStep DEF IInv
<1>2. CASE UNCHANGED vars
  <2>1. UNCHANGED <<app, slot, lost, fds, pc, op, name, fd, tgt, idx, dir, todo, pos, range>>
    BY <1>2 DEF vars, locals, walk
  <2>2. \A t \in Threads : Flight(t)' = Flight(t)
    BY <2>1 DEF Flight
  <2>3. SlotsOwn' <=> SlotsOwn
    BY <2>1, Zenon DEF SlotsOwn
  <2>4. \A t \in Threads : (PassedAt(t)' <=> PassedAt(t)) /\ (HandAt(t)' <=> HandAt(t))
    BY <2>1, <2>2, SMTT(30) DEF PassedAt, HandAt
  <2>5. \A t, u \in Threads : Apart(t, u)' <=> Apart(t, u)
    BY <2>1, <2>2 DEF Apart
  <2>6. Agree' <=> Agree
    BY <2>3, <2>4, <2>5, Zenon DEF Agree
  <2>7. Accounted' <=> Accounted
    BY <2>1, <2>2, Zenon DEF Accounted, Leaving
  <2>8. (Alone /\ Remaining)' <=> (Alone /\ Remaining)
    BY <2>1 DEF Alone, Remaining
  <2>9. (Solo' <=> Solo) /\ (lost' <=> lost)
    BY <2>1, Zenon DEF Solo
  <2> QED BY <1>1, <2>6, <2>7, <2>8, <2>9, Zenon DEF IInv
<1>3. CASE Next
  <2>1. PICK t \in app.threads : Act(t)
    BY <1>3, Zenon DEF Next, Act
  <2>2. t \in Threads /\ TypeOK /\ Control
    BY AppsAssumption, Zenon DEF IInv, TypeOK
  <2>7. LowestIsFree
    BY <2>2, LowestFree, Zenon DEF LowestIsFree
  <2>3. Solo' <=> Solo
    BY <2>1, <2>2, OtherThreads, Zenon DEF Others, Solo
  <2>4. (~lost \/ Solo)' => Agree'
    BY <2>1, <2>2, <2>3, <2>7, AgreeStep, Zenon
  <2>5. ~lost' => Accounted'
    BY <2>1, <2>2, <2>7, AccountedStep, Zenon
  <2>6. Solo' => Alone' /\ Remaining'
    BY <2>1, <2>2, <2>3, SoloStep, Zenon
  <2> QED BY <1>1, <2>4, <2>5, <2>6, Zenon DEF IInv
<1> QED BY <1>2, <1>3

\* The invariant holds of every reachable state.
LEMMA Invariance == Spec => []IInv
BY InitIInv, StepIInv, PTL DEF Spec

\* Whatever the threads race for, and whatever numbers the application closes or
\* takes over, between calls the slots and the fd table agree, as long as none of
\* the losses the code itself allows has happened: what
\* wslcompat_relocate_internal_fd and the lazy opens of logging.c and statx.c are for.
THEOREM SlotsAgree == Spec => []SlotsKeepTheirFds
<1>1. IInv => SlotsKeepTheirFds
  <2> SUFFICES ASSUME IInv, Quiet, ~lost
               PROVE  /\ \A f \in Fds : fds[f] \in Slots => slot[fds[f]] = f
                      /\ \A s \in Slots : slot[s] >= 0 => fds[slot[s]] = s
    BY DEF SlotsKeepTheirFds
  <2>1. Agree /\ Accounted /\ TypeOK
    BY DEF IInv
  <2>2. \A t \in Threads, f \in Fds : ~Leaving(t, f)
    BY Numbers DEF Quiet, Leaving, Flight, Closing
  <2>3. \A f \in Fds : fds[f] \in Slots => slot[fds[f]] = f
    BY <2>1, <2>2, Zenon DEF Accounted
  <2>4. ASSUME NEW s \in Slots, slot[s] >= 0 PROVE fds[slot[s]] = s
    <3>1. slot[s] \in Fds \cup {Uninit, Failed}
      BY <2>1 DEF TypeOK
    <3>2. slot[s] \in Fds
      BY <2>4, <3>1, SMTT(30) DEF Uninit, Failed
    <3> QED BY <2>1, <3>2, Zenon DEF Agree, SlotsOwn
  <2> QED BY <2>3, <2>4
<1> QED BY <1>1, Invariance, PTL

\* What debug_log writes to and lookup_mnt_id reads from is the library's own file
\* as long as the slot still names the fd that was loaded, whoever closes what
\* between the load and the system call.
THEOREM OwnFileUsed == Spec => []UsesOwnFile
<1>1. IInv => UsesOwnFile
  <2> SUFFICES ASSUME IInv, NEW t \in Threads, pc[t] = "io", slot[name[t]] = fd[t], ~lost
               PROVE  fds[fd[t]] = name[t]
    BY Zenon DEF UsesOwnFile
  <2>1. Agree /\ ControlAt(t)
    BY DEF IInv, Control
  <2> QED BY <2>1, SMTT(30) DEF Agree, SlotsOwn, ControlAt
<1> QED BY <1>1, Invariance, PTL

\* No step of the library takes an application file away, except the close or dup2
\* that the application asked for: neither the loser of a lazy open nor the end of
\* a walk closes a number that has become the application's.
THEOREM AppFilesKept == Spec => AppFileKept
<1> DEFINE Keeps == ~lost => \A f \in Fds : fds[f] = "app" /\ fds'[f] # "app" =>
                      \E t \in Threads : \/ pc[t] = "syscall" /\ tgt[t] = f
                                         \/ pc[t] = "undo" /\ fd[t] = f
<1>1. IInv /\ [Next]_vars => [Keeps]_vars
  <2> SUFFICES ASSUME IInv, Next, ~lost, NEW f \in Fds, fds[f] = "app", fds'[f] # "app"
               PROVE  \E t \in Threads : \/ pc[t] = "syscall" /\ tgt[t] = f
                                         \/ pc[t] = "undo" /\ fd[t] = f
    BY Zenon
  <2>1. PICK t \in app.threads : Act(t)
    BY Zenon DEF Next, Act
  <2>2. t \in Threads /\ TypeOK /\ Control /\ ControlAt(t) /\ HandAt(t)
    BY AppsAssumption DEF IInv, TypeOK, Control, Agree
  <2>3. ~(fds' = fds)
    OBVIOUS
  <2>4. ~(FreeFds # {} /\ \E w : fds' = [fds EXCEPT ![Min(FreeFds)] = w])
    BY <2>2, LowestFree DEF TypeOK
  <2>5. ~(Load(t) \/ Reload(t) \/ Install(t))
    BY <2>2, <2>3, LoadEffect, InstallEffect, Zenon
  <2>6. ~(LazyOpen(t) \/ DupFd(t) \/ Open(t) \/ \E lo, hi \in Fds : CloseRange(t, lo, hi))
    BY <2>3, <2>4, Zenon DEF LazyOpen, DupFd, Open, CloseRange
  <2>7. ~(\/ Io(t) \/ Return(t) \/ Scan(t) \/ ScanDone(t) \/ Reset(t) \/ Cas(t) \/ Visit(t)
          \/ (\E s \in Slots : Use(t, s)) \/ (\E o \in app.calls, g \in Fds : Replace(t, o, g)))
    BY <2>3, Zenon DEF Io, Return, Scan, ScanDone, Reset, Cas, Visit, Use, Replace
  <2>8. CASE Syscall(t)
    BY <2>2, <2>8, Zenon DEF Syscall, TypeOK
  <2>9. CASE Undo(t)
    BY <2>2, <2>9, Zenon DEF Undo, TypeOK
  <2>10. CASE Lose(t)
    <3>1. tgt[t] \in Fds /\ fds[tgt[t]] = name[t] /\ name[t] \in Slots /\ fds' = [fds EXCEPT ![tgt[t]] = "none"]
      BY <2>2, <2>10, LoseEffect, Zenon DEF HandAt, Flight
    <3> QED BY <2>2, <3>1, Numbers, Zenon DEF TypeOK
  <2>11. CASE GetDents(t)
    <3>1. dir[t] \in Fds /\ fds[dir[t]] = "dir"
      BY <2>2, <2>11, Numbers, Zenon DEF GetDents, HandAt, ControlAt, TypeOK
    <3> QED BY <2>2, <2>11, <3>1, SMTT(30) DEF GetDents, TypeOK
  <2> QED BY <2>1, <2>5, <2>6, <2>7, <2>8, <2>9, <2>10, <2>11, Zenon DEF Act, Step
<1>2. [][Keeps]_vars <=> AppFileKept
  BY DEF AppFileKept
<1> QED BY <1>1, <1>2, Invariance, PTL DEF Spec

\* close_range misses nothing, however many directory reads its walk takes and
\* however many internal fds its closes move under it, in an application whose
\* only thread walks: another could open a file in the range behind the walk.
THEOREM WalkMissesNothing ==
  ASSUME \A a \in Apps : "range" \in a.calls => \A t, u \in a.threads : t = u
  PROVE  Spec => []RangeClosed
<1>1. IInv => RangeClosed
  <2> SUFFICES ASSUME IInv, NEW t \in Threads, pc[t] = "read", Entries(t) = {},
                      NEW f \in range[t] \cap Fds, fds[f] = "app"
               PROVE  FALSE
    BY Zenon DEF RangeClosed
  <2>1. /\ op[t] = "range" /\ "range" \in app.calls /\ todo[t] = {} /\ tgt[t] = NoFd /\ app \in Apps
    BY Zenon DEF IInv, Control, ControlAt, TypeOK, Closing
  <2>2. Remaining
    BY <2>1, Zenon DEF IInv, Solo
  <2>3. f >= pos[t]
    BY <2>1, <2>2, Numbers DEF Remaining
  <2> QED BY <2>3 DEF Entries
<1> QED BY <1>1, Invariance, PTL
=============================================================================
