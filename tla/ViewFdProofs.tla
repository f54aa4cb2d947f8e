---------------------------- MODULE ViewFdProofs ----------------------------
(***************************************************************************)
(* Theorems about ViewFd, for every number of processes, children that     *)
(* come and go, override slots and fds.  First the types, what each step   *)
(* does to the slots, and that find and insert are serialised; then every  *)
(* process keeps one copy of the internal fd, its view, as long as each    *)
(* process has a pid of its own and the installer closes nothing while it  *)
(* has children.                                                           *)
(***************************************************************************)
EXTENDS ViewFd, TLAPS, FiniteSetTheorems

Pcs == {"idle", "load", "dup", "cas", "gc", "gcfree", "lock", "reserve", "publish",
        "unlock", "swap", "lost", "syscall"}
Kinds == {"none", "wrap", "app"}
Slot == [pid : Int, st : Procs \cup {None}, fd : Fds \cup {Dead}]

\* Types of the shared memory, the fd tables and the locals.
TypeOK ==
  /\ base \in Fds \cup {Dead}
  /\ slots \in [Slots -> Slot] /\ Slots \subseteq Nat \ {0} /\ IsFiniteSet(Slots)
  /\ lock \in Procs \cup {None}
  /\ cache \in [pid : Nat, st : Procs \cup {None}]
  /\ alive \subseteq known /\ known \subseteq born /\ born \subseteq Procs /\ Installer \in alive
  /\ most \in Nat
  /\ table \in [Procs -> [Fds -> Kinds]]
  /\ pc \in [Procs -> Pcs]
  /\ tgt \in [Procs -> Fds \cup {Dead}] /\ new \in [Procs -> Fds \cup {Dead}]
  /\ st \in [Procs -> Procs \cup {None}] /\ idx \in [Procs -> Nat \ {0}]
  /\ mine \in [Procs -> Nat] /\ seen \in [Procs -> Int]
  /\ \A p \in Procs : pc[p] # "idle" => tgt[p] \in Fds

\* A set of numbers that has an element has a least one.
LEMMA Lowest ==
  ASSUME NEW S, S \subseteq Nat, S # {}
  PROVE  Min(S) \in S /\ \A y \in S : Min(S) <= y
<1>1. PICK x \in S : \A y \in S : ~(<<y, x>> \in OpToRel(<, Nat))
  BY NatLessThanWellFounded, WFMin, Zenon
<1>2. ASSUME NEW y \in S PROVE x <= y
  <2>1. x \in Nat /\ y \in Nat
    BY Zenon
  <2>2. ~(y < x)
    BY <1>1, <2>1, Zenon DEF OpToRel
  <2> QED BY <2>1, <2>2, SMTT(30)
<1>3. \E z \in S : \A y \in S : z =< y
  BY <1>2, Zenon
<1> QED BY <1>3, Zenon DEF Min

\* F_DUPFD_CLOEXEC and open give a number that is not in use.
LEMMA LowestFree ==
  ASSUME TypeOK, NEW p \in Procs, FreeFds(p) # {}
  PROVE  Min(FreeFds(p)) \in Fds /\ table[p][Min(FreeFds(p))] = "none"
<1>1. FreeFds(p) \subseteq Nat
  BY FdsAssumption, Zenon DEF FreeFds
<1> QED BY <1>1, Lowest, Zenon DEF FreeFds

\* The numbers and names that mean "none" are none of the others.
LEMMA Numbers ==
  /\ Fds \subseteq Nat \ {0} /\ Dead \notin Fds /\ None \notin Procs
  /\ Free # Reserved /\ Free = 0 /\ NoSlot = 0
  /\ \A p \in Procs : PidOf[p] \in Nat \ {0} /\ PidOf[p] # Free /\ PidOf[p] # Reserved
BY FdsAssumption, ProcsAssumption, PidsAssumption, SMTT(30) DEF Dead, Free, Reserved, NoSlot

\* What an action of one process leaves alone.
Others(p) ==
  \A q \in Procs \ {p} :
    /\ pc'[q] = pc[q] /\ tgt'[q] = tgt[q] /\ new'[q] = new[q] /\ st'[q] = st[q]
    /\ idx'[q] = idx[q] /\ mine'[q] = mine[q] /\ seen'[q] = seen[q] /\ table'[q] = table[q]

\* An action of one process.
Act(p) ==
  Step(p) \/ Spawn(p) \/ Exit(p) \/ Reap(p) \/ Open(p) \/ \E f \in Fds : Close(p, f)

\* The slots are a function to records, field by field.
LEMMA Fields ==
  ASSUME TypeOK
  PROVE  /\ slots = [j \in Slots |-> slots[j]]
         /\ \A j \in Slots : /\ slots[j] \in Slot /\ slots[j].pid \in Int
                             /\ slots[j].st \in Procs \cup {None} /\ slots[j].fd \in Fds \cup {Dead}
                             /\ slots[j] = [pid |-> slots[j].pid, st |-> slots[j].st, fd |-> slots[j].fd]
<1>1. slots = [j \in Slots |-> slots[j]] /\ \A j \in Slots : slots[j] \in Slot
  BY Zenon DEF TypeOK
<1>2. \A x \in Slot : /\ x.pid \in Int /\ x.st \in Procs \cup {None} /\ x.fd \in Fds \cup {Dead}
                      /\ x = [pid |-> x.pid, st |-> x.st, fd |-> x.fd]
  BY SMTT(30) DEF Slot
<1> QED BY <1>1, <1>2, Zenon

\* Storing into one slot leaves the others.
LEMMA Store ==
  ASSUME TypeOK, NEW i, NEW r \in Slot, slots' = [slots EXCEPT ![i] = r]
  PROVE  /\ Slots' = Slots /\ slots' \in [Slots -> Slot]
         /\ \A j \in Slots : slots'[j] = IF j = i THEN r ELSE slots[j]
BY Fields, Zenon DEF Slots

\* What override_gc does to the slots: it frees one at most, and that one only
\* if its pid is the one it was seen with.
LEMMA FreeEffect ==
  ASSUME TypeOK, NEW p \in Procs, GcFree(p)
  PROVE  /\ Slots' = Slots /\ slots' \in [Slots -> Slot]
         /\ \A j \in Slots :
              /\ slots'[j].st = slots[j].st /\ slots'[j].fd = slots[j].fd
              /\ slots'[j].pid = IF j = idx[p] /\ slots[j].pid = seen[p] THEN Free ELSE slots[j].pid
<1>1. CASE slots[idx[p]].pid = seen[p] /\ idx[p] \in Slots
  <2> DEFINE r == [slots[idx[p]] EXCEPT !.pid = Free]
  <2>1. r \in Slot
    BY <1>1, Fields, SMTT(30) DEF Slot, Free
  <2>2. slots' = [slots EXCEPT ![idx[p]] = r]
    BY <1>1, Fields, Zenon DEF GcFree
  <2>3. r.pid = Free /\ r.st = slots[idx[p]].st /\ r.fd = slots[idx[p]].fd
    BY <1>1, Fields, SMTT(30) DEF Slot
  <2> HIDE DEF r
  <2> QED BY <1>1, <2>1, <2>2, <2>3, Store, Zenon
<1>2. CASE ~(slots[idx[p]].pid = seen[p] /\ idx[p] \in Slots)
  <2>1. slots' = slots
    BY <1>2, Fields, SMTT(30) DEF GcFree
  <2> QED BY <1>2, <2>1, Fields, Zenon DEF Slots
<1> QED BY <1>1, <1>2

\* Pass 2 of the acquire turns one free slot into a reserved one.
LEMMA ReserveEffect ==
  ASSUME TypeOK, NEW p \in Procs, Reserve(p)
  PROVE  /\ Slots' = Slots /\ slots' \in [Slots -> Slot]
         /\ mine'[p] \in Slots /\ slots[mine'[p]].pid = Free /\ slots'[mine'[p]].pid = Reserved
         /\ \A j \in Slots \ {mine'[p]} : slots'[j] = slots[j]
<1>1. PICK i \in Slots : /\ slots[i].pid = Free /\ slots' = [slots EXCEPT ![i].pid = Reserved]
                        /\ mine' = [mine EXCEPT ![p] = i]
  BY Zenon DEF Reserve
<1> DEFINE r == [slots[i] EXCEPT !.pid = Reserved]
<1>2. r \in Slot /\ r.pid = Reserved
  BY Fields, SMTT(30) DEF Slot, Reserved
<1>3. slots' = [slots EXCEPT ![i] = r]
  BY <1>1, Fields, Zenon
<1>4. mine'[p] = i
  BY <1>1, Zenon DEF TypeOK
<1> HIDE DEF r
<1>5. /\ Slots' = Slots /\ slots' \in [Slots -> Slot]
      /\ \A j \in Slots : slots'[j] = IF j = i THEN r ELSE slots[j]
  BY <1>2, <1>3, Store, Zenon
<1> QED BY <1>1, <1>2, <1>4, <1>5, Zenon

\* Publication fills the reserved slot and no other.
LEMMA PublishEffect ==
  ASSUME TypeOK, NEW p \in Procs, Publish(p)
  PROVE  /\ Slots' = Slots /\ slots' \in [Slots -> Slot]
         /\ \A j \in Slots \ {mine[p]} : slots'[j] = slots[j]
         /\ mine[p] \in Slots => /\ slots'[mine[p]].pid = PidOf[p] /\ slots'[mine[p]].st = st[p]
                                 /\ slots'[mine[p]].fd = tgt[p]
<1> DEFINE r == [pid |-> PidOf[p], st |-> st[p], fd |-> tgt[p]]
<1>1. r \in Slot
  BY Numbers, SMTT(30) DEF TypeOK, Slot
<1>2. r.pid = PidOf[p] /\ r.st = st[p] /\ r.fd = tgt[p]
  BY SMTT(30)
<1>3. slots' = [slots EXCEPT ![mine[p]] = r]
  BY Zenon DEF Publish
<1> HIDE DEF r
<1> QED BY <1>1, <1>2, <1>3, Store, Zenon

\* The compare-and-swap changes the fd of one slot at most.
LEMMA SwapEffect ==
  ASSUME TypeOK, NEW p \in Procs, Swap(p)
  PROVE  /\ Slots' = Slots /\ slots' \in [Slots -> Slot]
         /\ \A j \in Slots :
              /\ slots'[j].st = slots[j].st /\ slots'[j].pid = slots[j].pid
              /\ slots'[j].fd = IF j = mine[p] /\ slots[j].fd = tgt[p] THEN new[p] ELSE slots[j].fd
<1>0. new[p] \in Fds \cup {Dead}
  BY Zenon DEF TypeOK
<1>1. CASE slots[mine[p]].fd = tgt[p] /\ mine[p] \in Slots
  <2> DEFINE r == [slots[mine[p]] EXCEPT !.fd = new[p]]
  <2>1. r \in Slot
    BY <1>1, <1>0, Fields, SMTT(30) DEF Slot
  <2>2. slots' = [slots EXCEPT ![mine[p]] = r]
    BY <1>1, Fields, Zenon DEF Swap
  <2>3. r.pid = slots[mine[p]].pid /\ r.st = slots[mine[p]].st /\ r.fd = new[p]
    BY <1>1, Fields, SMTT(30) DEF Slot
  <2> HIDE DEF r
  <2> QED BY <1>1, <2>1, <2>2, <2>3, Store, Zenon
<1>2. CASE ~(slots[mine[p]].fd = tgt[p] /\ mine[p] \in Slots)
  <2>1. slots' = slots
    BY <1>2, Fields, SMTT(30) DEF Swap
  <2> QED BY <1>2, <2>1, Fields, Zenon DEF Slots
<1> QED BY <1>1, <1>2

\* wslcompat_self_starttime_pid answers a start time, and caches one.
LEMMA Identity ==
  ASSUME TypeOK, NEW p \in Procs
  PROVE  /\ Starttime(p) \in Procs \cup {None}
         /\ Cached(p) => cache' \in [pid : Nat, st : Procs \cup {None}]
<1>1. Starttime(p) \in Procs \cup {None}
  BY SMTT(30) DEF TypeOK, Starttime
<1>2. PidOf[p] \in Nat
  BY Numbers, Zenon
<1>3. \A x \in Procs \cup {None}, n \in Nat :
        [pid |-> n, st |-> x] \in [pid : Nat, st : Procs \cup {None}]
  BY SMTT(30)
<1> QED BY <1>1, <1>2, <1>3, Zenon DEF Cached

\* A child more raises the history of their number to theirs, or leaves it.
LEMMA Grows ==
  ASSUME TypeOK, NEW p \in Procs, Spawn(p)
  PROVE  /\ most' \in Nat /\ most <= most'
         /\ known' = known \cup {p} /\ IsFiniteSet(known' \ {Installer})
         /\ Cardinality(known' \ {Installer}) <= most'
<1>1. known' = known \cup {p} /\ most' = Max({most, Cardinality(known' \ {Installer})}) /\ most \in Nat
  BY Zenon DEF Spawn, TypeOK
<1>2. known' \ {Installer} \in SUBSET Procs /\ IsFiniteSet(Procs)
  BY <1>1, ProcsAssumption, Zenon DEF TypeOK
<1>3. IsFiniteSet(known' \ {Installer}) /\ Cardinality(known' \ {Installer}) \in Nat
  BY <1>2, FS_Subset, FS_CardinalityType, Zenon
<1>4. \A a, b \in Nat : Max({a, b}) \in Nat /\ a <= Max({a, b}) /\ b <= Max({a, b})
  <2> SUFFICES ASSUME NEW a \in Nat, NEW b \in Nat
               PROVE  Max({a, b}) \in Nat /\ a <= Max({a, b}) /\ b <= Max({a, b})
    BY Zenon
  <2>1. \E x \in {a, b} : \A y \in {a, b} : x >= y
    BY SMTT(30)
  <2>2. Max({a, b}) \in {a, b} /\ \A y \in {a, b} : Max({a, b}) >= y
    BY <2>1, Zenon DEF Max
  <2> QED BY <2>2, SMTT(30)
<1> QED BY <1>1, <1>3, <1>4, Zenon

\* Types are preserved.
LEMMA TypeStep ==
  ASSUME TypeOK, NEW p \in Procs, Act(p)
  PROVE  TypeOK'
<1>1. CASE Load(p)
  BY <1>1, Identity, Zenon DEF TypeOK, Load, procs, locals, Pcs, Slots
<1>2. CASE DupFd(p)
  <2>1. CASE table[p][tgt[p]] # "none" /\ FreeFds(p) # {}
    <3>1. Min(FreeFds(p)) \in Fds /\ tgt[p] \in Fds
      BY <1>2, <2>1, LowestFree, Zenon DEF TypeOK, DupFd
    <3>2. table' \in [Procs -> [Fds -> Kinds]]
      <4>0. table \in [Procs -> [Fds -> Kinds]]
        BY Zenon DEF TypeOK
      <4>1. table[p] \in [Fds -> Kinds] /\ table[p][tgt[p]] \in Kinds
        BY <3>1, <4>0, SMTT(30)
      <4>2. table' = [table EXCEPT ![p] = [table[p] EXCEPT ![Min(FreeFds(p))] = table[p][tgt[p]]]]
        BY <1>2, <2>1, Zenon DEF DupFd
      <4>3. [table[p] EXCEPT ![Min(FreeFds(p))] = table[p][tgt[p]]] \in [Fds -> Kinds]
        BY <4>1, Zenon
      <4> QED BY <4>2, <4>3, Zenon DEF TypeOK
    <3>3. new' \in [Procs -> Fds \cup {Dead}]
      BY <1>2, <2>1, <3>1, ZenonT(60) DEF TypeOK, DupFd
    <3> QED BY <1>2, <3>2, <3>3, Zenon DEF TypeOK, DupFd, shared, procs, Pcs, Slots
  <2>2. CASE ~(table[p][tgt[p]] # "none" /\ FreeFds(p) # {})
    BY <1>2, <2>2, Zenon DEF TypeOK, DupFd, shared, procs, Pcs, Slots
  <2> QED BY <2>1, <2>2, Zenon
<1>3. CASE ViewFdCas(p)
  <2>0. (base' = base \/ base' = new[p]) /\ pc[p] = "cas"
    BY <1>3, Zenon DEF ViewFdCas
  <2>1. base' \in Fds \cup {Dead} /\ pc[p] # "idle"
    BY <2>0, Zenon DEF TypeOK
  <2>2. \E x \in Pcs : pc' = [pc EXCEPT ![p] = x]
    BY <1>3, Zenon DEF ViewFdCas, AfterCas, Pcs
  <2>3. pc' \in [Procs -> Pcs] /\ \A q \in Procs : pc'[q] # "idle" => pc[q] # "idle"
    BY <2>1, <2>2, ZenonT(60) DEF TypeOK
  <2> QED BY <1>3, <2>1, <2>3, Identity, Zenon DEF TypeOK, ViewFdCas, procs, Slots
<1>4. CASE GcRead(p)
  <2>1. idx[p] + 1 \in Nat \ {0}
    BY SMTT(30) DEF TypeOK
  <2>2. slots[idx[p]].pid \in Int
    BY <1>4, Fields, Zenon DEF GcRead
  <2>3. cache' \in [pid : Nat, st : Procs \cup {None}]
    BY <1>4, Identity, Zenon DEF GcRead, TypeOK
  <2>4. /\ seen' \in [Procs -> Int] /\ idx' \in [Procs -> Nat \ {0}]
        /\ pc' = pc \/ pc' = [pc EXCEPT ![p] = "gcfree"]
    <3>1. \/ idx' = idx /\ seen' = [seen EXCEPT ![p] = slots[idx[p]].pid] /\ pc' = [pc EXCEPT ![p] = "gcfree"]
          \/ idx' = [idx EXCEPT ![p] = idx[p] + 1] /\ seen' = seen /\ pc' = pc
      BY <1>4, Zenon DEF TypeOK, GcRead
    <3> QED BY <2>1, <2>2, <3>1, ZenonT(60) DEF TypeOK
  <2>5. pc' \in [Procs -> Pcs] /\ \A q \in Procs : pc'[q] # "idle" => pc[q] # "idle"
    BY <1>4, <2>4, Zenon DEF TypeOK, GcRead, Pcs
  <2> QED BY <1>4, <2>3, <2>4, <2>5, Zenon DEF TypeOK, GcRead, procs, Slots
<1>5. CASE GcFree(p)
  <2>1. idx[p] + 1 \in Nat \ {0} /\ Free \in Int
    BY SMTT(30) DEF TypeOK, Free
  <2> QED BY <1>5, <2>1, FreeEffect, Zenon DEF TypeOK, GcFree, procs, Pcs
<1>6. CASE GcDone(p)
  <2>1. 1 \in Nat \ {0}
    BY SMTT(30)
  <2> QED BY <1>6, <2>1, Zenon DEF TypeOK, GcDone, shared, procs, Pcs, Slots
<1>7. CASE Acquire(p)
  BY <1>7, Zenon DEF TypeOK, Acquire, procs, locals, Pcs, Slots
<1>8. CASE Find(p)
  <2>1. SlotsOf(p, st[p]) \subseteq Nat
    BY Zenon DEF TypeOK, SlotsOf
  <2>2. Min(SlotsOf(p, st[p])) \in Nat
    BY <1>8, <2>1, Lowest, Zenon DEF Find
  <2> QED BY <1>8, <2>2, Zenon DEF TypeOK, Find, shared, procs, Pcs, Slots
<1>9. CASE Reserve(p)
  <2>1. \E i \in Slots : mine' = [mine EXCEPT ![p] = i]
    BY <1>9, Zenon DEF Reserve
  <2>2. mine' \in [Procs -> Nat]
    BY <2>1, Zenon DEF TypeOK
  <2> QED BY <1>9, <2>2, ReserveEffect, Zenon DEF TypeOK, Reserve, procs, Pcs
<1>10. CASE Exhausted(p)
  BY <1>10, Zenon DEF TypeOK, Exhausted, shared, procs, locals, Pcs, Slots
<1>11. CASE Publish(p)
  BY <1>11, PublishEffect, Zenon DEF TypeOK, Publish, procs, locals, Pcs
<1>12. CASE Unlock(p)
  BY <1>12, Zenon DEF TypeOK, Unlock, AfterCas, procs, locals, Pcs, Slots
<1>13. CASE Swap(p)
  <2>1. NoSlot \in Nat
    BY SMTT(30) DEF NoSlot
  <2>2. pc' \in [Procs -> Pcs] /\ pc[p] # "idle" /\ \A q \in Procs : pc'[q] # "idle" => pc[q] # "idle"
    BY <1>13, Zenon DEF TypeOK, Swap, AfterCas, Pcs
  <2> QED BY <1>13, <2>1, <2>2, SwapEffect, Zenon DEF TypeOK, Swap, procs
<1>14. CASE Lost(p)
  BY <1>14, Zenon DEF TypeOK, Lost, shared, procs, locals, Pcs, Slots, Kinds
<1>15. CASE Syscall(p)
  BY <1>15, Zenon DEF TypeOK, Syscall, shared, procs, Pcs, Slots, Kinds
<1>16. CASE Spawn(p)
  <2>1. most' \in Nat
    BY <1>16, Grows, Zenon
  <2> QED BY <1>16, <2>1, ProcsAssumption, Zenon DEF TypeOK, Spawn, shared, locals, Slots
<1>17. CASE Exit(p)
  <2>1. 1 \in Nat \ {0} /\ NoSlot \in Nat /\ Free \in Int
    BY SMTT(30) DEF NoSlot, Free
  <2>2. [f \in Fds |-> "none"] \in [Fds -> Kinds]
    BY Zenon DEF Kinds
  <2>3. /\ mine' \in [Procs -> Nat] /\ seen' \in [Procs -> Int] /\ idx' \in [Procs -> Nat \ {0}]
        /\ st' \in [Procs -> Procs \cup {None}]
    BY <1>17, <2>1, Zenon DEF TypeOK, Exit
  <2>4. /\ pc' \in [Procs -> Pcs] /\ tgt' \in [Procs -> Fds \cup {Dead}] /\ new' \in [Procs -> Fds \cup {Dead}]
        /\ \A q \in Procs : pc'[q] # "idle" => tgt'[q] \in Fds
    BY <1>17, Zenon DEF TypeOK, Exit, Pcs
  <2>5. /\ alive' \subseteq known' /\ known' \subseteq born' /\ born' \subseteq Procs /\ Installer \in alive'
        /\ most' \in Nat /\ table' \in [Procs -> [Fds -> Kinds]]
    BY <1>17, <2>2, Zenon DEF TypeOK, Exit, Children
  <2> QED BY <1>17, <2>3, <2>4, <2>5, Zenon DEF TypeOK, Exit, shared, Slots
<1>18. CASE Open(p)
  BY <1>18, LowestFree, Zenon DEF TypeOK, Open, shared, procs, locals, Slots, Kinds
<1>19. CASE \E f \in Fds : Close(p, f)
  <2>1. PICK f \in Fds : Close(p, f)
    BY <1>19, Zenon
  <2>2. /\ pc' \in [Procs -> Pcs] /\ tgt' \in [Procs -> Fds \cup {Dead}]
        /\ \A q \in Procs : pc'[q] # "idle" => tgt'[q] \in Fds
    BY <2>1, Zenon DEF TypeOK, Close, Pcs
  <2> QED BY <2>1, <2>2, Zenon DEF TypeOK, Close, shared, procs, Slots
<1>20. CASE Reap(p)
  BY <1>20, Zenon DEF TypeOK, Reap, shared, locals, Slots
<1> QED BY <1>1, <1>2, <1>3, <1>4, <1>5, <1>6, <1>7, <1>8, <1>9, <1>10, <1>11, <1>12,
           <1>13, <1>14, <1>15, <1>16, <1>17, <1>18, <1>19, <1>20, Zenon DEF Act, Step

\* A process changes no locals and no fd table but its own.
LEMMA OtherProcs ==
  ASSUME TypeOK, NEW p \in Procs, Act(p)
  PROVE  Others(p)
<1>1. CASE Load(p) \/ Lost(p) \/ Syscall(p)
  BY <1>1, Zenon DEF TypeOK, Load, Lost, Syscall, locals, Others
<1>6. CASE DupFd(p)
  BY <1>6, Zenon DEF TypeOK, DupFd, Others
<1>7. CASE ViewFdCas(p)
  BY <1>7, Zenon DEF TypeOK, ViewFdCas, Others
<1>3. CASE GcRead(p) \/ GcFree(p) \/ GcDone(p) \/ Acquire(p) \/ Find(p) \/ Exhausted(p)
  BY <1>3, ZenonT(60) DEF TypeOK, GcRead, GcFree, GcDone, Acquire, Find, Exhausted, locals, Others
<1>4. CASE Reserve(p)
  <2>1. \E i \in Slots : mine' = [mine EXCEPT ![p] = i]
    BY <1>4, Zenon DEF Reserve
  <2> QED BY <1>4, <2>1, ZenonT(60) DEF TypeOK, Reserve, Others
<1>5. CASE Publish(p) \/ Unlock(p) \/ Swap(p)
  BY <1>5, Zenon DEF TypeOK, Publish, Unlock, Swap, locals, Others
<1>2. CASE Spawn(p) \/ Exit(p) \/ Reap(p) \/ Open(p) \/ \E f \in Fds : Close(p, f)
  BY <1>2, ZenonT(60) DEF TypeOK, Spawn, Exit, Reap, Open, Close, locals, Others
<1> QED BY <1>1, <1>2, <1>3, <1>4, <1>5, <1>6, <1>7, Zenon DEF Act, Step

-----------------------------------------------------------------------------
\* Find and insert are serialised.

Held == {"reserve", "publish", "unlock"}

\* No two slots have the same identity.
Unique ==
  \A i, j \in Slots :
    slots[i].pid \notin {Free, Reserved}
    /\ slots[i].pid = slots[j].pid /\ slots[i].st = slots[j].st => i = j

\* Between the acquire and the release the process has the lock, and one that
\* is about to publish has no slot yet.
Serialised(p) ==
  /\ pc[p] \in Held => lock = p
  /\ pc[p] = "publish" => mine[p] \in Slots /\ SlotsOf(p, st[p]) = {}

OneSlot == TypeOK /\ Unique /\ \A p \in Procs : Serialised(p)

\* A process that has nothing to do with the lock or the slots in this step.
LEMMA SerialQuiet ==
  ASSUME OneSlot, NEW p \in Procs, Others(p), slots' = slots, lock' = lock,
         \/ pc'[p] \notin Held
         \/ pc'[p] = pc[p] /\ mine'[p] = mine[p] /\ st'[p] = st[p]
         \/ pc[p] \in Held /\ pc'[p] # "publish"
  PROVE  Unique' /\ \A q \in Procs : Serialised(q)'
<1>1. Slots' = Slots /\ \A q, s : SlotsOf(q, s)' = SlotsOf(q, s)
  BY Zenon DEF Slots, SlotsOf
<1>2. Unique'
  BY <1>1, Zenon DEF OneSlot, Unique
<1>3. ASSUME NEW q \in Procs, pc'[q] = pc[q], mine'[q] = mine[q], st'[q] = st[q]
      PROVE  Serialised(q)'
  <2>1. Serialised(q)
    BY Zenon DEF OneSlot
  <2>2. pc'[q] \in Held => lock' = q
    BY <1>3, <2>1, Zenon DEF Serialised
  <2>3. SlotsOf(q, st[q])' = SlotsOf(q, st[q])
    BY <1>3, Zenon DEF SlotsOf, Slots
  <2>4. pc'[q] = "publish" => mine'[q] \in Slots' /\ SlotsOf(q, st[q])' = {}
    BY <1>1, <1>3, <2>1, <2>3, Zenon DEF Serialised
  <2> QED BY <2>2, <2>4, Zenon DEF Serialised
<1>4. ASSUME NEW q \in Procs PROVE Serialised(q)'
  <2>1. CASE q # p
    <3>1. pc'[q] = pc[q] /\ mine'[q] = mine[q] /\ st'[q] = st[q]
      BY <2>1, Zenon DEF Others
    <3> QED BY <1>3, <3>1, Zenon
  <2>2. CASE q = p
    <3>1. CASE pc'[p] \notin Held
      BY <2>2, <3>1, Zenon DEF Serialised, Held
    <3>2. CASE pc'[p] = pc[p] /\ mine'[p] = mine[p] /\ st'[p] = st[p]
      BY <1>3, <2>2, <3>2, Zenon
    <3>3. CASE pc[p] \in Held /\ pc'[p] # "publish"
      <4>1. lock = p
        BY <3>3, Zenon DEF OneSlot, Serialised
      <4> QED BY <2>2, <3>3, <4>1, Zenon DEF Serialised
    <3> QED BY <3>1, <3>2, <3>3, Zenon
  <2> QED BY <2>1, <2>2, Zenon
<1> QED BY <1>2, <1>4, Zenon

\* A step that makes no slot the slot of a new identity.
LEMMA SerialShrink ==
  ASSUME OneSlot, NEW p \in Procs, Others(p), Slots' = Slots, lock' = lock,
         \A j \in Slots : slots'[j].pid \notin {Free, Reserved} =>
           slots'[j].pid = slots[j].pid /\ slots'[j].st = slots[j].st,
         pc'[p] \notin Held \/ (pc[p] = "reserve" /\ pc'[p] = "publish" /\ mine'[p] \in Slots
                                /\ st'[p] = st[p] /\ SlotsOf(p, st[p]) = {})
  PROVE  Unique' /\ \A q \in Procs : Serialised(q)'
<1>1. Unique'
  <2> SUFFICES ASSUME NEW i \in Slots, NEW j \in Slots, slots'[i].pid \notin {Free, Reserved},
                      slots'[i].pid = slots'[j].pid, slots'[i].st = slots'[j].st
               PROVE  i = j
    BY Zenon DEF Unique
  <2>1. slots[i].pid = slots'[i].pid /\ slots[j].pid = slots'[j].pid
        /\ slots[i].st = slots'[i].st /\ slots[j].st = slots'[j].st
    BY Zenon
  <2> QED BY <2>1, ZenonT(60) DEF OneSlot, Unique
<1>2. ASSUME NEW q \in Procs PROVE Serialised(q)'
  <2>0. ASSUME SlotsOf(q, st'[q]) = {} PROVE SlotsOf(q, st[q])' = {}
    <3>1. \A j \in Slots : ~(slots'[j].pid = PidOf[q] /\ slots'[j].st = st'[q])
      BY <2>0, Numbers, Zenon DEF SlotsOf
    <3> QED BY <3>1, Zenon DEF SlotsOf
  <2>1. CASE q # p
    <3>1. pc'[q] = pc[q] /\ mine'[q] = mine[q] /\ st'[q] = st[q]
      BY <2>1, Zenon DEF Others
    <3> QED BY <2>0, <3>1, Zenon DEF OneSlot, Serialised
  <2>2. CASE q = p
    <3>1. CASE pc'[p] \notin Held
      BY <2>2, <3>1, Zenon DEF Serialised, Held
    <3>2. CASE pc'[p] \in Held
      BY <2>0, <2>2, <3>2, Zenon DEF OneSlot, Serialised, Held
    <3> QED BY <3>1, <3>2, Zenon
  <2> QED BY <2>1, <2>2, Zenon
<1> QED BY <1>1, <1>2, Zenon

\* Find and insert stay serialised.
LEMMA SerialStep ==
  ASSUME OneSlot, NEW p \in Procs, Act(p)
  PROVE  OneSlot'
<1>0. TypeOK /\ TypeOK' /\ Others(p)
  BY TypeStep, OtherProcs, Zenon DEF OneSlot
<1> SUFFICES Unique' /\ \A q \in Procs : Serialised(q)'
  BY <1>0, Zenon DEF OneSlot
<1>00. pc = [q \in Procs |-> pc[q]] /\ mine = [q \in Procs |-> mine[q]] /\ st = [q \in Procs |-> st[q]]
  BY <1>0, Zenon DEF TypeOK
<1>1. CASE Load(p) \/ DupFd(p) \/ Lost(p) \/ Syscall(p)
  <2>1. slots' = slots /\ lock' = lock /\ pc'[p] \notin Held
    BY <1>1, <1>00, Zenon DEF Load, DupFd, Lost, Syscall, shared, Held
  <2> QED BY <1>0, <2>1, SerialQuiet, Zenon
<1>2. CASE ViewFdCas(p)
  <2>1. slots' = slots /\ lock' = lock /\ pc'[p] \notin Held
    BY <1>2, <1>00, Zenon DEF ViewFdCas, AfterCas, Held
  <2> QED BY <1>0, <2>1, SerialQuiet, Zenon
<1>3. CASE GcRead(p)
  <2>1. slots' = slots /\ lock' = lock /\ pc'[p] \notin Held
    BY <1>3, <1>00, Zenon DEF GcRead, Held
  <2> QED BY <1>0, <2>1, SerialQuiet, Zenon
<1>4. CASE GcDone(p) \/ Spawn(p) \/ Exit(p) \/ Reap(p) \/ Open(p) \/ (\E f \in Fds : Close(p, f))
  <2>1. slots' = slots /\ lock' = lock
    BY <1>4, Zenon DEF GcDone, Spawn, Exit, Reap, Open, Close, shared
  <2>2. pc'[p] \notin Held \/ (pc'[p] = pc[p] /\ mine'[p] = mine[p] /\ st'[p] = st[p])
    BY <1>4, <1>00, Zenon DEF GcDone, Spawn, Exit, Reap, Open, Close, locals, Held
  <2> QED BY <1>0, <2>1, <2>2, SerialQuiet, Zenon
<1>5. CASE Find(p) \/ Exhausted(p)
  <2>1. slots' = slots /\ lock' = lock /\ pc[p] \in Held /\ pc'[p] # "publish"
    BY <1>5, <1>00, Zenon DEF Find, Exhausted, shared, Held
  <2> QED BY <1>0, <2>1, SerialQuiet, Zenon
<1>6. CASE GcFree(p)
  <2>1. lock' = lock /\ pc'[p] \notin Held
    BY <1>6, <1>00, Zenon DEF GcFree, Held
  <2> QED BY <1>0, <1>6, <2>1, FreeEffect, SerialShrink, Zenon
<1>7. CASE Reserve(p)
  <2>1. lock' = lock /\ pc[p] = "reserve" /\ pc'[p] = "publish" /\ st'[p] = st[p] /\ SlotsOf(p, st[p]) = {}
    BY <1>7, <1>00, Zenon DEF Reserve
  <2>2. \A j \in Slots : slots'[j].pid \notin {Free, Reserved} =>
           slots'[j].pid = slots[j].pid /\ slots'[j].st = slots[j].st
    BY <1>0, <1>7, ReserveEffect, Zenon
  <2> QED BY <1>0, <1>7, <2>1, <2>2, ReserveEffect, SerialShrink, Zenon
<1>8. CASE Swap(p)
  <2>1. lock' = lock /\ pc'[p] \notin Held
    BY <1>8, <1>00, Zenon DEF Swap, AfterCas, Held
  <2> QED BY <1>0, <1>8, <2>1, SwapEffect, SerialShrink, Zenon
<1>9. CASE Acquire(p)
  <2>1. lock = None /\ lock' = p /\ slots' = slots /\ pc'[p] = "reserve"
    BY <1>9, <1>00, Zenon DEF Acquire
  <2>2. Unique'
    BY <2>1, Zenon DEF OneSlot, Unique, Slots
  <2>3. ASSUME NEW q \in Procs PROVE Serialised(q)'
    <3>1. CASE q = p
      BY <2>1, <3>1, Zenon DEF Serialised
    <3>2. CASE q # p
      BY <1>0, <2>1, <3>2, Numbers, Zenon DEF OneSlot, Serialised, Others, Held
    <3> QED BY <3>1, <3>2, Zenon
  <2> QED BY <2>2, <2>3, Zenon
<1>10. CASE Unlock(p)
  <2>1. lock = p /\ slots' = slots /\ pc'[p] \notin Held
    BY <1>10, <1>00, Zenon DEF Unlock, AfterCas, OneSlot, Serialised, Held
  <2>2. Unique'
    BY <2>1, Zenon DEF OneSlot, Unique, Slots
  <2>3. ASSUME NEW q \in Procs PROVE Serialised(q)'
    <3>1. CASE q = p
      BY <2>1, <3>1, Zenon DEF Serialised, Held
    <3>2. CASE q # p
      BY <1>0, <2>1, <3>2, Zenon DEF OneSlot, Serialised, Others, Held
    <3> QED BY <3>1, <3>2, Zenon
  <2> QED BY <2>2, <2>3, Zenon
<1>11. CASE Publish(p)
  <2>1. pc[p] = "publish" /\ lock' = lock /\ lock = p /\ pc'[p] = "unlock"
    BY <1>11, <1>00, Zenon DEF Publish, OneSlot, Serialised, Held
  <2>2. /\ Slots' = Slots
        /\ \A j \in Slots \ {mine[p]} : slots'[j] = slots[j]
                                        /\ ~(slots[j].pid = PidOf[p] /\ slots[j].st = st[p])
    BY <1>0, <1>11, <2>1, PublishEffect, Zenon DEF OneSlot, Serialised, SlotsOf
  <2>3. mine[p] \in Slots => slots'[mine[p]].pid = PidOf[p] /\ slots'[mine[p]].st = st[p]
    BY <1>0, <1>11, PublishEffect, Zenon
  <2>4. Unique'
    <3> SUFFICES ASSUME NEW i \in Slots, NEW j \in Slots, slots'[i].pid \notin {Free, Reserved},
                        slots'[i].pid = slots'[j].pid, slots'[i].st = slots'[j].st
                 PROVE  i = j
      BY <2>2, Zenon DEF Unique
    <3>1. CASE i # mine[p] /\ j # mine[p]
      BY <2>2, <3>1, Zenon DEF OneSlot, Unique
    <3>2. CASE i = mine[p] \/ j = mine[p]
      BY <2>2, <2>3, <3>2, ZenonT(60)
    <3> QED BY <3>1, <3>2, Zenon
  <2>5. ASSUME NEW q \in Procs PROVE Serialised(q)'
    <3>1. CASE q = p
      BY <2>1, <3>1, Zenon DEF Serialised
    <3>2. CASE q # p
      BY <1>0, <2>1, <3>2, Zenon DEF OneSlot, Serialised, Others, Held
    <3> QED BY <3>1, <3>2, Zenon
  <2> QED BY <2>4, <2>5, Zenon
<1> QED BY <1>1, <1>2, <1>3, <1>4, <1>5, <1>6, <1>7, <1>8, <1>9, <1>10, <1>11, Zenon DEF Act, Step

\* At the start every slot is free and nobody is in a close.
LEMMA InitSlots ==
  ASSUME Init
  PROVE  /\ Slots \subseteq Nat \ {0} /\ IsFiniteSet(Slots) /\ slots \in [Slots -> Slot]
         /\ \A i \in Slots : slots[i].pid = Free
<1>1. PICK n \in Capacities : slots = [i \in 1..n |-> [pid |-> Free, st |-> None, fd |-> Dead]]
  BY Zenon DEF Init
<1>2. n \in Nat /\ 1 \in Int /\ n \in Int
  BY BoundAssumption, SMTT(30)
<1>3. Slots = 1..n
  BY <1>1, Zenon DEF Slots
<1>4. IsFiniteSet(1..n)
  BY <1>2, FS_Interval, Zenon
<1>5. 1..n \subseteq Nat \ {0}
  BY <1>2, SMTT(30)
<1>6. [pid |-> Free, st |-> None, fd |-> Dead] \in Slot
      /\ [pid |-> Free, st |-> None, fd |-> Dead].pid = Free
  BY SMTT(30) DEF Slot, Free
<1>7. slots \in [1..n -> Slot]
  BY <1>1, <1>6, Zenon
<1>8. \A i \in 1..n : slots[i].pid = Free
  BY <1>1, <1>6, Zenon
<1> QED BY <1>3, <1>4, <1>5, <1>7, <1>8, Zenon

\* The initial states satisfy the invariant.
LEMMA InitOneSlot ==
  ASSUME Init
  PROVE  OneSlot
<1>1. base \in Fds
  <2>1. Fds \subseteq Nat /\ Fds # {}
    BY FdsAssumption, Zenon
  <2>2. Min(Fds) \in Fds
    BY <2>1, Lowest, Zenon
  <2> QED BY <2>2, Zenon DEF Init
<1>2. cache \in [pid : Nat, st : Procs \cup {None}]
  BY SMTT(30) DEF Init
<1>3. 1 \in Nat \ {0} /\ NoSlot \in Nat /\ Free \in Int
  BY SMTT(30) DEF NoSlot, Free
<1>4. table \in [Procs -> [Fds -> Kinds]]
  BY Zenon DEF Init, Kinds
<1>5. /\ idx \in [Procs -> Nat \ {0}] /\ mine \in [Procs -> Nat] /\ seen \in [Procs -> Int]
      /\ pc \in [Procs -> Pcs] /\ \A p \in Procs : pc[p] = "idle"
  BY <1>3, Zenon DEF Init, Pcs
<1>6. /\ tgt \in [Procs -> Fds \cup {Dead}] /\ new \in [Procs -> Fds \cup {Dead}]
      /\ st \in [Procs -> Procs \cup {None}]
  BY Zenon DEF Init
<1>7. /\ alive \subseteq known /\ known \subseteq born /\ born \subseteq Procs /\ Installer \in alive
      /\ lock \in Procs \cup {None} /\ most \in Nat
  <2>1. 0 \in Nat
    BY SMTT(30)
  <2> QED BY <2>1, ProcsAssumption, Zenon DEF Init
<1>8. TypeOK
  BY <1>1, <1>2, <1>4, <1>5, <1>6, <1>7, InitSlots, Zenon DEF TypeOK
<1>9. Unique /\ \A p \in Procs : Serialised(p)
  BY <1>5, InitSlots, Zenon DEF Unique, Serialised, Held
<1> QED BY <1>8, <1>9, Zenon DEF OneSlot

\* Every step is an action of one process.
LEMMA SomeoneActs == Next => \E p \in Procs : Act(p)
  BY Zenon DEF Next, Act

\* Stuttering changes nothing the invariant speaks of.
LEMMA SerialStutter ==
  ASSUME OneSlot, UNCHANGED vars
  PROVE  OneSlot'
<1>1. TypeOK'
  BY Zenon DEF OneSlot, TypeOK, Slots, vars, shared, procs, locals
<1>2. Unique'
  BY Zenon DEF OneSlot, Unique, Slots, vars, shared
<1>3. \A p \in Procs : Serialised(p)'
  BY Zenon DEF OneSlot, Serialised, SlotsOf, Slots, vars, shared, locals
<1> QED BY <1>1, <1>2, <1>3, Zenon DEF OneSlot

\* The slots stay serialised in every behaviour.
LEMMA OneSlotAlways == Spec => []OneSlot
<1>1. Init => OneSlot
  BY InitOneSlot
<1>2. OneSlot /\ [Next]_vars => OneSlot'
  BY SerialStep, SerialStutter, SomeoneActs
<1> QED BY <1>1, <1>2, PTL DEF Spec

\* OneSlotEach holds for any number of processes and slots, whichever pids are
\* reused and wherever a child is killed: synth_acquire_lock covers the look-up
\* and the reservation of wslcompat_override_acquire_pid, so only the holder
\* publishes, and it found no slot of its own.
THEOREM SlotsSerialised == Spec => []OneSlotEach
<1>1. OneSlot => OneSlotEach
  BY Zenon DEF OneSlot, OneSlotEach, Unique, Serialised, Held
<1> QED BY <1>1, OneSlotAlways, PTL

-----------------------------------------------------------------------------
\* No pid is given to two incarnations.
OwnPids == \A p, q \in Procs : PidOf[p] = PidOf[q] => p = q

Acquiring == {"gc", "gcfree", "lock", "reserve", "publish", "unlock", "swap"}

\* Slot i is that of q; the fd q loads; q has a claim to a slot.
Owns(q, i) == slots[i].pid = PidOf[q] /\ slots[i].st = q
View(q)    == ViewFd(q, q)
Entitled(q) == q = Installer \/ most <= Cardinality(Slots)

\* The cached identity is right.
CacheOk == \A q \in Procs : cache.pid = PidOf[q] => cache.st = q

\* Slots are numbered from 1, the lock is free or was taken by somebody, and
\* the installer waits for its children.
Static ==
  /\ \A i \in Slots : \A k \in Nat \ {0} : k <= i => k \in Slots
  /\ lock \in born \cup {None}
  /\ Children # {} => pc[Installer] = "idle"

\* What a process's place in the code says of its locals.
Local(p) ==
  /\ pc[p] # "idle" => p \in alive
  /\ pc[p] \in Acquiring => st[p] = p /\ p # Installer
  /\ pc[p] \notin {"publish", "unlock", "swap"} => mine[p] = NoSlot
  /\ pc[p] \notin {"gc", "gcfree"} => idx[p] = 1

\* A published slot has the identity of a child; a reserved one is that of the
\* lock holder, unless that was killed.
Ids ==
  \A i \in Slots :
    /\ slots[i].pid \notin {Free, Reserved} =>
         slots[i].st \in born \ {Installer} /\ slots[i].pid = PidOf[slots[i].st]
    /\ slots[i].pid = Reserved =>
         lock \in Procs /\ (lock \in alive => pc[lock] = "publish" /\ mine[lock] = i)

\* What it says of the slots: the sweep frees slots of those gone, and only one
\* without a claim leaves without a slot.
Claims(p) ==
  /\ pc[p] = "gcfree" => idx[p] \in Slots /\ \E r \in born \ known : seen[p] = PidOf[r]
  /\ pc[p] = "publish" => mine[p] \in Slots /\ slots[mine[p]].pid = Reserved
  /\ pc[p] = "unlock" => (mine[p] \in Slots /\ Owns(p, mine[p])) \/ (mine[p] = NoSlot /\ ~Entitled(p))
  /\ pc[p] = "swap" => mine[p] \in Slots /\ Owns(p, mine[p])
  /\ pc[p] = "lost" => ~Entitled(p)

\* Where the copies of the file are at each place.
ViewAt(p) ==
  /\ pc[p] \in {"idle", "load", "dup"} =>
       /\ \A f \in Fds : table[p][f] = "wrap" => View(p) = f
       /\ Entitled(p) => View(p) = Dead \/ table[p][View(p)] = "wrap"
  /\ pc[p] \in {"dup", "cas"} \cup Acquiring => View(p) = tgt[p]
  /\ pc[p] \in {"cas", "lost"} \cup Acquiring =>
       /\ \A f \in Fds : table[p][f] = "wrap" => f \in {tgt[p], new[p]}
       /\ Entitled(p) => table[p][tgt[p]] = "wrap"
       /\ new[p] # Dead => new[p] # tgt[p] /\ table[p][new[p]] = table[p][tgt[p]]
  /\ pc[p] = "syscall" =>
       /\ \A f \in Fds \ {tgt[p]} : table[p][f] = "wrap" => View(p) = f
       /\ Entitled(p) => View(p) = Dead \/ (View(p) # tgt[p] /\ table[p][View(p)] = "wrap")

\* The sweep of x has looked at slot i: x went past it, or x found there the
\* pid of another process, since gone; an owner of a slot has swept all.
Covers(x, i) ==
  \/ SlotsOf(x, x) # {}
  \/ pc[x] \in {"lock", "reserve", "publish"}
  \/ pc[x] \in {"gc", "gcfree"} /\ i < idx[x]
  \/ pc[x] = "gcfree" /\ i = idx[x] /\ slots[i].pid # seen[x]

\* Children that /proc showed at the same time: it shows each still, or that one
\* has left a slot behind, and all of them had looked at the slots of those gone.
Cohort(S) ==
  /\ \A x \in S : x \in known \/ SlotsOf(x, x) # {}
  /\ \A y \in S \ known : \A i \in SlotsOf(y, y) : \A x \in S : Covers(x, i)

CohortBound == \A S \in SUBSET (Procs \ {Installer}) : Cohort(S) => Cardinality(S) <= most

IInv ==
  /\ OneSlot /\ CacheOk /\ Static /\ Ids /\ CohortBound
  /\ \A p \in Procs : Local(p) /\ Claims(p)
  /\ \A p \in alive : ViewAt(p)

\* The parts of the invariant, for one process.
LEMMA Parts ==
  ASSUME IInv, NEW p \in Procs
  PROVE  /\ TypeOK /\ Unique /\ Serialised(p) /\ CacheOk /\ Static /\ Ids /\ CohortBound
         /\ Local(p) /\ Claims(p) /\ (p \in alive => ViewAt(p))
  BY Zenon DEF IInv, OneSlot

\* The locals of p as functions, so that a store shows in one place.
LEMMA Functions ==
  ASSUME TypeOK
  PROVE  /\ pc = [q \in Procs |-> pc[q]] /\ tgt = [q \in Procs |-> tgt[q]]
         /\ new = [q \in Procs |-> new[q]] /\ st = [q \in Procs |-> st[q]]
         /\ idx = [q \in Procs |-> idx[q]] /\ mine = [q \in Procs |-> mine[q]]
         /\ seen = [q \in Procs |-> seen[q]] /\ table = [q \in Procs |-> table[q]]
  BY Zenon DEF TypeOK

\* A process finds its own start time, and caches it.
LEMMA OwnStarttime ==
  ASSUME CacheOk, NEW p \in Procs
  PROVE  Starttime(p) = p
  BY Zenon DEF CacheOk, Starttime

\* The cached identity stays right.
LEMMA CacheStep ==
  ASSUME IInv, OwnPids, NEW p \in Procs, Act(p)
  PROVE  CacheOk'
<1>1. CASE cache' = cache
  BY <1>1, Zenon DEF IInv, CacheOk
<1>2. CASE Cached(p)
  <2>1. cache' = [pid |-> PidOf[p], st |-> p]
    BY <1>2, OwnStarttime, Zenon DEF IInv, Cached
  <2>2. cache'.pid = PidOf[p] /\ cache'.st = p
    BY <2>1, Zenon
  <2> QED BY <2>2, Zenon DEF CacheOk, OwnPids
<1>3. cache' = cache \/ Cached(p)
  BY Zenon DEF Act, Step, Load, DupFd, ViewFdCas, GcRead, GcFree, GcDone, Acquire, Find, Reserve, Exhausted,
     Publish, Unlock, Swap, Lost, Syscall, Spawn, Exit, Reap, Open, Close, shared
<1> QED BY <1>1, <1>2, <1>3, Zenon

\* Four actions write to the slots, and none changes how many there are.
LEMMA SlotsWritten ==
  ASSUME TypeOK, NEW p \in Procs, Act(p)
  PROVE  /\ slots' = slots \/ GcFree(p) \/ Reserve(p) \/ Publish(p) \/ Swap(p)
         /\ Slots' = Slots
<1>1. slots' = slots \/ GcFree(p) \/ Reserve(p) \/ Publish(p) \/ Swap(p)
  BY Zenon DEF Act, Step, Load, DupFd, ViewFdCas, GcRead, GcDone, Acquire, Find, Exhausted,
     Unlock, Lost, Syscall, Spawn, Exit, Reap, Open, Close, shared
<1>2. slots' = slots => Slots' = Slots
  BY Zenon DEF Slots
<1> QED BY <1>1, <1>2, FreeEffect, ReserveEffect, PublishEffect, SwapEffect, Zenon

\* Slots get an owner only by its publication, a live process loses none, and
\* nobody but the owner changes the fd in one.
LEMMA OwnMoves ==
  ASSUME IInv, OwnPids, NEW p \in Procs, Act(p), NEW q \in Procs, NEW i \in Slots
  PROVE  /\ Owns(q, i)' => Owns(q, i) \/ (q = p /\ i = mine[p] /\ Publish(p))
         /\ q \in alive /\ Owns(q, i) => Owns(q, i)'
         /\ Owns(q, i) => slots'[i].fd = slots[i].fd \/ (q = p /\ Swap(p))
<1>0. /\ TypeOK /\ Local(p) /\ Claims(p) /\ PidOf[q] # Free /\ PidOf[q] # Reserved
  BY Parts, Numbers, Zenon
<1>1. CASE slots' = slots
  BY <1>1, Zenon DEF Owns
<1>2. CASE GcFree(p)
  <2>1. PICK r \in born \ known : seen[p] = PidOf[r]
    BY <1>0, <1>2, Zenon DEF Claims, GcFree
  <2>2. r \in Procs /\ r \notin alive
    BY <1>0, Zenon DEF TypeOK
  <2>3. q \in alive => PidOf[q] # seen[p]
    BY <2>1, <2>2, Zenon DEF OwnPids
  <2>4. /\ slots'[i].st = slots[i].st /\ slots'[i].fd = slots[i].fd
        /\ slots'[i].pid = slots[i].pid \/ (slots[i].pid = seen[p] /\ slots'[i].pid = Free)
    BY <1>0, <1>2, FreeEffect, Zenon
  <2> QED BY <1>0, <2>3, <2>4, Zenon DEF Owns
<1>3. CASE Reserve(p)
  <2>1. slots'[i] = slots[i] \/ (slots[i].pid = Free /\ slots'[i].pid = Reserved)
    BY <1>0, <1>3, ReserveEffect, Zenon
  <2> QED BY <1>0, <2>1, Zenon DEF Owns
<1>4. CASE Publish(p)
  <2>1. mine[p] \in Slots /\ slots[mine[p]].pid = Reserved
    BY <1>0, <1>4, Zenon DEF Claims, Publish
  <2>2. CASE i = mine[p]
    <3>1. slots'[i].pid = PidOf[p]
      BY <1>0, <1>4, <2>2, PublishEffect, Zenon
    <3> QED BY <1>0, <1>4, <2>1, <2>2, <3>1, Zenon DEF Owns, OwnPids
  <2>3. CASE i # mine[p]
    <3>1. slots'[i] = slots[i]
      BY <1>0, <1>4, <2>3, PublishEffect, Zenon
    <3> QED BY <3>1, Zenon DEF Owns
  <2> QED BY <2>2, <2>3, Zenon
<1>5. CASE Swap(p)
  <2>1. mine[p] \in Slots /\ Owns(p, mine[p])
    BY <1>0, <1>5, Zenon DEF Claims, Swap
  <2>2. /\ slots'[i].st = slots[i].st /\ slots'[i].pid = slots[i].pid
        /\ slots'[i].fd = slots[i].fd \/ i = mine[p]
    BY <1>0, <1>5, SwapEffect, Zenon
  <2> QED BY <1>5, <2>1, <2>2, Zenon DEF Owns, OwnPids
<1> QED BY <1>0, <1>1, <1>2, <1>3, <1>4, <1>5, SlotsWritten, Zenon

\* The slots and the view of a live process, in a step that does not publish
\* its slot, swap its fd or change the base.
LEMMA ViewKept ==
  ASSUME IInv, OwnPids, NEW p \in Procs, Act(p), NEW q \in alive, ~(q = p /\ Publish(p))
  PROVE  /\ SlotsOf(q, q)' = SlotsOf(q, q)
         /\ base' = base /\ ~(q = p /\ Swap(p)) => View(q)' = View(q)
<1>0. TypeOK /\ q \in Procs /\ Slots' = Slots /\ Slots \subseteq Nat
  BY Parts, SlotsWritten, Zenon DEF TypeOK
<1>1. SlotsOf(q, q)' = SlotsOf(q, q)
  <2>1. \A i \in Slots : Owns(q, i)' <=> Owns(q, i)
    BY <1>0, OwnMoves, Zenon
  <2> QED BY <1>0, <2>1, Zenon DEF SlotsOf, Owns
<1>2. ASSUME base' = base, ~(q = p /\ Swap(p)) PROVE View(q)' = View(q)
  <2>1. CASE IsInstaller(q, q) \/ SlotsOf(q, q) = {}
    BY <1>1, <1>2, <2>1, Zenon DEF View, ViewFd, IsInstaller
  <2>2. CASE ~(IsInstaller(q, q) \/ SlotsOf(q, q) = {})
    <3>1. SlotsOf(q, q) \subseteq Nat
      BY <1>0, Zenon DEF SlotsOf
    <3>2. Min(SlotsOf(q, q)) \in SlotsOf(q, q)
      BY <2>2, <3>1, Lowest, Zenon
    <3>3. Min(SlotsOf(q, q)) \in Slots /\ Owns(q, Min(SlotsOf(q, q)))
      BY <3>2, Zenon DEF SlotsOf, Owns
    <3>4. slots'[Min(SlotsOf(q, q))].fd = slots[Min(SlotsOf(q, q))].fd
      BY <1>0, <1>2, <3>3, OwnMoves, Zenon
    <3>5. SlotsOf(q, q)' # {} /\ ~IsInstaller(q, q)'
      BY <1>1, <2>2, Zenon DEF IsInstaller
    <3> QED BY <1>1, <2>2, <3>4, <3>5, Zenon DEF View, ViewFd
  <2> QED BY <2>1, <2>2, Zenon
<1> QED BY <1>1, <1>2, Zenon

\* The view of the owner of a slot, of a child without one and of the installer.
LEMMA ViewIs ==
  ASSUME TypeOK, Unique, NEW q \in Procs
  PROVE  /\ q = Installer => View(q) = base
         /\ SlotsOf(q, q) = {} => View(q) = base
         /\ \A i \in Slots : Owns(q, i) /\ q # Installer => View(q) = slots[i].fd
<1>1. q = Installer => View(q) = base
  BY Zenon DEF View, ViewFd, IsInstaller
<1>2. SlotsOf(q, q) = {} => View(q) = base
  BY Zenon DEF View, ViewFd
<1>3. ASSUME NEW i \in Slots, Owns(q, i), q # Installer PROVE View(q) = slots[i].fd
  <2>1. i \in SlotsOf(q, q) /\ SlotsOf(q, q) \subseteq Nat
    BY <1>3, Zenon DEF SlotsOf, Owns, TypeOK
  <2>2. Min(SlotsOf(q, q)) \in SlotsOf(q, q)
    BY <2>1, Lowest, Zenon
  <2>3. Min(SlotsOf(q, q)) = i
    BY <1>3, <2>2, Numbers, Zenon DEF SlotsOf, Owns, Unique
  <2> QED BY <1>3, <2>1, <2>3, Zenon DEF View, ViewFd, IsInstaller
<1> QED BY <1>1, <1>2, <1>3, Zenon

-----------------------------------------------------------------------------
\* The control invariants.

\* A process is in a close only while it lives, and has the locals that go
\* with its place.
LEMMA LocalStep ==
  ASSUME IInv, NEW p \in Procs, Act(p), NEW q \in Procs
  PROVE  Local(q)'
<1>0. TypeOK /\ Local(p) /\ Local(q) /\ CacheOk /\ Others(p)
  BY Parts, OtherProcs, Zenon
<1>1. CASE q # p
  <2>1. /\ pc'[q] = pc[q] /\ st'[q] = st[q] /\ mine'[q] = mine[q] /\ idx'[q] = idx[q]
    BY <1>0, <1>1, Zenon DEF Others
  <2>2. q \in alive => q \in alive'
    BY <1>1, Zenon DEF Act, Step, Load, DupFd, ViewFdCas, GcRead, GcFree, GcDone, Acquire, Find, Reserve,
       Exhausted, Publish, Unlock, Swap, Lost, Syscall, Spawn, Exit, Reap, Open, Close, procs
  <2> QED BY <1>0, <2>1, <2>2, Zenon DEF Local
<1>2. CASE q = p
  <2>0. Starttime(p) = p
    BY <1>0, OwnStarttime, Zenon
  <2>1. CASE Load(p) \/ DupFd(p) \/ Lost(p) \/ Syscall(p)
    <3>1. alive' = alive /\ pc[p] \in {"load", "dup", "lost", "syscall"}
          /\ pc'[p] \in {"dup", "syscall", "cas", "idle"} /\ mine' = mine /\ idx' = idx
      BY <1>0, <2>1, Functions, Zenon DEF Load, DupFd, Lost, Syscall, procs, locals
    <3> QED BY <1>0, <1>2, <3>1, Zenon DEF Local, Acquiring
  <2>2. CASE ViewFdCas(p)
    <3>1. alive' = alive /\ pc[p] = "cas" /\ st'[p] = p /\ mine' = mine /\ idx' = idx
      BY <1>0, <2>0, <2>2, Functions, Zenon DEF ViewFdCas, procs
    <3>2. pc'[p] \in {"syscall", "lost"} \/ (pc'[p] = "gc" /\ p # Installer)
      BY <1>0, <2>0, <2>2, Functions, Zenon DEF ViewFdCas, AfterCas, IsInstaller
    <3> QED BY <1>0, <1>2, <3>1, <3>2, Zenon DEF Local, Acquiring
  <2>3. CASE GcRead(p) \/ GcFree(p) \/ GcDone(p)
    <3>1. alive' = alive /\ pc[p] \in {"gc", "gcfree"} /\ st' = st /\ mine' = mine
      BY <2>3, Zenon DEF GcRead, GcFree, GcDone, procs
    <3>2. pc'[p] \in {"gc", "gcfree"} \/ (pc'[p] = "lock" /\ idx'[p] = 1)
      BY <1>0, <2>3, Functions, Zenon DEF GcRead, GcFree, GcDone
    <3> QED BY <1>0, <1>2, <3>1, <3>2, Zenon DEF Local, Acquiring
  <2>4. CASE Acquire(p)
    <3>1. alive' = alive /\ pc[p] = "lock" /\ pc'[p] = "reserve" /\ st' = st /\ mine' = mine /\ idx' = idx
      BY <1>0, <2>4, Functions, Zenon DEF Acquire, procs, locals
    <3> QED BY <1>0, <1>2, <3>1, Zenon DEF Local, Acquiring
  <2>5. CASE Find(p) \/ Reserve(p) \/ Exhausted(p) \/ Publish(p)
    <3>1. alive' = alive /\ pc[p] \in {"reserve", "publish"} /\ pc'[p] \in {"unlock", "publish"}
          /\ st' = st /\ idx' = idx
      BY <1>0, <2>5, Functions, Zenon DEF Find, Reserve, Exhausted, Publish, procs, locals
    <3> QED BY <1>0, <1>2, <3>1, Zenon DEF Local, Acquiring
  <2>6. CASE Unlock(p)
    <3>1. alive' = alive /\ pc[p] = "unlock" /\ st' = st /\ idx' = idx /\ mine' = mine
      BY <2>6, Zenon DEF Unlock, procs, locals
    <3>2. (pc'[p] \in {"syscall", "lost"} /\ mine[p] = NoSlot) \/ pc'[p] = "swap"
      BY <1>0, <2>6, Functions, Zenon DEF Unlock, AfterCas
    <3> QED BY <1>0, <1>2, <3>1, <3>2, Zenon DEF Local, Acquiring
  <2>7. CASE Swap(p)
    <3>1. alive' = alive /\ pc[p] = "swap" /\ idx' = idx /\ mine'[p] = NoSlot /\ pc'[p] \in {"syscall", "lost"}
      BY <1>0, <2>7, Functions, Zenon DEF Swap, AfterCas, procs
    <3> QED BY <1>0, <1>2, <3>1, Zenon DEF Local, Acquiring
  <2>8. CASE Spawn(p) \/ Reap(p) \/ Open(p)
    <3>1. alive \subseteq alive' /\ UNCHANGED <<pc, st, mine, idx>>
      BY <2>8, Zenon DEF Spawn, Reap, Open, procs, locals
    <3> QED BY <1>0, <1>2, <3>1, Zenon DEF Local
  <2>9. CASE Exit(p)
    <3>1. pc'[p] = "idle" /\ mine'[p] = NoSlot /\ idx'[p] = 1
      BY <1>0, <2>9, Functions, Zenon DEF Exit
    <3> QED BY <1>2, <3>1, Zenon DEF Local, Acquiring
  <2>10. CASE \E f \in Fds : Close(p, f)
    <3>1. alive' = alive /\ p \in alive /\ pc[p] = "idle" /\ pc'[p] = "load" /\ mine' = mine /\ idx' = idx
      BY <1>0, <2>10, Functions, Zenon DEF Close, procs
    <3> QED BY <1>0, <1>2, <3>1, Zenon DEF Local, Acquiring
  <2> QED BY <2>1, <2>2, <2>3, <2>4, <2>5, <2>6, <2>7, <2>8, <2>9, <2>10, Zenon DEF Act, Step
<1> QED BY <1>1, <1>2, Zenon

\* A step of a close happens in a close, and starts or ends no process.
LEMMA StepAlive ==
  ASSUME NEW p \in Procs, Step(p)
  PROVE  pc[p] # "idle" /\ alive' = alive /\ known' = known /\ born' = born /\ most' = most
  BY Zenon DEF Step, Load, DupFd, ViewFdCas, GcRead, GcFree, GcDone, Acquire, Find, Reserve,
     Exhausted, Publish, Unlock, Swap, Lost, Syscall, procs

\* Who shares the memory after an action: one more, one less, or the same.
LEMMA Lives ==
  ASSUME TypeOK, NEW p \in Procs, Act(p)
  PROVE  \/ alive' = alive /\ born' = born
         \/ Spawn(p) /\ p \notin born /\ alive' = alive \cup {p} /\ born' = born \cup {p}
         \/ Exit(p) /\ p # Installer /\ p \in alive /\ alive' = alive \ {p} /\ born' = born
<1>1. Spawn(p) => p \notin born /\ alive' = alive \cup {p} /\ born' = born \cup {p}
  BY Zenon DEF Spawn
<1>2. Exit(p) => p # Installer /\ p \in alive /\ alive' = alive \ {p} /\ born' = born
  BY Zenon DEF Exit, Children
<1>3. Reap(p) \/ Open(p) \/ (\E f \in Fds : Close(p, f)) => alive' = alive /\ born' = born
  BY Zenon DEF Reap, Open, Close, procs
<1> QED BY <1>1, <1>2, <1>3, StepAlive, Zenon DEF Act

\* Whom /proc shows after it, and that the history of their number only grows.
LEMMA Shown ==
  ASSUME TypeOK, NEW p \in Procs, Act(p)
  PROVE  /\ \/ known' = known
            \/ Spawn(p) /\ p \notin born /\ known' = known \cup {p}
            \/ Reap(p) /\ p \notin alive /\ known' = known \ {p}
         /\ \A r \in born \ known : r \in born' \ known'
         /\ most' = most \/ Spawn(p)
         /\ most' \in Nat /\ most <= most'
<1>1. Spawn(p) => p \notin born /\ known' = known \cup {p}
  BY Zenon DEF Spawn
<1>2. Reap(p) => p \notin alive /\ known' = known \ {p} /\ most' = most
  BY Zenon DEF Reap
<1>3. Exit(p) \/ Open(p) \/ (\E f \in Fds : Close(p, f)) => known' = known /\ most' = most
  BY Zenon DEF Exit, Open, Close, procs
<1>4. /\ \/ known' = known
         \/ Spawn(p) /\ p \notin born /\ known' = known \cup {p}
         \/ Reap(p) /\ p \notin alive /\ known' = known \ {p}
      /\ most' = most \/ Spawn(p)
  BY <1>1, <1>2, <1>3, StepAlive, Zenon DEF Act
<1>5. \A r \in born \ known : r \in born' \ known'
  BY <1>4, Lives, Zenon
<1>6. most \in Nat /\ most <= most
  <2>1. most \in Nat
    BY Zenon DEF TypeOK
  <2> QED BY <2>1, SMTT(30)
<1> QED BY <1>4, <1>5, <1>6, Grows, Zenon

\* A claim to a slot is never gained.
LEMMA EntitledBack ==
  ASSUME TypeOK, NEW p \in Procs, Act(p), NEW q
  PROVE  Entitled(q)' => Entitled(q)
<1>1. Slots' = Slots /\ IsFiniteSet(Slots) /\ most \in Nat /\ most' \in Nat /\ most <= most'
  BY SlotsWritten, Shown, Zenon DEF TypeOK
<1>2. Cardinality(Slots) \in Nat
  BY <1>1, FS_CardinalityType, Zenon
<1>3. most' <= Cardinality(Slots) => most <= Cardinality(Slots)
  BY <1>1, <1>2, SMTT(30)
<1> QED BY <1>1, <1>3, Zenon DEF Entitled

\* The lock is passed between processes that were born; the installer does not
\* move while it has children.
LEMMA StaticStep ==
  ASSUME IInv, ~InstallerRuns, NEW p \in Procs, Act(p)
  PROVE  Static'
<1>0. TypeOK /\ Static /\ Local(p) /\ Others(p) /\ Slots' = Slots
  BY Parts, OtherProcs, SlotsWritten, Zenon
<1>1. lock' \in born' \cup {None}
  <2>1. lock' = lock \/ (pc[p] = "lock" /\ lock' = p) \/ lock' = None
    BY Zenon DEF Act, Step, Load, DupFd, ViewFdCas, GcRead, GcFree, GcDone, Acquire, Find, Reserve,
       Exhausted, Publish, Unlock, Swap, Lost, Syscall, Spawn, Exit, Reap, Open, Close, shared
  <2>2. pc[p] = "lock" => p \in born
    BY <1>0, Zenon DEF Local, TypeOK
  <2>3. born \subseteq born'
    BY <1>0, Lives, Zenon
  <2> QED BY <1>0, <2>1, <2>2, <2>3, Zenon DEF Static
<1>2. ASSUME Children' # {} PROVE pc'[Installer] = "idle"
  <2>1. Installer \in Procs /\ Installer \in alive
    BY <1>0, Zenon DEF TypeOK
  <2>2. CASE Spawn(p)
    BY <2>2, Zenon DEF Spawn
  <2>3. CASE ~Spawn(p)
    <3>1. Children # {}
      BY <1>0, <1>2, <2>3, Lives, Zenon DEF Children
    <3>2. pc[Installer] = "idle"
      BY <1>0, <3>1, Zenon DEF Static
    <3>3. CASE p # Installer
      BY <1>0, <2>1, <3>2, <3>3, Zenon DEF Others
    <3>4. CASE p = Installer
      <4>1. ~Step(p) /\ ~Exit(p) /\ ~Reap(p) /\ ~(\E f \in Fds : Close(p, f))
        BY <2>1, <3>1, <3>2, <3>4, StepAlive, Zenon DEF Exit, Reap, Children, Close
      <4>2. Open(p)
        BY <2>3, <4>1, Zenon DEF Act
      <4> QED BY <3>2, <4>2, Zenon DEF Open
    <3> QED BY <3>3, <3>4, Zenon
  <2> QED BY <2>2, <2>3, Zenon
<1> QED BY <1>0, <1>1, <1>2, Zenon DEF Static

\* Published slots keep the identity of their child, and a reserved slot its
\* lock holder.
LEMMA IdsStep ==
  ASSUME IInv, NEW p \in Procs, Act(p)
  PROVE  Ids'
<1>0. TypeOK /\ Static /\ Ids /\ Local(p) /\ Serialised(p) /\ Claims(p) /\ Others(p) /\ Slots' = Slots
  BY Parts, OtherProcs, SlotsWritten, Zenon
<1>1. born \subseteq born' /\ alive \subseteq Procs /\ born \subseteq Procs /\ alive \subseteq born
  BY <1>0, Lives, Zenon DEF TypeOK
<1> SUFFICES ASSUME NEW i \in Slots
             PROVE  /\ slots'[i].pid \notin {Free, Reserved} =>
                         slots'[i].st \in born' \ {Installer} /\ slots'[i].pid = PidOf[slots'[i].st]
                    /\ slots'[i].pid = Reserved =>
                         lock' \in Procs /\ (lock' \in alive' => pc'[lock'] = "publish" /\ mine'[lock'] = i)
  BY <1>0, Zenon DEF Ids
<1>2. ASSUME slots[i].pid = Reserved, lock' = lock, ~Publish(p)
      PROVE  lock' \in Procs /\ (lock' \in alive' => pc'[lock'] = "publish" /\ mine'[lock'] = i)
  <2>1. lock \in Procs /\ lock \in born /\ (lock \in alive => pc[lock] = "publish" /\ mine[lock] = i)
    BY <1>0, <1>2, Numbers, Zenon DEF Ids, Static
  <2>2. lock \in alive' => lock \in alive
    BY <1>0, <2>1, Lives, Zenon
  <2>3. CASE lock # p
    BY <1>0, <1>2, <2>1, <2>2, <2>3, Zenon DEF Others
  <2>4. CASE lock = p /\ p \in alive'
    <3>1. pc[p] = "publish" /\ mine[p] = i
      BY <2>1, <2>2, <2>4, Zenon
    <3>2. ~Step(p)
      BY <1>2, <3>1, Zenon DEF Step, Load, DupFd, ViewFdCas, GcRead, GcFree, GcDone, Acquire, Find, Reserve,
         Exhausted, Unlock, Swap, Lost, Syscall
    <3>3. ~Exit(p) /\ ~Open(p) /\ ~(\E f \in Fds : Close(p, f))
      BY <2>4, <3>1, Zenon DEF Exit, Open, Close
    <3>4. pc' = pc /\ mine' = mine
      BY <3>2, <3>3, Zenon DEF Act, Spawn, Reap, locals
    <3> QED BY <1>2, <2>1, <2>4, <3>1, <3>4, Zenon
  <2> QED BY <1>2, <2>1, <2>3, <2>4, Zenon
<1>3. CASE slots' = slots
  <2>1. CASE Acquire(p) \/ Unlock(p)
    <3>1. slots[i].pid # Reserved
      <4>1. pc[p] = "unlock" => lock = p /\ p \in alive
        BY <1>0, Zenon DEF Serialised, Held, Local
      <4>2. CASE Acquire(p)
        BY <1>0, <4>2, Numbers, Zenon DEF Acquire, Ids
      <4>3. CASE Unlock(p)
        BY <1>0, <4>1, <4>3, Zenon DEF Unlock, Ids
      <4> QED BY <2>1, <4>2, <4>3, Zenon
    <3> QED BY <1>0, <1>1, <1>3, <3>1, Zenon DEF Ids
  <2>2. CASE ~Acquire(p) /\ ~Unlock(p)
    <3>1. lock' = lock
      BY <2>2, Zenon DEF Act, Step, Load, DupFd, ViewFdCas, GcRead, GcFree, GcDone, Find, Reserve,
         Exhausted, Publish, Swap, Lost, Syscall, Spawn, Exit, Reap, Open, Close, shared
    <3>2. CASE slots[i].pid = Reserved
      <4>1. ~Publish(p)
        <5>1. Publish(p) => mine[p] \in Slots /\ slots[mine[p]].pid = Reserved /\ slots'[mine[p]].pid = PidOf[p]
          BY <1>0, PublishEffect, Zenon DEF Claims, Publish
        <5> QED BY <1>3, <5>1, Numbers, Zenon
      <4> QED BY <1>2, <1>3, <3>1, <3>2, <4>1, Zenon
    <3>3. CASE slots[i].pid # Reserved
      BY <1>0, <1>1, <1>3, <3>3, Zenon DEF Ids
    <3> QED BY <3>2, <3>3, Zenon
  <2> QED BY <2>1, <2>2, Zenon
<1>4. CASE GcFree(p)
  <2>1. /\ slots'[i].st = slots[i].st /\ (slots'[i].pid = slots[i].pid \/ slots'[i].pid = Free)
        /\ lock' = lock /\ ~Publish(p)
    BY <1>0, <1>4, FreeEffect, Zenon DEF GcFree, Publish
  <2> QED BY <1>0, <1>1, <1>2, <2>1, Numbers, Zenon DEF Ids
<1>5. CASE Swap(p)
  <2>1. /\ slots'[i].st = slots[i].st /\ slots'[i].pid = slots[i].pid
        /\ lock' = lock /\ ~Publish(p)
    BY <1>0, <1>5, SwapEffect, Zenon DEF Swap, Publish
  <2> QED BY <1>0, <1>1, <1>2, <2>1, Zenon DEF Ids
<1>6. CASE Reserve(p)
  <2>1. pc[p] = "reserve" /\ lock = p /\ p \in alive /\ lock' = lock /\ pc'[p] = "publish"
    BY <1>0, <1>6, Functions, Zenon DEF Reserve, Serialised, Held, Local
  <2>2. slots[i].pid # Reserved
    BY <1>0, <2>1, Zenon DEF Ids
  <2>3. CASE i = mine'[p]
    <3>1. slots'[i].pid = Reserved
      BY <1>0, <1>6, <2>3, ReserveEffect, Zenon
    <3> QED BY <2>1, <2>3, <3>1, Zenon
  <2>4. CASE i # mine'[p]
    <3>1. slots'[i] = slots[i]
      BY <1>0, <1>6, <2>4, ReserveEffect, Zenon
    <3> QED BY <1>0, <1>1, <2>2, <3>1, Zenon DEF Ids
  <2> QED BY <2>3, <2>4, Zenon
<1>7. CASE Publish(p)
  <2>1. pc[p] = "publish" /\ lock = p /\ p \in alive /\ st[p] = p /\ p # Installer
    BY <1>0, <1>7, Zenon DEF Publish, Serialised, Held, Local, Acquiring
  <2>2. CASE i = mine[p]
    <3>1. slots'[i].pid = PidOf[p] /\ slots'[i].st = p
      BY <1>0, <1>7, <2>1, <2>2, PublishEffect, Zenon
    <3> QED BY <1>1, <2>1, <3>1, Numbers, Zenon
  <2>3. CASE i # mine[p]
    <3>1. slots'[i] = slots[i] /\ slots[i].pid # Reserved
      BY <1>0, <1>7, <2>1, <2>3, PublishEffect, Zenon DEF Ids
    <3> QED BY <1>0, <1>1, <3>1, Zenon DEF Ids
  <2> QED BY <2>2, <2>3, Zenon
<1> QED BY <1>0, <1>3, <1>4, <1>5, <1>6, <1>7, SlotsWritten, Zenon

\* The sweep's verdict: the owner of a slot it takes for stale is gone, and it
\* takes the slot of everyone gone for stale.
LEMMA Verdict ==
  ASSUME IInv, OwnPids, NEW p \in alive, NEW i \in Slots, slots[i].pid \notin {Free, Reserved}
  PROVE  Stale(p, slots[i].pid, slots[i].st) <=> slots[i].st \notin known
<1>0. TypeOK /\ p \in Procs /\ p \in known /\ known \subseteq Procs /\ Starttime(p) = p
  <2>1. TypeOK /\ CacheOk
    BY Zenon DEF IInv, OneSlot
  <2>2. p \in Procs /\ p \in known /\ known \subseteq Procs
    BY <2>1, Zenon DEF TypeOK
  <2> QED BY <2>1, <2>2, OwnStarttime, Zenon
<1> DEFINE o == slots[i].st
<1>1. o \in Procs /\ slots[i].pid = PidOf[o]
  BY <1>0, Zenon DEF IInv, Ids, TypeOK
<1>2. CASE o = p
  BY <1>0, <1>1, <1>2, Zenon DEF Stale
<1>3. CASE o # p
  <2>1. PidOf[o] # PidOf[p]
    BY <1>0, <1>1, <1>3, Zenon DEF OwnPids
  <2>2. CASE o \in known
    <3>1. \A q \in known : PidOf[q] = PidOf[o] => q = o
      BY <1>0, <1>1, Zenon DEF OwnPids
    <3>2. LiveStarttime(PidOf[o]) = o
      BY <2>2, <3>1, Zenon DEF LiveStarttime
    <3> QED BY <1>1, <2>1, <2>2, <3>2, Zenon DEF Stale
  <2>3. CASE o \notin known
    <3>1. ~\E q \in known : PidOf[q] = PidOf[o]
      BY <1>0, <1>1, <2>3, Zenon DEF OwnPids
    <3>2. LiveStarttime(PidOf[o]) = None
      BY <3>1, Zenon DEF LiveStarttime
    <3> QED BY <1>1, <2>1, <2>3, <3>2, Numbers, Zenon DEF Stale
  <2> QED BY <2>2, <2>3, Zenon
<1> QED BY <1>2, <1>3, Zenon

\* The slots are exhausted only if there are fewer than children: the owners of
\* all of them and the one that found none free were there together once.
LEMMA Crowded ==
  ASSUME IInv, NEW p \in Procs, pc[p] = "reserve", SlotsOf(p, st[p]) = {},
         \A i \in Slots : slots[i].pid # Free
  PROVE  ~Entitled(p)
<1>0. /\ TypeOK /\ Unique /\ Ids /\ CohortBound /\ Local(p) /\ Serialised(p)
      /\ IsFiniteSet(Slots) /\ IsFiniteSet(Procs)
  BY Parts, ProcsAssumption, Zenon DEF TypeOK
<1>1. p \in alive /\ st[p] = p /\ p # Installer /\ lock = p
  BY <1>0, Zenon DEF Local, Acquiring, Serialised, Held
<1>2. \A i \in Slots : /\ slots[i].pid \notin {Free, Reserved}
                       /\ slots[i].st \in Procs \ {Installer} /\ Owns(slots[i].st, i)
  BY <1>0, <1>1, Zenon DEF Ids, Owns, TypeOK
<1> DEFINE f == [i \in Slots |-> slots[i].st]
           O == {slots[i].st : i \in Slots}
           S == O \cup {p}
<1>3. O \subseteq Procs \ {Installer} /\ S \in SUBSET (Procs \ {Installer})
  BY <1>1, <1>2, Zenon
<1>4. p \notin O
  <2>1. \A i \in Slots : ~Owns(p, i)
    BY <1>1, Zenon DEF SlotsOf, Owns
  <2> QED BY <1>2, <2>1, Zenon
<1>5. \A x \in O : SlotsOf(x, x) # {}
  BY <1>2, Zenon DEF SlotsOf, Owns
<1>6. Cohort(S)
  <2>1. \A x \in S, i \in Slots : Covers(x, i)
    BY <1>5, Zenon DEF Covers
  <2>2. \A x \in S : x \in known \/ SlotsOf(x, x) # {}
    BY <1>0, <1>1, <1>5, Zenon DEF TypeOK
  <2>3. \A y : SlotsOf(y, y) \subseteq Slots
    BY Zenon DEF SlotsOf
  <2> HIDE DEF S
  <2> QED BY <2>1, <2>2, <2>3, Zenon DEF Cohort
<1>7. Cardinality(S) <= most
  BY <1>0, <1>3, <1>6, Zenon DEF CohortBound
<1>8. IsFiniteSet(O) /\ Cardinality(O) \in Nat /\ Cardinality(Slots) \in Nat
  <2>1. O \in SUBSET Procs
    BY <1>3, Zenon
  <2> HIDE DEF O
  <2> QED BY <1>0, <2>1, FS_Subset, FS_CardinalityType, Zenon
<1>9. Cardinality(S) = Cardinality(O) + 1
  <2> HIDE DEF O
  <2> QED BY <1>4, <1>8, FS_AddElement, Zenon
<1>10. Cardinality(Slots) <= Cardinality(O)
  <2>1. f \in [Slots -> O]
    BY Zenon
  <2>2. \A i, j \in Slots : f[i] = f[j] => i = j
    <3>1. \A i, j \in Slots : slots[i].st = slots[j].st => slots[i].pid = slots[j].pid
      BY <1>2, Zenon DEF Owns
    <3> QED BY <1>0, <1>2, <3>1, Zenon DEF Unique
  <2> HIDE DEF f, O
  <2>3. f \in Injection(Slots, O)
    BY <2>1, <2>2, Zenon DEF Injection, IsInjective
  <2> QED BY <1>8, <2>3, FS_Injection, Zenon
<1>11. most \in Nat
  BY <1>0, Zenon DEF TypeOK
<1>12. ~(most <= Cardinality(Slots))
  <2> HIDE DEF O, S
  <2> QED BY <1>7, <1>8, <1>9, <1>10, <1>11, SMTT(30)
<1> QED BY <1>1, <1>12, Zenon DEF Entitled

\* A step keeps what each process claims.
LEMMA ClaimsStep ==
  ASSUME IInv, OwnPids, NEW p \in Procs, Act(p), NEW q \in Procs
  PROVE  Claims(q)'
<1>0. /\ TypeOK /\ Local(p) /\ Claims(p) /\ Local(q) /\ Claims(q) /\ Serialised(p) /\ Serialised(q)
      /\ Others(p) /\ Slots' = Slots
  BY Parts, OtherProcs, SlotsWritten, Zenon
<1>00. Entitled(q)' => Entitled(q)
  BY <1>0, EntitledBack, Zenon
<1>1. \A r \in born \ known : r \in born' \ known'
  BY <1>0, Shown, Zenon
<1>2. CASE q # p
  <2>1. pc'[q] = pc[q] /\ idx'[q] = idx[q] /\ seen'[q] = seen[q] /\ mine'[q] = mine[q]
    BY <1>0, <1>2, Zenon DEF Others
  <2>2. ASSUME pc[q] = "publish" PROVE mine[q] \in Slots /\ slots'[mine[q]].pid = Reserved
    <3>1. mine[q] \in Slots /\ slots[mine[q]].pid = Reserved /\ lock = q
      BY <1>0, <2>2, Zenon DEF Claims, Serialised, Held
    <3>2. ~Reserve(p) /\ ~Publish(p)
      BY <1>0, <1>2, <3>1, Zenon DEF Reserve, Publish, Serialised, Held
    <3>3. CASE GcFree(p)
      <4>1. seen[p] # Reserved
        BY <1>0, <3>3, Numbers, Zenon DEF Claims, GcFree, TypeOK
      <4> QED BY <1>0, <3>1, <3>3, <4>1, FreeEffect, Zenon
    <3>4. CASE Swap(p)
      BY <1>0, <3>1, <3>4, SwapEffect, Zenon
    <3> QED BY <1>0, <3>1, <3>2, <3>3, <3>4, SlotsWritten, Zenon
  <2>3. ASSUME pc[q] \in {"unlock", "swap"}, mine[q] \in Slots, Owns(q, mine[q]) PROVE Owns(q, mine[q])'
    <3>1. q \in alive
      BY <1>0, <2>3, Zenon DEF Local
    <3>2. Owns(q, mine[q])' <=> (slots'[mine[q]].pid = PidOf[q] /\ slots'[mine[q]].st = q)
      BY <2>1, Zenon DEF Owns
    <3>3. \A i \in Slots : Owns(q, i) => slots'[i].pid = PidOf[q] /\ slots'[i].st = q
      BY <3>1, OwnMoves, ZenonT(60) DEF Owns
    <3> QED BY <2>3, <3>2, <3>3, Zenon
  <2> QED BY <1>0, <1>00, <1>1, <2>1, <2>2, <2>3, Zenon DEF Claims
<1>3. CASE q = p
  <2>1. CASE GcRead(p)
    <3>1. pc'[p] = "gcfree" \/ pc'[p] = "gc"
      BY <1>0, <2>1, Functions, Zenon DEF GcRead
    <3>2. ASSUME pc'[p] = "gcfree"
          PROVE  idx'[p] \in Slots /\ \E r \in born' \ known' : seen'[p] = PidOf[r]
      <4>1. /\ idx'[p] = idx[p] /\ idx[p] \in Slots /\ seen'[p] = slots[idx[p]].pid
            /\ Stale(p, slots[idx[p]].pid, slots[idx[p]].st) /\ p \in alive
        BY <1>0, <2>1, <3>2, Functions, Zenon DEF GcRead, Local
      <4>2. slots[idx[p]].pid \notin {Free, Reserved}
        BY <4>1, Zenon DEF Stale
      <4>3. slots[idx[p]].st \in born \ known /\ slots[idx[p]].pid = PidOf[slots[idx[p]].st]
        BY <4>1, <4>2, Verdict, Zenon DEF IInv, Ids
      <4> QED BY <1>1, <4>1, <4>3, Zenon
    <3> QED BY <1>0, <1>3, <3>1, <3>2, Zenon DEF Claims
  <2>2. CASE Reserve(p)
    <3>1. pc'[p] = "publish"
      BY <1>0, <2>2, Functions, Zenon DEF Reserve
    <3> QED BY <1>0, <1>3, <2>2, <3>1, ReserveEffect, Zenon DEF Claims
  <2>3. CASE Find(p)
    <3>1. pc'[p] = "unlock" /\ pc[p] = "reserve" /\ slots' = slots /\ mine'[p] = Min(SlotsOf(p, st[p]))
          /\ SlotsOf(p, st[p]) # {}
      BY <1>0, <2>3, Functions, Zenon DEF Find, shared
    <3>2. st[p] = p /\ SlotsOf(p, p) \subseteq Nat
      BY <1>0, <3>1, Zenon DEF Local, Acquiring, SlotsOf, TypeOK
    <3>3. mine'[p] \in SlotsOf(p, p)
      BY <3>1, <3>2, Lowest, Zenon
    <3>4. mine'[p] \in Slots /\ slots'[mine'[p]].pid = PidOf[p] /\ slots'[mine'[p]].st = p
      BY <3>1, <3>3, Zenon DEF SlotsOf
    <3> QED BY <1>0, <1>3, <3>1, <3>4, Zenon DEF Claims, Owns
  <2>4. CASE Exhausted(p)
    <3>1. pc'[p] = "unlock" /\ pc[p] = "reserve" /\ mine' = mine /\ SlotsOf(p, st[p]) = {}
          /\ \A i \in Slots : slots[i].pid # Free
      BY <1>0, <2>4, Functions, Zenon DEF Exhausted, locals
    <3>2. mine[p] = NoSlot /\ ~Entitled(p)
      BY <1>0, <3>1, Crowded, Zenon DEF Local
    <3> QED BY <1>0, <1>00, <1>3, <3>1, <3>2, Zenon DEF Claims
  <2>5. CASE Publish(p)
    <3>1. pc'[p] = "unlock" /\ pc[p] = "publish" /\ mine' = mine /\ st[p] = p
      BY <1>0, <2>5, Functions, Zenon DEF Publish, locals, Local, Acquiring
    <3>2. mine[p] \in Slots /\ slots'[mine[p]].pid = PidOf[p] /\ slots'[mine[p]].st = p
      BY <1>0, <2>5, <3>1, PublishEffect, Zenon DEF Claims
    <3> QED BY <1>0, <1>3, <3>1, <3>2, Zenon DEF Claims, Owns
  <2>6. CASE Unlock(p)
    <3>1. slots' = slots /\ mine' = mine /\ pc[p] = "unlock"
      BY <2>6, Zenon DEF Unlock, locals
    <3>2. (pc'[p] \in {"syscall", "lost"} /\ mine[p] = NoSlot) \/ (pc'[p] = "swap" /\ mine[p] # NoSlot)
      BY <1>0, <2>6, Functions, Zenon DEF Unlock, AfterCas
    <3>3. \/ mine[p] \in Slots /\ Owns(p, mine[p]) /\ mine[p] # NoSlot
          \/ mine[p] = NoSlot /\ ~Entitled(p)
      BY <1>0, <3>1, Numbers, Zenon DEF Claims, TypeOK
    <3> QED BY <1>0, <1>00, <1>3, <3>1, <3>2, <3>3, Zenon DEF Claims, Owns
  <2>7. CASE Swap(p) \/ ViewFdCas(p)
    <3>1. pc'[p] \in {"syscall", "gc"}
      <4>1. CASE Swap(p)
        <5>1. pc[p] = "swap" /\ mine[p] \in Slots /\ Owns(p, mine[p]) /\ p \in alive /\ p # Installer
          BY <1>0, <4>1, Zenon DEF Swap, Claims, Local, Acquiring
        <5>2. slots[mine[p]].fd = tgt[p]
          BY <1>0, <5>1, Parts, ViewIs, ZenonT(60) DEF ViewAt, Acquiring
        <5> QED BY <1>0, <4>1, <5>2, Functions, Zenon DEF Swap, AfterCas
      <4>2. CASE ViewFdCas(p)
        <5>1. pc[p] = "cas" /\ p \in alive /\ Starttime(p) = p
          BY <1>0, <4>2, Parts, OwnStarttime, Zenon DEF ViewFdCas, Local
        <5>2. p = Installer => base = tgt[p]
          BY <1>0, <5>1, Parts, ViewIs, Zenon DEF ViewAt
        <5> QED BY <1>0, <4>2, <5>1, <5>2, Functions, Zenon DEF ViewFdCas, AfterCas, IsInstaller
      <4> QED BY <2>7, <4>1, <4>2, Zenon
    <3> QED BY <1>3, <3>1, Zenon DEF Claims
  <2>8. CASE Load(p) \/ DupFd(p) \/ Lost(p) \/ Syscall(p) \/ GcFree(p) \/ GcDone(p) \/ Acquire(p) \/ Exit(p)
             \/ (\E f \in Fds : Close(p, f))
    <3>1. pc'[p] \in {"dup", "syscall", "cas", "idle", "gc", "lock", "reserve", "load"}
      BY <1>0, <2>8, Functions, Zenon DEF Load, DupFd, Lost, Syscall, GcFree, GcDone, Acquire, Exit, Close
    <3> QED BY <1>3, <3>1, Zenon DEF Claims
  <2>9. CASE Spawn(p) \/ Reap(p) \/ Open(p)
    <3>1. pc' = pc /\ pc[p] = "idle"
      BY <1>0, <2>9, Zenon DEF Spawn, Reap, Open, Local, TypeOK
    <3> QED BY <1>3, <3>1, Zenon DEF Claims
  <2> QED BY <2>1, <2>2, <2>3, <2>4, <2>5, <2>6, <2>7, <2>8, <2>9, Zenon DEF Act, Step
<1> QED BY <1>2, <1>3, Zenon

-----------------------------------------------------------------------------
\* Where the copies are.

\* The view is an fd number or the mark of a lost one.
LEMMA ViewTyped ==
  ASSUME TypeOK, NEW q \in Procs
  PROVE  View(q) \in Fds \cup {Dead}
<1>1. CASE IsInstaller(q, q) \/ SlotsOf(q, q) = {}
  BY <1>1, Zenon DEF View, ViewFd, TypeOK
<1>2. CASE ~(IsInstaller(q, q) \/ SlotsOf(q, q) = {})
  <2>1. SlotsOf(q, q) \subseteq Nat /\ SlotsOf(q, q) \subseteq Slots
    BY Zenon DEF SlotsOf, TypeOK
  <2>2. Min(SlotsOf(q, q)) \in Slots
    BY <1>2, <2>1, Lowest, Zenon
  <2>3. slots[Min(SlotsOf(q, q))].fd \in Fds \cup {Dead}
    BY <2>2, Fields, Zenon
  <2> QED BY <1>2, <2>3, Zenon DEF View, ViewFd
<1> QED BY <1>1, <1>2, Zenon

\* A process that the step does not touch keeps its copies and its view.
LEMMA ViewFrame ==
  ASSUME NEW q, ViewAt(q), Entitled(q)' => Entitled(q), View(q)' = View(q),
         pc'[q] = pc[q], tgt'[q] = tgt[q], new'[q] = new[q], table'[q] = table[q]
  PROVE  ViewAt(q)'
  BY Zenon DEF ViewAt

\* The base changes in a step of the installer only, when it has no children.
LEMMA BaseKept ==
  ASSUME IInv, NEW p \in Procs, Act(p), NEW q \in alive, q # p
  PROVE  base' = base
<1>0. TypeOK /\ CacheOk /\ Static /\ q \in Procs
  BY Parts, Zenon DEF TypeOK
<1>1. base' = base \/ (ViewFdCas(p) /\ IsInstaller(p, Starttime(p)))
  BY Zenon DEF Act, Step, Load, DupFd, ViewFdCas, GcRead, GcFree, GcDone, Acquire, Find, Reserve,
     Exhausted, Publish, Unlock, Swap, Lost, Syscall, Spawn, Exit, Reap, Open, Close, shared
<1>2. ASSUME ViewFdCas(p), IsInstaller(p, Starttime(p)) PROVE FALSE
  <2>1. p = Installer /\ pc[p] = "cas"
    BY <1>0, <1>2, OwnStarttime, Zenon DEF IsInstaller, ViewFdCas
  <2>2. q \in Children
    BY <2>1, Zenon DEF Children
  <2> QED BY <1>0, <2>1, <2>2, Zenon DEF Static
<1> QED BY <1>1, <1>2, Zenon

\* Every step keeps the copies where the invariant has them.
LEMMA ViewStep ==
  ASSUME IInv, OwnPids, NEW p \in Procs, Act(p), NEW q \in alive'
  PROVE  ViewAt(q)'
<1>0. TypeOK /\ TypeOK' /\ CacheOk /\ Unique /\ Others(p) /\ Slots' = Slots /\ Local(p) /\ Claims(p)
  BY Parts, OtherProcs, SlotsWritten, TypeStep, Zenon
<1>01. q \in Procs /\ (Entitled(q)' => Entitled(q)) /\ Starttime(p) = p
  BY <1>0, OwnStarttime, EntitledBack, Zenon DEF TypeOK
<1>1. CASE q # p
  <2>1. q \in alive /\ ~(q = p /\ Publish(p)) /\ ~(q = p /\ Swap(p))
    BY <1>0, <1>1, Lives, Zenon
  <2>2. base' = base
    BY <1>1, <2>1, BaseKept, Zenon
  <2>3. View(q)' = View(q) /\ ViewAt(q)
    BY <1>01, <2>1, <2>2, ViewKept, Parts, Zenon
  <2>4. pc'[q] = pc[q] /\ tgt'[q] = tgt[q] /\ new'[q] = new[q] /\ table'[q] = table[q]
    BY <1>0, <1>01, <1>1, Zenon DEF Others
  <2> QED BY <1>01, <2>3, <2>4, ViewFrame, Zenon
<1>2. CASE q = p /\ ~Spawn(p)
  <2>0. p \in alive /\ ViewAt(p) /\ (Entitled(p)' => Entitled(p))
    <3>1. p \in alive
      BY <1>0, <1>2, Lives, Zenon
    <3> QED BY <1>01, <1>2, <3>1, Parts, Zenon
  <2>1. base' = base /\ ~Publish(p) /\ ~Swap(p) => View(p)' = View(p)
    BY <2>0, ViewKept, Zenon
  <2>2. tgt[p] \in Fds \cup {Dead} /\ new[p] \in Fds \cup {Dead} /\ (pc[p] # "idle" => tgt[p] \in Fds)
        /\ Dead \notin Fds
    BY <1>0, Numbers, Zenon DEF TypeOK
  <2>3. CASE Load(p)
    <3>1. /\ View(p)' = View(p) /\ tgt' = tgt /\ table' = table /\ pc[p] = "load"
          /\ pc'[p] = IF View(p) = tgt[p] THEN "dup" ELSE "syscall"
      BY <1>0, <1>01, <2>1, <2>3, Functions, Zenon DEF Load, Publish, Swap, locals, View
    <3> QED BY <1>2, <2>0, <3>1, Zenon DEF ViewAt, Acquiring
  <2>4. CASE DupFd(p)
    <3>1. View(p)' = View(p) /\ tgt' = tgt /\ pc[p] = "dup" /\ pc'[p] = "cas"
      BY <1>0, <2>1, <2>4, Functions, Zenon DEF DupFd, Publish, Swap, shared
    <3>2. \/ new'[p] = Dead /\ table' = table
          \/ /\ new'[p] \in Fds /\ table[p][new'[p]] = "none" /\ table[p][tgt[p]] # "none"
             /\ table'[p] = [table[p] EXCEPT ![new'[p]] = table[p][tgt[p]]]
      <4> DEFINE m == Min(FreeFds(p))
      <4>1. CASE table[p][tgt[p]] # "none" /\ FreeFds(p) # {}
        <5>1. m \in Fds /\ table[p][m] = "none"
          BY <1>0, <4>1, LowestFree, Zenon DEF FreeFds
        <5>2. new'[p] = m
          BY <1>0, <2>4, <4>1, Functions, Zenon DEF DupFd
        <5>3. table'[p] = [table[p] EXCEPT ![m] = table[p][tgt[p]]]
          BY <1>0, <2>4, <4>1, Functions, Zenon DEF DupFd
        <5> QED BY <4>1, <5>1, <5>2, <5>3, Zenon
      <4>2. CASE ~(table[p][tgt[p]] # "none" /\ FreeFds(p) # {})
        BY <1>0, <2>4, <4>2, Functions, Zenon DEF DupFd
      <4> QED BY <4>1, <4>2, Zenon
    <3>3. View(p) = tgt[p] /\ (\A f \in Fds : table[p][f] = "wrap" => f = tgt[p])
          /\ (Entitled(p) => table[p][tgt[p]] = "wrap")
      BY <2>0, <2>2, <3>1, Zenon DEF ViewAt
    <3>4. /\ \A f \in Fds : table'[p][f] = "wrap" => f \in {tgt[p], new'[p]}
          /\ Entitled(p) => table'[p][tgt[p]] = "wrap"
          /\ new'[p] # Dead => new'[p] # tgt[p] /\ table'[p][new'[p]] = table'[p][tgt[p]]
      <4>1. table[p] \in [Fds -> Kinds] /\ tgt[p] \in Fds
        BY <1>0, <2>2, <3>1, Zenon DEF TypeOK
      <4>2. CASE new'[p] = Dead /\ table' = table
        BY <3>3, <4>2, Zenon
      <4>3. CASE /\ new'[p] \in Fds /\ table[p][new'[p]] = "none" /\ table[p][tgt[p]] # "none"
                 /\ table'[p] = [table[p] EXCEPT ![new'[p]] = table[p][tgt[p]]]
        <5>1. new'[p] # tgt[p]
          BY <4>3, Zenon
        <5>2. table'[p][new'[p]] = table[p][tgt[p]] /\ \A f \in Fds \ {new'[p]} : table'[p][f] = table[p][f]
          BY <4>1, <4>3, Zenon
        <5> QED BY <3>3, <4>1, <5>1, <5>2, Zenon
      <4> QED BY <3>2, <4>2, <4>3, Zenon
    <3> QED BY <1>2, <2>0, <3>1, <3>3, <3>4, Zenon DEF ViewAt, Acquiring
  <2>5. CASE ViewFdCas(p)
    <3>1. pc[p] = "cas" /\ tgt' = tgt /\ new' = new /\ table' = table /\ View(p) = tgt[p]
      BY <2>0, <2>5, Zenon DEF ViewFdCas, ViewAt
    <3>2. CASE p = Installer
      <4>1. base = tgt[p] /\ View(p)' = base'
        BY <1>0, <3>1, <3>2, ViewIs, Zenon DEF View, ViewFd, IsInstaller
      <4>2. base' = new[p] /\ pc'[p] = "syscall"
        BY <1>0, <1>01, <2>5, <3>2, <4>1, Functions, Zenon DEF ViewFdCas, IsInstaller, AfterCas
      <4> QED BY <1>2, <2>0, <2>2, <3>1, <4>1, <4>2, Zenon DEF ViewAt, Acquiring
    <3>3. CASE p # Installer
      <4>1. base' = base /\ pc'[p] = "gc"
        BY <1>0, <1>01, <2>5, <3>3, Functions, Zenon DEF ViewFdCas, IsInstaller
      <4>2. View(p)' = View(p)
        BY <2>1, <3>1, <4>1, Zenon DEF Publish, Swap
      <4> QED BY <1>2, <2>0, <3>1, <4>1, <4>2, Zenon DEF ViewAt, Acquiring
    <3> QED BY <3>2, <3>3, Zenon
  <2>6. CASE GcRead(p) \/ GcFree(p) \/ GcDone(p) \/ Acquire(p)
    <3>1. /\ View(p)' = View(p) /\ tgt' = tgt /\ new' = new /\ table' = table
          /\ pc[p] \in {"gc", "gcfree", "lock"}
      BY <2>1, <2>6, Zenon DEF GcRead, GcFree, GcDone, Acquire, Publish, Swap, shared, locals
    <3>2. pc'[p] \in {"gc", "gcfree", "lock", "reserve"}
      BY <1>0, <2>6, Functions, Zenon DEF GcRead, GcFree, GcDone, Acquire
    <3> QED BY <1>2, <2>0, <3>1, <3>2, Zenon DEF ViewAt, Acquiring
  <2>7. CASE Find(p) \/ Reserve(p) \/ Exhausted(p)
    <3>1. /\ View(p)' = View(p) /\ tgt' = tgt /\ new' = new /\ table' = table
          /\ pc[p] = "reserve" /\ pc'[p] \in {"unlock", "publish"}
      BY <1>0, <2>1, <2>7, Functions, Zenon DEF Find, Reserve, Exhausted, Publish, Swap, shared, locals
    <3> QED BY <1>2, <2>0, <3>1, Zenon DEF ViewAt, Acquiring
  <2>8. CASE Publish(p)
    <3>1. /\ tgt' = tgt /\ new' = new /\ table' = table /\ pc[p] = "publish" /\ pc'[p] = "unlock"
          /\ mine[p] \in Slots /\ p # Installer /\ st[p] = p
      BY <1>0, <2>8, Functions, Zenon DEF Publish, locals, Claims, Local, Acquiring
    <3>2. slots'[mine[p]].pid = PidOf[p] /\ slots'[mine[p]].st = p /\ slots'[mine[p]].fd = tgt[p]
      BY <1>0, <2>8, <3>1, PublishEffect, Zenon
    <3>3. View(p)' = tgt[p]
      <4>1. SlotsOf(p, p)' = {mine[p]}
        <5>1. \A i \in Slots \ {mine[p]} : ~(slots'[i].pid = PidOf[p] /\ slots'[i].st = p)
          <6>1. \A i \in Slots \ {mine[p]} : slots'[i] = slots[i]
            BY <1>0, <2>8, PublishEffect, Zenon
          <6>2. SlotsOf(p, p) = {}
            BY <3>1, Parts, Zenon DEF Serialised
          <6> QED BY <6>1, <6>2, Zenon DEF SlotsOf
        <5> QED BY <1>0, <3>1, <3>2, <5>1, Zenon DEF SlotsOf
      <4>2. mine[p] \in Nat
        BY <1>0, <3>1, Zenon DEF TypeOK
      <4>3. Min({mine[p]}) = mine[p]
        <5>1. {mine[p]} \subseteq Nat /\ {mine[p]} # {}
          BY <4>2, Zenon
        <5>2. Min({mine[p]}) \in {mine[p]}
          BY <5>1, Lowest, Zenon
        <5> QED BY <5>2, Zenon
      <4>4. ~IsInstaller(p, p)'
        BY <3>1, Zenon DEF IsInstaller
      <4> QED BY <3>2, <4>1, <4>3, <4>4, Zenon DEF View, ViewFd
    <3> QED BY <1>2, <2>0, <3>1, <3>3, Zenon DEF ViewAt, Acquiring
  <2>9. CASE Unlock(p)
    <3>1. /\ View(p)' = View(p) /\ tgt' = tgt /\ new' = new /\ table' = table /\ pc[p] = "unlock"
      BY <2>1, <2>9, Zenon DEF Unlock, Publish, Swap, locals
    <3>2. \/ pc'[p] = "swap"
          \/ mine[p] = NoSlot /\ (pc'[p] = "lost" \/ (pc'[p] = "syscall" /\ new[p] = Dead))
      BY <1>0, <2>9, Functions, Zenon DEF Unlock, AfterCas
    <3>3. mine[p] = NoSlot => ~Entitled(p)
      BY <1>0, <3>1, Numbers, Zenon DEF Claims, TypeOK
    <3> QED BY <1>2, <2>0, <2>2, <3>1, <3>2, <3>3, Zenon DEF ViewAt, Acquiring
  <2>10. CASE Swap(p)
    <3>1. /\ tgt' = tgt /\ new' = new /\ table' = table /\ pc[p] = "swap" /\ mine[p] \in Slots
          /\ Owns(p, mine[p]) /\ p # Installer
      BY <1>0, <2>10, Zenon DEF Swap, Claims, Local, Acquiring
    <3>2. slots[mine[p]].fd = tgt[p]
      BY <1>0, <2>0, <3>1, ViewIs, Zenon DEF ViewAt, Acquiring
    <3>3. slots'[mine[p]].fd = new[p] /\ pc'[p] = "syscall"
      BY <1>0, <2>10, <3>1, <3>2, SwapEffect, Functions, ZenonT(60) DEF Swap, AfterCas
    <3>4. View(p)' = new[p]
      <4>1. SlotsOf(p, p)' = SlotsOf(p, p) /\ ~Publish(p)
        BY <2>0, <3>1, ViewKept, Zenon DEF Publish
      <4>2. mine[p] \in SlotsOf(p, p) /\ SlotsOf(p, p) \subseteq Nat
        BY <1>0, <3>1, Zenon DEF SlotsOf, Owns, TypeOK
      <4>3. Min(SlotsOf(p, p)) \in SlotsOf(p, p)
        BY <4>2, Lowest, Zenon
      <4>4. Min(SlotsOf(p, p)) = mine[p]
        BY <1>0, <3>1, <4>3, Numbers, Zenon DEF SlotsOf, Owns, Unique
      <4>5. ~IsInstaller(p, p)' /\ SlotsOf(p, p)' # {}
        BY <3>1, <4>1, <4>2, Zenon DEF IsInstaller
      <4> QED BY <3>3, <4>1, <4>4, <4>5, Zenon DEF View, ViewFd
    <3> QED BY <1>2, <2>0, <2>2, <3>1, <3>3, <3>4, Zenon DEF ViewAt, Acquiring
  <2>11. CASE Lost(p)
    <3>1. /\ View(p)' = View(p) /\ tgt' = tgt /\ pc[p] = "lost" /\ pc'[p] = "syscall"
          /\ table'[p] = [table[p] EXCEPT ![new[p]] = "none"]
      BY <1>0, <2>1, <2>11, Functions, Zenon DEF Lost, Publish, Swap, shared, locals
    <3>2. ~Entitled(p) /\ \A f \in Fds : table[p][f] = "wrap" => f \in {tgt[p], new[p]}
      BY <1>0, <2>0, <3>1, Zenon DEF ViewAt, Claims
    <3>3. \A f \in Fds : table'[p][f] = "wrap" => f = tgt[p]
      <4>1. table[p] \in [Fds -> Kinds]
        BY <1>0, Zenon DEF TypeOK
      <4> QED BY <3>1, <3>2, <4>1, Zenon
    <3> QED BY <1>2, <2>0, <3>1, <3>2, <3>3, Zenon DEF ViewAt, Acquiring
  <2>12. CASE Syscall(p)
    <3>1. /\ View(p)' = View(p) /\ pc[p] = "syscall" /\ pc'[p] = "idle"
          /\ table'[p] = [table[p] EXCEPT ![tgt[p]] = "none"]
      BY <1>0, <2>1, <2>12, Functions, Zenon DEF Syscall, Publish, Swap, shared
    <3>2. /\ \A f \in Fds \ {tgt[p]} : table'[p][f] = table[p][f]
          /\ table'[p][tgt[p]] = "none"
      <4>1. table[p] \in [Fds -> Kinds] /\ tgt[p] \in Fds
        BY <1>0, <2>2, <3>1, Zenon DEF TypeOK
      <4> QED BY <3>1, <4>1, Zenon
    <3>3. View(p) \in Fds \cup {Dead}
      BY <1>0, ViewTyped, Zenon
    <3> QED BY <1>2, <2>0, <3>1, <3>2, <3>3, ZenonT(60) DEF ViewAt, Acquiring
  <2>13. CASE Open(p)
    <3>1. /\ View(p)' = View(p) /\ pc[p] = "idle" /\ pc'[p] = "idle" /\ FreeFds(p) # {}
          /\ table'[p] = [table[p] EXCEPT ![Min(FreeFds(p))] = "app"]
      BY <1>0, <2>1, <2>13, Functions, Zenon DEF Open, Publish, Swap, shared
    <3>2. /\ \A f \in Fds : table'[p][f] = "wrap" <=> table[p][f] = "wrap"
      <4>1. table[p] \in [Fds -> Kinds] /\ Min(FreeFds(p)) \in Fds /\ table[p][Min(FreeFds(p))] = "none"
        BY <1>0, <3>1, LowestFree, Zenon DEF TypeOK
      <4> QED BY <3>1, <4>1, Zenon
    <3>3. View(p) \in Fds \cup {Dead}
      BY <1>0, ViewTyped, Zenon
    <3> QED BY <1>2, <2>0, <3>1, <3>2, <3>3, Zenon DEF ViewAt, Acquiring
  <2>14. CASE \E f \in Fds : Close(p, f)
    <3>1. View(p)' = View(p) /\ pc[p] = "idle" /\ pc'[p] = "load" /\ table' = table
      BY <1>0, <2>1, <2>14, Functions, Zenon DEF Close, Publish, Swap, shared
    <3> QED BY <1>2, <2>0, <3>1, Zenon DEF ViewAt, Acquiring
  <2>15. ~Exit(p) /\ ~Reap(p)
    BY <1>2, <2>0, Zenon DEF Exit, Reap
  <2> QED BY <1>2, <2>3, <2>4, <2>5, <2>6, <2>7, <2>8, <2>9, <2>10, <2>11, <2>12, <2>13, <2>14, <2>15,
             Zenon DEF Act, Step
<1>3. CASE q = p /\ Spawn(p)
  <2>1. /\ p \notin born /\ p \notin alive /\ p # Installer /\ pc' = pc /\ pc[p] = "idle" /\ pc[Installer] = "idle"
        /\ table'[p] = table[Installer] /\ slots' = slots /\ base' = base /\ Installer \in alive
        /\ Installer \in Procs
    BY <1>0, <1>3, Functions, Zenon DEF Spawn, Local, TypeOK, shared
  <2>2. View(p)' = base
    <3>1. SlotsOf(p, p) = {}
      <4>1. Ids /\ PidOf[p] \notin {Free, Reserved}
        BY Parts, Numbers, Zenon
      <4>2. \A i \in Slots : slots[i].pid = PidOf[p] => slots[i].st # p
        BY <2>1, <4>1, Zenon DEF Ids
      <4> QED BY <4>2, Zenon DEF SlotsOf
    <3>2. SlotsOf(p, p)' = {}
      BY <1>0, <2>1, <3>1, Zenon DEF SlotsOf
    <3> QED BY <2>1, <3>2, Zenon DEF View, ViewFd
  <2>3. View(Installer) = base /\ ViewAt(Installer) /\ Entitled(Installer)
    BY <1>0, <2>1, ViewIs, Parts, Zenon DEF Entitled
  <2> QED BY <1>3, <2>1, <2>2, <2>3, Zenon DEF ViewAt, Acquiring
<1> QED BY <1>1, <1>2, <1>3, Zenon

-----------------------------------------------------------------------------
\* The cohorts.

\* A process that has looked at the slot of one that is gone had looked at it
\* before the step: the sweep frees such a slot when it comes to it.
LEMMA CoversBack ==
  ASSUME IInv, OwnPids, NEW p \in Procs, Act(p), ~Spawn(p), NEW x \in Procs, NEW y \in Procs \ known,
         NEW i \in Slots, Owns(y, i), Owns(y, i)', Covers(x, i)'
  PROVE  Covers(x, i)
<1>0. TypeOK /\ Static /\ Local(p) /\ Claims(p) /\ Others(p) /\ Slots' = Slots
  BY Parts, OtherProcs, SlotsWritten, Zenon
<1>1. slots[i].pid = PidOf[y] /\ slots[i].st = y /\ slots'[i].pid = PidOf[y] /\ PidOf[y] \notin {Free, Reserved}
  BY Numbers, Zenon DEF Owns
<1>2. CASE SlotsOf(x, x)' # {}
  <2>1. PICK j \in Slots : Owns(x, j)'
    BY <1>0, <1>2, Zenon DEF SlotsOf, Owns
  <2>2. CASE Owns(x, j)
    BY <2>2, Zenon DEF Covers, SlotsOf, Owns
  <2>3. CASE ~Owns(x, j)
    <3>1. x = p /\ Publish(p)
      BY <2>1, <2>3, OwnMoves, Zenon
    <3> QED BY <3>1, Zenon DEF Publish, Covers
  <2> QED BY <2>2, <2>3, Zenon
<1>3. CASE SlotsOf(x, x)' = {} /\ x # p
  <2>1. pc'[x] = pc[x] /\ idx'[x] = idx[x] /\ seen'[x] = seen[x]
    BY <1>0, <1>3, Zenon DEF Others
  <2> QED BY <1>1, <1>3, <2>1, Zenon DEF Covers
<1>4. CASE SlotsOf(x, x)' = {} /\ x = p
  <2>0. \/ pc'[p] \in {"lock", "reserve", "publish"}
        \/ pc'[p] \in {"gc", "gcfree"} /\ i < idx'[p]
        \/ pc'[p] = "gcfree" /\ i = idx'[p] /\ PidOf[y] # seen'[p]
    BY <1>1, <1>4, Zenon DEF Covers
  <2>1. idx[p] \in Nat \ {0} /\ i \in Nat \ {0}
    BY <1>0, Zenon DEF TypeOK
  <2>2. CASE GcRead(p)
    <3>1. pc[p] = "gc" /\ idx[p] \in Slots /\ p \in alive
      BY <1>0, <2>2, Zenon DEF GcRead, Local
    <3>2. CASE i = idx[p]
      <4>1. Stale(p, slots[i].pid, slots[i].st)
        BY <1>1, <3>1, Verdict, Zenon
      <4>2. idx'[p] = i /\ pc'[p] = "gcfree" /\ seen'[p] = PidOf[y]
        BY <1>0, <1>1, <2>2, <3>2, <4>1, Functions, Zenon DEF GcRead
      <4>3. ~(i < i)
        BY <2>1, SMTT(30)
      <4> QED BY <2>0, <4>2, <4>3, Zenon
    <3>3. CASE i # idx[p]
      <4>1. pc'[p] \in {"gc", "gcfree"} /\ (idx'[p] = idx[p] \/ idx'[p] = idx[p] + 1)
        BY <1>0, <2>2, <3>1, Functions, Zenon DEF GcRead
      <4>2. i < idx'[p]
        <5>1. pc'[p] = "gcfree" => idx'[p] = idx[p]
          <6>1. idx[p] # idx[p] + 1
            BY <2>1, SMTT(30)
          <6> QED BY <1>0, <2>2, <3>1, Functions, Zenon DEF GcRead
        <5>2. pc'[p] \notin {"lock", "reserve", "publish"}
          BY <4>1, Zenon
        <5>3. pc'[p] = "gcfree" => i # idx'[p]
          BY <3>3, <5>1, Zenon
        <5> QED BY <2>0, <5>2, <5>3, Zenon
      <4>3. i < idx[p]
        BY <2>1, <3>3, <4>1, <4>2, SMTT(30)
      <4> QED BY <1>4, <3>1, <4>3, Zenon DEF Covers
    <3> QED BY <3>2, <3>3, Zenon
  <2>3. CASE GcFree(p)
    <3>1. pc[p] = "gcfree" /\ pc'[p] = "gc" /\ idx'[p] = idx[p] + 1
      BY <1>0, <2>3, Functions, Zenon DEF GcFree
    <3>2. i < idx[p] \/ i = idx[p]
      BY <2>0, <2>1, <3>1, SMTT(30)
    <3>3. i = idx[p] => slots[i].pid # seen[p]
      BY <1>0, <1>1, <2>3, FreeEffect, Zenon
    <3> QED BY <1>4, <3>1, <3>2, <3>3, Zenon DEF Covers
  <2>4. CASE GcDone(p)
    <3>1. pc[p] = "gc" /\ idx[p] \notin Slots
      BY <2>4, Zenon DEF GcDone
    <3>2. ~(idx[p] <= i)
      BY <1>0, <2>1, <3>1, Zenon DEF Static
    <3>3. i < idx[p]
      BY <2>1, <3>2, SMTT(30)
    <3> QED BY <1>4, <3>1, <3>3, Zenon DEF Covers
  <2>5. CASE Acquire(p) \/ Reserve(p)
    BY <1>4, <2>5, Zenon DEF Acquire, Reserve, Covers
  <2>6. CASE ViewFdCas(p)
    <3>1. pc[p] = "cas" /\ idx' = idx /\ pc'[p] \in {"syscall", "lost", "gc"}
      BY <1>0, <2>6, Functions, Zenon DEF ViewFdCas, AfterCas
    <3>2. idx[p] = 1
      BY <1>0, <3>1, Zenon DEF Local
    <3>3. ~(i < 1)
      BY <2>1, SMTT(30)
    <3> QED BY <2>0, <3>1, <3>2, <3>3, Zenon
  <2>7. CASE Load(p) \/ DupFd(p) \/ Lost(p) \/ Syscall(p) \/ Find(p) \/ Exhausted(p) \/ Publish(p) \/ Unlock(p)
             \/ Swap(p)
    <3>1. pc'[p] \in {"dup", "syscall", "cas", "idle", "unlock", "swap", "lost"}
      BY <1>0, <2>7, Functions, Zenon DEF Load, DupFd, Lost, Syscall, Find, Exhausted, Publish, Unlock, Swap, AfterCas
    <3> QED BY <2>0, <3>1, Zenon
  <2>8. CASE Exit(p) \/ Reap(p) \/ Open(p) \/ (\E f \in Fds : Close(p, f))
    <3>1. pc'[p] \in {"idle", "load"}
      BY <1>0, <2>8, Functions, Zenon DEF Exit, Reap, Open, Close, Local
    <3> QED BY <2>0, <3>1, Zenon
  <2> QED BY <2>2, <2>3, <2>4, <2>5, <2>6, <2>7, <2>8, Zenon DEF Act, Step
<1> QED BY <1>2, <1>3, <1>4, Zenon

\* No more children than the history has were ever there together: the step makes
\* no cohort that was not one, except by adding a child to those /proc shows.
LEMMA CohortStep ==
  ASSUME IInv, OwnPids, NEW p \in Procs, Act(p)
  PROVE  CohortBound'
<1>0. TypeOK /\ Unique /\ Ids /\ Local(p) /\ CohortBound /\ Slots' = Slots /\ known \subseteq Procs /\ alive \subseteq known
  BY Parts, SlotsWritten, Zenon DEF TypeOK
<1> SUFFICES ASSUME NEW S \in SUBSET (Procs \ {Installer}), Cohort(S)'
             PROVE  Cardinality(S) <= most'
  BY Zenon DEF CohortBound
<1>1. /\ \A x \in S : x \in known' \/ SlotsOf(x, x)' # {}
      /\ \A y \in S \ known' : \A i \in SlotsOf(y, y)' : \A x \in S : Covers(x, i)'
  BY Zenon DEF Cohort
<1>2. CASE ~Spawn(p)
  <2>1. known' \subseteq known /\ most' = most
    BY <1>0, <1>2, Shown, Zenon
  <2>2. ASSUME NEW x \in S PROVE x \in known \/ SlotsOf(x, x) # {}
    <3>1. CASE x \in known'
      BY <2>1, <3>1, Zenon
    <3>2. CASE SlotsOf(x, x)' # {}
      <4>1. PICK j \in Slots : Owns(x, j)'
        BY <1>0, <3>2, Zenon DEF SlotsOf, Owns
      <4>2. CASE Owns(x, j)
        BY <4>2, Zenon DEF SlotsOf, Owns
      <4>3. CASE ~Owns(x, j)
        <5>1. x = p /\ Publish(p)
          BY <4>1, <4>3, OwnMoves, Zenon
        <5> QED BY <1>0, <5>1, Zenon DEF Publish, Local
      <4> QED BY <4>2, <4>3, Zenon
    <3> QED BY <1>1, <3>1, <3>2, Zenon
  <2>3. ASSUME NEW y \in S \ known, NEW i \in SlotsOf(y, y), NEW x \in S PROVE Covers(x, i)
    <3>1. y \in Procs \ known /\ x \in Procs /\ i \in Slots /\ Owns(y, i) /\ y \notin known' /\ y \notin alive
      BY <1>0, <2>1, <2>3, Zenon DEF SlotsOf, Owns
    <3>2. PICK j \in Slots : Owns(y, j)'
      BY <1>0, <1>1, <3>1, ZenonT(60) DEF SlotsOf, Owns
    <3>3. Owns(y, j)
      <4>1. ~(y = p /\ Publish(p))
        BY <1>0, <3>1, Zenon DEF Publish, Local
      <4> QED BY <3>1, <3>2, <4>1, OwnMoves, Zenon
    <3>4. j = i
      BY <1>0, <3>1, <3>3, Numbers, Zenon DEF Unique, Owns
    <3>5. Owns(y, i)' /\ i \in SlotsOf(y, y)'
      BY <1>0, <3>2, <3>4, Zenon DEF Owns, SlotsOf
    <3>6. Covers(x, i)'
      BY <1>1, <3>1, <3>5, Zenon
    <3> QED BY <1>2, <3>1, <3>5, <3>6, CoversBack, Zenon
  <2>4. Cohort(S)
    BY <2>2, <2>3, Zenon DEF Cohort
  <2> QED BY <1>0, <2>1, <2>4, Zenon DEF CohortBound
<1>3. CASE Spawn(p)
  <2>1. /\ p \notin born /\ slots' = slots /\ pc' = pc /\ idx' = idx /\ seen' = seen
        /\ known' = known \cup {p} /\ pc[p] = "idle"
    BY <1>0, <1>3, Zenon DEF Spawn, shared, locals, TypeOK, Local
  <2>2. \A z : SlotsOf(z, z)' = SlotsOf(z, z)
    BY <1>0, <2>1, Zenon DEF SlotsOf
  <2>3. \A z, i : Covers(z, i)' => Covers(z, i)
    BY <2>1, <2>2, Zenon DEF Covers
  <2>4. most \in Nat /\ most' \in Nat /\ most <= most' /\ IsFiniteSet(known' \ {Installer})
        /\ Cardinality(known' \ {Installer}) <= most'
    BY <1>0, <1>3, Grows, Zenon DEF TypeOK
  <2>5. CASE p \notin S
    <3>1. Cohort(S)
      BY <1>1, <2>1, <2>2, <2>3, <2>5, Zenon DEF Cohort
    <3>2. Cardinality(S) <= most
      BY <1>0, <3>1, Zenon DEF CohortBound
    <3>3. Cardinality(S) \in Nat
      BY ProcsAssumption, FS_Subset, FS_CardinalityType, Zenon
    <3> QED BY <2>4, <3>2, <3>3, SMTT(30)
  <2>6. CASE p \in S
    <3>1. \A i : ~Covers(p, i)
      <4>1. SlotsOf(p, p) = {}
        <5>1. PidOf[p] \notin {Free, Reserved}
          BY Numbers, Zenon
        <5>2. \A i \in Slots : slots[i].pid = PidOf[p] => slots[i].st # p
          BY <1>0, <2>1, <5>1, Zenon DEF Ids
        <5> QED BY <5>2, Zenon DEF SlotsOf
      <4> QED BY <2>1, <4>1, Zenon DEF Covers
    <3>2. S \subseteq known'
      BY <1>1, <2>3, <2>6, <3>1, Zenon
    <3>3. S \in SUBSET (known' \ {Installer})
      BY <3>2, Zenon
    <3>4. /\ Cardinality(S) <= Cardinality(known' \ {Installer}) /\ Cardinality(S) \in Nat
          /\ Cardinality(known' \ {Installer}) \in Nat
      BY <2>4, <3>3, FS_Subset, FS_CardinalityType, Zenon
    <3> QED BY <2>4, <3>4, SMTT(30)
  <2> QED BY <2>5, <2>6, Zenon
<1> QED BY <1>2, <1>3, Zenon

-----------------------------------------------------------------------------

\* The invariant holds at the start.
LEMMA InitIInv ==
  ASSUME Init
  PROVE  IInv
<1>0. OneSlot /\ TypeOK /\ Unique /\ Static
  <2>1. OneSlot
    BY InitOneSlot, Zenon
  <2>2. PICK n \in Capacities : slots = [i \in 1..n |-> [pid |-> Free, st |-> None, fd |-> Dead]]
    BY Zenon DEF Init
  <2>3. n \in Nat /\ Slots = 1..n
    BY <2>2, BoundAssumption, Zenon DEF Slots
  <2>4. \A i \in 1..n : \A k \in Nat \ {0} : k <= i => k \in 1..n
    BY <2>3, SMTT(30)
  <2>5. lock \in born \cup {None} /\ (Children # {} => pc[Installer] = "idle")
    BY ProcsAssumption, Zenon DEF Init, Children
  <2> QED BY <2>1, <2>3, <2>4, <2>5, Zenon DEF Static, OneSlot
<1>1. /\ \A i \in Slots : slots[i].pid = Free
      /\ \A z \in Procs : SlotsOf(z, z) = {}
  BY InitSlots, Numbers, Zenon DEF SlotsOf
<1>2. CacheOk
  <2>1. cache.pid = 0
    BY Zenon DEF Init
  <2>2. \A q \in Procs : PidOf[q] # 0
    BY Numbers, Zenon
  <2> QED BY <2>1, <2>2, Zenon DEF CacheOk
<1>3. Ids
  BY <1>1, Numbers, Zenon DEF Ids
<1>4. CohortBound
  <2> SUFFICES ASSUME NEW S \in SUBSET (Procs \ {Installer}), Cohort(S)
               PROVE  Cardinality(S) <= most
    BY Zenon DEF CohortBound
  <2>1. S = {}
    BY <1>1, Zenon DEF Cohort, Init
  <2>2. Cardinality(S) = 0 /\ most = 0
    BY <2>1, FS_EmptySet, Zenon DEF Init
  <2> QED BY <2>2, SMTT(30)
<1>5. \A p \in Procs : Local(p) /\ Claims(p)
  BY Zenon DEF Init, Local, Claims, Acquiring
<1>6. ViewAt(Installer)
  <2>1. /\ View(Installer) = Min(Fds) /\ Min(Fds) \in Fds
    <3>1. Fds \subseteq Nat /\ Fds # {}
      BY FdsAssumption, Zenon
    <3> QED BY <1>0, <3>1, Lowest, ViewIs, ProcsAssumption, Zenon DEF Init
  <2>2. pc[Installer] = "idle" /\ table[Installer] = [f \in Fds |-> IF f = Min(Fds) THEN "wrap" ELSE "none"]
    BY ProcsAssumption, Zenon DEF Init
  <2>3. \A f \in Fds : table[Installer][f] = "wrap" <=> f = Min(Fds)
    BY <2>2, Zenon
  <2> QED BY <2>1, <2>2, <2>3, Zenon DEF ViewAt, Acquiring
<1>7. \A p \in alive : ViewAt(p)
  BY <1>6, Zenon DEF Init
<1> QED BY <1>0, <1>2, <1>3, <1>4, <1>5, <1>7, Zenon DEF IInv

\* Every step keeps the invariant.
LEMMA StepIInv ==
  ASSUME IInv, OwnPids, ~InstallerRuns, NEW p \in Procs, Act(p)
  PROVE  IInv'
<1>1. OneSlot'
  BY SerialStep, Zenon DEF IInv
<1>2. CacheOk' /\ Static' /\ Ids' /\ CohortBound'
  BY CacheStep, StaticStep, IdsStep, CohortStep, Zenon
<1>3. \A q \in Procs : Local(q)' /\ Claims(q)'
  BY LocalStep, ClaimsStep, Zenon
<1>4. \A q \in alive' : ViewAt(q)'
  BY ViewStep, Zenon
<1> QED BY <1>1, <1>2, <1>3, <1>4, Zenon DEF IInv

\* Stuttering keeps it too.
LEMMA StutterIInv ==
  ASSUME IInv, UNCHANGED vars
  PROVE  IInv'
<1>0. UNCHANGED <<base, slots, lock, cache, alive, known, born, most, table, pc, tgt, new, st, idx, mine, seen>>
  BY Zenon DEF vars, shared, procs, locals
<1>1. OneSlot'
  BY SerialStutter, Zenon DEF IInv
<1>2. Slots' = Slots /\ \A z, s : SlotsOf(z, s)' = SlotsOf(z, s)
  BY <1>0, Zenon DEF Slots, SlotsOf
<1>3. CacheOk' /\ Static' /\ Ids'
  BY <1>0, <1>2, Zenon DEF IInv, CacheOk, Static, Ids, Children
<1>4. CohortBound'
  <2>1. \A x, i : Covers(x, i)' <=> Covers(x, i)
    BY <1>0, <1>2, Zenon DEF Covers
  <2>2. \A S : Cohort(S)' => Cohort(S)
    BY <1>0, <1>2, <2>1, Zenon DEF Cohort
  <2> QED BY <1>0, <2>2, Zenon DEF IInv, CohortBound
<1>5. \A q : (Entitled(q)' <=> Entitled(q)) /\ View(q)' = View(q) /\ \A i : Owns(q, i)' <=> Owns(q, i)
  BY <1>0, <1>2, Zenon DEF Entitled, View, ViewFd, IsInstaller, Owns
<1>6. \A q \in Procs : Local(q)' /\ Claims(q)'
  <2> SUFFICES ASSUME NEW q \in Procs PROVE Local(q)' /\ Claims(q)'
    BY Zenon
  <2>1. Local(q) /\ Claims(q)
    BY Zenon DEF IInv
  <2>2. Local(q)'
    BY <1>0, <2>1, Zenon DEF Local
  <2>3. Claims(q)'
    BY <1>0, <1>2, <1>5, <2>1, Zenon DEF Claims
  <2> QED BY <2>2, <2>3, Zenon
<1>7. \A q \in alive' : ViewAt(q)'
  <2> SUFFICES ASSUME NEW q \in alive' PROVE ViewAt(q)'
    BY Zenon
  <2>1. ViewAt(q) /\ (Entitled(q)' <=> Entitled(q)) /\ View(q)' = View(q)
    BY <1>0, <1>5, Zenon DEF IInv
  <2>2. tgt'[q] = tgt[q] /\ new'[q] = new[q] /\ pc'[q] = pc[q] /\ table'[q] = table[q]
    BY <1>0, Zenon
  <2> QED BY <2>1, <2>2, Zenon DEF ViewAt
<1> QED BY <1>1, <1>3, <1>4, <1>6, <1>7, Zenon DEF IInv

\* OneCopyEach, for any number of children that come and go, of slots and of
\* fds: wslcompat_view_fd_relocate leaves every process one copy of the internal
\* file, where its own view says, whatever the others close and wherever they
\* are killed; with as many slots as there were children at a time, counting
\* those that went on after an exec and those not yet waited for, whose slots
\* override_gc must keep, the sweep and the lock see to it that no child is
\* refused one.  The code relies on both hypotheses: the cache of
\* wslcompat_self_starttime_pid is keyed by the pid, and the installer changes
\* the base that children without a slot read.
THEOREM ViewsKept ==
  ASSUME OwnPids, ~InstallerRuns
  PROVE  Spec => []OneCopyEach
<1>1. Init => IInv
  BY InitIInv
<1>2. IInv /\ [Next]_vars => IInv'
  <2> SUFFICES ASSUME IInv, [Next]_vars PROVE IInv'
    OBVIOUS
  <2>1. CASE Next
    BY <2>1, StepIInv, SomeoneActs, Zenon
  <2>2. CASE UNCHANGED vars
    BY <2>2, StutterIInv, Zenon
  <2> QED BY <2>1, <2>2, Zenon
<1>3. IInv => OneCopyEach
  <2> SUFFICES ASSUME IInv, NEW p \in alive, pc[p] = "idle"
               PROVE  /\ p = Installer \/ most <= Cardinality(Slots) => ViewOk(p)
                      /\ \A f \in Fds : table[p][f] = "wrap" => ViewFd(p, Starttime(p)) = f
    BY Zenon DEF OneCopyEach
  <2>1. TypeOK /\ CacheOk /\ ViewAt(p)
    BY Zenon DEF IInv, OneSlot
  <2>2. p \in Procs
    BY <2>1, Zenon DEF TypeOK
  <2>3. Starttime(p) = p
    BY <2>1, <2>2, OwnStarttime, Zenon
  <2> QED BY <2>1, <2>3, Zenon DEF ViewAt, View, ViewOk, Entitled
<1> QED BY <1>1, <1>2, <1>3, PTL DEF Spec
=============================================================================
