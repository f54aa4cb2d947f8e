--------------------------- MODULE InternalFdInv ---------------------------
(***************************************************************************)
(* The inductive invariant of InternalFd: the slots, the fd table and what *)
(* the threads have in hand agree, and no internal file is lost track of.  *)
(* Every step of a thread keeps it so, and leaves the locals of the other  *)
(* threads alone.                                                          *)
(***************************************************************************)
EXTENDS InternalFd, TLAPS

Closing == {"scan", "dup", "reset", "cas", "undo", "syscall"}
Pcs     == Closing \cup {"idle", "load", "open", "install", "lose", "reload", "io",
                         "read", "visit", "return"}
Calls   == {"use", "close", "dup2", "baddup2", "range"}

\* Types of the slots, the fd table and the locals.
TypeOK ==
  /\ app \in Apps /\ lost \in BOOLEAN
  /\ slot \in [Slots -> Fds \cup {Uninit, Failed}]
  /\ fds \in [Fds -> Files \cup {"none"}]
  /\ pc \in [Threads -> Pcs] /\ op \in [Threads -> Calls \cup {"none"}]
  /\ name \in [Threads -> Slots \cup {Registry[1]}]
  /\ fd \in [Threads -> Fds \cup {Failed, NoFd}]
  /\ tgt \in [Threads -> Fds \cup {NoFd}] /\ dir \in [Threads -> Fds \cup {NoFd}]
  /\ idx \in [Threads -> Nat \ {0}] /\ pos \in [Threads -> Nat]
  /\ todo \in [Threads -> SUBSET Fds] /\ range \in [Threads -> SUBSET Nat]

\* Which locals a thread uses where.
ControlAt(t) ==
  /\ t \notin app.threads => pc[t] = "idle"
  /\ pc[t] \in {"load", "open", "install", "lose", "reload", "io"} =>
       name[t] \in Slots /\ op[t] = "use"
  /\ pc[t] = "io" => fd[t] \in Fds
  /\ pc[t] \in {"install", "lose"} => fd[t] # NoFd
  /\ pc[t] \in {"cas", "undo"} => fd[t] \in Fds
  /\ pc[t] \in {"dup", "reset", "cas", "undo"} => idx[t] \in DOMAIN Registry
  /\ pc[t] \notin Closing \/ pc[t] = "syscall" => idx[t] = 1
  /\ tgt[t] # NoFd <=> pc[t] \in Closing \cup {"lose"}
  /\ pc[t] = "idle" <=> op[t] = "none"
  /\ pc[t] \in Closing => op[t] \in {"close", "dup2", "baddup2", "range"}
  /\ dir[t] # NoFd <=> op[t] = "range" /\ pc[t] \in Closing \cup {"read", "visit"}
  /\ pc[t] \in {"read", "visit"} => op[t] = "range"
  /\ dir[t] # NoFd => tgt[t] # dir[t]
  /\ dir[t] = NoFd => pos[t] = 0 /\ range[t] = {} /\ todo[t] = {}
  /\ pc[t] = "read" => todo[t] = {}
  /\ op[t] = "range" => "range" \in app.calls
Control == \A t \in Threads : ControlAt(t)

\* The number of an internal fd that a thread has in hand, in no slot.
Flight(t) ==
  IF pc[t] \in {"install", "cas", "undo"} THEN fd[t]
  ELSE IF pc[t] = "lose" THEN tgt[t] ELSE NoFd

\* A slot names its own file.
SlotsOwn == \A s \in Slots : slot[s] \in Fds => fds[slot[s]] = s

\* A call has moved every slot that it passed out of the way of its target.
PassedAt(t) ==
  pc[t] \in Closing => \A i \in DOMAIN Registry :
    i < idx[t] \/ pc[t] = "syscall" \/ (pc[t] = "undo" /\ i = idx[t]) =>
      slot[Registry[i]] # tgt[t]

\* What a thread has in hand is open, is what it believes it to be, and is in no
\* slot.
HandAt(t) ==
  /\ Flight(t) \in Fds =>
       /\ fds[Flight(t)] # "none"
       /\ pc[t] \in {"install", "lose"} => fds[Flight(t)] = name[t]
       /\ \A s \in Slots : slot[s] # Flight(t)
  /\ pc[t] = "cas" /\ slot[Registry[idx[t]]] = tgt[t] => fds[fd[t]] = Registry[idx[t]]
  /\ dir[t] # NoFd => fds[dir[t]] = "dir"

\* Nobody else has it in hand.
Apart(t, u) ==
  /\ Flight(t) \in Fds => Flight(t) # dir[u] /\ (t # u => Flight(t) # Flight(u))
  /\ dir[t] # NoFd /\ t # u => dir[t] # dir[u]

Agree ==
  /\ SlotsOwn
  /\ \A t \in Threads : PassedAt(t) /\ HandAt(t)
  /\ \A t, u \in Threads : Apart(t, u)

\* A thread has the number in hand, or is about to take it over.
Leaving(t, f) == Flight(t) = f \/ (pc[t] \in Closing /\ tgt[t] = f)

\* An internal file is in its slot, or on its way there, or about to be closed.
Accounted ==
  \A f \in Fds : fds[f] \in Slots =>
    \/ slot[fds[f]] = f
    \/ \E t \in Threads : Leaving(t, f)

\* Only one thread makes calls: nothing changes under it.
Solo == \A t, u \in app.threads : t = u
Alone ==
  \A t \in Threads :
    /\ pc[t] \in {"open", "install"} => slot[name[t]] = Uninit
    /\ pc[t] \in {"cas", "dup", "reset"} => slot[Registry[idx[t]]] = tgt[t]
    /\ pc[t] # "lose"

\* What a walk has yet to close.
Remaining ==
  \A t \in Threads : op[t] = "range" =>
    \A f \in range[t] \cap Fds : fds[f] = "app" =>
      f >= pos[t] \/ f \in todo[t] \/ tgt[t] = f

IInv ==
  /\ TypeOK /\ Control
  /\ (~lost \/ Solo) => Agree
  /\ ~lost => Accounted
  /\ Solo => Alone /\ Remaining

\* The number the kernel hands out is a free one.
LowestIsFree == FreeFds # {} => Min(FreeFds) \in Fds /\ fds[Min(FreeFds)] = "none"

-----------------------------------------------------------------------------
\* A descriptor number is at least the position a directory read starts from.
LEMMA Nonnegative == \A f \in Fds : f >= 0
  BY FdsAssumption

\* The numbers that stand for no fd are no fds; the files of the slots are not
\* the application's nor a directory.
LEMMA Numbers ==
  /\ Fds \subseteq Nat /\ Uninit \notin Fds /\ Failed \notin Fds /\ NoFd \notin Fds
  /\ Uninit # Failed /\ Uninit # NoFd /\ Failed # NoFd
  /\ \A i \in DOMAIN Registry : Registry[i] \in Slots
  /\ \A s \in Slots : s \notin {"app", "dir", "none"}
<1>1. \A i \in DOMAIN Registry : Registry[i] \in {"debugfd", "mount_fd"}
  BY RegistryAssumption
<1>2. \A s \in Slots : s \in {"debugfd", "mount_fd"}
  BY <1>1 DEF Slots
<1>3. \A i \in DOMAIN Registry : Registry[i] \in Slots
  BY DEF Slots
<1>4. \A s \in Slots : s \notin {"app", "dir", "none"}
  BY <1>2
<1> QED BY <1>3, <1>4, FdsAssumption DEF Uninit, Failed, NoFd

\* A thread that takes the value v of a slot.
LEMMA TakesSlot ==
  ASSUME TypeOK, NEW t \in Threads, NEW v \in Fds \cup {Uninit, Failed}, Loaded(t, v)
  PROVE  IF v \in Fds THEN fd' = [fd EXCEPT ![t] = v] /\ pc' = [pc EXCEPT ![t] = "io"]
                      ELSE fd' = [fd EXCEPT ![t] = NoFd] /\ pc' = [pc EXCEPT ![t] = "return"]
<1>1. v < 0 <=> v \notin Fds
  BY FdsAssumption, SMTT(30) DEF Uninit, Failed
<1> QED BY <1>1, Zenon DEF Loaded, Goto

\* Where a thread goes, and the fd it takes there.
To(t, p, v) == pc' = [pc EXCEPT ![t] = p] /\ fd' = [fd EXCEPT ![t] = v]

\* What a load of a slot does.
LEMMA LoadEffect ==
  ASSUME TypeOK, Control, NEW t \in Threads, Load(t) \/ Reload(t)
  PROVE  /\ name[t] \in Slots /\ pc[t] \in {"load", "reload"} /\ pc' # pc
         /\ UNCHANGED <<app, lost, slot, fds, op, name, tgt, idx, dir, todo, pos, range>>
         /\ \/ To(t, "open", fd[t]) /\ pc[t] = "load" /\ slot[name[t]] = Uninit
            \/ To(t, "io", slot[name[t]]) /\ slot[name[t]] \in Fds
            \/ To(t, "return", NoFd)
<1>1. name[t] \in Slots /\ slot[name[t]] \in Fds \cup {Uninit, Failed} /\ fd = [fd EXCEPT ![t] = fd[t]]
  BY DEF Load, Reload, Control, ControlAt, TypeOK
<1>2. UNCHANGED <<app, lost, slot, fds, op, name, tgt, idx, dir, todo, pos, range>>
      /\ pc[t] \in {"load", "reload"}
  BY DEF Load, Reload, walk
<1>3. CASE Loaded(t, slot[name[t]])
  <2>1. \/ To(t, "io", slot[name[t]]) /\ slot[name[t]] \in Fds
        \/ To(t, "return", NoFd)
    BY <1>1, <1>3, TakesSlot DEF To
  <2> QED BY <1>1, <1>2, <2>1 DEF To, TypeOK
<1>4. CASE pc[t] = "load" /\ Goto(t, "open") /\ UNCHANGED fd /\ slot[name[t]] = Uninit
  <2>1. To(t, "open", fd[t])
    BY <1>1, <1>4, Zenon DEF Goto, To
  <2> QED BY <1>1, <1>2, <1>4, <2>1 DEF To, TypeOK
<1> QED BY <1>3, <1>4, Zenon DEF Load, Reload

\* The fd is stored, with what was in the slot gone, or it was there already.
LEMMA InstallEffect ==
  ASSUME TypeOK, Control, NEW t \in Threads, Install(t)
  PROVE  /\ name[t] \in Slots /\ fd[t] \in Fds \cup {Failed} /\ pc[t] = "install"
         /\ UNCHANGED <<app, fds, op, name, idx, dir, todo, pos, range>>
         /\ \/ /\ slot' = [slot EXCEPT ![name[t]] = fd[t]] /\ tgt' = tgt
               /\ lost' = (lost \/ slot[name[t]] \in Fds \/ Named(fd[t]))
               /\ slot[name[t]] = Uninit \/ fd[t] = Failed
               /\ \/ To(t, "io", fd[t]) /\ fd[t] \in Fds
                  \/ To(t, "reload", fd[t]) \/ To(t, "return", NoFd)
            \/ /\ slot' = slot /\ lost' = lost /\ slot[name[t]] # Uninit
               /\ \/ /\ fd[t] = Failed /\ tgt' = tgt
                     /\ (To(t, "io", slot[name[t]]) /\ slot[name[t]] \in Fds) \/ To(t, "return", NoFd)
                  \/ /\ fd[t] \in Fds /\ tgt' = [tgt EXCEPT ![t] = fd[t]]
                     /\ To(t, "lose", slot[name[t]])
<1> DEFINE won == slot[name[t]] = Uninit \/ (name[t] = "mount_fd" /\ fd[t] = Failed)
<1>1. name[t] \in Slots /\ fd[t] \in Fds \cup {Failed} /\ pc[t] = "install" /\ fd = [fd EXCEPT ![t] = fd[t]]
  BY SMTT(30) DEF Install, Control, ControlAt, TypeOK
<1>2. /\ UNCHANGED <<app, fds, op, name, idx, dir, todo, pos, range>>
      /\ slot' = IF won THEN [slot EXCEPT ![name[t]] = fd[t]] ELSE slot
      /\ lost' = (lost \/ (won /\ (slot[name[t]] >= 0 \/ Named(fd[t]))))
  BY DEF Install, walk
<1>3. slot[name[t]] >= 0 <=> slot[name[t]] \in Fds
  <2>1. slot[name[t]] \in Fds \cup {Uninit, Failed}
    BY <1>1 DEF TypeOK
  <2>2. \A v \in Fds \cup {Uninit, Failed} : v >= 0 <=> v \in Fds
    BY FdsAssumption, SMTT(30) DEF Uninit, Failed
  <2> QED BY <2>1, <2>2, Zenon
<1>4. CASE fd[t] = Failed
  <2>1. Loaded(t, slot'[name[t]]) /\ tgt' = tgt
    BY <1>4, Zenon DEF Install
  <2>2. slot'[name[t]] \in Fds \cup {Uninit, Failed} /\ (won => slot'[name[t]] = Failed)
    BY <1>1, <1>2, <1>4, Zenon DEF TypeOK
  <2>3. (To(t, "io", slot'[name[t]]) /\ slot'[name[t]] \in Fds) \/ To(t, "return", NoFd)
    BY <2>1, <2>2, TakesSlot, Zenon DEF To
  <2>4. won => To(t, "return", NoFd)
    BY <2>2, <2>3, Numbers
  <2>5. CASE won
    <3>1. slot' = [slot EXCEPT ![name[t]] = fd[t]] /\ lost' = (lost \/ slot[name[t]] \in Fds \/ Named(fd[t]))
      BY <1>2, <1>3, <2>5, Zenon
    <3> QED BY <1>1, <1>2, <1>4, <2>1, <2>4, <2>5, <3>1, Zenon
  <2>6. CASE ~won
    <3>1. slot' = slot /\ lost' = lost /\ slot[name[t]] # Uninit
      BY <1>2, <2>6 DEF TypeOK
    <3>2. (To(t, "io", slot[name[t]]) /\ slot[name[t]] \in Fds) \/ To(t, "return", NoFd)
      BY <2>3, <3>1
    <3> QED BY <1>1, <1>2, <1>4, <2>1, <3>1, <3>2, Zenon
  <2> QED BY <2>5, <2>6, Zenon
<1>5. CASE fd[t] # Failed /\ won
  <2>1. Installed(t, fd[t]) /\ tgt' = tgt
    BY <1>5 DEF Install
  <2>2. Loaded(t, fd[t]) => To(t, "io", fd[t])
    BY <1>1, <1>5, TakesSlot DEF To
  <2>3. To(t, "io", fd[t]) \/ To(t, "reload", fd[t])
    BY <1>1, <2>1, <2>2 DEF Installed, Goto, To
  <2>4. slot' = [slot EXCEPT ![name[t]] = fd[t]] /\ lost' = (lost \/ slot[name[t]] \in Fds \/ Named(fd[t]))
    BY <1>2, <1>3, <1>5, Zenon
  <2>5. fd[t] \in Fds /\ slot[name[t]] = Uninit
    BY <1>1, <1>5
  <2> QED BY <1>1, <1>2, <2>1, <2>3, <2>4, <2>5, Zenon
<1>6. CASE fd[t] # Failed /\ ~won
  <2>1. tgt' = [tgt EXCEPT ![t] = fd[t]] /\ To(t, "lose", slot[name[t]])
    BY <1>6, Zenon DEF Install, Goto, To
  <2>2. slot' = slot /\ lost' = lost /\ slot[name[t]] # Uninit /\ fd[t] \in Fds
    BY <1>1, <1>2, <1>6 DEF TypeOK
  <2> QED BY <1>1, <1>2, <2>1, <2>2, Zenon
<1> QED BY <1>4, <1>5, <1>6, Zenon

\* The loser's fd is closed, and the winner's taken.
LEMMA LoseEffect ==
  ASSUME TypeOK, Control, NEW t \in Threads, Lose(t)
  PROVE  /\ name[t] \in Slots /\ tgt[t] \in Fds /\ pc[t] = "lose"
         /\ UNCHANGED <<app, lost, slot, op, name, idx, dir, todo, pos, range>>
         /\ fds' = [fds EXCEPT ![tgt[t]] = "none"] /\ tgt' = [tgt EXCEPT ![t] = NoFd]
         /\ \/ To(t, "io", fd[t]) /\ fd[t] \in Fds
            \/ To(t, "reload", fd[t]) \/ To(t, "return", NoFd)
<1>1. /\ name[t] \in Slots /\ tgt[t] \in Fds /\ pc[t] = "lose" /\ fd[t] \in Fds \cup {Failed}
      /\ fd = [fd EXCEPT ![t] = fd[t]]
  BY DEF Lose, Control, ControlAt, TypeOK
<1>2. Loaded(t, fd[t]) => (To(t, "io", fd[t]) /\ fd[t] \in Fds) \/ To(t, "return", NoFd)
  BY <1>1, TakesSlot DEF To
<1>3. \/ To(t, "io", fd[t]) /\ fd[t] \in Fds
      \/ To(t, "reload", fd[t]) \/ To(t, "return", NoFd)
  BY <1>1, <1>2 DEF Lose, Installed, Goto, To
<1> QED BY <1>1, <1>3, Zenon DEF Lose, walk

\* What one thread may do: a step of the call it is in, or the start of one.
Act(t) ==
  \/ Step(t) \/ Open(t)
  \/ \E s \in Slots : Use(t, s)
  \/ \E o \in app.calls, f \in Fds : Replace(t, o, f)
  \/ \E lo, hi \in Fds : CloseRange(t, lo, hi)

\* The locals of the threads other than t, and the application, stay as they are.
Others(t) ==
  /\ app' = app
  /\ \A u \in Threads \ {t} :
       /\ pc'[u] = pc[u] /\ op'[u] = op[u] /\ name'[u] = name[u] /\ fd'[u] = fd[u]
       /\ tgt'[u] = tgt[u] /\ idx'[u] = idx[u]
       /\ dir'[u] = dir[u] /\ todo'[u] = todo[u] /\ pos'[u] = pos[u] /\ range'[u] = range[u]

\* A step of one thread leaves the locals of every other thread alone.
LEMMA OtherThreads ==
  ASSUME TypeOK, Control, NEW t \in Threads, Act(t)
  PROVE  Others(t)
<1> DEFINE Fn(f) == f = [u \in Threads |-> f[u]]
<1>1. Fn(pc) /\ Fn(op) /\ Fn(name) /\ Fn(fd) /\ Fn(tgt) /\ Fn(idx) /\ Fn(dir) /\ Fn(todo)
      /\ Fn(pos) /\ Fn(range)
  BY DEF TypeOK
<1> USE DEF Others, Goto, walk, locals
<1>2. CASE Load(t) \/ Reload(t)
  <2>1. app' = app /\ UNCHANGED <<op, name, tgt, idx, dir, todo, pos, range>> /\ \E p, v : To(t, p, v)
    BY <1>2, LoadEffect, Zenon
  <2> QED BY <1>1, <2>1 DEF To
<1>3. CASE Install(t)
  <2>1. app' = app /\ UNCHANGED <<op, name, idx, dir, todo, pos, range>> /\ \E p, v : To(t, p, v)
    BY <1>3, InstallEffect, Zenon
  <2>2. tgt' = tgt \/ tgt' = [tgt EXCEPT ![t] = fd[t]]
    BY <1>3, InstallEffect, Zenon
  <2> QED BY <1>1, <2>1, <2>2 DEF To
<1>4. CASE Lose(t)
  <2>1. app' = app /\ UNCHANGED <<op, name, idx, dir, todo, pos, range>> /\ \E p, v : To(t, p, v)
    BY <1>4, LoseEffect, Zenon
  <2>2. tgt' = [tgt EXCEPT ![t] = NoFd]
    BY <1>4, LoseEffect, Zenon
  <2> QED BY <1>1, <2>1, <2>2 DEF To
<1>5. CASE LazyOpen(t) \/ Io(t) \/ Return(t) \/ Open(t) \/ \E s \in Slots : Use(t, s)
  BY <1>1, <1>5, Zenon DEF LazyOpen, Io, Return, Open, Use
<1>6. CASE Scan(t) \/ ScanDone(t) \/ DupFd(t) \/ Reset(t) \/ Cas(t) \/ Undo(t) \/ Syscall(t)
  BY <1>1, <1>6, Zenon DEF Scan, ScanDone, DupFd, Reset, Cas, Undo, Moved, Syscall
<1>7. CASE \E o \in app.calls, f \in Fds : Replace(t, o, f)
  BY <1>1, <1>7, Zenon DEF Replace
<1>8. CASE \E lo, hi \in Fds : CloseRange(t, lo, hi)
  BY <1>1, <1>8, SMTT(30) DEF CloseRange
<1>9. CASE GetDents(t) \/ Visit(t)
  BY <1>1, <1>9 DEF GetDents, Visit
<1> HIDE DEF Others
<1> QED BY <1>2, <1>3, <1>4, <1>5, <1>6, <1>7, <1>8, <1>9, Zenon DEF Act, Step

-----------------------------------------------------------------------------
\* What a step of thread t may do to the slots and the table without disturbing
\* another: change a free number, one it has in hand, or one that nobody has in
\* hand and no slot names; store in a slot what it had in hand and no call names;
\* take in hand a free number.
Kept(t) ==
  /\ \A x \in Fds :
       \/ fds'[x] = fds[x] \/ fds[x] = "none" \/ x = Flight(t) \/ x = dir[t]
       \/ /\ \A u \in Threads : x # Flight(u) /\ x # dir[u]
          /\ \A s \in Slots : slot[s] # x
  /\ \A s \in Slots :
       \/ slot'[s] = slot[s] \/ slot'[s] \notin Fds
       \/ /\ slot'[s] = Flight(t) /\ fds'[slot'[s]] = s
          /\ \A u \in Threads : slot'[s] # tgt[u]
  /\ Flight(t)' \in Fds =>
       Flight(t)' # dir'[t] /\ (Flight(t)' = Flight(t) \/ fds[Flight(t)'] = "none")
  /\ dir'[t] \in Fds => dir'[t] = dir[t] \/ fds[dir'[t]] = "none"

\* Such a step keeps the agreement, when it does for the thread itself.
LEMMA AgreeFrame ==
  ASSUME TypeOK, Control, Agree, NEW t \in Threads, Others(t), Kept(t),
         PassedAt(t)', HandAt(t)'
  PROVE  Agree'
<1>1. \A u \in Threads : dir[u] \in Fds \cup {NoFd}
  BY DEF TypeOK
<1>2. \A u \in Threads : /\ PassedAt(u) /\ HandAt(u)
                         /\ \A v \in Threads : Apart(u, v)
  BY DEF Agree
<1>3. \A u \in Threads \ {t} :
        /\ Flight(u)' = Flight(u) /\ dir'[u] = dir[u] /\ tgt'[u] = tgt[u] /\ pc'[u] = pc[u]
        /\ idx'[u] = idx[u] /\ fd'[u] = fd[u] /\ name'[u] = name[u]
  BY DEF Others, Flight
<1>4. \A s \in Slots : slot[s] \in Fds => fds[slot[s]] = s /\ fds'[slot[s]] = s
  <2> SUFFICES ASSUME NEW s \in Slots, slot[s] \in Fds PROVE fds[slot[s]] = s /\ fds'[slot[s]] = s
    OBVIOUS
  <2>1. fds[slot[s]] = s /\ s # "none" /\ s # "dir"
    BY Numbers DEF Agree, SlotsOwn
  <2>2. slot[s] # Flight(t) /\ slot[s] # dir[t]
    BY <1>1, <1>2, <2>1, Numbers, SMTT(30) DEF HandAt
  <2> QED BY <2>1, <2>2 DEF Kept
<1>5. SlotsOwn'
  BY <1>4 DEF Kept, SlotsOwn
<1>6. ASSUME NEW u \in Threads \ {t} PROVE PassedAt(u)' /\ HandAt(u)' /\ Apart(t, u)' /\ Apart(u, t)'
  <2>1. Flight(u) \in Fds => fds[Flight(u)] # "none" /\ fds'[Flight(u)] = fds[Flight(u)]
    BY <1>2, SMTT(30) DEF Kept, HandAt, Apart
  <2>2. dir[u] # NoFd => fds[dir[u]] = "dir" /\ fds'[dir[u]] = "dir"
    BY <1>1, <1>2, SMTT(30) DEF Kept, HandAt, Apart
  <2>3. \A s \in Slots : Flight(u) \in Fds => slot'[s] # Flight(u)
    BY <1>2 DEF Kept, HandAt, Apart
  <2>4. pc[u] \in Closing => tgt[u] \in Fds
    BY DEF TypeOK, Control, ControlAt
  <2>5. \A s \in Slots : pc[u] \in Closing /\ slot'[s] = tgt[u] => slot[s] = tgt[u]
    BY <2>4, SMTT(30) DEF Kept
  <2>6. PassedAt(u)'
    BY <1>2, <1>3, <2>5, Numbers, SMTT(30) DEF PassedAt
  <2>7. pc[u] = "cas" => idx[u] \in DOMAIN Registry /\ fd[u] \in Fds /\ Flight(u) = fd[u]
    BY Zenon DEF Control, ControlAt, Flight
  <2>8. pc[u] = "cas" /\ slot'[Registry[idx[u]]] = tgt[u] => fds'[fd[u]] = Registry[idx[u]]
    BY <1>2, <2>1, <2>5, <2>7, Numbers, SMTT(30) DEF HandAt, Closing
  <2>9. HandAt(u)'
    BY <1>2, <1>3, <2>1, <2>2, <2>3, <2>8, SMTT(30) DEF HandAt
  <2>10. /\ Flight(t)' \in Fds => Flight(t)' # dir[u] /\ Flight(t)' # Flight(u)
         /\ dir'[t] \in Fds => dir'[t] # dir[u] /\ dir'[t] # Flight(u)
    BY <1>1, <1>2, <2>1, <2>2, Numbers, SMTT(30) DEF Kept, Apart
  <2>11. Apart(t, u)' /\ Apart(u, t)'
    BY <1>1, <1>2, <1>3, <2>10, Zenon DEF Apart
  <2> QED BY <2>6, <2>9, <2>11, Zenon
<1>7. \A u, v \in Threads \ {t} : Apart(u, v)'
  BY <1>2, <1>3, SMTT(30) DEF Apart
<1>8. Apart(t, t)'
  BY DEF Kept, Apart
<1> QED BY <1>5, <1>6, <1>7, <1>8, Zenon DEF Agree

\* A step that changes no slot and no number, and leaves nothing in hand.
LEMMA QuietStep ==
  ASSUME TypeOK, Control, Agree, NEW t \in Threads, Others(t), PassedAt(t)',
         UNCHANGED <<slot, fds>>, dir'[t] = dir[t],
         pc'[t] \notin {"install", "cas", "undo", "lose"}
  PROVE  Agree'
<1>1. Flight(t)' = NoFd
  BY DEF Flight
<1>2. Kept(t)
  BY <1>1, Numbers, Zenon DEF Kept
<1>3. HandAt(t)'
  BY <1>1, Numbers, Zenon DEF HandAt, Agree
<1> QED BY <1>2, <1>3, AgreeFrame, Zenon

\* Only one thread makes calls: the others have nothing in hand.
LEMMA SoloIdle ==
  ASSUME Control, Solo, NEW t \in app.threads, NEW u \in Threads, u # t
  PROVE  pc[u] = "idle" /\ tgt[u] = NoFd /\ dir[u] = NoFd /\ Flight(u) = NoFd /\ op[u] = "none"
<1>1. pc[u] = "idle"
  BY DEF Control, ControlAt, Solo
<1> QED BY <1>1, Zenon DEF Control, ControlAt, Flight, Closing

\* What is lost stays so.
LEMMA LostStays ==
  ASSUME TypeOK, Control, NEW t \in Threads, Act(t), lost
  PROVE  lost'
<1>1. CASE Load(t) \/ Reload(t)
  BY <1>1, LoadEffect, Zenon
<1>2. CASE Install(t)
  BY <1>2, InstallEffect, Zenon
<1>3. CASE Lose(t)
  BY <1>3, LoseEffect, Zenon
<1>4. CASE LazyOpen(t) \/ Io(t) \/ Return(t) \/ Open(t) \/ \E s \in Slots : Use(t, s)
  BY <1>4, Zenon DEF LazyOpen, Io, Return, Open, Use
<1>5. CASE Scan(t) \/ ScanDone(t) \/ DupFd(t) \/ Reset(t) \/ Cas(t) \/ Undo(t) \/ Syscall(t)
  BY <1>5, Zenon DEF Scan, ScanDone, DupFd, Reset, Cas, Undo, Syscall
<1>6. CASE (\E o \in app.calls, f \in Fds : Replace(t, o, f)) \/ (\E lo, hi \in Fds : CloseRange(t, lo, hi))
  BY <1>6, Zenon DEF Replace, CloseRange
<1>7. CASE GetDents(t) \/ Visit(t)
  BY <1>7, Zenon DEF GetDents, Visit
<1> QED BY <1>1, <1>2, <1>3, <1>4, <1>5, <1>6, <1>7, Zenon DEF Act, Step

\* The slots and the table agree after a step of a lazy open.
LEMMA AgreeUse ==
  ASSUME TypeOK, Control, Agree, LowestIsFree, NEW t \in app.threads, t \in Threads, Others(t),
         ~lost' \/ Solo,
         Load(t) \/ Reload(t) \/ LazyOpen(t) \/ Install(t) \/ Lose(t)
  PROVE  Agree'
<1>50. /\ pc = [u \in Threads |-> pc[u]] /\ fd = [u \in Threads |-> fd[u]]
       /\ tgt = [u \in Threads |-> tgt[u]] /\ idx = [u \in Threads |-> idx[u]]
  BY DEF TypeOK
<1>51. fds = [f \in Fds |-> fds[f]]
  BY DEF TypeOK
<1>52. slot = [s \in Slots |-> slot[s]]
  BY DEF TypeOK
<1>53. ControlAt(t)
  BY DEF Control
<1>1. CASE Load(t) \/ Reload(t)
  <2>1. UNCHANGED <<slot, fds, dir>> /\ pc'[t] \in {"open", "io", "return"}
    BY <1>50, <1>1, LoadEffect, SMTT(30) DEF To
  <2>2. PassedAt(t)'
    BY <2>1, Zenon DEF PassedAt, Closing
  <2> QED BY <2>1, <2>2, QuietStep, Zenon
<1>2. CASE LazyOpen(t)
  <2>1. /\ UNCHANGED <<slot, dir, name>> /\ pc[t] = "open" /\ pc'[t] = "install" /\ name[t] \in Slots
        /\ \/ /\ fd'[t] \in Fds /\ fds[fd'[t]] = "none" /\ fds' = [fds EXCEPT ![fd'[t]] = name[t]]
           \/ fd'[t] = Failed /\ fds' = fds
    BY <1>50, <1>53, <1>2, Zenon DEF LazyOpen, Goto, walk, ControlAt, LowestIsFree
  <2>2. Flight(t)' = fd'[t] /\ PassedAt(t)' /\ dir'[t] = dir[t] /\ dir[t] = NoFd
    BY <1>53, <2>1, Zenon DEF Flight, PassedAt, Closing, ControlAt
  <2>3. \A s \in Slots : fd'[t] \in Fds => slot[s] # fd'[t]
    BY <2>1, Numbers, Zenon DEF Agree, SlotsOwn
  <2>4. Kept(t)
    BY <1>51, <2>1, <2>2, Numbers, Zenon DEF Kept
  <2>5. HandAt(t)'
    BY <1>51, <2>1, <2>2, <2>3, Numbers, Zenon DEF HandAt
  <2> QED BY <2>4, <2>5, <2>2, AgreeFrame, Zenon
<1>3. CASE Install(t)
  <2>1. /\ name[t] \in Slots /\ fd[t] \in Fds \cup {Failed} /\ pc[t] = "install"
        /\ UNCHANGED <<fds, name, dir>> /\ Flight(t) = fd[t] /\ dir[t] = NoFd
    BY <1>53, <1>3, InstallEffect, Zenon DEF Flight, ControlAt, Closing
  <2>2. CASE /\ slot' = [slot EXCEPT ![name[t]] = fd[t]] /\ pc'[t] \in {"io", "reload", "return"}
             /\ ~lost' => ~Named(fd[t])
    <3>1. fd[t] \in Fds => \A u \in Threads : fd[t] # tgt[u]
      <4>1. tgt[t] = NoFd
        BY <1>53, <2>1, Zenon DEF ControlAt, Closing
      <4> QED BY <2>2, <4>1, SoloIdle, Numbers, Zenon DEF Named
    <3>2. Flight(t)' = NoFd /\ PassedAt(t)'
      BY <2>2, Zenon DEF Flight, PassedAt, Closing
    <3>3. Kept(t)
      BY <1>52, <2>1, <2>2, <3>1, <3>2, Numbers, SMTT(30) DEF Kept, Agree, HandAt
    <3>4. HandAt(t)'
      BY <2>1, <2>2, <3>2, Numbers, Zenon DEF HandAt
    <3> QED BY <3>2, <3>3, <3>4, AgreeFrame, Zenon
  <2>3. CASE slot' = slot /\ pc'[t] \in {"io", "return"}
    <3>1. PassedAt(t)'
      BY <2>3 DEF PassedAt, Closing
    <3> QED BY <2>1, <2>3, <3>1, QuietStep, Zenon
  <2>4. CASE slot' = slot /\ pc'[t] = "lose" /\ tgt'[t] = fd[t] /\ fd[t] \in Fds
    <3>1. Flight(t)' = Flight(t) /\ PassedAt(t)'
      BY <2>1, <2>4, Zenon DEF Flight, PassedAt, Closing
    <3>2. Kept(t)
      BY <2>1, <2>4, <3>1, Numbers, Zenon DEF Kept
    <3>3. HandAt(t)'
      BY <2>1, <2>4, <3>1, Numbers, SMTT(30) DEF HandAt, Agree
    <3> QED BY <3>1, <3>2, <3>3, AgreeFrame, Zenon
  <2>5. /\ \A p, v : To(t, p, v) => pc'[t] = p
        /\ tgt' = [tgt EXCEPT ![t] = fd[t]] => tgt'[t] = fd[t]
    BY <1>50, Zenon DEF To
  <2> QED BY <1>3, <2>2, <2>3, <2>4, <2>5, InstallEffect, Zenon
<1>4. CASE Lose(t)
  <2>1. /\ tgt[t] \in Fds /\ pc[t] = "lose" /\ UNCHANGED <<slot, dir>> /\ dir[t] = NoFd
        /\ fds' = [fds EXCEPT ![tgt[t]] = "none"] /\ pc'[t] \in {"io", "reload", "return"}
    BY <1>50, <1>53, <1>4, LoseEffect, Zenon DEF To, ControlAt, Closing
  <2>2. Flight(t) = tgt[t] /\ Flight(t)' = NoFd /\ PassedAt(t)'
    BY <2>1, Zenon DEF Flight, PassedAt, Closing
  <2>3. Kept(t)
    BY <1>51, <2>1, <2>2, Numbers, Zenon DEF Kept
  <2>4. HandAt(t)'
    BY <2>1, <2>2, Numbers, Zenon DEF HandAt
  <2> QED BY <2>2, <2>3, <2>4, AgreeFrame, Zenon
<1> QED BY <1>1, <1>2, <1>3, <1>4, Zenon

\* The slots and the table agree after a step of a close, dup2 or dup3.
LEMMA AgreeClose ==
  ASSUME TypeOK, Control, Agree, LowestIsFree, NEW t \in app.threads, t \in Threads, Others(t),
         ~lost' \/ Solo,
         Scan(t) \/ ScanDone(t) \/ DupFd(t) \/ Reset(t) \/ Cas(t) \/ Undo(t) \/ Syscall(t)
  PROVE  Agree'
<1>50. /\ pc = [u \in Threads |-> pc[u]] /\ fd = [u \in Threads |-> fd[u]]
       /\ tgt = [u \in Threads |-> tgt[u]] /\ idx = [u \in Threads |-> idx[u]]
  BY Zenon DEF TypeOK
<1>51. fds = [f \in Fds |-> fds[f]]
  BY Zenon DEF TypeOK
<1>52. slot = [s \in Slots |-> slot[s]]
  BY DEF TypeOK
<1>53. ControlAt(t)
  BY Zenon DEF Control
<1>1. /\ PassedAt(t) /\ HandAt(t) /\ tgt[t] \in Fds /\ idx[t] \in Nat \ {0}
      /\ dir[t] \in Fds \cup {NoFd} /\ tgt[t] # dir[t]
  <2>1. pc[t] \in Closing
    BY Zenon DEF Closing, Scan, ScanDone, DupFd, Reset, Cas, Undo, Syscall
  <2>2. tgt[t] \in Fds /\ tgt[t] # dir[t]
    BY <2>1, Numbers, SMTT(30) DEF TypeOK, Control, ControlAt
  <2> QED BY <2>2 DEF Agree, TypeOK
<1>2. DOMAIN Registry = 1..Len(Registry) /\ Len(Registry) \in Nat
  BY RegistryAssumption, SMTT(30)
<1>3. CASE Scan(t) \/ ScanDone(t)
  <2>1. UNCHANGED <<slot, fds, dir, tgt>> /\ pc[t] = "scan" /\ pc'[t] \in {"scan", "dup", "syscall"}
    BY <1>50, <1>3, Zenon DEF Scan, ScanDone, Goto, walk
  <2>2. PassedAt(t)'
    <3>1. CASE pc'[t] = "dup" /\ idx'[t] = idx[t]
      BY <1>1, <2>1, <3>1, Zenon DEF PassedAt, Closing
    <3>2. CASE pc'[t] = "scan" /\ idx'[t] = idx[t] + 1 /\ slot[Registry[idx[t]]] # tgt[t]
      BY <1>1, <1>2, <2>1, <3>2, SMTT(30) DEF PassedAt, Closing
    <3>3. CASE pc'[t] = "syscall" /\ idx[t] \notin DOMAIN Registry
      BY <1>1, <1>2, <2>1, <3>3, SMTT(30) DEF PassedAt, Closing
    <3> QED BY <1>50, <1>3, <3>1, <3>2, <3>3, Zenon DEF Scan, ScanDone, Goto
  <2> QED BY <2>1, <2>2, QuietStep, Zenon
<1>4. CASE DupFd(t)
  <2>1. UNCHANGED <<slot, dir, tgt, idx>> /\ pc[t] = "dup" /\ pc'[t] \in {"reset", "cas"}
    BY <1>50, <1>4, Zenon DEF DupFd, Goto, walk
  <2>2. PassedAt(t)'
    BY <1>1, <2>1, Zenon DEF PassedAt, Closing
  <2>3. CASE fds' = fds /\ pc'[t] = "reset"
    BY <2>1, <2>2, <2>3, QuietStep, Zenon
  <2>4. CASE /\ fd'[t] \in Fds /\ fds[fd'[t]] = "none" /\ fds[tgt[t]] # "none"
             /\ fds' = [fds EXCEPT ![fd'[t]] = fds[tgt[t]]] /\ pc'[t] = "cas"
    <3>1. Flight(t)' = fd'[t] /\ dir'[t] = dir[t] /\ fds'[fd'[t]] = fds[tgt[t]]
      BY <1>51, <2>1, <2>4, Zenon DEF Flight
    <3>2. \A s \in Slots : slot[s] # fd'[t]
      BY <2>4, Numbers, Zenon DEF Agree, SlotsOwn
    <3>3. dir[t] # NoFd => fds[dir[t]] = "dir" /\ fd'[t] # dir[t]
      BY <1>1, <2>4, Zenon DEF HandAt
    <3>4. Kept(t)
      BY <1>51, <2>1, <2>4, <3>1, <3>3, Numbers, Zenon DEF Kept
    <3>5. slot[Registry[idx[t]]] = tgt[t] => fds[tgt[t]] = Registry[idx[t]]
      BY <1>53, <1>1, <2>1, Numbers, Zenon DEF Agree, SlotsOwn, ControlAt
    <3>6. HandAt(t)'
      BY <1>51, <1>1, <2>1, <2>4, <3>1, <3>2, <3>3, <3>5, Numbers, SMTT(30) DEF HandAt
    <3> QED BY <2>2, <3>4, <3>6, AgreeFrame, Zenon
  <2> QED BY <1>50, <1>4, <2>3, <2>4, Zenon DEF DupFd, Goto, LowestIsFree
<1>5. CASE Reset(t)
  <2>1. /\ UNCHANGED <<fds, dir, tgt>> /\ pc[t] = "reset" /\ pc'[t] = "scan" /\ idx'[t] = idx[t] + 1
        /\ slot' = [slot EXCEPT ![Registry[idx[t]]] = Uninit] /\ Registry[idx[t]] \in Slots
    BY <1>50, <1>52, <1>53, <1>5, Numbers, Zenon DEF Reset, Goto, walk, ControlAt
  <2>2. \A s \in Slots : slot'[s] = slot[s] \/ slot'[s] = Uninit
    BY <1>52, <2>1, Zenon
  <2>3. slot'[Registry[idx[t]]] = Uninit
    BY <1>52, <2>1, Zenon
  <2>4. PassedAt(t)'
    BY <1>1, <1>2, <2>1, <2>2, <2>3, Numbers, SMTT(30) DEF PassedAt, Closing
  <2>5. Flight(t)' = NoFd /\ dir'[t] = dir[t]
    BY <2>1, Zenon DEF Flight
  <2>6. Kept(t)
    BY <2>1, <2>2, <2>5, Numbers, Zenon DEF Kept
  <2>7. HandAt(t)'
    BY <1>1, <2>1, <2>5, Numbers, Zenon DEF HandAt
  <2> QED BY <2>4, <2>6, <2>7, AgreeFrame, Zenon
<1>6. CASE Cas(t)
  <2>1. /\ UNCHANGED <<fds, dir, tgt>> /\ pc[t] = "cas" /\ fd[t] \in Fds /\ Flight(t) = fd[t]
        /\ Registry[idx[t]] \in Slots
    BY <1>53, <1>6, Numbers, Zenon DEF Cas, walk, Flight, ControlAt
  <2>2. CASE /\ slot[Registry[idx[t]]] = tgt[t] /\ slot' = [slot EXCEPT ![Registry[idx[t]]] = fd[t]]
             /\ ~lost' => ~Named(fd[t])
             /\ pc'[t] = "scan" /\ idx'[t] = idx[t] + 1
    <3>1. fds[fd[t]] = Registry[idx[t]] /\ fd[t] # tgt[t]
      BY <1>1, <2>1, <2>2, Zenon DEF HandAt
    <3>2. \A u \in Threads : fd[t] # tgt[u]
      BY <2>1, <2>2, <3>1, SoloIdle, Numbers, Zenon DEF Named
    <3>3. \A s \in Slots : slot'[s] = slot[s] \/ (slot'[s] = fd[t] /\ s = Registry[idx[t]])
      BY <1>52, <2>1, <2>2, Zenon
    <3>4. slot'[Registry[idx[t]]] = fd[t]
      BY <1>52, <2>1, <2>2, Zenon
    <3>5. PassedAt(t)'
      <4>1. ASSUME NEW i \in DOMAIN Registry, i < idx[t] + 1 PROVE slot'[Registry[i]] # tgt[t]
        <5>1. i < idx[t] \/ i = idx[t]
          BY <1>1, <1>2, <4>1, SMTT(30)
        <5>2. i < idx[t] => slot[Registry[i]] # tgt[t]
          BY <1>1, <2>1, Zenon DEF PassedAt, Closing
        <5> QED BY <3>1, <3>3, <3>4, <5>1, <5>2, Numbers, Zenon
      <4> QED BY <2>1, <2>2, <4>1, Zenon DEF PassedAt
    <3>6. Flight(t)' = NoFd /\ dir'[t] = dir[t]
      BY <2>1, <2>2 DEF Flight
    <3>7. Kept(t)
      BY <2>1, <3>1, <3>2, <3>3, <3>6, Numbers, Zenon DEF Kept
    <3>8. HandAt(t)'
      BY <1>1, <2>1, <2>2, <3>6, Numbers, Zenon DEF HandAt
    <3> QED BY <3>5, <3>7, <3>8, AgreeFrame, Zenon
  <2>3. CASE slot[Registry[idx[t]]] # tgt[t] /\ pc'[t] = "undo" /\ UNCHANGED <<slot, idx, fd>>
    <3>1. PassedAt(t)'
      BY <1>1, <2>1, <2>3, Zenon DEF PassedAt, Closing
    <3>2. Flight(t)' = fd[t] /\ dir'[t] = dir[t]
      BY <2>1, <2>3 DEF Flight
    <3>3. Kept(t)
      BY <2>1, <2>3, <3>2, Numbers, Zenon DEF Kept, Agree, Apart
    <3>4. HandAt(t)'
      BY <1>1, <2>1, <2>3, <3>2, Numbers, Zenon DEF HandAt
    <3> QED BY <3>1, <3>3, <3>4, AgreeFrame, Zenon
  <2>4. CASE slot[Registry[idx[t]]] = tgt[t]
    <3>1. /\ slot' = [slot EXCEPT ![Registry[idx[t]]] = fd[t]] /\ pc'[t] = "scan" /\ idx'[t] = idx[t] + 1
      BY <1>50, <1>6, <2>4, Zenon DEF Cas, Moved, Goto
    <3>2. ~lost' => ~Named(fd[t])
      BY <1>6, <2>4, Zenon DEF Cas
    <3> QED BY <2>2, <2>4, <3>1, <3>2, Zenon
  <2>5. CASE slot[Registry[idx[t]]] # tgt[t]
    BY <1>50, <1>6, <2>3, <2>5, Zenon DEF Cas, Goto
  <2> QED BY <2>4, <2>5, Zenon
<1>7. CASE Undo(t)
  <2>1. /\ UNCHANGED <<slot, dir, tgt>> /\ pc[t] = "undo" /\ fd[t] \in Fds /\ Flight(t) = fd[t]
        /\ fds' = [fds EXCEPT ![fd[t]] = "none"] /\ pc'[t] = "scan" /\ idx'[t] = idx[t] + 1
    BY <1>50, <1>53, <1>7, Zenon DEF Undo, Moved, Goto, walk, Flight, ControlAt
  <2>2. PassedAt(t)'
    <3>1. \A i \in DOMAIN Registry : i < idx[t] + 1 => i < idx[t] \/ i = idx[t]
      BY <1>1, <1>2, SMTT(30)
    <3>2. \A i \in DOMAIN Registry : i < idx[t] \/ i = idx[t] => slot[Registry[i]] # tgt[t]
      BY <1>1, <2>1, Zenon DEF PassedAt, Closing
    <3> QED BY <2>1, <3>1, <3>2, Zenon DEF PassedAt
  <2>3. Flight(t)' = NoFd /\ dir'[t] = dir[t]
    BY <2>1, Zenon DEF Flight
  <2>4. Kept(t)
    BY <1>51, <2>1, <2>3, Numbers, Zenon DEF Kept
  <2>5. dir[t] # NoFd => fd[t] # dir[t]
    BY <2>1, Zenon DEF Agree, Apart
  <2>6. HandAt(t)'
    BY <1>51, <1>1, <2>1, <2>3, <2>5, Numbers, Zenon DEF HandAt
  <2> QED BY <2>2, <2>4, <2>6, AgreeFrame, Zenon
<1>8. CASE Syscall(t)
  <2>1. /\ UNCHANGED <<slot, dir>> /\ pc[t] = "syscall" /\ pc'[t] \in {"visit", "return"}
        /\ fds' = [fds EXCEPT ![tgt[t]] = After(t)]
    BY <1>50, <1>8, Zenon DEF Syscall, Goto, walk
  <2>2. PassedAt(t)'
    BY <2>1, Zenon DEF PassedAt, Closing
  <2>3. CASE op[t] = "baddup2"
    <3>1. fds' = fds
      BY <1>51, <1>1, <2>1, <2>3, Zenon DEF After
    <3> QED BY <2>1, <2>2, <3>1, QuietStep, Zenon
  <2>4. CASE op[t] # "baddup2"
    <3>1. \A u \in Threads : tgt[t] # Flight(u) /\ tgt[t] # dir[u]
      <4>1. CASE Solo
        <5>1. Flight(t) = NoFd
          BY <2>1, Zenon DEF Flight
        <5> QED BY <1>1, <4>1, <5>1, SoloIdle, Numbers, Zenon
      <4>2. CASE ~lost'
        <5>1. tgt[t] \notin InFlight
          BY <1>8, <2>4, <4>2, Zenon DEF Syscall
        <5> QED BY <1>1, <5>1, Numbers, Zenon DEF InFlight, Flight
      <4> QED BY <4>1, <4>2, Zenon
    <3>2. \A s \in Slots : slot[s] # tgt[t]
      BY <1>1, <2>1, Zenon DEF PassedAt, Closing, Slots
    <3>3. Flight(t)' = NoFd /\ dir'[t] = dir[t]
      BY <2>1, Zenon DEF Flight
    <3>4. \A x \in Fds : fds'[x] = fds[x] \/ x = tgt[t]
      BY <1>51, <2>1, Zenon
    <3>5. Kept(t)
      BY <2>1, <3>1, <3>2, <3>3, <3>4, Numbers, Zenon DEF Kept
    <3>6. HandAt(t)'
      BY <1>1, <2>1, <3>1, <3>3, <3>4, Numbers, Zenon DEF HandAt
    <3> QED BY <2>2, <3>5, <3>6, AgreeFrame, Zenon
  <2> QED BY <2>3, <2>4
<1> QED BY <1>3, <1>4, <1>5, <1>6, <1>7, <1>8, Zenon

\* The slots and the table agree after a step of a walk, and after a call starts
\* or ends.
LEMMA AgreeWalk ==
  ASSUME TypeOK, Control, Agree, LowestIsFree, NEW t \in app.threads, t \in Threads, Others(t),
         \/ Io(t) \/ Return(t) \/ Open(t) \/ GetDents(t) \/ Visit(t)
         \/ \E s \in Slots : Use(t, s)
         \/ \E o \in app.calls, f \in Fds : Replace(t, o, f)
         \/ \E lo, hi \in Fds : CloseRange(t, lo, hi)
  PROVE  Agree'
<1>1. dir[t] \in Fds \cup {NoFd} /\ HandAt(t)
  BY DEF TypeOK, Agree
<1>2. CASE Io(t) \/ Return(t) \/ \E s \in Slots : Use(t, s)
  <2>1. UNCHANGED <<slot, fds, dir>> /\ pc'[t] \in {"return", "idle", "load"}
    BY <1>2 DEF Io, Return, Use, Goto, walk, locals, TypeOK
  <2>2. PassedAt(t)'
    BY <2>1 DEF PassedAt, Closing
  <2> QED BY <2>1, <2>2, QuietStep, Zenon
<1>3. CASE Visit(t) \/ \E o \in app.calls, f \in Fds : Replace(t, o, f)
  <2>1. /\ UNCHANGED <<slot, fds, dir, idx>> /\ pc[t] \in {"visit", "idle"}
        /\ pc'[t] \in {"read", "scan", "visit"}
    BY <1>3, Zenon DEF Visit, Replace, Goto, walk, TypeOK
  <2>2. idx'[t] = 1
    BY <2>1 DEF Control, ControlAt, Closing
  <2>3. \A i \in DOMAIN Registry : ~(i < 1)
    BY RegistryAssumption
  <2>4. PassedAt(t)'
    BY <2>1, <2>2, <2>3 DEF PassedAt, Closing
  <2> QED BY <2>1, <2>4, QuietStep, Zenon
<1>4. CASE Open(t)
  <2>1. /\ UNCHANGED <<slot, dir, pc, fd, tgt>> /\ pc[t] = "idle" /\ Min(FreeFds) \in Fds
        /\ fds[Min(FreeFds)] = "none" /\ fds' = [fds EXCEPT ![Min(FreeFds)] = "app"]
    BY <1>4, Zenon DEF Open, walk, locals, LowestIsFree
  <2>2. PassedAt(t)' /\ Flight(t)' = NoFd /\ dir[t] = NoFd
    BY <2>1, Zenon DEF PassedAt, Closing, Flight, Control, ControlAt
  <2>3. Kept(t)
    BY <2>1, <2>2, Numbers, Zenon DEF Kept, TypeOK
  <2>4. HandAt(t)'
    BY <2>1, <2>2, Numbers, Zenon DEF HandAt
  <2> QED BY <2>2, <2>3, <2>4, AgreeFrame, Zenon
<1>5. CASE \E lo, hi \in Fds : CloseRange(t, lo, hi)
  <2>1. slot' = slot /\ pc[t] = "idle" /\ dir[t] = NoFd
    BY <1>5, Zenon DEF CloseRange, Control, ControlAt, Closing
  <2>2. CASE UNCHANGED <<fds, dir>> /\ pc'[t] = "return"
    <3>1. PassedAt(t)'
      BY <2>2 DEF PassedAt, Closing
    <3> QED BY <2>1, <2>2, <3>1, QuietStep, Zenon
  <2>3. CASE /\ dir'[t] \in Fds /\ fds[dir'[t]] = "none" /\ pc'[t] = "read"
             /\ fds' = [fds EXCEPT ![dir'[t]] = "dir"]
    <3>1. PassedAt(t)' /\ Flight(t)' = NoFd
      BY <2>3, Zenon DEF PassedAt, Closing, Flight
    <3>2. Kept(t)
      BY <2>1, <2>3, <3>1, Numbers, Zenon DEF Kept, TypeOK
    <3>3. HandAt(t)'
      BY <2>1, <2>3, <3>1, Numbers, Zenon DEF HandAt, TypeOK
    <3> QED BY <3>1, <3>2, <3>3, AgreeFrame, Zenon
  <2> QED BY <1>5, <2>2, <2>3, SMTT(30) DEF CloseRange, Goto, walk, TypeOK, LowestIsFree
<1>6. CASE GetDents(t)
  <2>1. slot' = slot /\ pc[t] = "read" /\ dir[t] \in Fds
    BY <1>1, <1>6, Zenon DEF GetDents, Control, ControlAt
  <2>2. CASE UNCHANGED <<fds, dir>> /\ pc'[t] = "visit"
    <3>1. PassedAt(t)'
      BY <2>2, Zenon DEF PassedAt, Closing
    <3> QED BY <2>1, <2>2, <3>1, QuietStep, Zenon
  <2>3. CASE dir'[t] = NoFd /\ pc'[t] = "return" /\ fds' = [fds EXCEPT ![dir[t]] = "none"]
    <3>1. PassedAt(t)' /\ Flight(t)' = NoFd
      BY <2>3, Zenon DEF PassedAt, Closing, Flight
    <3>2. Kept(t)
      BY <2>1, <2>3, <3>1, Numbers, Zenon DEF Kept, TypeOK
    <3>3. HandAt(t)'
      BY <2>3, <3>1, Numbers, Zenon DEF HandAt
    <3> QED BY <3>1, <3>2, <3>3, AgreeFrame, Zenon
  <2> QED BY <1>6, <2>2, <2>3, SMTT(30) DEF GetDents, Goto, TypeOK
<1> QED BY <1>2, <1>3, <1>4, <1>5, <1>6, Zenon

\* The slots and the table agree after every step that loses nothing, and after
\* every step of a thread that is alone.
LEMMA AgreeStep ==
  ASSUME IInv, LowestIsFree, NEW t \in app.threads, t \in Threads, Act(t), ~lost' \/ Solo
  PROVE  Agree'
<1>1. TypeOK /\ Control
  BY DEF IInv
<1>2. Others(t)
  BY <1>1, OtherThreads
<1>3. Agree
  BY <1>1, LostStays, Zenon DEF IInv
<1> QED BY <1>1, <1>2, <1>3, AgreeUse, AgreeClose, AgreeWalk, Zenon DEF Act, Step

-----------------------------------------------------------------------------
\* What a step of thread t owes the internal files: each is where its slot says,
\* or in the hands of t, or was neither before and has not been touched.
Owed(t) ==
  \A f \in Fds : fds'[f] \in Slots =>
    \/ slot'[fds'[f]] = f \/ Leaving(t, f)'
    \/ fds'[f] = fds[f] /\ slot[fds[f]] # f /\ ~Leaving(t, f)

\* The files that other threads have in hand stay there.
LEMMA AccountedFrame ==
  ASSUME Accounted, NEW t \in Threads, Others(t), Owed(t)
  PROVE  Accounted'
<1>1. \A u \in Threads \ {t} : \A f \in Fds : Leaving(u, f) => Leaving(u, f)'
  BY DEF Others, Leaving, Flight
<1> SUFFICES ASSUME NEW f \in Fds, fds'[f] \in Slots
             PROVE  slot'[fds'[f]] = f \/ \E u \in Threads : Leaving(u, f)'
  BY DEF Accounted
<1>2. CASE fds'[f] = fds[f] /\ slot[fds[f]] # f /\ ~Leaving(t, f)
  <2>1. PICK u \in Threads : Leaving(u, f)
    BY <1>2 DEF Accounted
  <2> QED BY <1>1, <1>2, <2>1, Zenon
<1> QED BY <1>2 DEF Owed

\* No step loses track of an internal file without recording that it did.
LEMMA AccountedStep ==
  ASSUME IInv, LowestIsFree, NEW t \in app.threads, t \in Threads, Act(t), ~lost'
  PROVE  Accounted'
<1>1. TypeOK /\ Control /\ ControlAt(t) /\ Others(t)
  BY OtherThreads DEF IInv, Control
<1>2. Agree /\ Accounted /\ HandAt(t)
  BY <1>1, LostStays, Zenon DEF IInv, Agree
<1>3. \A f \in Fds : fds[f] \in Files \cup {"none"}
  BY <1>1 DEF TypeOK
<1> SUFFICES Owed(t)
  BY <1>1, <1>2, AccountedFrame, Zenon
<1> DEFINE Fixed(x) == \A f \in Fds : f = x \/ fds'[f] = fds[f]
<1>4. ASSUME slot' = slot, NEW x, Fixed(x), x \in Fds => fds'[x] \notin Slots,
             \A f \in Fds : f = x \/ ~Leaving(t, f) \/ Leaving(t, f)'
      PROVE  Owed(t)
  BY <1>4 DEF Owed
<1>5. pc[t] \notin Closing \cup {"install", "lose"} => \A f \in Fds : ~Leaving(t, f)
  BY Numbers DEF Leaving, Flight, Closing
<1>6. CASE Load(t) \/ Reload(t)
  <2>1. UNCHANGED <<slot, fds>> /\ pc[t] \in {"load", "reload"}
    BY <1>1, <1>6, LoadEffect, Zenon
  <2> QED BY <1>4, <1>5, <2>1, Numbers, Zenon DEF Closing
<1>7. CASE Io(t) \/ Return(t) \/ Visit(t) \/ (\E s \in Slots : Use(t, s)) \/ (\E o \in app.calls, f \in Fds : Replace(t, o, f))
  <2>1. UNCHANGED <<slot, fds>> /\ pc[t] \in {"io", "return", "visit", "idle"}
    BY <1>7 DEF Io, Return, Visit, Use, Replace, walk, locals
  <2> QED BY <1>4, <1>5, <2>1, Numbers, Zenon DEF Closing
<1>8. CASE Open(t) \/ \E lo, hi \in Fds : CloseRange(t, lo, hi)
  <2>1. slot' = slot /\ pc[t] = "idle"
    BY <1>8, Zenon DEF Open, CloseRange
  <2>2. fds' = fds \/ \E w \in {"app", "dir"} : Min(FreeFds) \in Fds /\ fds' = [fds EXCEPT ![Min(FreeFds)] = w]
    BY <1>1, <1>8, Zenon DEF Open, CloseRange, LowestIsFree
  <2>3. Fixed(Min(FreeFds)) /\ (fds' = fds \/ fds'[Min(FreeFds)] \in {"app", "dir"})
    BY <1>1, <2>2, Zenon DEF TypeOK
  <2> QED BY <1>4, <1>5, <2>1, <2>3, Numbers, Zenon DEF Closing
<1>9. CASE GetDents(t)
  <2>1. slot' = slot /\ pc[t] = "read" /\ dir[t] \in Fds
    BY <1>1, <1>9, Zenon DEF GetDents, TypeOK, ControlAt
  <2>2. fds' = fds \/ fds' = [fds EXCEPT ![dir[t]] = "none"]
    BY <1>9, Zenon DEF GetDents
  <2>3. Fixed(dir[t]) /\ (fds' = fds \/ fds'[dir[t]] = "none")
    BY <1>1, <2>1, <2>2, Zenon DEF TypeOK
  <2> QED BY <1>4, <1>5, <2>1, <2>3, Numbers, Zenon DEF Closing
<1>10. CASE LazyOpen(t)
  <2>1. /\ slot' = slot /\ pc[t] = "open" /\ pc'[t] = "install"
        /\ fds' = fds \/ (fd'[t] \in Fds /\ fds' = [fds EXCEPT ![fd'[t]] = name[t]])
    BY <1>1, <1>10, Zenon DEF LazyOpen, Goto, TypeOK, LowestIsFree
  <2>2. Fixed(fd'[t]) /\ \A f \in Fds : f = fd'[t] => Leaving(t, f)'
    BY <1>1, <2>1, Zenon DEF TypeOK, Leaving, Flight
  <2> QED BY <1>5, <2>1, <2>2, Zenon DEF Owed, Closing
<1>11. CASE Lose(t)
  <2>1. tgt[t] \in Fds /\ slot' = slot /\ pc[t] = "lose" /\ fds' = [fds EXCEPT ![tgt[t]] = "none"]
    BY <1>1, <1>11, LoseEffect, Zenon
  <2>2. Fixed(tgt[t]) /\ fds'[tgt[t]] = "none" /\ \A f \in Fds : f = tgt[t] \/ ~Leaving(t, f)
    BY <1>1, <2>1 DEF TypeOK, Leaving, Flight, Closing
  <2> QED BY <1>4, <2>1, <2>2, Numbers, Zenon
<1>12. CASE Install(t)
  <2>1. /\ name[t] \in Slots /\ fd[t] \in Fds \cup {Failed} /\ pc[t] = "install" /\ fds' = fds
        /\ \A f \in Fds : Leaving(t, f) => f = fd[t]
    BY <1>1, <1>12, InstallEffect, Zenon DEF Leaving, Flight, Closing
  <2>2. CASE slot' = [slot EXCEPT ![name[t]] = fd[t]] /\ slot[name[t]] \notin Fds
    <3>1. \A s \in Slots : s = name[t] \/ slot'[s] = slot[s]
      BY <1>1, <2>1, <2>2, Zenon DEF TypeOK
    <3>2. fd[t] \in Fds => fds[fd[t]] = name[t] /\ slot'[name[t]] = fd[t]
      BY <1>1, <1>2, <2>1, <2>2, Zenon DEF TypeOK, HandAt, Flight
    <3> QED BY <2>1, <2>2, <3>1, <3>2, Zenon DEF Owed
  <2>3. CASE slot' = slot /\ (fd[t] = Failed \/ (pc'[t] = "lose" /\ tgt'[t] = fd[t]))
    <3>1. \A f \in Fds : ~Leaving(t, f) \/ Leaving(t, f)'
      BY <2>1, <2>3, Numbers, Zenon DEF Leaving, Flight
    <3> QED BY <1>4, <2>1, <2>3, <3>1, Numbers, Zenon
  <2>4. /\ \A p, v : To(t, p, v) => pc'[t] = p
        /\ tgt' = [tgt EXCEPT ![t] = fd[t]] => tgt'[t] = fd[t]
    BY <1>1, Zenon DEF To, TypeOK
  <2> QED BY <1>1, <1>12, <2>2, <2>3, <2>4, InstallEffect, Zenon
<1>13. CASE Scan(t) \/ ScanDone(t)
  <2>1. UNCHANGED <<slot, fds, tgt>> /\ pc[t] = "scan" /\ pc'[t] \in {"scan", "dup", "syscall"}
    BY <1>1, <1>13, Zenon DEF Scan, ScanDone, Goto, TypeOK
  <2>2. \A f \in Fds : ~Leaving(t, f) \/ Leaving(t, f)'
    BY <2>1, Numbers, Zenon DEF Leaving, Flight, Closing
  <2> QED BY <1>4, <2>1, <2>2, Numbers, Zenon
<1>14. CASE DupFd(t)
  <2>1. /\ UNCHANGED <<slot, tgt>> /\ pc[t] = "dup"
        /\ \/ fds' = fds /\ pc'[t] = "reset"
           \/ fd'[t] \in Fds /\ fds' = [fds EXCEPT ![fd'[t]] = fds[tgt[t]]] /\ pc'[t] = "cas"
    BY <1>1, <1>14, SMTT(30) DEF DupFd, Goto, TypeOK, LowestIsFree
  <2>2. \A f \in Fds : ~Leaving(t, f) \/ Leaving(t, f)'
    BY <2>1, Numbers, Zenon DEF Leaving, Flight, Closing
  <2>3. Fixed(fd'[t]) /\ (fds' = fds \/ \A f \in Fds : f = fd'[t] => Leaving(t, f)')
    BY <1>1, <2>1, Zenon DEF TypeOK, Leaving, Flight
  <2> QED BY <2>1, <2>2, <2>3, Zenon DEF Owed
<1>15. CASE Reset(t)
  <2>1. /\ UNCHANGED <<fds, tgt>> /\ pc[t] = "reset" /\ pc'[t] = "scan"
        /\ slot' = [slot EXCEPT ![Registry[idx[t]]] = Uninit] /\ Registry[idx[t]] \in Slots
    BY <1>1, <1>15, Numbers, Zenon DEF Reset, Goto, TypeOK, ControlAt
  <2>2. slot[Registry[idx[t]]] \in {tgt[t], Uninit, Failed}
    BY <1>15, Zenon DEF Reset
  <2>3. \A f \in Fds : (~Leaving(t, f) \/ Leaving(t, f)') /\ (f = tgt[t] => Leaving(t, f)')
    BY <2>1, Numbers, Zenon DEF Leaving, Flight, Closing
  <2>4. \A s \in Slots : s = Registry[idx[t]] \/ slot'[s] = slot[s]
    BY <1>1, <2>1, Zenon DEF TypeOK
  <2> QED BY <2>1, <2>2, <2>3, <2>4, Numbers, Zenon DEF Owed
<1>16. CASE Cas(t)
  <2>1. /\ UNCHANGED <<fds, tgt>> /\ pc[t] = "cas" /\ fd[t] \in Fds /\ Registry[idx[t]] \in Slots
        /\ \A f \in Fds : Leaving(t, f) => f = fd[t] \/ f = tgt[t]
    BY <1>1, <1>16, Numbers, Zenon DEF Cas, ControlAt, Leaving, Flight
  <2>2. CASE /\ slot[Registry[idx[t]]] = tgt[t] /\ pc'[t] = "scan"
             /\ slot' = [slot EXCEPT ![Registry[idx[t]]] = fd[t]]
    <3>1. Leaving(t, tgt[t])'
      BY <2>1, <2>2, Zenon DEF Leaving, Closing
    <3>2. \A s \in Slots : s = Registry[idx[t]] \/ slot'[s] = slot[s]
      BY <1>1, <2>1, <2>2, Zenon DEF TypeOK
    <3>3. fds[fd[t]] = Registry[idx[t]] /\ slot'[Registry[idx[t]]] = fd[t]
      BY <1>1, <1>2, <2>1, <2>2, Zenon DEF TypeOK, HandAt
    <3> QED BY <2>1, <2>2, <3>1, <3>2, <3>3, Zenon DEF Owed
  <2>3. CASE UNCHANGED <<slot, fd>> /\ pc'[t] = "undo"
    <3>1. \A f \in Fds : ~Leaving(t, f) \/ Leaving(t, f)'
      BY <2>1, <2>3, Numbers, Zenon DEF Leaving, Flight, Closing
    <3> QED BY <1>4, <2>1, <2>3, <3>1, Numbers, Zenon
  <2> QED BY <1>1, <1>16, <2>2, <2>3, Zenon DEF Cas, Moved, Goto, TypeOK
<1>17. CASE Undo(t)
  <2>1. /\ UNCHANGED <<slot, tgt>> /\ pc[t] = "undo" /\ fd[t] \in Fds
        /\ fds' = [fds EXCEPT ![fd[t]] = "none"] /\ pc'[t] = "scan"
    BY <1>1, <1>17, Zenon DEF Undo, Moved, Goto, TypeOK, ControlAt
  <2>2. \A f \in Fds : f = fd[t] \/ ~Leaving(t, f) \/ Leaving(t, f)'
    BY <2>1, Numbers, Zenon DEF Leaving, Flight, Closing
  <2>3. Fixed(fd[t]) /\ fds'[fd[t]] = "none"
    BY <1>1, <2>1, Zenon DEF TypeOK
  <2> QED BY <1>4, <2>1, <2>2, <2>3, Numbers, Zenon
<1>18. CASE Syscall(t)
  <2>1. slot' = slot /\ pc[t] = "syscall" /\ tgt[t] \in Fds /\ fds' = [fds EXCEPT ![tgt[t]] = After(t)]
    BY <1>1, <1>18 DEF Syscall, TypeOK, ControlAt, Closing
  <2>2. After(t) \notin Slots
    <3>1. op[t] = "baddup2" => fds[tgt[t]] \notin Slots
      BY <1>18, Zenon DEF Syscall
    <3> QED BY <3>1, Numbers, Zenon DEF After
  <2>3. Fixed(tgt[t]) /\ fds'[tgt[t]] = After(t)
    BY <1>1, <2>1, Zenon DEF TypeOK
  <2>4. \A f \in Fds : f = tgt[t] \/ ~Leaving(t, f)
    BY <2>1, Numbers DEF Leaving, Flight
  <2> QED BY <1>4, <2>1, <2>2, <2>3, <2>4, SMTT(30)
<1> QED
  BY <1>6, <1>7, <1>8, <1>9, <1>10, <1>11, <1>12, <1>13, <1>14, <1>15, <1>16, <1>17, <1>18,
     Zenon DEF Act, Step
=============================================================================
