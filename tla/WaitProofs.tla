----------------------------- MODULE WaitProofs -----------------------------
(***************************************************************************)
(* Theorems about the calls that wait for a tty: about Poll, for every     *)
(* array, every set of wraps and of other fds, every MAX_SWAPS and         *)
(* whatever other threads wrap and unwrap; and about TtyRead, for any      *)
(* number of threads, wraps and settings.                                  *)
(***************************************************************************)
EXTENDS Poll, TLAPS, FiniteSetTheorems

Pcs == {"idle", "direct", "probe", "call", "canary", "proactive", "retry",
        "swapped", "swapout", "done"}
Swap == [idx : Entries, synth_fd : Synths]

\* Types of the array, of the locals and of the kernel's answers.
TypeOK ==
  /\ wraps \subseteq Synths
  /\ user \in [Entries -> Fds \cup {Neg}] /\ fds \in [Entries -> Fds \cup {Neg}]
  /\ std \subseteq Entries /\ revents \subseteq Entries
  /\ pc \in Pcs /\ result \in Int
  /\ idx \in Nat \ {0} /\ swaps \in Seq(Swap)
  /\ slept \in Nat /\ disturbed \in BOOLEAN

Swapped == {swaps[j].idx : j \in DOMAIN swaps}

\* What the array owes to the caller: each swap remembers what was there, the
\* other entries are untouched.  The swap loop goes up the array, so it records
\* no entry twice.
Restorable ==
  /\ \A j \in DOMAIN swaps : swaps[j].synth_fd = user[swaps[j].idx]
  /\ pc \in {"idle", "direct", "probe", "call", "canary"} =>
       swaps = << >> /\ fds = user
  /\ pc \notin {"proactive", "retry"} => idx = 1
  /\ pc \in {"proactive", "retry"} => \A i \in Swapped : i < idx
  /\ pc \in {"proactive", "retry", "swapped", "swapout"} =>
       \A i \in Entries : fds[i] = IF i \in Swapped THEN Real[user[i]] ELSE user[i]
  /\ pc = "done" => fds = user
  /\ Len(swaps) <= MaxSwaps

\* One swap for each entry swapped.
Counted == IsFiniteSet(Swapped) /\ Cardinality(Swapped) = Len(swaps)

\* The entries that are wraps, and whether the caller has few enough of them.
Wrapped == {i \in Entries : user[i] \in wraps}
Few     == Cardinality(Wrapped) <= MaxSwaps

\* How far the answer is, in a call during which no fd was wrapped or unwrapped:
\* when there is no wrap to be seen, what was swapped so far, and what the last
\* kernel call reported.  A call that has waited and found an event has found it
\* on an fd that is no wrap, so that the retry never waits again.
Progress ==
  /\ pc = "direct" => wraps = {}
  /\ pc = "call" => Wrapped = {}
  /\ pc \in {"call", "canary"} => \A i \in Entries : user[i] # Neg => i \in std
  /\ pc = "canary" =>
       /\ revents = Events(user, ready) /\ result = Cardinality(revents)
       /\ slept = 0 \/ Wrapped = {}
  /\ pc = "retry" => Wrapped # {}
  /\ pc \in {"proactive", "retry"} =>
       \A i \in Wrapped : i < idx => i \in Swapped \/ Len(swaps) = MaxSwaps
  /\ pc \in {"proactive", "retry", "swapped", "swapout"} => Swapped \subseteq Wrapped
  /\ pc \in {"swapped", "swapout"} /\ Few => Wrapped \subseteq Swapped
  /\ pc = "swapout" /\ result # Error =>
       revents = Events(fds, ready) /\ result = Cardinality(revents)
  /\ pc \in {"idle", "direct", "probe", "call", "proactive", "retry", "swapped"} => slept = 0
  /\ pc \in {"canary", "swapout", "done"} => slept <= 1
  /\ pc = "done" /\ result # Error /\ Few =>
       revents = Expected /\ result = Cardinality(Expected)

IInv ==
  /\ TypeOK /\ Restorable /\ Counted
  /\ pc = "idle" => ~disturbed
  /\ ~disturbed => Progress

-----------------------------------------------------------------------------
\* What a kernel call does: it fails and reports nothing, or reports the events
\* of the array it is given; it waits only with a timeout, and only if no wrap
\* has an event at once.
LEMMA KernelAnswer ==
  ASSUME TypeOK, NEW timeout \in BOOLEAN, KernelCall(timeout)
  PROVE  /\ result' \in Int /\ revents' \subseteq Entries /\ slept' \in Nat
         /\ result' = Error => slept' = slept
         /\ result' # Error => /\ revents' = Events(fds, ready')
                               /\ result' = Cardinality(revents') /\ result' \in Nat
                               /\ result' = 0 => revents' = {}
                               /\ slept' = slept \/ slept' = slept + 1
                               /\ slept' # slept => timeout /\ Events(fds, {}) = {}
<1>1. \A r : IsFiniteSet(Events(fds, r)) /\ Cardinality(Events(fds, r)) \in Nat
  <2> SUFFICES ASSUME NEW r PROVE IsFiniteSet(Events(fds, r)) /\ Cardinality(Events(fds, r)) \in Nat
    BY Zenon
  <2>1. IsFiniteSet(Entries)
    BY EntriesAssumption, FS_Interval, SMTT(30) DEF Entries
  <2>2. Events(fds, r) \in SUBSET Entries
    BY Zenon DEF Events
  <2> QED BY <2>1, <2>2, FS_Subset, FS_CardinalityType, Zenon
<1>2. CASE result' = Error /\ UNCHANGED <<revents, ready, slept>>
  BY <1>2, SMTT(30) DEF TypeOK, Error
<1>3. ASSUME NEW r \in SUBSET Polled, NEW wait \in BOOLEAN,
             wait => timeout /\ Events(fds, {}) = {},
             ready' = r, revents' = Events(fds, r),
             result' = Cardinality(Events(fds, r)),
             slept' = slept + IF wait THEN 1 ELSE 0
      PROVE  /\ result' \in Int /\ revents' \subseteq Entries /\ slept' \in Nat
             /\ result' # Error /\ revents' = Events(fds, ready')
             /\ result' = Cardinality(revents') /\ result' \in Nat
             /\ result' = 0 => revents' = {}
             /\ slept' = slept \/ slept' = slept + 1
             /\ slept' # slept => timeout /\ Events(fds, {}) = {}
  <2>1. result' \in Nat /\ revents' = Events(fds, ready') /\ result' = Cardinality(revents')
    BY <1>1, <1>3, Zenon
  <2>2. revents' \subseteq Entries
    BY <1>3, Zenon DEF Events
  <2>3. result' = 0 => revents' = {}
    BY <1>1, <1>3, FS_EmptySet, Zenon
  <2>4. /\ slept' \in Nat /\ (slept' = slept \/ slept' = slept + 1)
        /\ slept' # slept => timeout /\ Events(fds, {}) = {}
    BY <1>3, SMTT(30) DEF TypeOK
  <2> QED BY <2>1, <2>2, <2>3, <2>4, SMTT(30) DEF Error
<1>4. CASE result' = Error
  <2>1. slept' = slept /\ revents' = revents
    BY <1>3, <1>4, Zenon DEF KernelCall
  <2> QED BY <1>4, <2>1, SMTT(30) DEF TypeOK, Error
<1> QED BY <1>2, <1>3, <1>4, Zenon DEF KernelCall

\* The number of recorded swaps.
LEMMA CountsSwaps == TypeOK => Len(swaps) \in Nat
<1> SUFFICES ASSUME TypeOK PROVE Len(swaps) \in Nat
  BY Zenon
<1>1. swaps \in Seq(Swap)
  BY Zenon DEF TypeOK
<1> QED BY <1>1, SMTT(30)

\* A recorded swap is of an entry of the array, and of a wrap.
LEMMA RecordedSwap ==
  ASSUME TypeOK, NEW j \in DOMAIN swaps
  PROVE  swaps[j].idx \in Entries /\ swaps[j].synth_fd \in Synths
<1>1. swaps \in Seq(Swap)
  BY Zenon DEF TypeOK
<1>2. swaps[j] \in Swap
  BY <1>1, SMTT(30)
<1> QED BY <1>2, Zenon DEF Swap

\* What recording one more swap adds.
LEMMA AppendSwap ==
  ASSUME TypeOK, NEW e \in Swap, swaps' = Append(swaps, e)
  PROVE  /\ swaps' \in Seq(Swap) /\ Len(swaps') = Len(swaps) + 1
         /\ \A j \in DOMAIN swaps' : swaps'[j] = e \/ (j \in DOMAIN swaps /\ swaps'[j] = swaps[j])
         /\ Swapped' = Swapped \cup {e.idx}
<1>1. swaps \in Seq(Swap)
  BY Zenon DEF TypeOK
<1>2. /\ swaps' \in Seq(Swap) /\ Len(swaps') = Len(swaps) + 1 /\ Len(swaps) \in Nat
      /\ \A j \in 1..Len(swaps) : swaps'[j] = swaps[j]
      /\ swaps'[Len(swaps) + 1] = e
  BY <1>1, SMTT(30)
<1>3. DOMAIN swaps' = 1..(Len(swaps) + 1) /\ DOMAIN swaps = 1..Len(swaps)
  BY <1>1, <1>2, SMTT(30)
<1>4. DOMAIN swaps' = DOMAIN swaps \cup {Len(swaps) + 1}
  BY <1>2, <1>3, SMTT(30)
<1> QED BY <1>2, <1>3, <1>4, SMTT(30) DEF Swapped

\* Every step keeps the types.
LEMMA TypeStep == TypeOK /\ [Next]_vars => TypeOK'
<1> SUFFICES ASSUME TypeOK, [Next]_vars PROVE TypeOK'
  BY Zenon
<1> USE DEF arg
<1>1. ASSUME NEW a \in [Entries -> Fds \cup {Neg}], NEW s \in SUBSET Entries, Call(a, s)
      PROVE  TypeOK'
  <2>1. pc' \in Pcs /\ disturbed' \in BOOLEAN
    BY <1>1, Zenon DEF Call, Pcs
  <2> QED BY <1>1, <2>1, Zenon DEF Call, TypeOK
<1>2. CASE Direct \/ Probe \/ PlainCall \/ SwappedCall
  <2>1. PICK timeout \in BOOLEAN : KernelCall(timeout)
    BY <1>2, Zenon DEF Direct, Probe, PlainCall, SwappedCall
  <2>2. result' \in Int /\ revents' \subseteq Entries /\ slept' \in Nat
    BY <2>1, KernelAnswer, Zenon
  <2>3. pc' \in Pcs
    BY <1>2, Zenon DEF Direct, Probe, PlainCall, SwappedCall, Pcs
  <2>4. UNCHANGED <<wraps, user, std, fds, idx, swaps, disturbed>>
    BY <1>2, Zenon DEF Direct, Probe, PlainCall, SwappedCall
  <2> QED BY <2>2, <2>3, <2>4, Zenon DEF TypeOK
<1>3. CASE Canary
  <2>1. pc' \in Pcs
    BY <1>3, Zenon DEF Canary, Pcs
  <2> QED BY <1>3, <2>1, Zenon DEF Canary, TypeOK
<1>4. CASE SwapIn
  <2>1. idx' \in Nat \ {0} /\ idx \in Entries
    BY <1>4, SMTT(30) DEF SwapIn, TypeOK
  <2>2. CASE fds[idx] \in wraps /\ Len(swaps) < MaxSwaps
    <3>1. /\ [idx |-> idx, synth_fd |-> fds[idx]] \in Swap
          /\ Real[fds[idx]] \in Fds
      BY <2>1, <2>2, FdsAssumption, Zenon DEF Swap, Fds, TypeOK
    <3>2. /\ swaps' = Append(swaps, [idx |-> idx, synth_fd |-> fds[idx]])
          /\ fds' = [fds EXCEPT ![idx] = Real[fds[idx]]]
      BY <1>4, <2>2, Zenon DEF SwapIn, IsSynth
    <3>3. swaps' \in Seq(Swap)
      BY <3>1, <3>2, AppendSwap, Zenon
    <3>4. fds' \in [Entries -> Fds \cup {Neg}]
      BY <3>1, <3>2, Zenon DEF TypeOK
    <3> QED BY <1>4, <2>1, <3>3, <3>4, Zenon DEF SwapIn, TypeOK
  <2>3. CASE ~(fds[idx] \in wraps /\ Len(swaps) < MaxSwaps)
    BY <1>4, <2>1, <2>3, Zenon DEF SwapIn, IsSynth, TypeOK
  <2> QED BY <2>2, <2>3, Zenon
<1>5. CASE SwapDone
  <2>1. pc' \in Pcs /\ idx' \in Nat \ {0}
    BY <1>5, SMTT(30) DEF SwapDone, Pcs
  <2> QED BY <1>5, <2>1, Zenon DEF SwapDone, TypeOK
<1>6. CASE SwapOut
  <2>1. ASSUME NEW i \in Entries, \E j \in DOMAIN swaps : swaps[j].idx = i
        PROVE  swaps[CHOOSE j \in DOMAIN swaps : swaps[j].idx = i].synth_fd \in Fds
    BY <2>1, RecordedSwap, Zenon DEF Fds
  <2>2. fds' \in [Entries -> Fds \cup {Neg}] /\ pc' \in Pcs
    BY <1>6, <2>1, Zenon DEF SwapOut, Pcs, TypeOK
  <2> QED BY <1>6, <2>2, Zenon DEF SwapOut, TypeOK
<1>7. CASE Return
  <2>1. pc' \in Pcs /\ result' \in Int /\ slept' \in Nat
    BY <1>7, SMTT(30) DEF Return, Pcs
  <2>2. /\ user' \in [Entries -> Fds \cup {Neg}] /\ disturbed' \in BOOLEAN
        /\ std' \subseteq Entries /\ revents' \subseteq Entries
    BY <1>7, Zenon DEF Return
  <2>3. swaps' \in Seq(Swap)
    BY <1>7, SMTT(30) DEF Return
  <2> QED BY <1>7, <2>1, <2>2, <2>3, Zenon DEF Return, TypeOK
<1>8. CASE Rewrap
  <2>1. wraps' \subseteq Synths /\ disturbed' \in BOOLEAN
    BY <1>8, Zenon DEF Rewrap, TypeOK
  <2> QED BY <1>8, <2>1, Zenon DEF Rewrap, TypeOK
<1>9. CASE UNCHANGED vars
  BY <1>9, Zenon DEF vars, TypeOK
<1> QED
  BY <1>1, <1>2, <1>3, <1>4, <1>5, <1>6, <1>7, <1>8, <1>9, Zenon DEF Next, Step

-----------------------------------------------------------------------------
\* One step of the swap loop: an entry is swapped, and recorded, or passed over.
LEMMA SwapInEffect ==
  ASSUME TypeOK, Restorable, SwapIn
  PROVE  /\ idx \in Entries /\ idx \notin Swapped /\ fds[idx] = user[idx] /\ idx' = idx + 1
         /\ UNCHANGED <<wraps, user, std, pc, disturbed, slept>>
         /\ IF user[idx] \in wraps /\ Len(swaps) < MaxSwaps
              THEN /\ Swapped' = Swapped \cup {idx} /\ Len(swaps') = Len(swaps) + 1
                   /\ \A j \in DOMAIN swaps' : swaps'[j].synth_fd = user[swaps'[j].idx]
                   /\ fds' = [fds EXCEPT ![idx] = Real[user[idx]]]
              ELSE swaps' = swaps /\ Swapped' = Swapped /\ fds' = fds
<1>1. idx \in Entries /\ pc \in {"proactive", "retry"} /\ idx' = idx + 1
  BY Zenon DEF SwapIn
<1>2. idx \notin Swapped
  BY <1>1, SMTT(30) DEF Restorable, TypeOK
<1>3. fds[idx] = user[idx]
  BY <1>1, <1>2, Zenon DEF Restorable
<1>4. UNCHANGED <<wraps, user, std, pc, disturbed, slept>>
  BY Zenon DEF SwapIn, arg
<1>5. CASE user[idx] \in wraps /\ Len(swaps) < MaxSwaps
  <2> DEFINE e == [idx |-> idx, synth_fd |-> fds[idx]]
  <2>1. swaps' = Append(swaps, e) /\ fds' = [fds EXCEPT ![idx] = Real[user[idx]]]
    BY <1>3, <1>5, Zenon DEF SwapIn, IsSynth
  <2>2. e \in Swap /\ e.idx = idx /\ e.synth_fd = user[idx]
    BY <1>1, <1>3, <1>5, Zenon DEF Swap, TypeOK
  <2> HIDE DEF e
  <2>3. /\ Len(swaps') = Len(swaps) + 1 /\ Swapped' = Swapped \cup {idx}
        /\ \A j \in DOMAIN swaps' : swaps'[j] = e \/ (j \in DOMAIN swaps /\ swaps'[j] = swaps[j])
    BY <2>1, <2>2, AppendSwap, Zenon
  <2>4. \A j \in DOMAIN swaps' : swaps'[j].synth_fd = user[swaps'[j].idx]
    BY <2>2, <2>3, Zenon DEF Restorable
  <2> QED BY <1>1, <1>2, <1>3, <1>4, <1>5, <2>1, <2>3, <2>4, Zenon
<1>6. CASE ~(user[idx] \in wraps /\ Len(swaps) < MaxSwaps)
  <2>1. swaps' = swaps /\ fds' = fds
    BY <1>3, <1>6, Zenon DEF SwapIn, IsSynth
  <2> QED BY <1>1, <1>2, <1>3, <1>4, <1>6, <2>1, Zenon DEF Swapped
<1> QED BY <1>5, <1>6, Zenon

\* poll_swap_out undoes every swap.
LEMMA SwapOutRestores ==
  ASSUME TypeOK, Restorable, SwapOut
  PROVE  fds' = user
<1>1. pc = "swapout"
  BY Zenon DEF SwapOut
<1>2. ASSUME NEW i \in Entries PROVE fds'[i] = user[i]
  <2>1. CASE \E j \in DOMAIN swaps : swaps[j].idx = i
    <3> DEFINE k == CHOOSE j \in DOMAIN swaps : swaps[j].idx = i
    <3>1. k \in DOMAIN swaps /\ swaps[k].idx = i
      BY <2>1, Zenon
    <3>2. swaps[k].synth_fd = user[i]
      BY <3>1, Zenon DEF Restorable
    <3> QED BY <2>1, <3>2, Zenon DEF SwapOut
  <2>2. CASE ~\E j \in DOMAIN swaps : swaps[j].idx = i
    <3>1. i \notin Swapped
      BY <2>2, Zenon DEF Swapped
    <3>2. fds[i] = user[i]
      BY <1>1, <3>1, Zenon DEF Restorable
    <3> QED BY <2>2, <3>2, Zenon DEF SwapOut
  <2> QED BY <2>1, <2>2, Zenon
<1>3. fds' = [i \in Entries |-> fds'[i]]
  BY Zenon DEF SwapOut
<1>4. user = [i \in Entries |-> user[i]]
  BY Zenon DEF TypeOK
<1> QED BY <1>2, <1>3, <1>4, Zenon

\* Every step keeps the array restorable, and counts its swaps.
LEMMA RestorableStep ==
  TypeOK /\ Restorable /\ Counted /\ [Next]_vars => Restorable' /\ Counted'
<1> SUFFICES ASSUME TypeOK, Restorable, Counted, [Next]_vars
             PROVE  Restorable' /\ Counted'
  BY Zenon
<1> USE DEF arg
<1>11. Swapped \subseteq Int /\ idx \in Int
  BY RecordedSwap, SMTT(30) DEF Swapped, Entries, TypeOK
<1>1. ASSUME UNCHANGED <<swaps, user>>
      PROVE  /\ Counted' /\ Swapped' = Swapped /\ Len(swaps') <= MaxSwaps
             /\ \A j \in DOMAIN swaps' : swaps'[j].synth_fd = user'[swaps'[j].idx]
  <2>1. Swapped' = Swapped /\ swaps' = swaps /\ user' = user
    BY <1>1, Zenon DEF Swapped
  <2> QED BY <2>1, Zenon DEF Counted, Restorable
<1>2. ASSUME swaps' = << >> PROVE Counted' /\ Len(swaps') <= MaxSwaps /\ DOMAIN swaps' = {}
  <2>1. DOMAIN swaps' = {} /\ Len(swaps') = 0
    BY <1>2, SMTT(30)
  <2>2. Swapped' = {}
    BY <2>1, Zenon DEF Swapped
  <2> QED BY <2>1, <2>2, FS_EmptySet, EntriesAssumption, SMTT(30) DEF Counted
<1>3. ASSUME NEW a \in [Entries -> Fds \cup {Neg}], NEW s \in SUBSET Entries, Call(a, s)
      PROVE  Restorable' /\ Counted'
  <2>1. pc = "idle" /\ swaps' = << >> /\ fds' = user' /\ idx' = 1 /\ pc' \in {"direct", "probe"}
    BY <1>3, Zenon DEF Call, Restorable
  <2> QED BY <1>2, <2>1, Zenon DEF Restorable
<1>4. CASE Direct \/ Probe \/ PlainCall \/ SwappedCall
  <2>1. UNCHANGED <<user, fds, idx, swaps>>
    BY <1>4, Zenon DEF Direct, Probe, PlainCall, SwappedCall
  <2>2. \/ pc \in {"direct", "probe", "call"} /\ pc' \in {"done", "proactive", "call", "canary"}
        \/ pc = "swapped" /\ pc' = "swapout"
    BY <1>4, Zenon DEF Direct, Probe, PlainCall, SwappedCall
  <2>3. pc \in {"direct", "probe", "call"} => Swapped = {}
    BY SMTT(30) DEF Restorable, Swapped
  <2> QED BY <1>1, <2>1, <2>2, <2>3, Zenon DEF Restorable
<1>5. CASE Canary
  <2>1. UNCHANGED <<user, fds, idx, swaps>> /\ pc = "canary" /\ pc' \in {"retry", "done"}
    BY <1>5, Zenon DEF Canary
  <2>2. pc = "canary" => Swapped = {}
    BY SMTT(30) DEF Restorable, Swapped
  <2> QED BY <1>1, <2>1, <2>2, Zenon DEF Restorable
<1>6. CASE SwapIn
  <2>1. pc \in {"proactive", "retry"} /\ pc' = pc
    BY <1>6, Zenon DEF SwapIn
  <2>2. CASE user[idx] \in wraps /\ Len(swaps) < MaxSwaps
    <3>0. \A i \in Swapped : i < idx
      BY <2>1, Zenon DEF Restorable
    <3>1. /\ Swapped' = Swapped \cup {idx} /\ Len(swaps') = Len(swaps) + 1
          /\ \A j \in DOMAIN swaps' : swaps'[j].synth_fd = user'[swaps'[j].idx]
          /\ fds' = [fds EXCEPT ![idx] = Real[user[idx]]]
          /\ user' = user /\ idx \notin Swapped /\ idx \in Entries /\ idx' = idx + 1
      BY <1>6, <2>2, SwapInEffect, Zenon
    <3>2. Len(swaps') <= MaxSwaps /\ Len(swaps) \in Nat
      BY <2>2, <3>1, EntriesAssumption, CountsSwaps, SMTT(30)
    <3>3. Counted'
      BY <3>1, FS_AddElement, Zenon DEF Counted
    <3>4. \A i \in Swapped' : i < idx'
      <4> SUFFICES ASSUME NEW i \in Swapped' PROVE i < idx'
        BY Zenon
      <4>1. i \in Swapped \/ i = idx
        BY <3>1, Zenon
      <4>2. idx' = idx + 1
        BY <3>1, Zenon
      <4>3. CASE i \in Swapped
        BY <1>11, <3>0, <4>2, <4>3, SMTT(30)
      <4>4. CASE i = idx
        BY <1>11, <4>2, <4>4, SMTT(30)
      <4> QED BY <4>1, <4>3, <4>4, Zenon
    <3>5. \A i \in Entries : fds'[i] = IF i \in Swapped' THEN Real[user'[i]] ELSE user'[i]
      <4>1. \A i \in Entries : fds[i] = IF i \in Swapped THEN Real[user[i]] ELSE user[i]
        BY <2>1, Zenon DEF Restorable
      <4>2. fds \in [Entries -> Fds \cup {Neg}]
        BY Zenon DEF TypeOK
      <4> QED BY <3>1, <4>1, <4>2, Zenon
    <3> QED BY <2>1, <3>1, <3>2, <3>3, <3>4, <3>5, Zenon DEF Restorable
  <2>3. CASE ~(user[idx] \in wraps /\ Len(swaps) < MaxSwaps)
    <3>0. \A i \in Swapped : i < idx
      BY <2>1, SMTT(30) DEF Restorable
    <3>1. swaps' = swaps /\ Swapped' = Swapped /\ fds' = fds /\ user' = user /\ idx' = idx + 1
      BY <1>6, <2>3, SwapInEffect, Zenon
    <3>2. \A i \in Swapped' : i < idx'
      BY <1>11, <2>1, <3>1, <3>0, SMTT(30)
    <3> QED BY <1>1, <2>1, <3>1, <3>2, Zenon DEF Restorable
  <2> QED BY <2>2, <2>3, Zenon
<1>7. CASE SwapDone
  <2>1. UNCHANGED <<user, fds, swaps>> /\ pc \in {"proactive", "retry"} /\ idx' = 1
    BY <1>7, Zenon DEF SwapDone
  <2>2. CASE pc' = "swapped"
    BY <1>1, <2>1, <2>2, Zenon DEF Restorable
  <2>3. CASE pc' = "done" /\ swaps = << >>
    <3>1. Swapped = {}
      BY <2>3, SMTT(30) DEF Swapped
    <3>2. \A i \in Entries : fds[i] = user[i]
      BY <2>1, <3>1, Zenon DEF Restorable
    <3>3. fds = user
      <4>1. fds = [i \in Entries |-> fds[i]] /\ user = [i \in Entries |-> user[i]]
        BY Zenon DEF TypeOK
      <4> QED BY <3>2, <4>1, Zenon
    <3> QED BY <1>1, <2>1, <2>3, <3>3, Zenon DEF Restorable
  <2> QED BY <1>7, <2>2, <2>3, Zenon DEF SwapDone
<1>8. CASE SwapOut
  <2>1. fds' = user' /\ UNCHANGED <<user, swaps, idx>> /\ pc = "swapout" /\ pc' = "done"
    BY <1>8, SwapOutRestores, Zenon DEF SwapOut
  <2> QED BY <1>1, <2>1, Zenon DEF Restorable
<1>9. CASE Return
  <2>1. pc = "done" /\ pc' = "idle" /\ swaps' = << >> /\ fds' = user' /\ idx' = idx
    BY <1>9, Zenon DEF Return
  <2> QED BY <1>2, <2>1, Zenon DEF Restorable
<1>10. CASE Rewrap \/ UNCHANGED vars
  <2>1. UNCHANGED <<user, fds, idx, swaps, pc>>
    BY <1>10, Zenon DEF Rewrap, vars
  <2> QED BY <1>1, <2>1, Zenon DEF Restorable
<1> QED
  BY <1>3, <1>4, <1>5, <1>6, <1>7, <1>8, <1>9, <1>10, Zenon DEF Next, Step

-----------------------------------------------------------------------------
\* With no wrap in the array, what the kernel reports is what is expected.
LEMMA NoWrapNoSwap ==
  ASSUME TypeOK, Wrapped = {}, UNCHANGED <<user, wraps, std>>,
         revents' = Events(user, ready')
  PROVE  revents' = Expected'
BY Zenon DEF Events, Expected, Wrapped

\* With every wrap swapped for its backing, and nothing else swapped, what the
\* kernel reported for the backings is what is expected of the wraps.
LEMMA BackingsReported ==
  ASSUME TypeOK, UNCHANGED <<user, wraps, ready>>, Swapped = Wrapped,
         \A i \in Entries : fds[i] = IF i \in Swapped THEN Real[user[i]] ELSE user[i]
  PROVE  Events(fds, ready) = Expected'
<1>1. \A i \in Entries : i \in Wrapped <=> user[i] \in wraps
  BY Zenon DEF Wrapped
<1>2. \A i \in Wrapped : Real[user[i]] \in Others /\ Real[user[i]] # Neg
                         /\ user[i] # Neg /\ Real[user[i]] \notin wraps
  BY FdsAssumption, SMTT(30) DEF Wrapped, TypeOK
<1>3. \A i \in Entries :
        (fds[i] # Neg /\ IF fds[i] \in wraps THEN i \in std ELSE fds[i] \in ready) <=>
        (user[i] # Neg /\ IF user[i] \in wraps THEN Real[user[i]] \in ready ELSE user[i] \in ready)
  BY <1>1, <1>2, Zenon
<1> QED BY <1>3, Zenon DEF Events, Expected

\* When the swap loop is done, it has swapped every wrap, if there are no more
\* of them than swaps fit.
LEMMA AllSwapped ==
  ASSUME TypeOK, Restorable, Counted, Few, Swapped \subseteq Wrapped,
         \A i \in Wrapped : i \in Swapped \/ Len(swaps) = MaxSwaps
  PROVE  Wrapped = Swapped
<1>1. IsFiniteSet(Wrapped) /\ Cardinality(Wrapped) \in Nat
  <2>1. IsFiniteSet(Entries) /\ Wrapped \in SUBSET Entries
    BY EntriesAssumption, FS_Interval, SMTT(30) DEF Entries, Wrapped
  <2> QED BY <2>1, FS_Subset, FS_CardinalityType, Zenon
<1>2. Cardinality(Swapped) <= Cardinality(Wrapped)
      /\ (Cardinality(Wrapped) = Cardinality(Swapped) => Wrapped = Swapped)
  BY <1>1, FS_Subset, Zenon
<1>3. CASE Len(swaps) = MaxSwaps
  BY <1>1, <1>2, <1>3, EntriesAssumption, SMTT(30) DEF Few, Counted
<1>4. CASE Len(swaps) # MaxSwaps
  BY <1>4, Zenon
<1> QED BY <1>3, <1>4, Zenon

\* Every step that no wrapping disturbs brings the call nearer to its answer.
LEMMA ProgressStep == IInv /\ [Next]_vars => (pc' = "idle" => ~disturbed') /\ (~disturbed' => Progress')
<1> SUFFICES ASSUME IInv, [Next]_vars
             PROVE  (pc' = "idle" => ~disturbed') /\ (~disturbed' => Progress')
  BY Zenon
<1> USE DEF arg
<1>0. TypeOK /\ Restorable /\ Counted /\ (pc = "idle" => ~disturbed) /\ (~disturbed => Progress)
  BY Zenon DEF IInv
<1>1. ASSUME NEW a \in [Entries -> Fds \cup {Neg}], NEW s \in SUBSET Entries, Call(a, s)
      PROVE  pc' # "idle" /\ Progress'
  <2>1. /\ slept' = 0 /\ pc' \in {"direct", "probe"} /\ (pc' = "direct" => wraps' = {})
    BY <1>0, <1>1, Zenon DEF Call, Progress
  <2> QED BY <2>1, Zenon DEF Progress
<1>2. CASE Rewrap
  <2>1. disturbed' = (pc # "idle") /\ pc' = pc /\ slept' = slept
    BY <1>2, Zenon DEF Rewrap
  <2>2. pc = "idle" => slept' = 0
    BY <1>0, <2>1, Zenon DEF Progress
  <2> QED BY <2>1, <2>2, Zenon DEF Progress
<1>3. CASE Return
  BY <1>3, Zenon DEF Return, Progress
<1>4. CASE UNCHANGED vars
  <2>1. UNCHANGED <<user, wraps, std, fds, ready, pc, result, revents, idx, swaps, slept, disturbed>>
    BY <1>4, Zenon DEF vars
  <2>2. UNCHANGED <<Wrapped, Swapped, Few, Expected, Events(user, ready), Events(fds, ready)>>
    BY <2>1, Zenon DEF Wrapped, Swapped, Few, Expected, Events
  <2> QED BY <1>0, <2>1, <2>2, Zenon DEF Progress
<1>5. ASSUME ~disturbed', Direct \/ Probe \/ PlainCall \/ Canary \/ SwapIn \/ SwapDone
                          \/ SwappedCall \/ SwapOut
      PROVE  pc' # "idle" /\ Progress'
  <2>1. UNCHANGED <<user, std, wraps, disturbed>>
    <3>1. CASE Direct \/ Probe \/ PlainCall \/ SwappedCall
      BY <3>1, Zenon DEF Direct, Probe, PlainCall, SwappedCall
    <3>2. CASE SwapIn
      BY <3>2, Zenon DEF SwapIn
    <3>3. CASE Canary \/ SwapDone \/ SwapOut
      BY <3>3, Zenon DEF Canary, SwapDone, SwapOut
    <3> QED BY <1>5, <3>1, <3>2, <3>3, Zenon
  <2>2. Progress /\ Wrapped' = Wrapped /\ (Few' <=> Few)
    <3>1. ~disturbed
      BY <1>0, <1>5, <2>1, Zenon DEF TypeOK
    <3> QED BY <1>0, <2>1, <3>1, Zenon DEF Wrapped, Few
  <2>3. \A i \in Entries : i \in Wrapped => user[i] # Neg
    BY <1>0, FdsAssumption, Zenon DEF Wrapped, TypeOK
  <2>4. CASE Direct
    <3>1. KernelCall(TRUE) /\ pc = "direct" /\ pc' = "done" /\ Wrapped = {} /\ slept = 0 /\ fds = user
      BY <1>0, <2>2, <2>4, Zenon DEF Direct, Progress, Restorable, Wrapped
    <3>2. slept' <= 1
      <4>1. slept' = slept \/ slept' = slept + 1
        BY <1>0, <3>1, KernelAnswer, Zenon
      <4> QED BY <3>1, <4>1, SMTT(30)
    <3>3. result' # Error => revents' = Expected' /\ result' = Cardinality(Expected')
      BY <1>0, <2>1, <3>1, KernelAnswer, NoWrapNoSwap, Zenon
    <3> QED BY <3>1, <3>2, <3>3, Zenon DEF Progress
  <2>5. CASE Probe
    <3>1. KernelCall(FALSE) /\ pc = "probe" /\ slept = 0 /\ fds = user /\ swaps = << >>
          /\ idx = 1 /\ UNCHANGED <<swaps, idx>>
      BY <1>0, <2>2, <2>5, Zenon DEF Probe, Progress, Restorable
    <3>2. slept' = 0
      BY <1>0, <3>1, KernelAnswer, Zenon
    <3>3. CASE result' = Error
      <4>1. pc' = "done"
        BY <2>5, <3>3, Zenon DEF Probe
      <4> QED BY <3>2, <3>3, <4>1, SMTT(30) DEF Progress
    <3>4. CASE result' # Error /\ NeedsProactiveSwap
      <4>1. pc' = "proactive"
        BY <2>5, <3>4, Zenon DEF Probe
      <4>2. Swapped' = {}
        BY <3>1, SMTT(30) DEF Swapped
      <4>3. \A i \in Wrapped : ~(i < idx')
        BY <3>1, SMTT(30) DEF Wrapped, Entries
      <4> QED BY <2>2, <3>2, <4>1, <4>2, <4>3, Zenon DEF Progress
    <3>5. CASE result' # Error /\ ~NeedsProactiveSwap
      <4>1. \A i \in Entries : user[i] # Neg => i \in std
        BY <3>1, <3>5, Zenon DEF NeedsProactiveSwap
      <4>2. revents' = Events(user, ready') /\ result' = Cardinality(revents')
            /\ (result' = 0 => revents' = {})
        BY <1>0, <3>1, <3>5, KernelAnswer, Zenon
      <4>3. Events(user, ready)' = Events(user, ready')
        BY <2>1, Zenon DEF Events
      <4>4. CASE result' = 0
        <5>1. pc' = "call"
          BY <2>5, <3>5, <4>4, Zenon DEF Probe, Error
        <5>2. Wrapped = {}
          BY <2>3, <4>1, <4>2, <4>4, Zenon DEF Wrapped, Events
        <5> QED BY <2>1, <2>2, <3>2, <4>1, <5>1, <5>2, Zenon DEF Progress
      <4>5. CASE result' # 0
        <5>1. pc' = "canary"
          BY <2>5, <3>5, <4>5, Zenon DEF Probe
        <5> QED BY <2>1, <3>2, <4>1, <4>2, <4>3, <5>1, SMTT(30) DEF Progress
      <4> QED BY <4>4, <4>5, Zenon
    <3> QED BY <3>3, <3>4, <3>5, Zenon
  <2>6. CASE PlainCall
    <3>1. /\ KernelCall(TRUE) /\ pc = "call" /\ slept = 0 /\ fds = user /\ Wrapped = {}
          /\ (\A i \in Entries : user[i] # Neg => i \in std)
          /\ pc' = IF result' <= 0 THEN "done" ELSE "canary"
      BY <1>0, <2>2, <2>6, Zenon DEF PlainCall, Progress, Restorable
    <3>6. pc' \in {"done", "canary"} /\ (pc' = "canary" => result' # Error)
      BY <3>1, SMTT(30) DEF Error
    <3>2. slept' <= 1
      <4>1. slept' = slept \/ slept' = slept + 1
        BY <1>0, <3>1, KernelAnswer, Zenon
      <4> QED BY <3>1, <4>1, SMTT(30)
    <3>3. result' # Error => revents' = Events(user, ready') /\ result' = Cardinality(revents')
      BY <1>0, <3>1, KernelAnswer, Zenon
    <3>4. result' # Error => revents' = Expected'
      BY <1>0, <2>1, <3>1, <3>3, NoWrapNoSwap, Zenon
    <3>5. Events(user, ready)' = Events(user, ready')
      BY <2>1, Zenon DEF Events
    <3>7. CASE pc' = "done"
      BY <3>2, <3>3, <3>4, <3>7, Zenon DEF Progress
    <3>8. CASE pc' = "canary"
      BY <2>1, <2>2, <3>1, <3>2, <3>3, <3>5, <3>6, <3>8, Zenon DEF Progress
    <3> QED BY <3>6, <3>7, <3>8, Zenon
  <2>7. CASE Canary
    <3>1. /\ pc = "canary" /\ fds = user /\ swaps = << >> /\ idx = 1
          /\ UNCHANGED <<swaps, idx, slept, ready, revents, result>>
          /\ (\A i \in Entries : user[i] # Neg => i \in std)
          /\ revents = Events(user, ready) /\ result = Cardinality(revents)
          /\ (slept = 0 \/ Wrapped = {}) /\ slept <= 1
      BY <1>0, <2>2, <2>7, Zenon DEF Canary, Progress, Restorable
    <3>2. Wrapped \subseteq revents
      BY <2>3, <3>1, Zenon DEF Wrapped, Events
    <3>3. CASE \E i \in revents : user[i] \in wraps
      <4>1. pc' = "retry"
        BY <2>7, <3>1, <3>3, Zenon DEF Canary, IsSynth
      <4>2. Wrapped # {}
        BY <1>0, <3>3, Zenon DEF Wrapped, TypeOK
      <4>3. Swapped' = {}
        BY <3>1, SMTT(30) DEF Swapped
      <4>4. \A i \in Wrapped : ~(i < idx')
        BY <3>1, SMTT(30) DEF Wrapped, Entries
      <4> QED BY <2>2, <3>1, <4>1, <4>2, <4>3, <4>4, Zenon DEF Progress
    <3>4. CASE ~\E i \in revents : user[i] \in wraps
      <4>1. pc' = "done"
        BY <2>7, <3>1, <3>4, Zenon DEF Canary, IsSynth
      <4>2. Wrapped = {}
        BY <3>2, <3>4, Zenon DEF Wrapped
      <4>3. revents' = Expected'
        BY <1>0, <2>1, <3>1, <4>2, NoWrapNoSwap, Zenon
      <4> QED BY <3>1, <4>1, <4>3, Zenon DEF Progress
    <3> QED BY <3>3, <3>4, Zenon
  <2>8. CASE SwapIn
    <3>1. /\ pc \in {"proactive", "retry"} /\ pc' = pc /\ idx' = idx + 1 /\ idx \in Entries
          /\ slept' = slept
      BY <2>8, Zenon DEF SwapIn
    <3>2. /\ slept = 0 /\ (pc = "retry" => Wrapped # {}) /\ Swapped \subseteq Wrapped
          /\ \A i \in Wrapped : i < idx => i \in Swapped \/ Len(swaps) = MaxSwaps
      BY <2>2, <3>1, Zenon DEF Progress
    <3>3. Swapped' \subseteq Wrapped
          /\ \A i \in Wrapped : i < idx' => i \in Swapped' \/ Len(swaps') = MaxSwaps
      <4>1. CASE user[idx] \in wraps /\ Len(swaps) < MaxSwaps
        <5>1. Swapped' = Swapped \cup {idx} /\ idx \in Wrapped
          BY <1>0, <2>8, <3>1, <4>1, SwapInEffect, Zenon DEF Wrapped
        <5>2. Len(swaps) # MaxSwaps
          BY <1>0, <4>1, CountsSwaps, EntriesAssumption, SMTT(30)
        <5>3. \A i \in Wrapped : i < idx' => i < idx \/ i = idx
          BY <3>1, SMTT(30) DEF Wrapped, Entries
        <5> QED BY <3>2, <5>1, <5>2, <5>3, Zenon
      <4>2. CASE ~(user[idx] \in wraps /\ Len(swaps) < MaxSwaps)
        <5>1. Swapped' = Swapped /\ swaps' = swaps
          BY <1>0, <2>8, <4>2, SwapInEffect, Zenon
        <5>2. idx \in Wrapped => Len(swaps) = MaxSwaps
          <6>1. Len(swaps) \in Nat /\ Len(swaps) <= MaxSwaps
            BY <1>0, CountsSwaps, Zenon DEF Restorable
          <6> QED BY <4>2, <6>1, EntriesAssumption, SMTT(30) DEF Wrapped
        <5>3. \A i \in Wrapped : i < idx' => i < idx \/ i = idx
          BY <3>1, SMTT(30) DEF Wrapped, Entries
        <5> QED BY <3>2, <5>1, <5>2, <5>3, Zenon
      <4> QED BY <4>1, <4>2, Zenon
    <3> QED BY <2>2, <3>1, <3>2, <3>3, Zenon DEF Progress
  <2>9. CASE SwapDone
    <3>1. /\ pc \in {"proactive", "retry"} /\ idx \notin Entries
          /\ UNCHANGED <<swaps, fds, slept, revents, ready, result>>
          /\ IF pc = "retry" /\ swaps = << >> THEN pc' = "done" ELSE pc' = "swapped"
      BY <2>9, Zenon DEF SwapDone
    <3>2. /\ slept = 0 /\ (pc = "retry" => Wrapped # {}) /\ Swapped \subseteq Wrapped
          /\ \A i \in Wrapped : i < idx => i \in Swapped \/ Len(swaps) = MaxSwaps
      BY <2>2, <3>1, Zenon DEF Progress
    <3>3. \A i \in Wrapped : i < idx
      BY <1>0, <3>1, EntriesAssumption, SMTT(30) DEF Wrapped, Entries, TypeOK
    <3>4. Few => Wrapped = Swapped
      BY <1>0, <3>2, <3>3, AllSwapped, Zenon
    <3>5. Swapped' = Swapped
      BY <3>1, Zenon DEF Swapped
    <3>6. CASE pc' = "swapped"
      BY <2>2, <3>1, <3>2, <3>4, <3>5, <3>6, Zenon DEF Progress
    <3>7. CASE pc' = "done" /\ pc = "retry" /\ swaps = << >>
      <4>1. ~Few
        BY <3>2, <3>4, <3>7, SMTT(30) DEF Swapped
      <4> QED BY <2>2, <3>1, <3>2, <3>7, <4>1, SMTT(30) DEF Progress
    <3> QED BY <3>1, <3>6, <3>7, Zenon
  <2>10. CASE SwappedCall
    <3>1. /\ KernelCall(TRUE) /\ pc = "swapped" /\ pc' = "swapout" /\ slept = 0
          /\ UNCHANGED <<swaps, fds>> /\ Swapped \subseteq Wrapped
          /\ (Few => Wrapped \subseteq Swapped)
      BY <2>2, <2>10, Zenon DEF SwappedCall, Progress
    <3>2. slept' <= 1
      <4>1. slept' = slept \/ slept' = slept + 1
        BY <1>0, <3>1, KernelAnswer, Zenon
      <4> QED BY <3>1, <4>1, SMTT(30)
    <3>3. result' # Error => revents' = Events(fds, ready') /\ result' = Cardinality(revents')
      BY <1>0, <3>1, KernelAnswer, Zenon
    <3>4. Events(fds, ready)' = Events(fds, ready') /\ Swapped' = Swapped
      BY <2>1, <3>1, Zenon DEF Events, Swapped
    <3> QED BY <2>2, <3>1, <3>2, <3>3, <3>4, Zenon DEF Progress
  <2>11. CASE SwapOut
    <3>1. /\ pc = "swapout" /\ pc' = "done" /\ UNCHANGED <<swaps, slept, revents, ready, result>>
          /\ slept <= 1 /\ Swapped \subseteq Wrapped /\ (Few => Wrapped \subseteq Swapped)
          /\ (result # Error => revents = Events(fds, ready) /\ result = Cardinality(revents))
      BY <2>2, <2>11, Zenon DEF SwapOut, Progress
    <3>2. \A i \in Entries : fds[i] = IF i \in Swapped THEN Real[user[i]] ELSE user[i]
      BY <1>0, <3>1, Zenon DEF Restorable
    <3>3. Few => Events(fds, ready) = Expected'
      BY <1>0, <2>1, <3>1, <3>2, BackingsReported, Zenon
    <3> QED BY <2>2, <3>1, <3>3, Zenon DEF Progress
  <2> QED BY <1>5, <2>4, <2>5, <2>6, <2>7, <2>8, <2>9, <2>10, <2>11, Zenon
<1>6. ASSUME Direct \/ Probe \/ PlainCall \/ Canary \/ SwapIn \/ SwapDone
             \/ SwappedCall \/ SwapOut
      PROVE  pc' # "idle"
  <2>1. CASE Direct \/ PlainCall \/ SwappedCall \/ Canary \/ SwapDone \/ SwapOut
    BY <2>1, Zenon DEF Direct, PlainCall, SwappedCall, Canary, SwapDone, SwapOut
  <2>2. CASE SwapIn
    BY <2>2, Zenon DEF SwapIn
  <2>3. CASE Probe
    BY <2>3, Zenon DEF Probe
  <2> QED BY <1>6, <2>1, <2>2, <2>3, Zenon
<1> QED BY <1>1, <1>2, <1>3, <1>4, <1>5, <1>6, Zenon DEF Next, Step

-----------------------------------------------------------------------------
\* A process that has not polled yet.
LEMMA InitIInv == Init => IInv
<1> SUFFICES ASSUME Init PROVE IInv
  BY Zenon
<1>1. TypeOK
  <2>1. swaps \in Seq(Swap)
    BY SMTT(30) DEF Init
  <2>2. user \in [Entries -> Fds \cup {Neg}] /\ fds = user
    BY Zenon DEF Init
  <2>3. pc \in Pcs /\ result \in Int /\ idx \in Nat \ {0} /\ slept \in Nat
    BY SMTT(30) DEF Init, Pcs
  <2>4. wraps \subseteq Synths /\ std \subseteq Entries /\ revents \subseteq Entries
        /\ disturbed \in BOOLEAN
    BY Zenon DEF Init
  <2> QED BY <2>1, <2>2, <2>3, <2>4, Zenon DEF TypeOK
<1>2. DOMAIN swaps = {} /\ Len(swaps) = 0 /\ Swapped = {}
  BY SMTT(30) DEF Init, Swapped
<1>3. Counted
  BY <1>2, FS_EmptySet, Zenon DEF Counted
<1>4. Restorable
  BY <1>2, EntriesAssumption, SMTT(30) DEF Init, Restorable
<1>5. Progress /\ ~disturbed
  BY Zenon DEF Init, Progress
<1> QED BY <1>1, <1>3, <1>4, <1>5, Zenon DEF IInv

\* IInv is inductive.
LEMMA Invariance == Spec => []IInv
<1>1. IInv /\ [Next]_vars => IInv'
  BY TypeStep, RestorableStep, ProgressStep, Zenon DEF IInv
<1> QED BY <1>1, InitIInv, PTL DEF Spec

\* poll_swap_out undoes what poll_swap_in did, for every array and also when other
\* threads wrap and unwrap fds between the two; the swaps fit MAX_SWAPS.
THEOREM ArrayRestored == Spec => []FdsRestored
<1>1. IInv => FdsRestored
  BY Zenon DEF IInv, Restorable, FdsRestored
<1> QED BY <1>1, Invariance, PTL

\* poll_dispatch waits at most once, and reports of every wrap what the kernel
\* says of its backing.
THEOREM AnswersAsBacking == Spec => []ReportsBacking
<1>1. IInv => ReportsBacking
  BY Zenon DEF IInv, Progress, ReportsBacking, Few, Wrapped
<1> QED BY <1>1, Invariance, PTL

-----------------------------------------------------------------------------
CONSTANTS Threads, Readers, Setters, Wraps, WrapOf, Settings, Counts, Bytes
VARIABLES
  termios, nonblock, cache, stale, avail, left, hup, given, stolen, place, wanted, vmin, vtime, total, cut

Tty == INSTANCE TtyRead WITH pc <- place, arg <- wanted

\* Terminal settings, as far as reads depend on them.
TtySetting == [canon : BOOLEAN, vmin : Nat, vtime : Nat]

\* The argument of a call: a setting, a size or O_NONBLOCK.
TtyArg     == [setting : TtySetting, count : Nat, nb : BOOLEAN]

\* What struct tty_state holds.
TtyCache   == [canon : BOOLEAN, vmin : Nat, vtime : Nat, nonblock : BOOLEAN]

\* Where a thread may be.
TtyPcs     == {"idle", "set canon", "set vmin", "set vtime", "set nonblock", "canon", "nonblock", "pass",
               "vmin", "vtime", "poll", "read", "done"}

\* What the constants are: wraps, settings, sizes and a number of bytes.
TtyUse ==
  /\ WrapOf \in [Threads -> Wraps] /\ Settings \subseteq TtySetting /\ Counts \subseteq Nat
  /\ Bytes \in Nat

\* The types of the variables.
TtyTypes ==
  /\ cache \in [Wraps -> TtyCache] /\ avail \in Nat /\ left \in Nat
  /\ wanted \in [Threads -> TtyArg]
  /\ vmin \in [Threads -> Nat] /\ vtime \in [Threads -> Nat] /\ total \in [Threads -> Nat]
  /\ place \in [Threads -> TtyPcs] /\ cut \in [Threads -> BOOLEAN]

\* What tty_read knows in its loop: it has fewer bytes than asked for and than
\* VMIN, and when it is done it has enough.
ReadAt(u) ==
  /\ total[u] <= wanted[u].count
  /\ place[u] \notin {"poll", "read", "done"} => total[u] = 0
  /\ place[u] \in {"vmin", "vtime"} => wanted[u].count > 0
  /\ place[u] \in {"poll", "read"} => total[u] < wanted[u].count /\ (total[u] = 0 \/ total[u] < vmin[u])
  /\ place[u] = "done" /\ ~cut[u] /\ vmin[u] > 0 =>
       IF vtime[u] = 0 THEN total[u] >= vmin[u] \/ total[u] >= wanted[u].count ELSE total[u] >= 1

\* A thread enters read only when there is input or a hang-up, unless another
\* has taken the input.
LetIn(u) == place[u] = "read" /\ u \notin stolen => avail > 0 \/ hup

\* The inductive invariant.
TtyInv == TtyTypes /\ \A u \in Threads : ReadAt(u) /\ LetIn(u)

\* Min of two numbers is the lesser one.
LEMMA LesserOf ==
  ASSUME NEW a \in Int, NEW b \in Int
  PROVE  Tty!Min({a, b}) \in {a, b} /\ Tty!Min({a, b}) <= a /\ Tty!Min({a, b}) <= b
<1>1. \E x \in {a, b} : \A y \in {a, b} : x <= y
  <2>1. CASE a <= b
    BY <2>1, SMTT(30)
  <2>2. CASE ~(a <= b)
    BY <2>2, SMTT(30)
  <2> QED BY <2>1, <2>2, Zenon
<1>2. Tty!Min({a, b}) \in {a, b} /\ \A y \in {a, b} : Tty!Min({a, b}) <= y
  BY <1>1, Zenon DEF Tty!Min
<1> QED BY <1>2, Zenon

\* The invariant says what a read returns and that it does not block.
LEMMA TtyInvSafe ==
  ASSUME TtyInv
  PROVE  Tty!ReadContract /\ Tty!TimedReadNeverBlocks
<1>1. ASSUME NEW t \in Threads, place[t] = "done", ~cut[t], vmin[t] > 0
      PROVE  total[t] >= IF vtime[t] = 0 THEN Tty!Min({vmin[t], wanted[t].count}) ELSE 1
  <2>1. vmin[t] \in Int /\ wanted[t].count \in Int /\ total[t] \in Int
    BY SMTT(30) DEF TtyInv, TtyTypes, TtyArg
  <2>2. IF vtime[t] = 0 THEN total[t] >= vmin[t] \/ total[t] >= wanted[t].count ELSE total[t] >= 1
    BY <1>1, Zenon DEF TtyInv, ReadAt
  <2>3. Tty!Min({vmin[t], wanted[t].count}) \in Int /\ Tty!Min({vmin[t], wanted[t].count}) <= vmin[t]
        /\ Tty!Min({vmin[t], wanted[t].count}) <= wanted[t].count
    BY <2>1, LesserOf, Zenon
  <2> QED BY <2>1, <2>2, <2>3, SMTT(30)
<1>2. Tty!ReadContract
  BY <1>1, Zenon DEF Tty!ReadContract, TtyInv, ReadAt
<1>3. Tty!TimedReadNeverBlocks
  BY Zenon DEF Tty!TimedReadNeverBlocks, TtyInv, LetIn
<1> QED BY <1>2, <1>3

\* The other threads' calls stay as they are.
TtyOthers(t) ==
  \A u \in Threads \ {t} :
    /\ place'[u] = place[u] /\ wanted'[u] = wanted[u] /\ vmin'[u] = vmin[u] /\ vtime'[u] = vtime[u]
    /\ total'[u] = total[u] /\ cut'[u] = cut[u]

\* The input stays as it is.
SameInput == avail' = avail /\ hup' = hup /\ stolen' = stolen

\* A step of thread t that keeps what is known of t keeps the invariant.
LEMMA OthersFine ==
  ASSUME TtyInv, NEW t \in Threads, TtyOthers(t), TtyTypes', ReadAt(t)', LetIn(t)',
         hup' = hup, SameInput \/ Tty!Steal(t)
  PROVE  TtyInv'
<1>1. ASSUME NEW u \in Threads \ {t} PROVE ReadAt(u)'
  <2>1. ReadAt(u)
    BY <1>1, Zenon DEF TtyInv
  <2>2. /\ place'[u] = place[u] /\ wanted'[u] = wanted[u] /\ vmin'[u] = vmin[u] /\ vtime'[u] = vtime[u]
        /\ total'[u] = total[u] /\ cut'[u] = cut[u]
    BY <1>1, Zenon DEF TtyOthers
  <2> QED BY <2>1, <2>2, Zenon DEF ReadAt
<1>2. ASSUME NEW u \in Threads \ {t}, place'[u] = "read", u \notin stolen' PROVE avail' > 0 \/ hup'
  <2>1. place[u] = "read"
    BY <1>2, Zenon DEF TtyOthers
  <2>2. CASE SameInput
    <3>1. u \notin stolen /\ avail' = avail /\ hup' = hup
      BY <1>2, <2>2, Zenon DEF SameInput
    <3>2. LetIn(u)
      BY <1>2, Zenon DEF TtyInv
    <3>3. avail > 0 \/ hup
      BY <2>1, <3>1, <3>2, Zenon DEF LetIn
    <3>4. avail > 0 => avail' > 0
      BY <3>1, Zenon
    <3> QED BY <3>3, <3>4, Zenon
  <2>3. CASE Tty!Steal(t)
    <3>1. u \notin stolen /\ ~(avail' < avail)
      BY <1>2, <2>1, <2>3, Zenon DEF Tty!Steal
    <3>2. avail > 0 \/ hup
      BY <1>2, <2>1, <3>1, Zenon DEF TtyInv, LetIn
    <3>3. avail \in Nat /\ avail' \in Nat
      BY Zenon DEF TtyInv, TtyTypes
    <3>4. avail > 0 => avail' > 0
      BY <3>1, <3>3, SMTT(30)
    <3> QED BY <3>2, <3>4, Zenon
  <2> QED BY <2>2, <2>3, Zenon
<1> QED BY <1>1, <1>2, Zenon DEF TtyInv, LetIn

\* A call that returns keeps the invariant.
LEMMA TtyFinishes ==
  ASSUME TtyInv, NEW t \in Threads, Tty!Finish(t), cache' \in [Wraps -> TtyCache], avail' \in Nat,
         left' \in Nat,
         hup' = hup, SameInput \/ Tty!Steal(t)
  PROVE  TtyInv'
<1>1. TtyTypes
  BY Zenon DEF TtyInv
<1>2. Tty!NoArg \in TtyArg /\ Tty!NoArg.count = 0 /\ 0 \in Nat /\ FALSE \in BOOLEAN /\ "idle" \in TtyPcs
  BY SMTT(30) DEF Tty!NoArg, TtyArg, TtySetting, Tty!Cooked, TtyPcs
<1>3. TtyTypes'
  BY <1>1, <1>2, Zenon DEF TtyTypes, Tty!Finish, Tty!Goto
<1>4. TtyOthers(t)
  BY <1>1, Zenon DEF TtyOthers, TtyTypes, Tty!Finish, Tty!Goto
<1>5. place'[t] = "idle" /\ wanted'[t] = Tty!NoArg /\ total'[t] = 0
  BY <1>1, Zenon DEF TtyTypes, Tty!Finish, Tty!Goto
<1>6. 0 <= 0
  BY SMTT(30)
<1>7. ReadAt(t)'
  BY <1>2, <1>5, <1>6, Zenon DEF ReadAt
<1>8. LetIn(t)'
  BY <1>5, Zenon DEF LetIn
<1> QED BY <1>3, <1>4, <1>7, <1>8, OthersFine, Zenon

\* What is left of a step that only moves t, and stores what it loaded.
Settles(t, p) ==
  /\ p \in TtyPcs \ {"read", "done"} /\ place[t] \notin {"poll", "read", "done"}
  /\ p \in {"vmin", "vtime", "poll"} => wanted'[t].count > 0
  /\ Tty!Goto(t, p) /\ wanted' \in [Threads -> TtyArg] /\ vmin' \in [Threads -> Nat]
  /\ vtime' \in [Threads -> Nat]
  /\ total' = total /\ cut' = cut /\ cache' \in [Wraps -> TtyCache]
  /\ avail' = avail /\ left' = left /\ hup' = hup /\ stolen' = stolen
  /\ \A u \in Threads \ {t} : wanted'[u] = wanted[u] /\ vmin'[u] = vmin[u] /\ vtime'[u] = vtime[u]

\* So does a step that only goes on.
LEMMA TtyMoves ==
  ASSUME TtyInv, NEW t \in Threads, NEW p, Settles(t, p)
  PROVE  TtyInv'
<1>1. TtyTypes
  BY Zenon DEF TtyInv
<1>2. TtyTypes'
  BY <1>1, Zenon DEF TtyTypes, Settles, Tty!Goto
<1>3. place'[t] = p /\ \A u \in Threads \ {t} : place'[u] = place[u]
  BY <1>1, Zenon DEF TtyTypes, Settles, Tty!Goto
<1>4. TtyOthers(t) /\ hup' = hup /\ SameInput
  BY <1>3, Zenon DEF TtyOthers, Settles, SameInput
<1>5. total'[t] = 0
  BY Zenon DEF TtyInv, ReadAt, Settles
<1>6. wanted'[t].count \in Nat
  BY <1>2, SMTT(30) DEF TtyTypes, TtyArg
<1>7. total'[t] <= wanted'[t].count /\ (wanted'[t].count > 0 => total'[t] < wanted'[t].count)
  BY <1>5, <1>6, SMTT(30)
<1>10. p \notin {"read", "done"} /\ (p \in {"vmin", "vtime", "poll"} => wanted'[t].count > 0)
  BY Zenon DEF Settles
<1>8. ReadAt(t)'
  BY <1>3, <1>5, <1>7, <1>10, Zenon DEF ReadAt
<1>9. LetIn(t)'
  BY <1>3, <1>10, Zenon DEF LetIn
<1> QED BY <1>2, <1>4, <1>8, <1>9, OthersFine, Zenon

\* tcsetattr and fcntl, and the stores into struct tty_state one by one.
LEMMA SettersFine ==
  ASSUME TtyUse, TtyInv, NEW t \in Threads,
         \/ \E s \in Settings : Tty!SetAttr(t, s)
         \/ Tty!StoreCanon(t) \/ Tty!StoreVmin(t) \/ Tty!StoreVtime(t)
         \/ \E nb \in BOOLEAN : Tty!SetFl(t, nb)
         \/ Tty!StoreNonblock(t)
  PROVE  TtyInv'
<1>1. TtyTypes
  BY Zenon DEF TtyInv
<1>2. /\ WrapOf[t] \in Wraps /\ cache[WrapOf[t]] \in TtyCache
      /\ wanted[t] \in TtyArg
  BY <1>1, Zenon DEF TtyUse, TtyTypes
<1>3. wanted[t].setting.canon \in BOOLEAN /\ wanted[t].setting.vmin \in Nat
      /\ wanted[t].setting.vtime \in Nat
      /\ wanted[t].nb \in BOOLEAN /\ wanted[t].setting \in TtySetting /\ wanted[t].count \in Nat
  BY <1>2, SMTT(30) DEF TtyArg, TtySetting
<1>4. ASSUME NEW s \in Settings, Tty!SetAttr(t, s) PROVE TtyInv'
  <2>1. s \in TtySetting
    BY Zenon DEF TtyUse
  <2>2. [wanted[t] EXCEPT !.setting = s] \in TtyArg
    BY <1>2, <2>1, Zenon DEF TtyArg
  <2>3. Settles(t, "set canon")
    BY <1>1, <1>4, <2>2, Zenon DEF Tty!SetAttr, Settles, TtyPcs, TtyTypes, Tty!input
  <2> QED BY <2>3, TtyMoves, Zenon
<1>5. ASSUME Tty!StoreCanon(t) PROVE TtyInv'
  <2>1. [cache[WrapOf[t]] EXCEPT !.canon = wanted[t].setting.canon] \in TtyCache
    BY <1>2, <1>3, Zenon DEF TtyCache
  <2>2. Settles(t, "set vmin")
    BY <1>1, <1>2, <1>5, <2>1, Zenon DEF Tty!StoreCanon, Settles, TtyPcs, TtyTypes, Tty!input, Tty!call
  <2> QED BY <2>2, TtyMoves, Zenon
<1>6. ASSUME Tty!StoreVmin(t) PROVE TtyInv'
  <2>1. [cache[WrapOf[t]] EXCEPT !.vmin = wanted[t].setting.vmin] \in TtyCache
    BY <1>2, <1>3, Zenon DEF TtyCache
  <2>2. Settles(t, "set vtime")
    BY <1>1, <1>2, <1>6, <2>1, Zenon DEF Tty!StoreVmin, Settles, TtyPcs, TtyTypes, Tty!input, Tty!call
  <2> QED BY <2>2, TtyMoves, Zenon
<1>7. ASSUME Tty!StoreVtime(t) PROVE TtyInv'
  <2>1. [cache[WrapOf[t]] EXCEPT !.vtime = wanted[t].setting.vtime] \in TtyCache
    BY <1>2, <1>3, Zenon DEF TtyCache
  <2>2. cache' \in [Wraps -> TtyCache]
    BY <1>1, <1>2, <1>7, <2>1, Zenon DEF Tty!StoreVtime, TtyTypes
  <2>3. Tty!Finish(t) /\ avail' \in Nat /\ left' \in Nat /\ hup' = hup /\ SameInput
    BY <1>1, <1>7, Zenon DEF Tty!StoreVtime, TtyTypes, Tty!input, SameInput
  <2> QED BY <2>2, <2>3, TtyFinishes, Zenon
<1>8. ASSUME NEW nb \in BOOLEAN, Tty!SetFl(t, nb) PROVE TtyInv'
  <2>2. [wanted[t] EXCEPT !.nb = nb] \in TtyArg
    BY <1>2, Zenon DEF TtyArg
  <2>3. Settles(t, "set nonblock")
    BY <1>1, <1>8, <2>2, Zenon DEF Tty!SetFl, Settles, TtyPcs, TtyTypes, Tty!input
  <2> QED BY <2>3, TtyMoves, Zenon
<1>9. ASSUME Tty!StoreNonblock(t) PROVE TtyInv'
  <2>1. [cache[WrapOf[t]] EXCEPT !.nonblock = wanted[t].nb] \in TtyCache
    BY <1>2, <1>3, Zenon DEF TtyCache
  <2>2. cache' \in [Wraps -> TtyCache]
    BY <1>1, <1>2, <1>9, <2>1, Zenon DEF Tty!StoreNonblock, TtyTypes
  <2>3. Tty!Finish(t) /\ avail' \in Nat /\ left' \in Nat /\ hup' = hup /\ SameInput
    BY <1>1, <1>9, Zenon DEF Tty!StoreNonblock, TtyTypes, Tty!input, SameInput
  <2> QED BY <2>2, <2>3, TtyFinishes, Zenon
<1> QED BY <1>4, <1>5, <1>6, <1>7, <1>8, <1>9, Zenon

\* tty_read starts, and loads the cached settings one by one.
LEMMA LoadsFine ==
  ASSUME TtyUse, TtyInv, NEW t \in Threads,
         (\E n \in Counts : Tty!Read(t, n)) \/ Tty!LoadCanon(t) \/ Tty!LoadNonblock(t) \/ Tty!LoadVmin(t) \/ Tty!LoadVtime(t)
  PROVE  TtyInv'
<1>1. TtyTypes /\ ReadAt(t)
  BY Zenon DEF TtyInv
<1>2. /\ WrapOf[t] \in Wraps /\ cache[WrapOf[t]] \in TtyCache /\ wanted[t] \in TtyArg
  BY <1>1, Zenon DEF TtyUse, TtyTypes
<1>3. Tty!Cached(t).vmin \in Nat /\ Tty!Cached(t).vtime \in Nat
  BY <1>2, SMTT(30) DEF TtyCache, Tty!Cached
<1>4. ASSUME NEW n \in Counts, Tty!Read(t, n) PROVE TtyInv'
  <2>1. n \in Nat
    BY Zenon DEF TtyUse
  <2>2. [wanted[t] EXCEPT !.count = n] \in TtyArg
    BY <1>2, <2>1, Zenon DEF TtyArg
  <2>3. Settles(t, "canon")
    BY <1>1, <1>4, <2>2, Zenon DEF Tty!Read, Settles, TtyPcs, TtyTypes, Tty!input
  <2> QED BY <2>3, TtyMoves, Zenon
<1>5. ASSUME Tty!LoadCanon(t) PROVE TtyInv'
  <2>1. PICK p \in {"pass", "nonblock"} : Tty!Goto(t, p)
    BY <1>5, Zenon DEF Tty!LoadCanon
  <2>2. Settles(t, p)
    BY <1>1, <1>5, <2>1, Zenon DEF Tty!LoadCanon, Settles, TtyPcs, TtyTypes, Tty!input, Tty!call
  <2> QED BY <2>1, <2>2, TtyMoves, Zenon
<1>6. ASSUME Tty!LoadNonblock(t) PROVE TtyInv'
  <2>1. place[t] = "nonblock" /\ UNCHANGED <<termios, nonblock, cache, Tty!input>>
    BY <1>6, Zenon DEF Tty!LoadNonblock
  <2>2. CASE Tty!Finish(t)
    <3>1. cache' \in [Wraps -> TtyCache] /\ avail' \in Nat /\ left' \in Nat /\ hup' = hup /\ SameInput
      BY <1>1, <2>1, Zenon DEF TtyTypes, Tty!input, SameInput
    <3> QED BY <2>2, <3>1, TtyFinishes, Zenon
  <2>3. CASE Tty!Goto(t, "pass") /\ UNCHANGED Tty!call
    <3>1. Settles(t, "pass")
      BY <1>1, <2>1, <2>3, Zenon DEF Settles, TtyPcs, TtyTypes, Tty!input, Tty!call
    <3> QED BY <2>1, <3>1, TtyMoves, Zenon
  <2>4. CASE wanted[t].count > 0 /\ Tty!Goto(t, "vmin") /\ UNCHANGED Tty!call
    <3>1. Settles(t, "vmin") /\ wanted'[t].count > 0
      BY <1>1, <2>1, <2>4, Zenon DEF Settles, TtyPcs, TtyTypes, Tty!input, Tty!call
    <3> QED BY <2>1, <3>1, TtyMoves, Zenon
  <2> QED BY <1>6, <2>2, <2>3, <2>4, Zenon DEF Tty!LoadNonblock
<1>7. ASSUME Tty!LoadVmin(t) PROVE TtyInv'
  <2>2. place[t] = "vmin" /\ wanted'[t].count > 0
    BY <1>1, <1>7, Zenon DEF Tty!LoadVmin, ReadAt
  <2>1. Settles(t, "vtime")
    BY <1>1, <1>3, <1>7, <2>2, Zenon DEF Tty!LoadVmin, Settles, TtyPcs, TtyTypes, Tty!input
  <2> QED BY <2>1, TtyMoves, Zenon
<1>8. ASSUME Tty!LoadVtime(t) PROVE TtyInv'
  <2>2. place[t] = "vtime" /\ wanted'[t].count > 0
    BY <1>1, <1>8, Zenon DEF Tty!LoadVtime, ReadAt
  <2>1. Settles(t, "poll")
    BY <1>1, <1>3, <1>8, <2>2, Zenon DEF Tty!LoadVtime, Settles, TtyPcs, TtyTypes, Tty!input
  <2> QED BY <2>1, TtyMoves, Zenon
<1> QED BY <1>4, <1>5, <1>6, <1>7, <1>8, Zenon

\* The poll before each read, with its timeouts.
LEMMA PollFine ==
  ASSUME TtyInv, NEW t \in Threads, Tty!Poll(t)
  PROVE  TtyInv'
<1>1. TtyTypes /\ ReadAt(t)
  BY Zenon DEF TtyInv
<1>2. /\ place[t] = "poll" /\ cache' = cache /\ avail' = avail /\ left' = left /\ hup' = hup
      /\ stolen' = stolen
      /\ wanted' = wanted /\ vmin' = vmin /\ vtime' = vtime /\ total' = total
  BY Zenon DEF Tty!Poll, Tty!input
<1>3. \/ (avail > 0 \/ hup) /\ Tty!Goto(t, "read") /\ cut' = cut
      \/ Tty!TimesOut(t) /\ Tty!Goto(t, "done") /\ cut' = cut
      \/ Tty!Goto(t, "done") /\ cut' = [cut EXCEPT ![t] = TRUE]
  BY Zenon DEF Tty!Poll
<1>4. (Tty!Goto(t, "read") \/ Tty!Goto(t, "done")) /\ cut' \in [Threads -> BOOLEAN]
      /\ \A u \in Threads \ {t} : cut'[u] = cut[u]
  BY <1>1, <1>3, Zenon DEF TtyTypes
<1>5. place' \in [Threads -> TtyPcs] /\ \A u \in Threads \ {t} : place'[u] = place[u]
  BY <1>1, <1>4, Zenon DEF TtyTypes, Tty!Goto, TtyPcs
<1>6. TtyTypes'
  BY <1>1, <1>2, <1>4, <1>5, Zenon DEF TtyTypes
<1>7. TtyOthers(t) /\ hup' = hup /\ SameInput
  BY <1>2, <1>4, <1>5, Zenon DEF TtyOthers, SameInput
<1>8. vmin[t] \in Nat /\ vtime[t] \in Nat /\ total[t] \in Nat
  BY <1>1, Zenon DEF TtyTypes
<1>9. total[t] <= wanted[t].count /\ total[t] < wanted[t].count /\ (total[t] = 0 \/ total[t] < vmin[t])
  BY <1>1, <1>2, Zenon DEF ReadAt
<1>10. CASE (avail > 0 \/ hup) /\ Tty!Goto(t, "read") /\ cut' = cut
  <2>1. place'[t] = "read"
    BY <1>1, <1>10, Zenon DEF TtyTypes, Tty!Goto
  <2>2. ReadAt(t)'
    BY <1>2, <1>9, <2>1, Zenon DEF ReadAt
  <2>3. avail > 0 => avail' > 0
    BY <1>2, Zenon
  <2>4. LetIn(t)'
    BY <1>2, <1>10, <2>3, Zenon DEF LetIn
  <2> QED BY <1>6, <1>7, <2>2, <2>4, OthersFine, Zenon
<1>11. CASE Tty!TimesOut(t) /\ Tty!Goto(t, "done") /\ cut' = cut
  <2>1. place'[t] = "done"
    BY <1>1, <1>11, Zenon DEF TtyTypes, Tty!Goto
  <2>2. vmin[t] > 0 => vtime[t] # 0 /\ total[t] >= 1
    BY <1>8, <1>11, SMTT(30) DEF Tty!TimesOut
  <2>3. ReadAt(t)'
    BY <1>2, <1>9, <2>1, <2>2, Zenon DEF ReadAt
  <2>4. LetIn(t)'
    BY <2>1, Zenon DEF LetIn
  <2> QED BY <1>6, <1>7, <2>3, <2>4, OthersFine, Zenon
<1>12. CASE Tty!Goto(t, "done") /\ cut' = [cut EXCEPT ![t] = TRUE]
  <2>1. place'[t] = "done" /\ cut'[t]
    BY <1>1, <1>12, Zenon DEF TtyTypes, Tty!Goto
  <2>3. ReadAt(t)'
    BY <1>2, <1>9, <2>1, Zenon DEF ReadAt
  <2>4. LetIn(t)'
    BY <2>1, Zenon DEF LetIn
  <2> QED BY <1>6, <1>7, <2>3, <2>4, OthersFine, Zenon
<1> QED BY <1>3, <1>10, <1>11, <1>12, Zenon

\* The read itself, which takes what there is.
LEMMA KernelReadFine ==
  ASSUME TtyInv, NEW t \in Threads, Tty!KernelRead(t)
  PROVE  TtyInv'
<1>1. TtyTypes /\ ReadAt(t)
  BY Zenon DEF TtyInv
<1>2. /\ place[t] = "read" /\ cache' = cache /\ left' = left /\ hup' = hup
      /\ wanted' = wanted /\ vmin' = vmin /\ vtime' = vtime /\ Tty!Steal(t)
  BY Zenon DEF Tty!KernelRead
<1>3. vmin[t] \in Nat /\ vtime[t] \in Nat /\ total[t] \in Nat /\ wanted[t].count \in Nat
      /\ avail \in Nat
  BY <1>1, SMTT(30) DEF TtyTypes, TtyArg
<1>4. total[t] < wanted[t].count
  BY <1>1, <1>2, Zenon DEF ReadAt
<1>5. CASE avail > 0
  <2> DEFINE n == Tty!Min({avail, wanted[t].count - total[t]})
  <2>1. /\ avail' = avail - n /\ total' = [total EXCEPT ![t] = @ + n]
        /\ Tty!Goto(t, IF Tty!Enough(t, total[t] + n) THEN "done" ELSE "poll") /\ cut' = cut
    BY <1>3, <1>5, SMTT(30) DEF Tty!KernelRead
  <2>2. wanted[t].count - total[t] \in Int /\ avail \in Int
    BY <1>3, SMTT(30)
  <2>3. n \in {avail, wanted[t].count - total[t]} /\ n <= avail /\ n <= wanted[t].count - total[t]
    BY <2>2, LesserOf, Zenon
  <2> HIDE DEF n
  <2>4. n \in Nat /\ n > 0 /\ avail' \in Nat /\ total[t] + n \in Nat /\ total[t] + n <= wanted[t].count
    BY <1>3, <1>4, <1>5, <2>1, <2>3, SMTT(30)
  <2>5. total' \in [Threads -> Nat] /\ total'[t] = total[t] + n /\ \A u \in Threads \ {t} : total'[u] = total[u]
    BY <1>1, <2>1, <2>4, Zenon DEF TtyTypes
  <2>6. /\ place'[t] = IF Tty!Enough(t, total[t] + n) THEN "done" ELSE "poll"
        /\ place' \in [Threads -> TtyPcs] /\ \A u \in Threads \ {t} : place'[u] = place[u]
    BY <1>1, <2>1, Zenon DEF TtyTypes, Tty!Goto, TtyPcs
  <2>7. TtyTypes'
    BY <1>1, <1>2, <2>1, <2>4, <2>5, <2>6, Zenon DEF TtyTypes
  <2>8. TtyOthers(t)
    BY <1>2, <2>1, <2>5, <2>6, Zenon DEF TtyOthers
  <2>9. LetIn(t)'
    BY <2>6, Zenon DEF LetIn
  <2>10. /\ Tty!Enough(t, total[t] + n) /\ vmin[t] > 0 => total[t] + n >= vmin[t] \/ total[t] + n >= wanted[t].count
         /\ ~Tty!Enough(t, total[t] + n) => total[t] + n < wanted[t].count /\ total[t] + n < vmin[t]
         /\ total[t] + n >= 1
    BY <1>3, <2>4, SMTT(30) DEF Tty!Enough
  <2>11. ReadAt(t)'
    BY <1>2, <2>4, <2>5, <2>6, <2>10, Zenon DEF ReadAt
  <2> QED BY <1>2, <2>7, <2>8, <2>9, <2>11, OthersFine, Zenon
<1>6. CASE ~(avail > 0)
  <2>1. Tty!Goto(t, "done") /\ cut' = [cut EXCEPT ![t] = TRUE] /\ avail' = avail /\ total' = total
    BY <1>6, Zenon DEF Tty!KernelRead
  <2>2. place'[t] = "done" /\ cut'[t] /\ place' \in [Threads -> TtyPcs] /\ cut' \in [Threads -> BOOLEAN]
        /\ \A u \in Threads \ {t} : place'[u] = place[u] /\ cut'[u] = cut[u]
    BY <1>1, <2>1, Zenon DEF TtyTypes, Tty!Goto, TtyPcs
  <2>3. TtyTypes' /\ TtyOthers(t) /\ LetIn(t)'
    BY <1>1, <1>2, <2>1, <2>2, Zenon DEF TtyTypes, TtyOthers, LetIn
  <2>4. ReadAt(t)'
    BY <1>1, <1>2, <2>1, <2>2, Zenon DEF ReadAt
  <2> QED BY <1>2, <2>3, <2>4, OthersFine, Zenon
<1> QED BY <1>5, <1>6, Zenon

\* Reads that pass through, and returns.
LEMMA TtyEndsFine ==
  ASSUME TtyInv, NEW t \in Threads, Tty!PassThrough(t) \/ Tty!Return(t)
  PROVE  TtyInv'
<1>1. TtyTypes
  BY Zenon DEF TtyInv
<1>2. CASE Tty!Return(t)
  <2>1. Tty!Finish(t) /\ cache' = cache /\ avail' = avail /\ left' = left /\ hup' = hup /\ SameInput
    BY <1>2, Zenon DEF Tty!Return, SameInput
  <2> QED BY <1>1, <2>1, TtyFinishes, Zenon DEF TtyTypes
<1>3. CASE Tty!PassThrough(t)
  <2>1. Tty!Finish(t) /\ cache' = cache /\ left' = left /\ hup' = hup /\ Tty!Steal(t)
    BY <1>3, Zenon DEF Tty!PassThrough
  <2>2. PICK n \in 0..Tty!Min({avail, wanted[t].count}) : avail' = avail - n
    BY <1>3, Zenon DEF Tty!PassThrough
  <2>3. avail \in Int /\ wanted[t].count \in Int /\ avail \in Nat
    BY <1>1, SMTT(30) DEF TtyTypes, TtyArg
  <2>4. Tty!Min({avail, wanted[t].count}) \in Int /\ Tty!Min({avail, wanted[t].count}) <= avail
    BY <2>3, LesserOf, Zenon
  <2>5. avail' \in Nat
    BY <2>2, <2>3, <2>4, SMTT(30)
  <2> QED BY <1>1, <2>1, <2>5, TtyFinishes, Zenon DEF TtyTypes
<1> QED BY <1>2, <1>3, Zenon

\* Input arrives, the line hangs up, or nothing happens.
LEMMA WorldFine ==
  ASSUME TtyInv, Tty!Arrive \/ Tty!HangUp \/ UNCHANGED Tty!vars
  PROVE  TtyInv'
<1>1. TtyTypes
  BY Zenon DEF TtyInv
<1>2. /\ cache' = cache /\ wanted' = wanted /\ vmin' = vmin /\ vtime' = vtime /\ total' = total
      /\ cut' = cut
      /\ place' = place /\ stolen' = stolen
  BY Zenon DEF Tty!Arrive, Tty!HangUp, Tty!vars, Tty!input, Tty!call
<1>3. /\ avail' \in Nat /\ left' \in Nat
      /\ avail > 0 => avail' > 0
  <2>1. CASE Tty!Arrive
    BY <1>1, <2>1, SMTT(30) DEF Tty!Arrive, TtyTypes
  <2>2. CASE ~Tty!Arrive
    <3>1. avail' = avail /\ left' = left
      BY <2>2, Zenon DEF Tty!HangUp, Tty!vars, Tty!input
    <3> QED BY <1>1, <3>1, Zenon DEF TtyTypes
  <2> QED BY <2>1, <2>2, Zenon
<1>4. hup => hup'
  BY Zenon DEF Tty!Arrive, Tty!HangUp, Tty!vars, Tty!input
<1>5. TtyTypes'
  BY <1>1, <1>2, <1>3, Zenon DEF TtyTypes
<1>6. ASSUME NEW u \in Threads PROVE ReadAt(u)' /\ LetIn(u)'
  <2>1. ReadAt(u) /\ LetIn(u)
    BY <1>6, Zenon DEF TtyInv
  <2> QED BY <1>2, <1>3, <1>4, <2>1, Zenon DEF ReadAt, LetIn
<1> QED BY <1>5, <1>6, Zenon DEF TtyInv

\* The invariant holds at first.
LEMMA TtyInit ==
  ASSUME TtyUse, Tty!Init
  PROVE  TtyInv
<1>1. Tty!NoArg \in TtyArg /\ Tty!NoArg.count = 0 /\ 0 \in Nat /\ "idle" \in TtyPcs
      /\ FALSE \in BOOLEAN /\ 0 <= 0
  BY SMTT(30) DEF Tty!NoArg, TtyArg, TtySetting, Tty!Cooked, TtyPcs
<1>2. [canon |-> TRUE, vmin |-> 1, vtime |-> 0, nonblock |-> FALSE] \in TtyCache
  BY SMTT(30) DEF TtyCache
<1>3. TtyTypes
  BY <1>1, <1>2, Zenon DEF Tty!Init, TtyTypes, TtyUse
<1>4. ASSUME NEW u \in Threads PROVE ReadAt(u) /\ LetIn(u)
  <2>1. place[u] = "idle" /\ wanted[u] = Tty!NoArg /\ total[u] = 0
    BY Zenon DEF Tty!Init
  <2> QED BY <1>1, <2>1, Zenon DEF ReadAt, LetIn
<1> QED BY <1>3, <1>4, Zenon DEF TtyInv

\* A raw read from a wrapped tty that no error, signal or hang-up ended
\* returns at least VMIN bytes or a full buffer, or with a VTIME at least one
\* byte, by the settings it loaded, and never more than was asked for; with
\* VMIN = 0 it enters the kernel's read only when that cannot block, unless
\* another reader took the input (tty_read). For any number of threads, wraps
\* and settings.
THEOREM ReadsServed == TtyUse => (Tty!Spec => [](Tty!ReadContract /\ Tty!TimedReadNeverBlocks))
<1> SUFFICES ASSUME TtyUse PROVE Tty!Spec => [](Tty!ReadContract /\ Tty!TimedReadNeverBlocks)
  OBVIOUS
<1>1. Tty!Init => TtyInv
  BY TtyInit
<1>2. TtyInv /\ [Tty!Next]_Tty!vars => TtyInv'
  BY SettersFine, LoadsFine, PollFine, KernelReadFine, TtyEndsFine, WorldFine, Zenon DEF Tty!Next, Tty!Setting, Tty!Reading
<1>3. TtyInv => Tty!ReadContract /\ Tty!TimedReadNeverBlocks
  BY TtyInvSafe
<1> QED BY <1>1, <1>2, <1>3, PTL DEF Tty!Spec
=============================================================================
