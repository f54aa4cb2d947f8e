------------------------------ MODULE Select ------------------------------
(***************************************************************************)
(* select and pselect over synthetic fds (poll.c: sel_dispatch).  The sets *)
(* are functions from a direction to a set of fd numbers; the kernel fails *)
(* with EPERM on an O_PATH fd, looks at the numbers below its nfds only,   *)
(* writes the sets unless it fails, and chooses what is ready at every     *)
(* call.  The caller's sets have no bit at or above its nfds.              *)
(***************************************************************************)
EXTENDS Integers, Sequences, FiniteSets, FiniteSetsExt

CONSTANTS
  MaxFd,       \* fd numbers are 0..MaxFd
  FdSetSize,   \* FD_SETSIZE (1024 in the code)
  MaxSwaps,    \* MAX_SWAPS (64 in the code)
  Dirs,        \* read, write, except
  Backings     \* the maps from wraps to their backing fds to consider

Fds == 0..MaxFd

EPERM == -1
Other == -2    \* -1 with any other errno

VARIABLES
  real,          \* wslcompat_synth_passthru: wrap -> backing fd
  user, nfds,    \* the caller's arguments
  sets,          \* the three sets now
  ready,         \* what was ready at the last kernel call
  pc, rv, fd,    \* where the call is, its value, the fd sel_swap_in is at
  eff, swaps     \* eff_nfds and the recorded swaps

vars == <<real, user, nfds, sets, ready, pc, rv, fd, eff, swaps>>

Empty == [d \in Dirs |-> {}]

Init ==
  /\ real \in Backings
  /\ user = Empty /\ sets = Empty /\ ready = Empty
  /\ nfds = 0 /\ eff = 0 /\ rv = 0 /\ fd = 0 /\ swaps = << >>
  /\ pc = "idle"

Below(n, s)  == {f \in s : f < n}
Watched(n)   == UNION {Below(n, sets[d]) : d \in Dirs}
Bits(s)      == MapThenSumSet(LAMBDA d : Cardinality(s[d]), Dirs)
Subsets(s)   == {t \in [Dirs -> SUBSET UNION {s[d] : d \in Dirs}] : \A d \in Dirs : t[d] \subseteq s[d]}

\* The system call with n for nfds.  A call that fails writes nothing.
KernelCall(n) ==
  \/ /\ rv' = IF Watched(n) \cap DOMAIN real # {} THEN EPERM ELSE Other
     /\ UNCHANGED <<sets, ready>>
  \/ /\ Watched(n) \cap DOMAIN real = {}
     /\ \E r \in Subsets([d \in Dirs |-> Below(n, sets[d])]) :
          /\ ready' = r
          /\ sets' = [d \in Dirs |-> r[d] \cup (sets[d] \ Below(n, sets[d]))]
          /\ rv' = Bits(r)

-----------------------------------------------------------------------------

Call(n, s) ==
  /\ pc = "idle"
  /\ user' = s /\ sets' = s /\ nfds' = n /\ eff' = n
  /\ pc' = "canary"
  /\ UNCHANGED <<real, ready, rv, fd, swaps>>

Canary ==
  /\ pc = "canary"
  /\ KernelCall(nfds)
  /\ pc' = IF rv' = EPERM THEN "swap" ELSE "done"
  /\ UNCHANGED <<real, user, nfds, fd, eff, swaps>>

\* Mutant: the limit is off by one.
SwappableOver(f) ==
  /\ f \in Watched(nfds) /\ f \in DOMAIN real
  /\ real[f] < FdSetSize
  /\ Len(swaps) <= MaxSwaps

Swappable(f) ==
  /\ f \in Watched(nfds) /\ f \in DOMAIN real
  /\ real[f] < FdSetSize
  /\ Len(swaps) < MaxSwaps

\* Record the swap and substitute the backing, direction by direction.
Swap(f) ==
  LET r == real[f]
      s == [d \in Dirs |-> f \in sets[d]] IN
  /\ swaps' = Append(swaps, [synth_fd |-> f, real_fd |-> r, s_in |-> s,
                             r_in |-> [d \in Dirs |-> r \in sets[d]]])
  /\ sets' = [d \in Dirs |-> IF s[d] THEN (sets[d] \ {f}) \cup {r} ELSE sets[d]]
  /\ eff' = IF r + 1 > eff THEN r + 1 ELSE eff

\* sel_swap_in, one fd at a time.
SwapIn ==
  /\ pc = "swap" /\ fd < nfds /\ fd < FdSetSize
  /\ IF Swappable(fd) THEN Swap(fd) ELSE UNCHANGED <<sets, swaps, eff>>
  /\ fd' = fd + 1
  /\ UNCHANGED <<real, user, nfds, ready, pc, rv>>

SwapDone ==
  /\ pc = "swap" /\ ~(fd < nfds /\ fd < FdSetSize)
  /\ fd' = 0
  /\ pc' = IF swaps = << >> THEN "done" ELSE "retry"
  /\ UNCHANGED <<real, user, nfds, sets, ready, rv, eff, swaps>>

Retry ==
  /\ pc = "retry"
  /\ KernelCall(eff)
  /\ pc' = "unwind"
  /\ UNCHANGED <<real, user, nfds, fd, eff, swaps>>

\* Mutant: one pass, which clears a backing that others still have to mirror.
UnwoundOnePass(s, d) ==
  LET Pass[i \in 0..Len(swaps)] ==
        IF i = 0 THEN s
        ELSE LET t == Pass[i - 1]  w == swaps[i] IN
             IF ~w.s_in[d] THEN t
             ELSE (IF w.real_fd \in t THEN t \cup {w.synth_fd} ELSE t)
                  \ (IF w.r_in[d] THEN {} ELSE {w.real_fd})
  IN  Pass[Len(swaps)]

\* sel_unwind: mirror every backing onto its wraps first, clear it after.
Unwound(s, d) ==
  LET mine == {i \in DOMAIN swaps : swaps[i].s_in[d]} IN
  (s \cup {swaps[i].synth_fd : i \in {j \in mine : swaps[j].real_fd \in s}})
    \ {swaps[i].real_fd : i \in {j \in mine : ~swaps[j].r_in[d]}}

\* sel_recount
Recount(n, s) ==
  Bits([d \in Dirs |-> Below(IF n < FdSetSize THEN n ELSE FdSetSize, s[d])])

\* The bits at or above FD_SETSIZE are counted by what is left of rv.
Unwind ==
  /\ pc = "unwind"
  /\ sets' = [d \in Dirs |-> Unwound(sets[d], d)]
  /\ rv' = IF rv > 0 THEN (rv - Recount(eff, sets)) + Recount(nfds, sets') ELSE rv
  /\ pc' = "done"
  /\ UNCHANGED <<real, user, nfds, ready, fd, eff, swaps>>

\* The caller takes the result.
Return ==
  /\ pc = "done"
  /\ pc' = "idle"
  /\ user' = Empty /\ sets' = Empty /\ ready' = Empty
  /\ nfds' = 0 /\ eff' = 0 /\ rv' = 0 /\ swaps' = << >>
  /\ UNCHANGED <<real, fd>>

Next ==
  \/ \E n \in 0..MaxFd + 1 : \E s \in [Dirs -> SUBSET (0..n - 1)] : Call(n, s)
  \/ Canary \/ SwapIn \/ SwapDone \/ Retry \/ Unwind \/ Return

-----------------------------------------------------------------------------
\* Properties.

\* What a kernel that knows the wraps would answer.
Expected ==
  [d \in Dirs |-> {f \in user[d] :
                     IF f \in DOMAIN real THEN real[f] \in ready[d] ELSE f \in ready[d]}]

\* select answers as such a kernel would.  After an error, of the first call
\* or of the retry, the caller has its own sets back, bit for bit (sel_unwind).
\* Otherwise "synth fds sharing the same real backing all see the event", the
\* caller sees the backing only if it "watched it too", and the value is the
\* number of bits set: "rv counted its (real_fd) bits; we've added synth bits
\* and possibly cleared real ones" (poll.c).  The swaps fit their array.
AnswersAsKernel ==
  /\ Len(swaps) <= MaxSwaps
  /\ pc = "done" => IF rv < 0 THEN sets = user ELSE sets = Expected /\ rv = Bits(sets)
=============================================================================
