------------------------------- MODULE Poll -------------------------------
(***************************************************************************)
(* poll and ppoll over synthetic fds (poll.c: poll_dispatch).              *)
(*                                                                         *)
(* One thread polls an array; other threads wrap and unwrap fds meanwhile. *)
(* An entry of the array is its fd and whether it asks for one of the four *)
(* standard events; revents is whether any event is reported.  The kernel  *)
(* reports a wrap, an O_PATH fd, at once if it was asked for a standard    *)
(* event and never otherwise.  Which other fds are ready is its choice at  *)
(* every call.                                                             *)
(***************************************************************************)
EXTENDS Integers, Sequences, FiniteSets

CONSTANTS
  NumEntries,   \* nfds
  Synths,       \* fds that may be wraps
  Others,       \* fds that never are, real backings included
  Real,         \* the backing fd of each wrap
  Neg,          \* a negative fd, which poll ignores
  MaxSwaps      \* MAX_SWAPS (64 in the code)

ASSUME EntriesAssumption == NumEntries \in Nat /\ MaxSwaps \in Nat
ASSUME FdsAssumption     == /\ Synths \cap Others = {} /\ Neg \notin Synths \cup Others
                            /\ Real \in [Synths -> Others]
                            /\ IsFiniteSet(Synths) /\ IsFiniteSet(Others)

Fds     == Synths \cup Others
Entries == 1..NumEntries
Error   == -1

VARIABLES
  wraps,      \* the fds that are wraps now
  user,       \* the fds the caller passed
  std,        \* the entries that ask for a standard event
  fds,        \* the fd fields now
  revents,    \* the entries with an event
  ready,      \* the fds that were ready at the last kernel call
  pc, result, \* where the call is, and what it returns
  idx, swaps, \* the swap loop and what it swapped: entry -> fd
  slept,      \* kernel calls that waited
  disturbed   \* wraps have changed during the call

vars == <<wraps, user, std, fds, revents, ready, pc, result, idx, swaps, slept, disturbed>>
arg  == <<user, std>>

Init ==
  /\ wraps = {}
  /\ user = [i \in Entries |-> Neg] /\ fds = user
  /\ std = {} /\ revents = {} /\ ready = {}
  /\ pc = "idle" /\ result = 0 /\ idx = 1 /\ swaps = << >>
  /\ slept = 0 /\ disturbed = FALSE

\* The entries the kernel reports for array a when the fds in r are ready.
Events(a, r) ==
  {i \in Entries : a[i] # Neg /\ IF a[i] \in wraps THEN i \in std ELSE a[i] \in r}

Polled == {fds[i] : i \in Entries} \ (wraps \cup {Neg})

\* A kernel call fails, or reports events; with a timeout it may wait first,
\* unless there is an event at once.
KernelCall(timeout) ==
  \/ result' = Error /\ UNCHANGED <<revents, ready, slept>>
  \/ \E r \in SUBSET Polled, wait \in BOOLEAN :
       /\ Events(fds, r) = {} => (wait <=> timeout)
       /\ wait => timeout /\ Events(fds, {}) = {}
       /\ ready' = r
       /\ revents' = Events(fds, r)
       /\ result' = Cardinality(Events(fds, r))
       /\ slept' = slept + IF wait THEN 1 ELSE 0

\* translate_synth_fd(fd) >= 0
IsSynth(f) == f \in wraps

-----------------------------------------------------------------------------

\* Without a wrap in the process the kernel is called directly.
Call(a, s) ==
  /\ pc = "idle"
  /\ user' = a /\ fds' = a /\ std' = s
  /\ pc' = IF wraps = {} THEN "direct" ELSE "probe"
  /\ disturbed' = FALSE
  /\ UNCHANGED <<wraps, revents, ready, result, idx, swaps, slept>>

Direct ==
  /\ pc = "direct"
  /\ KernelCall(TRUE)
  /\ pc' = "done"
  /\ UNCHANGED <<wraps, arg, fds, idx, swaps, disturbed>>

NeedsProactiveSwap == \E i \in Entries : fds[i] # Neg /\ i \notin std

\* Mutant: the probe waits.
ProbeWaits ==
  /\ pc = "probe"
  /\ KernelCall(TRUE)
  /\ pc' = IF result' = Error THEN "done"
           ELSE IF NeedsProactiveSwap THEN "proactive"
           ELSE IF result' = 0 THEN "call" ELSE "canary"
  /\ UNCHANGED <<wraps, arg, fds, idx, swaps, disturbed>>

\* kernel_probe
Probe ==
  /\ pc = "probe"
  /\ KernelCall(FALSE)
  /\ pc' = IF result' = Error THEN "done"
           ELSE IF NeedsProactiveSwap THEN "proactive"
           ELSE IF result' = 0 THEN "call" ELSE "canary"
  /\ UNCHANGED <<wraps, arg, fds, idx, swaps, disturbed>>

PlainCall ==
  /\ pc = "call"
  /\ KernelCall(TRUE)
  /\ pc' = IF result' <= 0 THEN "done" ELSE "canary"
  /\ UNCHANGED <<wraps, arg, fds, idx, swaps, disturbed>>

\* Mutant: the events of wraps are believed.
CanaryIgnored ==
  /\ pc = "canary"
  /\ pc' = "done"
  /\ UNCHANGED <<wraps, arg, fds, revents, ready, result, idx, swaps, slept, disturbed>>

\* poll_canary_fired
Canary ==
  /\ pc = "canary"
  /\ pc' = IF \E i \in revents : IsSynth(fds[i]) THEN "retry" ELSE "done"
  /\ UNCHANGED <<wraps, arg, fds, revents, ready, result, idx, swaps, slept, disturbed>>

\* Mutant: the limit is off by one.
SwapInOverflows ==
  /\ pc \in {"proactive", "retry"} /\ idx \in Entries
  /\ IF IsSynth(fds[idx]) /\ Len(swaps) <= MaxSwaps
       THEN /\ swaps' = Append(swaps, [idx |-> idx, synth_fd |-> fds[idx]])
            /\ fds' = [fds EXCEPT ![idx] = Real[fds[idx]]]
       ELSE UNCHANGED <<swaps, fds>>
  /\ idx' = idx + 1
  /\ UNCHANGED <<wraps, arg, revents, ready, pc, result, slept, disturbed>>

\* poll_swap_in, one entry at a time.
SwapIn ==
  /\ pc \in {"proactive", "retry"} /\ idx \in Entries
  /\ IF IsSynth(fds[idx]) /\ Len(swaps) < MaxSwaps
       THEN /\ swaps' = Append(swaps, [idx |-> idx, synth_fd |-> fds[idx]])
            /\ fds' = [fds EXCEPT ![idx] = Real[fds[idx]]]
       ELSE UNCHANGED <<swaps, fds>>
  /\ idx' = idx + 1
  /\ UNCHANGED <<wraps, arg, revents, ready, pc, result, slept, disturbed>>

\* Mutant: a canary without a swappable fd starts over.
SwapDoneRetries ==
  /\ pc \in {"proactive", "retry"} /\ idx \notin Entries
  /\ idx' = 1
  /\ pc' = IF pc = "retry" /\ swaps = << >> THEN "probe" ELSE "swapped"
  /\ UNCHANGED <<wraps, arg, fds, revents, ready, result, swaps, slept, disturbed>>

\* A canary without a swappable fd is ignored.
SwapDone ==
  /\ pc \in {"proactive", "retry"} /\ idx \notin Entries
  /\ idx' = 1
  /\ pc' = IF pc = "retry" /\ swaps = << >> THEN "done" ELSE "swapped"
  /\ UNCHANGED <<wraps, arg, fds, revents, ready, result, swaps, slept, disturbed>>

\* Mutant: the swaps are undone only after a call that succeeds.
SwappedCallErr ==
  /\ pc = "swapped"
  /\ KernelCall(TRUE)
  /\ pc' = IF result' = Error THEN "done" ELSE "swapout"
  /\ UNCHANGED <<wraps, arg, fds, idx, swaps, disturbed>>

SwappedCall ==
  /\ pc = "swapped"
  /\ KernelCall(TRUE)
  /\ pc' = "swapout"
  /\ UNCHANGED <<wraps, arg, fds, idx, swaps, disturbed>>

\* poll_swap_out
SwapOut ==
  /\ pc = "swapout"
  /\ fds' = [i \in Entries |->
               IF \E j \in DOMAIN swaps : swaps[j].idx = i
                 THEN swaps[CHOOSE j \in DOMAIN swaps : swaps[j].idx = i].synth_fd
                 ELSE fds[i]]
  /\ pc' = "done"
  /\ UNCHANGED <<wraps, arg, revents, ready, result, idx, swaps, slept, disturbed>>

\* The caller takes the result.
Return ==
  /\ pc = "done"
  /\ pc' = "idle"
  /\ user' = [i \in Entries |-> Neg] /\ fds' = user'
  /\ std' = {} /\ revents' = {} /\ ready' = {} /\ result' = 0 /\ swaps' = << >>
  /\ slept' = 0 /\ disturbed' = FALSE
  /\ UNCHANGED <<wraps, idx>>

\* Another thread wraps an fd, or the last fd of a wrap is closed.
Rewrap ==
  /\ \E f \in Synths : wraps' = IF f \in wraps THEN wraps \ {f} ELSE wraps \cup {f}
  /\ disturbed' = (pc # "idle")
  /\ UNCHANGED <<arg, fds, revents, ready, pc, result, idx, swaps, slept>>

Step ==
  \/ Direct \/ Probe \/ PlainCall \/ Canary \/ SwapIn \/ SwapDone \/ SwappedCall
  \/ SwapOut \/ Return

Next ==
  \/ Step \/ Rewrap
  \/ \E a \in [Entries -> Fds \cup {Neg}], s \in SUBSET Entries : Call(a, s)

Spec == Init /\ [][Next]_vars
FairSpec == Spec /\ WF_vars(Step)

-----------------------------------------------------------------------------
\* Properties.

\* "Restore each of the swaps we performed on syscall entry" (poll.c): the
\* caller gets its fds back, also after an error, and whatever other threads
\* wrap or unwrap during the call; and the swaps fit their array.
FdsRestored == (pc = "done" => fds = user) /\ Len(swaps) <= MaxSwaps

\* What a kernel that knows the wraps would report: a wrap is as ready as its
\* backing.
Expected ==
  {i \in Entries : user[i] # Neg /\
     IF user[i] \in wraps THEN Real[user[i]] \in ready ELSE user[i] \in ready}

\* Unless wraps change during the call, the probe, the call and its retry wait
\* for the caller's timeout once; and poll reports just that, and never a bogus
\* event of an O_PATH fd, if the array has no more wraps than MAX_SWAPS.
ReportsBacking ==
  pc = "done" /\ ~disturbed =>
    /\ slept <= 1
    /\ result # Error /\ Cardinality({i \in Entries : user[i] \in wraps}) <= MaxSwaps
         => revents = Expected /\ result = Cardinality(Expected)

\* "No retry loop" (TTY_DESIGN.md): poll returns once the kernel does, even
\* if other threads wrap and unwrap fds for ever.
PollReturns == pc # "idle" ~> pc = "idle"
=============================================================================
