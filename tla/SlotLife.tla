----------------------------- MODULE SlotLife -----------------------------
(***************************************************************************)
(* What the lock-free table of synthetic fds promises about its slots,     *)
(* stated without reference counts: a slot is free, being worked on by one *)
(* thread, or published, and goes round that cycle in one direction.  The  *)
(* worker alone fills it, runs its release and frees it.                   *)
(***************************************************************************)
CONSTANTS Slots, Threads, Inos, NoIno

VARIABLES
  published,  \* the slots a lookup can find
  work,       \* who works on each slot, and what is to be done next
  ino         \* the inode each slot is registered for

life == <<published, work, ino>>

Init ==
  /\ published = {}
  /\ work = [s \in Slots |-> {}]
  /\ ino = [s \in Slots |-> NoIno]

\* The worker of s is done with `from` and has `to` to do.
Advance(s, from, to) ==
  /\ work[s] = from
  /\ work' = [work EXCEPT ![s] = to]

Claim(t, s) ==
  /\ s \notin published
  /\ Advance(s, {}, {<<t, "fill">>})
  /\ UNCHANGED <<published, ino>>

Fill(t, s, k) ==
  /\ Advance(s, {<<t, "fill">>}, {<<t, "publish">>})
  /\ ino' = [ino EXCEPT ![s] = k]
  /\ UNCHANGED published

Publish(t, s) ==
  /\ Advance(s, {<<t, "publish">>}, {})
  /\ published' = published \cup {s}
  /\ UNCHANGED ino

\* The last reference goes; whoever drops it cleans up.
Retire(t, s) ==
  /\ s \in published
  /\ Advance(s, {}, {<<t, "cleanup">>})
  /\ published' = published \ {s}
  /\ UNCHANGED ino

Release(t, s) ==
  /\ Advance(s, {<<t, "cleanup">>}, {<<t, "free">>})
  /\ UNCHANGED <<published, ino>>

Free(t, s) ==
  /\ Advance(s, {<<t, "free">>}, {})
  /\ UNCHANGED <<published, ino>>

Next ==
  \E t \in Threads, s \in Slots :
    \/ Claim(t, s) \/ Publish(t, s) \/ Retire(t, s)
    \/ Release(t, s) \/ Free(t, s)
    \/ \E k \in Inos : Fill(t, s, k)

Spec == Init /\ [][Next]_life

=============================================================================
