----------------------------- MODULE FcntlLock -----------------------------
(***************************************************************************)
(* fcntl.c: POSIX and OFD record locks, served with flock().               *)
(*                                                                         *)
(* One file, and the open file descriptions on it, each used by a process  *)
(* of its own.  F_SETLK and F_SETLKW become flock on the description;      *)
(* F_GETLK opens a description of its own and tries to lock that.  The     *)
(* POSIX mirror of a granted lock is left out: its result is ignored and   *)
(* WSL1 enforces nothing by it.                                            *)
(***************************************************************************)
EXTENDS Integers, FiniteSets

CONSTANTS
  Handles,   \* open file descriptions
  Askers     \* a subset: those on which F_GETLK is called

Locks == {"UN", "SH", "EX"}
Types == {"F_UNLCK", "F_RDLCK", "F_WRLCK"}

VARIABLES
  lock,     \* flock state of each description
  probe,    \* and of the description its F_GETLK opened
  pc,
  type,     \* l_type of the call
  answer,   \* the l_type F_GETLK returned
  held,     \* history: the lock the last successful call promised
  lapsed,   \* history: those whose lock a refused conversion has dropped
  seen      \* history: the strongest locks others held during an F_GETLK

vars == <<lock, probe, pc, type, answer, held, lapsed, seen>>

Init ==
  /\ lock = [h \in Handles |-> "UN"]
  /\ probe = [h \in Handles |-> "UN"]
  /\ pc = [h \in Handles |-> "idle"]
  /\ type = [h \in Handles |-> "F_UNLCK"]
  /\ answer = [h \in Handles |-> "F_UNLCK"]
  /\ held = [h \in Handles |-> "F_UNLCK"]
  /\ lapsed = {}
  /\ seen = [h \in Handles |-> {}]

Goto(h, p) == pc' = [pc EXCEPT ![h] = p]

\* Mutant: a write lock is taken shared.
TranslateShared(t) == IF t = "F_UNLCK" THEN "UN" ELSE "SH"

\* fcntl_translate_type
Translate(t) ==
  CASE t = "F_UNLCK" -> "UN" [] t = "F_RDLCK" -> "SH" [] t = "F_WRLCK" -> "EX"

\* flock(2), the kernel's: does lock l conflict with one of the given ones?
Conflict(l, others) == \E o \in others : "EX" \in {l, o} /\ "UN" \notin {l, o}
Others(h)    == {lock[g] : g \in Handles \ {h}} \cup {probe[g] : g \in Handles}
Applications == {lock[g] : g \in Handles}
AllBut(h)    == Applications \cup {probe[g] : g \in Handles \ {h}}

\* The locks Linux weighs for an F_GETLK on h: its own is none of them.
Rivals(h)    == {"UN"} \cup {lock[g] : g \in Handles \ {h}}

Strongest(L) == CHOOSE l \in L :
  \A m \in L : m # l => l = "EX" \/ (l = "SH" /\ m = "UN")

\* The open F_GETLK calls see every change of a lock.
Lock(h, l) ==
  /\ lock' = [lock EXCEPT ![h] = l]
  /\ seen' = [g \in Handles |->
       IF pc[g] \in {"ex", "sh"}
         THEN seen[g] \cup {Strongest(Rivals(g)')} ELSE seen[g]]

-----------------------------------------------------------------------------
\* fcntl_lock_shim with F_SETLK or F_SETLKW: they differ only in who ends the
\* call on a conflict (Refused).  To convert a lock, flock drops the old one
\* first.
SetLk(h, t) ==
  /\ pc[h] = "idle"
  /\ type' = [type EXCEPT ![h] = t]
  /\ Lock(h, IF lock[h] = Translate(t) THEN lock[h] ELSE "UN")
  /\ Goto(h, "flock")
  /\ UNCHANGED <<probe, answer, held, lapsed>>

Granted(h) ==
  /\ pc[h] = "flock" /\ ~Conflict(Translate(type[h]), Others(h))
  /\ Lock(h, Translate(type[h]))
  /\ held' = [held EXCEPT ![h] = type[h]]
  /\ lapsed' = lapsed \ {h}
  /\ Goto(h, "idle")
  /\ UNCHANGED <<probe, type, answer>>

\* F_SETLK has LOCK_NB: EWOULDBLOCK.  F_SETLKW waits, until a signal
\* interrupts it.  Either way fcntl returns -1.
Refused(h) ==
  /\ pc[h] = "flock" /\ Conflict(Translate(type[h]), Others(h))
  /\ lapsed' = IF lock[h] = Translate(held[h]) THEN lapsed ELSE lapsed \cup {h}
  /\ Goto(h, "idle")
  /\ UNCHANGED <<lock, probe, type, answer, held, seen>>

-----------------------------------------------------------------------------
\* flock_status_query

GetLk(h, t) ==
  /\ pc[h] = "idle" /\ h \in Askers /\ t # "F_UNLCK"
  /\ type' = [type EXCEPT ![h] = t]
  /\ seen' = [seen EXCEPT ![h] = {Strongest(Rivals(h))}]
  /\ Goto(h, "ex")
  /\ UNCHANGED <<lock, probe, answer, held, lapsed>>

QueryEx(h) ==
  /\ pc[h] = "ex"
  /\ IF Conflict("EX", AllBut(h))
       THEN Goto(h, "sh") /\ UNCHANGED <<probe, answer>>
       ELSE /\ probe' = [probe EXCEPT ![h] = "EX"]
            /\ answer' = [answer EXCEPT ![h] = "F_UNLCK"]
            /\ Goto(h, "close")
  /\ UNCHANGED <<lock, type, held, lapsed, seen>>

\* Mutant: a shared lock is reported whatever was proposed.
QueryShAlways(h) ==
  /\ pc[h] = "sh"
  /\ LET shared == ~Conflict("SH", AllBut(h)) IN
       /\ probe' = [probe EXCEPT ![h] = IF shared THEN "SH" ELSE "UN"]
       /\ answer' = [answer EXCEPT ![h] = IF shared THEN "F_RDLCK" ELSE "F_WRLCK"]
  /\ Goto(h, "close")
  /\ UNCHANGED <<lock, type, held, lapsed, seen>>

QuerySh(h) ==
  /\ pc[h] = "sh"
  /\ LET shared == ~Conflict("SH", AllBut(h)) IN
       /\ probe' = [probe EXCEPT ![h] = IF shared THEN "SH" ELSE "UN"]
       /\ answer' = [answer EXCEPT ![h] =
            IF ~shared THEN "F_WRLCK" ELSE IF type[h] = "F_WRLCK" THEN "F_RDLCK" ELSE "F_UNLCK"]
  /\ Goto(h, "close")
  /\ UNCHANGED <<lock, type, held, lapsed, seen>>

\* Mutant: the description of the query stays open.
QueryLeaks(h) ==
  /\ pc[h] = "close"
  /\ seen' = [seen EXCEPT ![h] = {}]
  /\ Goto(h, "idle")
  /\ UNCHANGED <<lock, probe, type, answer, held, lapsed>>

QueryClose(h) ==
  /\ pc[h] = "close"
  /\ probe' = [probe EXCEPT ![h] = "UN"]
  /\ seen' = [seen EXCEPT ![h] = {}]
  /\ Goto(h, "idle")
  /\ UNCHANGED <<lock, type, answer, held, lapsed>>

Next ==
  \E h \in Handles :
    \/ \E t \in Types : SetLk(h, t)
    \/ Granted(h) \/ Refused(h)
    \/ \E t \in Types : GetLk(h, t)
    \/ QueryEx(h) \/ QuerySh(h) \/ QueryClose(h)

Spec == Init /\ [][Next]_vars

-----------------------------------------------------------------------------
\* What F_GETLK is to answer when l is the strongest lock.
Expected(t, l) ==
  IF l = "EX" THEN "F_WRLCK" ELSE IF l = "SH" /\ t = "F_WRLCK" THEN "F_RDLCK" ELSE "F_UNLCK"

\* No two processes that were both promised a lock, and are not in a call,
\* were promised conflicting ones, unless a refused conversion has dropped the
\* lock of one of them (fcntl_lock_shim).
Exclusion ==
  \A g, h \in Handles \ lapsed : g # h /\ pc[g] = "idle" /\ pc[h] = "idle" =>
    ~(held[g] = "F_WRLCK" /\ held[h] # "F_UNLCK")

\* F_GETLK reports a conflict only if, at some moment of the call, a lock of
\* another description conflicted with the proposed one, and none only if at some
\* moment none did; and if the others' strongest lock stayed the same during the
\* call, the l_type it returns is exact (flock_status_query).  (A writer that
\* unlocks between the two tries makes it name a read lock that nobody held.)
\* Exception: who holds a lock and asks may be told of a conflict with that very
\* lock, as LOCKS.md says, for the query asks through a description of its own;
\* Linux, and tests/ofd_hybrid_test.c, ignore it.  To such a caller only the
\* answer that there is no conflict is true.
GetlkTrue ==
  \A h \in Handles : pc[h] = "close" =>
    IF lock[h] = "UN"
      THEN /\ \E l \in seen[h] : answer[h] # "F_UNLCK" <=> Conflict(Translate(type[h]), {l})
           /\ \A l \in seen[h] : seen[h] = {l} => answer[h] = Expected(type[h], l)
      ELSE answer[h] = "F_UNLCK" => \E l \in seen[h] : ~Conflict(Translate(type[h]), {l})

\* F_SETLK is refused, and F_SETLKW waits, only if another process was promised a
\* lock in the way and has not given it up, or because of an F_GETLK, which holds
\* a lock from its successful try to its close (fcntl.c:44, 60 and 91).
RefusedForCause ==
  \A h \in Handles : pc[h] = "flock" /\ Conflict(Translate(type[h]), Others(h)) =>
    \/ Conflict(Translate(type[h]), {Translate(held[g]) : g \in Handles \ ({h} \cup lapsed)})
    \/ \E g \in Askers : pc[g] = "close"

\* Record locks exclude and are refused for cause, and F_GETLK tells the truth of
\* them: all three.
LocksAsLinux == Exclusion /\ RefusedForCause /\ GetlkTrue
=============================================================================
