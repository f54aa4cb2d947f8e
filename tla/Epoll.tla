------------------------------- MODULE Epoll -------------------------------
(***************************************************************************)
(* epoll.c: epoll_ctl on wrapped descriptors.  The kernel keys its interest*)
(* list by descriptor number and open file description, and drops an entry *)
(* with the last descriptor of that description.  A wrap is an O_PATH fd   *)
(* in the program's number; its tty is open at the backing's number, and   *)
(* it is that pair that is registered.  The reference is a kernel in which *)
(* the wrap is the tty.  epoll_create and the waits pass straight through. *)
(***************************************************************************)
EXTENDS Integers, FiniteSets

CONSTANTS
  Threads,
  AppFds,         \* descriptor numbers of the program
  Backing, Moved  \* of the backing: as installed, and relocated

Numbers == AppFds \cup {Backing, Moved}
Ops     == {"ADD", "MOD", "DEL"}

VARIABLES
  open,       \* what each number is: "none", "tty", "pipe", "file" or "opath"
  interest,   \* the kernel's list: number and description
  want,       \* the reference's list: the program's number and description
  call,       \* each thread's call: op, fd, real; ok: answered as in the reference
  odd         \* history: one of the exceptions of AnswersAsKernel has happened

vars == <<open, interest, want, call, odd>>

Idle == [pc |-> "idle", op |-> "ADD", fd |-> 0, real |-> 0, ok |-> TRUE]

Init ==
  /\ open = [n \in Numbers |-> "none"]
  /\ interest = {} /\ want = {}
  /\ call = [t \in Threads |-> Idle]
  /\ odd = FALSE

\* epoll_ctl of the kernel on list l, when number n is an open o: answer and new list.
Ctl(l, op, n, o) ==
  CASE o = "none"             -> [res |-> "EBADF", list |-> l]
    [] o \in {"file", "opath"} -> [res |-> IF op = "ADD" THEN "EPERM" ELSE "ENOENT", list |-> l]
    [] OTHER ->
       IF (op = "ADD") = (<<n, o>> \in l)
       THEN [res |-> IF op = "ADD" THEN "EEXIST" ELSE "ENOENT", list |-> l]
       ELSE [res |-> "0", list |-> IF op = "DEL" THEN l \ {<<n, o>>} ELSE l \cup {<<n, o>>}]

\* What number f is to the program.
Seen(f) == IF open[f] = "opath" THEN "tty" ELSE open[f]

Wraps    == {f \in AppFds : open[f] = "opath"}
BackedBy == IF open[Moved] = "tty" THEN Moved ELSE Backing

\* The call op on f takes effect, here with answer and list of r, and in the reference.
Answer(t, op, f, r) ==
  LET ref == Ctl(want, op, f, Seen(f)) IN
  /\ interest' = r.list /\ want' = ref.list
  /\ call' = [call EXCEPT ![t] = [Idle EXCEPT !.pc = "done", !.ok = (r.res = ref.res)]]

-----------------------------------------------------------------------------
\* Mutant: EPERM is looked for whatever the operation.
ExpectedAdd(op) == "EPERM"

expected(op) == IF op = "ADD" THEN "EPERM" ELSE "ENOENT"

\* The call as it is: done, unless it fails as it would on an O_PATH descriptor.
First(t, op, f) ==
  /\ call[t] = Idle
  /\ LET r == Ctl(interest, op, f, open[f]) IN
     IF r.res = expected(op)
     THEN /\ call' = [call EXCEPT ![t] = [pc |-> "passthru", op |-> op, fd |-> f, real |-> 0,
                                         ok |-> r.res = Ctl(want, op, f, Seen(f)).res]]
          /\ UNCHANGED <<interest, want>>
     ELSE Answer(t, op, f, r)
  /\ UNCHANGED <<open, odd>>

\* wslcompat_synth_passthru: the backing's number, unpinned again on return.  If fd is
\* no wrap, the answer is that of the first call.
Passthru(t) ==
  /\ call[t].pc = "passthru"
  /\ call' = [call EXCEPT ![t] = IF @.fd \in Wraps THEN [@ EXCEPT !.pc = "second", !.real = BackedBy]
                                 ELSE [Idle EXCEPT !.pc = "done", !.ok = call[t].ok]]
  /\ UNCHANGED <<open, interest, want, odd>>

Second(t) ==
  /\ call[t].pc = "second"
  /\ LET c == call[t] IN
     /\ odd' = (odd \/ \E f \in AppFds \ {c.fd} : open[f] = "opath" /\ <<f, "tty">> \in want)
     /\ Answer(t, c.op, c.fd, Ctl(interest, c.op, c.real, open[c.real]))
  /\ UNCHANGED open

Return(t) ==
  /\ call[t].pc = "done"
  /\ call' = [call EXCEPT ![t] = Idle]
  /\ UNCHANGED <<open, interest, want, odd>>

-----------------------------------------------------------------------------
\* The numbers become o; descriptions without a descriptor leave the lists.
Become(o) ==
  /\ open' = o
  /\ interest' = {e \in interest : \E n \in Numbers : o[n] = e[2]}
  /\ want' = {e \in want : \E f \in AppFds : o[f] = e[2] \/ (e[2] = "tty" /\ o[f] = "opath")}

\* Another thread changes what number f is while a call is about it.
Busy(f) == \E t \in Threads : call[t].pc \notin {"idle", "done"} /\ call[t].fd = f

Open(f, what) ==
  /\ open[f] = "none" /\ \A n \in Numbers : open[n] # what
  /\ what = "tty" => Wraps = {}
  /\ Become([open EXCEPT ![f] = what])
  /\ odd' = (odd \/ Busy(f)) /\ UNCHANGED call

Dup(f, g) ==
  /\ open[f] # "none" /\ open[g] = "none"
  /\ Become([open EXCEPT ![g] = open[f]])
  /\ odd' = (odd \/ Busy(g)) /\ UNCHANGED call

\* wslcompat_tty_install
Install(f) ==
  /\ open[f] = "tty" /\ Wraps = {}
  /\ Become([open EXCEPT ![f] = "opath", ![Backing] = "tty"])
  /\ odd' = (odd \/ Busy(f) \/ \E e \in want : e[2] = "tty") /\ UNCHANGED call

\* The backing goes with the wrap's last descriptor.
Close(f) ==
  /\ open[f] # "none"
  /\ LET o == [open EXCEPT ![f] = "none"] IN
     Become(IF Wraps = {f} THEN [o EXCEPT ![Backing] = "none", ![Moved] = "none"] ELSE o)
  /\ odd' = (odd \/ Busy(f) \/ <<f, Seen(f)>> \in want') /\ UNCHANGED call

\* wslcompat_relocate_internal_fd: the program claims the backing's number.
Relocate ==
  /\ open[Backing] = "tty"
  /\ Become([open EXCEPT ![Backing] = "none", ![Moved] = "tty"])
  /\ odd' = (odd \/ (\E e \in interest : e[1] = Backing) \/ \E t \in Threads : call[t].real = Backing)
  /\ UNCHANGED call

\* Bound: nothing more is said of a process once odd holds; another one starts.
Exit ==
  /\ odd /\ odd' = FALSE
  /\ open' = [n \in Numbers |-> "none"] /\ interest' = {} /\ want' = {}
  /\ call' = [t \in Threads |-> Idle]

Next ==
  \/ Exit
  \/ ~odd /\ \/ \E t \in Threads :
                \/ \E op \in Ops, f \in AppFds : First(t, op, f)
                \/ Passthru(t) \/ Second(t) \/ Return(t)
             \/ \E f \in AppFds :
                \/ \E what \in {"tty", "pipe", "file"} : Open(f, what)
                \/ \E g \in AppFds : Dup(f, g)
                \/ Install(f) \/ Close(f)
             \/ Relocate

-----------------------------------------------------------------------------
\* The kernel watches what the program has registered.
Watched ==
  /\ \A f \in AppFds \ Wraps : <<f, open[f]>> \in interest <=> <<f, open[f]>> \in want
  /\ (\E n \in {Backing, Moved} : <<n, "tty">> \in interest) <=> \E f \in Wraps : <<f, "tty">> \in want

\* epoll_ctl answers as a kernel would in which the wrap is the tty, and the
\* descriptors the program has registered are the ones that are watched, whatever
\* two threads add, change and remove at once.  Exceptions: a tty registered before
\* it was wrapped; two descriptors of one wrap, which share the backing's entry; a
\* backing relocated while registered; a descriptor closed while registered when
\* another of its description stays open; one closed or replaced by another thread
\* during the call.
AnswersAsKernel ==
  ~odd =>
    /\ \A t \in Threads : call[t].pc = "done" => call[t].ok
    /\ Watched
=============================================================================
