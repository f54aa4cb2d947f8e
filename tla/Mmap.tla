------------------------------- MODULE Mmap --------------------------------
(***************************************************************************)
(* mmap.c: MAP_FIXED_NOREPLACE and MAP_LOCKED done with other calls, and   *)
(* mappings of wrapped descriptors.                                        *)
(*                                                                         *)
(* Threads of one process map and unmap pages of one address space; each   *)
(* system call is one action.  Every thread unmaps and replaces only pages *)
(* it mapped itself.  There is one wrapped tty; once its last descriptor   *)
(* is closed and no call has it pinned, its backing number may be reused.  *)
(***************************************************************************)
EXTENDS Integers, FiniteSets

CONSTANTS
  Threads, NumPages,
  NoReplace, Fixed, Locked    \* the flags MAP_FIXED_NOREPLACE, MAP_FIXED, MAP_LOCKED

Pages == 1..NumPages
Free  == [by |-> "none", what |-> "free"]

VARIABLES
  page,     \* what is mapped at each page: by whom; "probe", "new" or "map"
  back,     \* what the wrap's backing number stands for
  closed,   \* the wrap's descriptor was closed
  call,     \* the call each thread is in
  dropped   \* history: a MAP_FIXED that failed had removed its probe, and there
            \* has been a call in progress ever since

vars == <<page, back, closed, call, dropped>>

\* flags, addr and n: the arguments; fd: "anon", "wrap" (the O_PATH) or "real";
\* at: the first page of the result or the probe; probed, pin: see below.
\* History: gone (the wrap was closed in this call).
Idle == [pc |-> "idle", flags |-> {}, addr |-> 0, n |-> 0, fd |-> "anon", at |-> 0,
         probed |-> FALSE, pin |-> FALSE, gone |-> FALSE]

Init ==
  /\ page = [k \in Pages |-> Free]
  /\ back = "tty" /\ closed = FALSE
  /\ call = [t \in Threads |-> Idle]
  /\ dropped = FALSE

Span(k, n)   == k..(k + n - 1)
IsFree(k, n) == Span(k, n) \subseteq Pages /\ \A j \in Span(k, n) : page[j] = Free
Places(n)    == {k \in Pages : IsFree(k, n)}
Mine(t, w)   == {k \in Pages : page[k].by = t /\ page[k].what = w}

Goto(t, c) ==
  /\ call' = [call EXCEPT ![t] = c]
  /\ dropped' = (dropped /\ \E u \in Threads : call'[u] # Idle)
Map(t, k, n, w) ==
  page' = [j \in Pages |-> IF j \in Span(k, n) THEN [by |-> t, what |-> w] ELSE page[j]]
Unmap(k, n) == page' = [j \in Pages |-> IF j \in Span(k, n) THEN Free ELSE page[j]]

Return(t) == Goto(t, Idle)

\* The call succeeds: its pages are the application's from now on.
Succeed(t) ==
  /\ page' = [k \in Pages |-> IF k \in Mine(t, "new") THEN [page[k] EXCEPT !.what = "map"] ELSE page[k]]
  /\ Return(t)

-----------------------------------------------------------------------------
\* mmap.  The kernel does not know the flags (EINVAL, EOPNOTSUPP), and refuses
\* the O_PATH of a wrap before it looks at them (EBADF).  With NoReplace an
\* address of 0 or an unaligned one is refused (omitted here).
Mmap(t, flags, k, n, fd) ==
  /\ call[t] = Idle /\ Span(k, n) \subseteq Pages
  /\ flags \cap {NoReplace, Locked} # {} \/ fd = "wrap"
  /\ flags \cap {NoReplace, Fixed} = {} => k = 1   \* a hint, which decides nothing
  /\ Fixed \in flags => \A j \in Span(k, n) : page[j].by = t /\ page[j].what = "map"
  /\ fd = "wrap" => ~closed
  /\ Goto(t, [Idle EXCEPT !.pc = IF fd = "wrap" THEN "pin" ELSE "strip",
                          !.flags = flags, !.addr = k, !.n = n, !.fd = fd])
  /\ UNCHANGED <<page, back, closed>>

\* mmap_synth_fallback: SYNTH_AUTOPIN_FD finds the entry, unless it is gone.
Pin(t) ==
  /\ call[t].pc = "pin"
  /\ IF closed THEN Return(t)
     ELSE Goto(t, [call[t] EXCEPT !.pc = "fallback", !.pin = TRUE, !.fd = "real"])
  /\ UNCHANGED <<page, back, closed>>

\* Where the kernel may put n pages: where it must, else anywhere free.
Target(t) ==
  IF Fixed \in call[t].flags \/ call[t].probed THEN {call[t].addr} ELSE Places(call[t].n)

\* What fd stands for: a number that was closed or reused since stands for that.
FileOf(t) == IF call[t].fd = "real" THEN back ELSE "none"

\* The mapping through the backing, with the flags as given; the pin is dropped.
Fallback(t) ==
  /\ call[t].pc = "fallback"
  /\ LET c == [call[t] EXCEPT !.pin = FALSE] IN
     \/ /\ c.flags \cap {NoReplace, Locked} = {}
        /\ \E k \in Target(t) : Map(t, k, c.n, "map")
        /\ Return(t)
     \/ c.flags \cap {NoReplace, Locked} = {} /\ Return(t) /\ UNCHANGED page
     \/ /\ c.flags \cap {NoReplace, Locked} # {}
        /\ Goto(t, [c EXCEPT !.pc = "strip"]) /\ UNCHANGED page
  /\ UNCHANGED <<back, closed>>

\* Mutant: a range with a mapping in it is not refused.
ProbeForced(t) ==
  /\ call[t].pc = "strip" /\ NoReplace \in call[t].flags
  /\ Goto(t, [call[t] EXCEPT !.pc = "map", !.probed = TRUE, !.at = call[t].addr])
  /\ UNCHANGED <<page, back, closed>>

\* The probe: a mapping without MAP_FIXED goes to the address asked for if that
\* is free, else elsewhere, or fails.
Probe(t) ==
  /\ call[t].pc = "strip" /\ NoReplace \in call[t].flags
  /\ LET c == call[t] IN
     \/ /\ IsFree(c.addr, c.n) /\ Map(t, c.addr, c.n, "probe")
        /\ Goto(t, [c EXCEPT !.pc = "map", !.probed = TRUE, !.at = c.addr])
     \/ /\ ~IsFree(c.addr, c.n)
        /\ \E k \in Places(c.n) :
             Map(t, k, c.n, "probe") /\ Goto(t, [c EXCEPT !.pc = "unmap", !.at = k])
     \/ ~IsFree(c.addr, c.n) /\ Return(t) /\ UNCHANGED page
  /\ UNCHANGED <<back, closed>>

NoProbe(t) ==
  /\ call[t].pc = "strip" /\ NoReplace \notin call[t].flags
  /\ Goto(t, [call[t] EXCEPT !.pc = "map"])
  /\ UNCHANGED <<page, back, closed>>

\* The mapping itself.  A failure of MAP_FIXED may come after the old pages went.
Place(t) ==
  /\ call[t].pc = "map"
  /\ LET c == call[t] IN
     \/ /\ FileOf(t) # "closed"
        /\ \E k \in Target(t) :
             /\ Map(t, k, c.n, "new")
             /\ Goto(t, [c EXCEPT !.pc = "lock", !.at = k])
     \/ ~c.probed /\ Return(t) /\ UNCHANGED page
     \/ c.probed /\ Goto(t, [c EXCEPT !.pc = "unmap"]) /\ UNCHANGED page
     \/ /\ c.probed /\ Unmap(c.at, c.n)
        /\ call' = [call EXCEPT ![t].pc = "unmap"] /\ dropped' = TRUE
  /\ UNCHANGED <<back, closed>>

\* Mutant: the probe is left behind.
CleanNothing(t) ==
  /\ call[t].pc = "unmap"
  /\ Return(t)
  /\ UNCHANGED <<page, back, closed>>

\* munmap of the probe, or of a mapping that mlock refused; the call fails.
Clean(t) ==
  /\ call[t].pc = "unmap"
  /\ Unmap(call[t].at, call[t].n)
  /\ Return(t)
  /\ UNCHANGED <<back, closed>>

Mlock(t) ==
  /\ call[t].pc = "lock"
  /\ \/ Succeed(t)
     \/ Locked \in call[t].flags /\ Goto(t, [call[t] EXCEPT !.pc = "unmap"]) /\ UNCHANGED page
  /\ UNCHANGED <<back, closed>>

-----------------------------------------------------------------------------
\* The rest of the process.
Plain(t) ==
  /\ call[t] = Idle
  /\ \E k \in Places(1) : Map(t, k, 1, "map")
  /\ UNCHANGED <<back, closed, call, dropped>>

Munmap(t, k) ==
  /\ call[t] = Idle /\ k \in Mine(t, "map")
  /\ Unmap(k, 1)
  /\ UNCHANGED <<back, closed, call, dropped>>

\* The wrap's last descriptor goes; the calls in progress are marked.
CloseWrap(t) ==
  /\ call[t] = Idle /\ ~closed
  /\ closed' = TRUE
  /\ call' = [u \in Threads |-> [call[u] EXCEPT !.gone = call[u] # Idle]]
  /\ UNCHANGED <<page, back, dropped>>

\* Mutant: the backing is closed under a pin.
ReleaseEarly ==
  /\ closed /\ back = "tty" /\ back' = "closed"
  /\ UNCHANGED <<page, closed, call, dropped>>

\* tty_release, once nobody holds a pin.
Release ==
  /\ closed /\ back = "tty" /\ \A t \in Threads : ~call[t].pin
  /\ back' = "closed"
  /\ UNCHANGED <<page, closed, call, dropped>>

Reuse == back = "closed" /\ back' = "other" /\ UNCHANGED <<page, closed, call, dropped>>

Sizes == 1..2
FlagSets == {{}, {Locked}, {NoReplace}, {NoReplace, Locked}, {Fixed, Locked}}

Step(t) ==
  \/ \E flags \in FlagSets, k \in Pages, n \in Sizes, fd \in {"anon", "wrap"} : Mmap(t, flags, k, n, fd)
  \/ Pin(t) \/ Fallback(t) \/ Probe(t) \/ NoProbe(t) \/ Place(t) \/ Clean(t) \/ Mlock(t)
  \/ Plain(t) \/ (\E k \in Pages : Munmap(t, k)) \/ CloseWrap(t)

Next == Release \/ Reuse \/ \E t \in Threads : Step(t)

Spec == Init /\ [][Next]_vars

-----------------------------------------------------------------------------
\* A MAP_FIXED_NOREPLACE call, in all of its system calls and whatever other
\* threads map meanwhile, neither replaces nor unmaps a page it did not map
\* itself: the probe keeps the place.  Exception: the kernel drops the probe and
\* then fails to map (mmap.c:105), and another thread maps there before
\* mmap.c:110 unmaps.
SparesOthers ==
  \A t \in Threads : call'[t] # call[t] /\ NoReplace \in call[t].flags /\ ~dropped =>
    \A k \in Pages : page'[k] = page[k] \/ page[k] = Free \/ (page[k].by = t /\ page[k].what # "map")

\* A call that is over left nothing behind but what it returned: no probe, and no
\* mapping that could not be locked.
NothingLeft == \A t \in Threads : call[t] = Idle => Mine(t, "probe") \cup Mine(t, "new") = {}

\* Mapping a wrapped descriptor maps its tty, even while another thread closes
\* it: the entry is pinned.  Exception: the retry without the flags
\* (mmap.c:105) uses the number after the pin is gone.
MapsItsFile ==
  \A t \in Threads : call[t].pc = "fallback" \/ (call[t].fd = "real" /\ ~call[t].gone) => back = "tty"
=============================================================================
