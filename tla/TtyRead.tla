------------------------------ MODULE TtyRead ------------------------------
(***************************************************************************)
(* tty.c: reads from a wrapped tty, with VMIN and VTIME done by the        *)
(* library, and the cached settings they go by.                            *)
(*                                                                         *)
(* Threads use wraps of one tty; each wrap caches the settings that went   *)
(* through it, field by field (wraps are also the copies that a fork makes *)
(* of one wrap).  Each system call and each atomic load or store is one    *)
(* action.  Input is a number of bytes.  The kernel's own raw read, on     *)
(* WSL1, waits for one byte and knows nothing of VMIN or VTIME.            *)
(***************************************************************************)
EXTENDS Integers, FiniteSets, FiniteSetsExt, Functions

CONSTANTS
  Threads, Wraps, WrapOf,    \* WrapOf[t]: the wrap whose fd thread t uses
  Readers, Setters,          \* what the threads do
  Settings,                  \* the termios settings asked for
  Counts,                    \* the sizes of reads
  Bytes                      \* bound: bytes of input

Cooked == [canon |-> TRUE, vmin |-> 1, vtime |-> 0]

NoArg  == [setting |-> Cooked, count |-> 0, nb |-> FALSE]

VARIABLES
  termios, nonblock,  \* the tty's settings, and O_NONBLOCK of its open file
  cache,              \* struct tty_state: canon, vmin, vtime and nonblock
  stale,              \* history: <<w, k>>: wrap w has missed or mixed up a call of kind k
  avail, left, hup,   \* bytes to read, bytes to come, hang-up
  given,              \* history: bytes returned to the readers
  stolen,             \* history: reads whose input another took after the poll
  pc,
  arg,                \* the setting or the size of the call
  vmin, vtime,        \* as tty_read loaded them
  total,              \* bytes this read has
  cut                 \* history: the read met an error, a signal or the end

call  == <<arg, vmin, vtime, total, cut>>
input == <<avail, left, hup, given, stolen>>
vars  == <<termios, nonblock, cache, stale, input, pc, call>>

Init ==
  /\ termios = Cooked /\ nonblock = FALSE
  /\ cache = [w \in Wraps |-> [canon |-> TRUE, vmin |-> 1, vtime |-> 0, nonblock |-> FALSE]]
  /\ stale = {}
  /\ avail = 0 /\ left = Bytes /\ hup = FALSE /\ given = 0
  /\ stolen = {}
  /\ pc = [t \in Threads |-> "idle"]
  /\ arg = [t \in Threads |-> NoArg]
  /\ vmin = [t \in Threads |-> 0] /\ vtime = [t \in Threads |-> 0]
  /\ total = [t \in Threads |-> 0] /\ cut = [t \in Threads |-> FALSE]

Goto(t, p) == pc' = [pc EXCEPT ![t] = p]
Finish(t) ==             \* the call returns; its locals are dead
  /\ arg' = [arg EXCEPT ![t] = NoArg]
  /\ vmin' = [vmin EXCEPT ![t] = 0] /\ vtime' = [vtime EXCEPT ![t] = 0]
  /\ total' = [total EXCEPT ![t] = 0] /\ cut' = [cut EXCEPT ![t] = FALSE]
  /\ Goto(t, "idle")
Cached(t)  == cache[WrapOf[t]]

-----------------------------------------------------------------------------
\* The world outside.
Arrive == left > 0 /\ ~hup /\ avail' = avail + 1 /\ left' = left - 1
          /\ UNCHANGED <<termios, nonblock, cache, stale, hup, given, stolen, pc, call>>
HangUp == ~hup /\ hup' = TRUE
          /\ UNCHANGED <<termios, nonblock, cache, stale, avail, left, given, stolen, pc, call>>

-----------------------------------------------------------------------------
\* The two kinds of call that change settings, and where they store.
Storing == [attr |-> {"set canon", "set vmin", "set vtime"}, fl |-> {"set nonblock"}]

\* After a call of kind k by t, the other wraps are out of date, and so is t's own
\* if another thread is still storing into it.
Outdate(t, k) ==
  stale' = {x \in stale : x[2] # k} \cup
    {<<w, k>> : w \in {w \in Wraps : \/ w # WrapOf[t]
                                     \/ \E u \in Setters \ {t} : WrapOf[u] = w /\ pc[u] \in Storing[k]}}

\* tty_ioctl: the ioctl itself, then a store for each cached field.
SetAttr(t, s) ==
  /\ pc[t] = "idle" /\ t \in Setters
  /\ termios' = s /\ Outdate(t, "attr")
  /\ arg' = [arg EXCEPT ![t].setting = s]
  /\ Goto(t, "set canon")
  /\ UNCHANGED <<nonblock, cache, input, vmin, vtime, total, cut>>

StoreCanon(t) ==
  /\ pc[t] = "set canon"
  /\ cache' = [cache EXCEPT ![WrapOf[t]].canon = arg[t].setting.canon]
  /\ Goto(t, "set vmin")
  /\ UNCHANGED <<termios, nonblock, stale, input, call>>

\* Mutant: a setting in canonical mode does not update VMIN.
StoreVminRaw(t) ==
  /\ pc[t] = "set vmin"
  /\ cache' = [cache EXCEPT ![WrapOf[t]].vmin =
                  IF arg[t].setting.canon THEN @ ELSE arg[t].setting.vmin]
  /\ Goto(t, "set vtime")
  /\ UNCHANGED <<termios, nonblock, stale, input, call>>

StoreVmin(t) ==
  /\ pc[t] = "set vmin"
  /\ cache' = [cache EXCEPT ![WrapOf[t]].vmin = arg[t].setting.vmin]
  /\ Goto(t, "set vtime")
  /\ UNCHANGED <<termios, nonblock, stale, input, call>>

StoreVtime(t) ==
  /\ pc[t] = "set vtime"
  /\ cache' = [cache EXCEPT ![WrapOf[t]].vtime = arg[t].setting.vtime]
  /\ Finish(t)
  /\ UNCHANGED <<termios, nonblock, stale, input>>

\* tty_fcntl with F_SETFL.
SetFl(t, nb) ==
  /\ pc[t] = "idle" /\ t \in Setters
  /\ nonblock' = nb /\ Outdate(t, "fl")
  /\ arg' = [arg EXCEPT ![t].nb = nb]
  /\ Goto(t, "set nonblock")
  /\ UNCHANGED <<termios, cache, input, vmin, vtime, total, cut>>

StoreNonblock(t) ==
  /\ pc[t] = "set nonblock"
  /\ cache' = [cache EXCEPT ![WrapOf[t]].nonblock = arg[t].nb]
  /\ Finish(t)
  /\ UNCHANGED <<termios, nonblock, stale, input>>

-----------------------------------------------------------------------------
\* tty_read

Read(t, n) ==
  /\ pc[t] = "idle" /\ t \in Readers
  /\ arg' = [arg EXCEPT ![t].count = n]
  /\ Goto(t, "canon")
  /\ UNCHANGED <<termios, nonblock, cache, stale, input, vmin, vtime, total, cut>>

LoadCanon(t) ==
  /\ pc[t] = "canon"
  /\ Goto(t, IF Cached(t).canon THEN "pass" ELSE "nonblock")
  /\ UNCHANGED <<termios, nonblock, cache, stale, input, call>>

LoadNonblock(t) ==
  /\ pc[t] = "nonblock"
  /\ \/ Cached(t).nonblock /\ Goto(t, "pass") /\ UNCHANGED call
     \/ ~Cached(t).nonblock /\ arg[t].count = 0 /\ Finish(t)
     \/ ~Cached(t).nonblock /\ arg[t].count > 0 /\ Goto(t, "vmin") /\ UNCHANGED call
  /\ UNCHANGED <<termios, nonblock, cache, stale, input>>

LoadVmin(t) ==
  /\ pc[t] = "vmin"
  /\ vmin' = [vmin EXCEPT ![t] = Cached(t).vmin]
  /\ Goto(t, "vtime")
  /\ UNCHANGED <<termios, nonblock, cache, stale, input, arg, vtime, total, cut>>

LoadVtime(t) ==
  /\ pc[t] = "vtime"
  /\ vtime' = [vtime EXCEPT ![t] = Cached(t).vtime]
  /\ Goto(t, "poll")
  /\ UNCHANGED <<termios, nonblock, cache, stale, input, arg, vmin, total, cut>>

\* poll() on the tty: for the first byte without end if VMIN > 0, for VTIME
\* otherwise (tty_read_raw_wait); for a further byte, VTIME if there is one.
TimesOut(t) == IF total[t] = 0 THEN vmin[t] = 0 ELSE vtime[t] > 0

\* Mutant: only an error of poll ends the read, not a timeout.
PollProceeds(t) ==
  /\ pc[t] = "poll"
  /\ avail > 0 \/ hup \/ TimesOut(t)
  /\ Goto(t, "read")
  /\ UNCHANGED <<termios, nonblock, cache, stale, input, call>>

Poll(t) ==
  /\ pc[t] = "poll"
  /\ \/ /\ avail > 0 \/ hup
        /\ Goto(t, "read") /\ UNCHANGED cut
     \/ /\ avail = 0 /\ ~hup /\ TimesOut(t)
        /\ Goto(t, "done") /\ UNCHANGED cut
     \/ /\ Goto(t, "done")                         \* a signal
        /\ cut' = [cut EXCEPT ![t] = TRUE]
  /\ UNCHANGED <<termios, nonblock, cache, stale, input, arg, vmin, vtime, total>>

\* Mutant: the first bytes are enough.
EnoughAtOnce(t, n) == n > 0

\* Is a read with n bytes complete?
Enough(t, n) == vmin[t] = 0 \/ n >= vmin[t] \/ n >= arg[t].count

\* Thread t has taken what was there; reads that poll has let through may
\* not know.
Steal(t) ==
  stolen' = (stolen \cup {u \in Threads : pc[u] = "read" /\ avail' < avail}) \ {t}

\* Mutant: an error on a further byte is the result of the read.
KernelReadErr(t) ==
  /\ pc[t] = "read"
  /\ \/ /\ avail > 0
        /\ LET n == Min({avail, arg[t].count - total[t]}) IN
             /\ avail' = avail - n
             /\ total' = [total EXCEPT ![t] = @ + n]
             /\ Goto(t, IF Enough(t, total[t] + n) THEN "done" ELSE "poll")
        /\ UNCHANGED cut
     \/ /\ avail = 0
        /\ Goto(t, "done")
        /\ total' = [total EXCEPT ![t] = 0]
        /\ cut' = [cut EXCEPT ![t] = TRUE]
        /\ UNCHANGED avail
  /\ Steal(t)
  /\ UNCHANGED <<termios, nonblock, cache, stale, left, hup, given, arg, vmin, vtime>>

\* Mutant: a further read may fill the whole buffer again.
KernelReadOver(t) ==
  /\ pc[t] = "read"
  /\ LET n == Min({avail, arg[t].count}) IN
       /\ avail' = avail - n
       /\ total' = [total EXCEPT ![t] = @ + n]
       /\ Goto(t, IF n = 0 \/ Enough(t, total[t] + n) THEN "done" ELSE "poll")
       /\ cut' = [cut EXCEPT ![t] = n = 0]
  /\ Steal(t)
  /\ UNCHANGED <<termios, nonblock, cache, stale, left, hup, given, arg, vmin, vtime>>

\* The kernel's read: the bytes there are; or, when there are none, the end
\* of file, EAGAIN, or a wait until a byte comes or a signal.
KernelRead(t) ==
  /\ pc[t] = "read"
  /\ \/ /\ avail > 0
        /\ LET n == Min({avail, arg[t].count - total[t]}) IN
             /\ avail' = avail - n
             /\ total' = [total EXCEPT ![t] = @ + n]
             /\ Goto(t, IF Enough(t, total[t] + n) THEN "done" ELSE "poll")
        /\ UNCHANGED cut
     \/ /\ avail = 0
        /\ Goto(t, "done")
        /\ cut' = [cut EXCEPT ![t] = TRUE]
        /\ UNCHANGED <<avail, total>>
  /\ Steal(t)
  /\ UNCHANGED <<termios, nonblock, cache, stale, left, hup, given, arg, vmin, vtime>>

Return(t) ==
  /\ pc[t] = "done"
  /\ given' = given + total[t]
  /\ Finish(t)
  /\ UNCHANGED <<termios, nonblock, cache, stale, avail, left, hup, stolen>>

\* The fast path: one kernel read, whatever it returns.
PassThrough(t) ==
  /\ pc[t] = "pass"
  /\ \E n \in 0..Min({avail, arg[t].count}) :
       avail' = avail - n /\ given' = given + n
  /\ Steal(t)
  /\ Finish(t)
  /\ UNCHANGED <<termios, nonblock, cache, stale, left, hup>>

\* Thread t changes settings, and reads.
Setting(t) ==
  \/ \E s \in Settings : SetAttr(t, s)
  \/ StoreCanon(t) \/ StoreVmin(t) \/ StoreVtime(t)
  \/ \E nb \in BOOLEAN : SetFl(t, nb)
  \/ StoreNonblock(t)

Reading(t) ==
  \/ \E n \in Counts : Read(t, n)
  \/ LoadCanon(t) \/ LoadNonblock(t) \/ LoadVmin(t) \/ LoadVtime(t)
  \/ Poll(t) \/ KernelRead(t) \/ PassThrough(t) \/ Return(t)

Next == Arrive \/ HangUp \/ \E t \in Threads : Setting(t) \/ Reading(t)

Spec == Init /\ [][Next]_vars

-----------------------------------------------------------------------------
\* A raw read that no error, signal or hang-up ended keeps to termios(3), by
\* the VMIN and VTIME it loaded: with VMIN it returns at least one byte, and
\* without a timer VMIN bytes or a full buffer (tty_read).  No read, in however
\* many parts, returns more than was asked for.
ReadContract ==
  \A t \in Threads :
    /\ total[t] <= arg[t].count
    /\ pc[t] = "done" /\ ~cut[t] /\ vmin[t] > 0 =>
         total[t] >= IF vtime[t] = 0 THEN Min({vmin[t], arg[t].count}) ELSE 1

\* Every byte taken from the tty is returned by some read: an error after the
\* first bytes does not lose them (tty_read).
NoByteLost ==
  Bytes = left + avail + given + SumFunction(total)

\* With VMIN = 0 the library waits only in poll, with its timeout: it enters
\* the kernel's read, which has none, when the read cannot block, unless
\* another reader has taken the input since the poll.
TimedReadNeverBlocks ==
  \A t \in Threads \ stolen : pc[t] = "read" /\ vmin[t] = 0 => avail > 0 \/ hup \/ nonblock

\* The cache of a wrap settles on the settings in force, so that reads go by them
\* (tty_ioctl, tty_fcntl): whatever thread stored which field when, once nobody is
\* storing into it.  Exceptions: a later call went through another wrap, whose
\* cache is its own, or overlapped with another at this one and may have left a
\* mixture; the next call that is alone at the wrap puts that right.
CacheFresh ==
  \A w \in Wraps, k \in {"attr", "fl"} :
    <<w, k>> \notin stale /\ (\A t \in Setters : WrapOf[t] = w => pc[t] \notin Storing[k]) =>
      IF k = "fl" THEN cache[w].nonblock = nonblock
      ELSE [canon |-> cache[w].canon, vmin |-> cache[w].vmin, vtime |-> cache[w].vtime] = termios
=============================================================================
