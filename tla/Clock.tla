------------------------------- MODULE Clock -------------------------------
(***************************************************************************)
(* clock.c: sleeping on, and reading, clocks the kernel does not have; and *)
(* the timeout of epoll_pwait2 in epoll.c.                                 *)
(*                                                                         *)
(* One thread sleeps while others of the process run and use CPU time.     *)
(* Time is counted in units; Sec of them are a second, Tick of them the    *)
(* scheduler tick that the polling loop does not go below.                 *)
(***************************************************************************)
EXTENDS Integers

CONSTANTS
  Sec, Tick,
  NsMax,          \* the largest long long, in units; also bounds the CPU time
  Cores,          \* threads that run at once
  RealMax,        \* bound: wall-clock time
  TaiOffset,      \* tunable taioffset, in units
  Requests        \* the times asked for

VARIABLES
  cpu,            \* CPU time of the process
  real,           \* CLOCK_REALTIME
  pc, abs,        \* where the sleeper is; TIMER_ABSTIME
  target, now,    \* locals of handle_process_cputime
  left,           \* until the sleep in the kernel ends
  goal,           \* history: CPU time the first of the calls was to last until
  late            \* history: CPU time ran faster than wall time in this call

vars == <<cpu, real, pc, abs, target, now, left, goal, late>>

Idle == pc = "idle" /\ abs = FALSE /\ target = 0 /\ now = 0 /\ left = 0 /\ goal = 0 /\ late = FALSE
Init == cpu = 0 /\ real = 0 /\ Idle

Max(a, b) == IF a > b THEN a ELSE b
Min(a, b) == IF a < b THEN a ELSE b

\* Signed arithmetic up to max, as it wraps; and that of long long.
Wrap(x, max) == ((x + max + 1) % (2 * (max + 1))) - max - 1
LongLong(x)  == Wrap(x, NsMax)

Return == pc' = "idle" /\ abs' = FALSE /\ target' = 0 /\ now' = 0 /\ left' = 0 /\ goal' = 0 /\ late' = FALSE

-----------------------------------------------------------------------------
\* handle_process_cputime, up to its loop.
Enter(req, a, g) ==
  /\ now' = cpu /\ abs' = a
  /\ target' = LongLong(IF a THEN req ELSE LongLong(req) + cpu)
  /\ goal' = g
  /\ pc' = "check" /\ late' = FALSE /\ left' = 0
  /\ UNCHANGED <<cpu, real>>

CpuSleep(req, a) ==
  /\ pc = "idle"
  /\ Enter(req, a, IF a THEN req ELSE cpu + req)

\* Mutant: the tick is added to what remains.
SleepFor(d) == d + Tick

sleep_ns(d) == Max(d, Tick)

Check ==
  /\ pc = "check"
  /\ IF now < target
     THEN pc' = "sleep" /\ left' = sleep_ns(target - now) /\ UNCHANGED <<abs, target, now, goal, late>>
     ELSE Return
  /\ UNCHANGED <<cpu, real>>

\* Mutant: the loop does not look at the clock again.
WakeBlind ==
  /\ pc = "sleep" /\ left = 0
  /\ pc' = "check" /\ now' = target
  /\ UNCHANGED <<cpu, real, abs, target, left, goal, late>>

\* Mutant: the clock is read, and the result dropped.
WakeStale ==
  /\ pc = "sleep" /\ left = 0
  /\ pc' = "check"
  /\ UNCHANGED <<cpu, real, abs, target, now, left, goal, late>>

Wake ==
  /\ pc = "sleep" /\ left = 0
  /\ pc' = "check" /\ now' = cpu
  /\ UNCHANGED <<cpu, real, abs, target, left, goal, late>>

\* A signal: *rem from a fresh reading, unless the time is absolute.
Interrupt ==
  /\ pc = "sleep"
  /\ pc' = "interrupted" /\ left' = IF abs THEN 0 ELSE Max(target - cpu, 0)
  /\ UNCHANGED <<cpu, real, abs, target, now, goal, late>>

\* The caller goes on: with *rem, or with the same absolute time; or gives up.
Restart ==
  /\ pc = "interrupted"
  /\ \/ Enter(IF abs THEN target ELSE left, abs, goal)
     \/ Return /\ UNCHANGED <<cpu, real>>

-----------------------------------------------------------------------------
\* handle_tai with TIMER_ABSTIME: target is the time of CLOCK_REALTIME.
\* Mutant: the offset is added.
tai_added(req) == req + TaiOffset

tai_to_real(req) == IF req >= TaiOffset THEN req - TaiOffset ELSE 0

\* handle_tai_gettime
tai_now == real + TaiOffset

TaiSleep(req) ==
  /\ pc = "idle"
  /\ pc' = "tai" /\ target' = tai_to_real(req) /\ goal' = req
  /\ UNCHANGED <<cpu, real, abs, now, left, late>>

TaiWake ==
  /\ pc = "tai" /\ real >= target
  /\ Return
  /\ UNCHANGED <<cpu, real>>

-----------------------------------------------------------------------------
\* Time passes; up to Cores threads use the CPU.  The sleeper computes in no time.
Pass(used) ==
  /\ \/ pc = "idle"
     \/ pc = "sleep" /\ left > 0
     \/ pc = "tai" /\ real < target
  /\ cpu' = Min(cpu + used, NsMax)
  /\ real' = Min(real + 1, RealMax)
  /\ left' = Max(left - 1, 0)
  /\ late' = (late \/ (pc = "sleep" /\ used > 1))
  /\ UNCHANGED <<pc, abs, target, now, goal>>

\* settimeofday
SetTime(r) ==
  /\ real' = r
  /\ UNCHANGED <<cpu, pc, abs, target, now, left, goal, late>>

Next ==
  \/ \E req \in Requests : TaiSleep(req) \/ \E a \in BOOLEAN : CpuSleep(req, a)
  \/ Check \/ Wake \/ Interrupt \/ Restart \/ TaiWake
  \/ \E used \in 0..Cores : Pass(used)
  \/ \E r \in 0..RealMax : SetTime(r)

Spec == Init /\ [][Next]_vars

Sleeper == Check \/ Wake \/ Restart
Runs    == \E used \in 1..Cores : Pass(used)

-----------------------------------------------------------------------------
\* encoded_cpuclock_who, on an int of range values: & 3, & 4, ~ and >> 3.
Bit(x, b) == (x \div b) % 2 = 1

\* Mutant: a shift that does not keep the sign.
decoded_unsigned(id, range) == -((id + range) \div 8) - 1

decoded(id, range) == -(id \div 8) - 1

encoded_cpuclock_who(id, range, pid, tid) ==
  LET self == IF Bit(id, 4) THEN tid ELSE pid
  IN IF id >= 0 \/ id % 4 # 2 \/ decoded(id, range) \notin {0, self} THEN "none"
     ELSE IF Bit(id, 4) THEN "RUSAGE_THREAD" ELSE "RUSAGE_SELF"

\* glibc: ((~pid << 3) | bits)
CpuClockId(pid, thread) == (-pid - 1) * 8 + (IF thread THEN 6 ELSE 2)

\* Mutant: the fraction is cut off.
timeout_ms_down(sec, ns, perMs, intMax) == Wrap(sec * (Sec \div perMs) + ns \div perMs, intMax)

\* epoll_pwait2: milliseconds, rounded up, in an int; perMs units are one.
timeout_ms(sec, ns, perMs, intMax) ==
  Wrap(sec * (Sec \div perMs) + (ns + perMs - 1) \div perMs, intMax)

-----------------------------------------------------------------------------
\* A sleep on the CPU clock that returns 0, through however many polls, signals
\* and restarts with what remained, has lasted until the CPU time first asked
\* for.  Exception: a time past the end of long long (clock.c:99), where the
\* target wraps around and the call returns at once.
NeverEarly == pc = "check" /\ now >= target /\ goal <= NsMax => cpu >= goal

\* It ends less than a tick late: sleeping for all that remains is safe, as
\* clock.c:108 says, while CPU time does not run faster than wall time.
\* Exception: more than one thread ran meanwhile, and it does.
LessThanTickLate == pc = "sleep" /\ ~late => cpu + left < target + Tick

\* A sleep on the CPU clock ends neither early nor a tick late: both.
WakesOnTime == NeverEarly /\ LessThanTickLate

\* An absolute sleep on CLOCK_TAI is over exactly when the clock that
\* clock_gettime(CLOCK_TAI) shows has reached the time asked for, whatever
\* settimeofday does meanwhile.
TaiAgrees == pc = "tai" => (real >= target <=> tai_now >= goal)

\* Of the CPU clock ids of glibc, the library answers for the process and the
\* thread that ask, as such, and leaves every other id to the kernel.
CpuClocksKnown(range, pids) ==
  \A pid, tid \in pids : \A id \in -(range \div 2)..(range \div 2 - 1) :
    encoded_cpuclock_who(id, range, pid, tid) =
      CASE id \in {CpuClockId(0, FALSE), CpuClockId(pid, FALSE)} -> "RUSAGE_SELF"
        [] id \in {CpuClockId(0, TRUE), CpuClockId(tid, TRUE)}   -> "RUSAGE_THREAD"
        [] OTHER -> "none"

\* epoll_pwait2 waits at least as long as asked, and less than a millisecond more.
\* Exception: a timeout of more than intMax milliseconds, which does not fit an
\* int (epoll.c:112): the wait is shorter, or for ever.
WaitsLongEnough(secs, perMs, intMax) ==
  \A s \in secs, ns \in 0..Sec - 1 :
    LET asked == s * Sec + ns IN
    asked <= intMax * perMs => timeout_ms(s, ns, perMs, intMax) * perMs - asked \in 0..perMs - 1
=============================================================================
