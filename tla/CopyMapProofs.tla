--------------------------- MODULE CopyMapProofs ----------------------------
(***************************************************************************)
(* Theorems about Mmap, for any number of threads and pages; about         *)
(* CopyRange, for every chunk, file and length; and about Clock, for every *)
(* width and tick.                                                         *)
(***************************************************************************)
EXTENDS Mmap, Sequences, TLAPS

\* Where a thread may be in mmap.
MapPcs == {"idle", "pin", "fallback", "strip", "map", "unmap", "lock"}

\* A call in progress, with its arguments and locals.
MapCall ==
  [pc : MapPcs, flags : FlagSets, addr : Pages \cup {0}, n : Sizes \cup {0},
   fd : {"anon", "wrap", "real"}, at : Pages \cup {0},
   probed : BOOLEAN, pin : BOOLEAN, gone : BOOLEAN]

\* Who has mapped a page, and as what.
PageUse == [by : Threads \cup {"none"}, what : {"free", "probe", "new", "map"}]

\* The types of pages and calls.
MapTypes == page \in [Pages -> PageUse] /\ call \in [Threads -> MapCall]

\* The flags are three.
FlagsDiffer == NoReplace # Fixed /\ NoReplace # Locked /\ Fixed # Locked

\* A call c knows where it is: it is idle in its first state only, has its entry
\* pinned in the fallback only, and its probe is where it was asked for.
KnowsPlace(c) ==
  /\ c.pc = "idle" => c = Idle
  /\ c.pc = "fallback" <=> c.pin
  /\ c.pc \in {"pin", "fallback", "strip"} => ~c.probed
  /\ c.probed => c.at = c.addr
  /\ c.pc = "map" => (c.probed <=> NoReplace \in c.flags)

\* A pinned entry has its backing; one that was not closed in the call is open.
Backs(c, cl, b) == (c.pin => b = "tty") /\ (c.fd = "real" /\ ~c.gone => ~cl)

\* What is the call's own, and not yet the application's, lies where it put it.
Tracks(t, c, pg) ==
  \A k \in Pages : pg[k].by = t =>
    /\ pg[k].what = "probe" => k \in Span(c.at, c.n) /\ (c.pc = "unmap" \/ (c.pc = "map" /\ c.probed))
    /\ pg[k].what = "new" => k \in Span(c.at, c.n) /\ c.pc \in {"lock", "unmap"}

\* What the call put there, or was told to replace, is still there.
Holds(t, c, pg) ==
  \A k \in Pages :
    /\ c.pc = "map" /\ c.probed /\ k \in Span(c.at, c.n) => pg[k].by = t /\ pg[k].what = "probe"
    /\ c.pc = "lock" /\ k \in Span(c.at, c.n) => pg[k].by = t /\ pg[k].what = "new"
    /\ c.pc = "unmap" /\ k \in Span(c.at, c.n) => pg[k].by = t /\ pg[k].what \in {"probe", "new"}
    /\ c.pc \in {"pin", "fallback", "strip", "map"} /\ Fixed \in c.flags /\ k \in Span(c.addr, c.n) =>
         pg[k].by = t /\ pg[k].what = "map"

\* The inductive invariant. What a call holds is lost to nobody until a
\* MAP_FIXED fails that had removed its probe.
MapInv ==
  /\ MapTypes /\ (~closed => back = "tty")
  /\ \A t \in Threads :
       KnowsPlace(call[t]) /\ Backs(call[t], closed, back) /\ Tracks(t, call[t], page)
  /\ ~dropped => \A t \in Threads : Holds(t, call[t], page)

\* A step of thread t with the flags of call c touches free pages, and its own.
Spares(t, c) ==
  \A k \in Pages : \/ page'[k] = page[k] \/ page[k] = Free
                   \/ page[k].by = t /\ (NoReplace \in c.flags => page[k].what # "map")

-----------------------------------------------------------------------------
\* Thread t goes on as c, with pages pg.
Goes(t, c, pg) ==
  /\ call' = [call EXCEPT ![t] = c] /\ page' = pg
  /\ closed' = closed /\ back' = back
  /\ dropped' \/ ~dropped \/ \A u \in Threads : call'[u] = Idle
  /\ c \in MapCall /\ pg \in [Pages -> PageUse]
  /\ KnowsPlace(c) /\ Backs(c, closed, back) /\ Tracks(t, c, pg)
  /\ \A k \in Pages : pg[k] = page[k] \/ pg[k].by = t \/ pg[k].what \in {"free", "map"}
  /\ ~dropped =>
       /\ \A k \in Pages : \/ pg[k] = page[k] \/ page[k] = Free
                           \/ page[k].by = t /\ (NoReplace \in call[t].flags => page[k].what # "map")
       /\ dropped' \/ Holds(t, c, pg)

\* Such a step keeps the invariant, and spares the others.
LEMMA MapGoes ==
  ASSUME MapInv, NEW t \in Threads, NEW c, NEW pg, Goes(t, c, pg)
  PROVE  MapInv' /\ (~dropped => Spares(t, call[t])) /\ \A u \in Threads : u # t => call'[u] = call[u]
<1>1. MapTypes
  BY Zenon DEF MapInv
<1>2. call'[t] = c /\ \A u \in Threads : u # t => call'[u] = call[u]
  BY <1>1, Zenon DEF Goes, MapTypes
<1>3. MapTypes'
  BY <1>1, Zenon DEF Goes, MapTypes
<1>4. ASSUME NEW u \in Threads
      PROVE  KnowsPlace(call'[u]) /\ Backs(call'[u], closed', back') /\ Tracks(u, call'[u], page')
  <2>1. CASE u = t
    BY <1>2, <2>1, Zenon DEF Goes
  <2>2. CASE u # t
    <3>1. call'[u] = call[u] /\ closed' = closed /\ back' = back /\ page' = pg
      BY <1>2, <2>2, Zenon DEF Goes
    <3>2. KnowsPlace(call[u]) /\ Backs(call[u], closed, back) /\ Tracks(u, call[u], page)
      BY Zenon DEF MapInv
    <3>3. \A k \in Pages : pg[k] = page[k] \/ pg[k].by = t \/ pg[k].what \in {"free", "map"}
      BY Zenon DEF Goes
    <3>4. Tracks(u, call[u], pg)
      BY <2>2, <3>2, <3>3, SMTT(30) DEF Tracks
    <3> QED BY <3>1, <3>2, <3>4, Zenon
  <2> QED BY <2>1, <2>2, Zenon
<1>5. ASSUME ~dropped', NEW u \in Threads PROVE Holds(u, call'[u], page')
  <2>1. CASE call'[u] = Idle
    BY <2>1, SMTT(30) DEF Holds, Idle
  <2>2. CASE u = t /\ call'[u] # Idle
    BY <1>2, <1>5, <2>2, Zenon DEF Goes
  <2>3. CASE u # t /\ call'[u] # Idle
    <3>1. ~dropped /\ call'[u] = call[u] /\ page' = pg
      BY <1>2, <1>5, <2>3, Zenon DEF Goes
    <3>2. Holds(u, call[u], page)
      BY <3>1, Zenon DEF MapInv
    <3>3. \A k \in Pages : pg[k] = page[k] \/ page[k].what = "free" \/ page[k].by = t
      BY <3>1, SMTT(30) DEF Goes, Free
    <3>4. Holds(u, call[u], pg)
      BY <2>3, <3>2, <3>3, SMTT(30) DEF Holds
    <3> QED BY <3>1, <3>4, Zenon
  <2> QED BY <2>1, <2>2, <2>3, Zenon
<1>6. ~closed' => back' = "tty"
  BY Zenon DEF MapInv, Goes
<1>7. MapInv'
  BY <1>3, <1>4, <1>5, <1>6, Zenon DEF MapInv
<1>8. ~dropped => Spares(t, call[t])
  BY Zenon DEF Goes, Spares
<1> QED BY <1>2, <1>7, <1>8, Zenon

-----------------------------------------------------------------------------
\* What Goto, Map and Unmap do.
LEMMA MapGoto ==
  ASSUME MapTypes, NEW t \in Threads, NEW c, Goto(t, c)
  PROVE  /\ call' = [call EXCEPT ![t] = c] /\ call'[t] = c
         /\ dropped' \/ ~dropped \/ \A u \in Threads : call'[u] = Idle
<1>1. call' = [call EXCEPT ![t] = c] /\ dropped' = (dropped /\ \E u \in Threads : call'[u] # Idle)
  BY Zenon DEF Goto
<1>2. call'[t] = c
  BY <1>1, Zenon DEF MapTypes
<1> QED BY <1>1, <1>2, Zenon

\* Mapping n pages at k gives them to thread t.
LEMMA Mapped ==
  ASSUME MapTypes, NEW t \in Threads, NEW k, NEW n, NEW w \in {"probe", "new", "map"}, Map(t, k, n, w)
  PROVE  /\ page' \in [Pages -> PageUse]
         /\ \A j \in Pages : IF j \in Span(k, n) THEN page'[j].by = t /\ page'[j].what = w
                                                 ELSE page'[j] = page[j]
<1>1. [by |-> t, what |-> w] \in PageUse
  BY SMTT(30) DEF PageUse
<1>2. page' = [j \in Pages |-> IF j \in Span(k, n) THEN [by |-> t, what |-> w] ELSE page[j]]
  BY Zenon DEF Map
<1>3. \A j \in Pages : page'[j] = IF j \in Span(k, n) THEN [by |-> t, what |-> w] ELSE page[j]
  BY <1>2, Zenon
<1>4. page' \in [Pages -> PageUse]
  BY <1>1, <1>2, SMTT(30) DEF MapTypes
<1> QED BY <1>3, <1>4, SMTT(30)

\* Unmapping them frees them.
LEMMA Unmapped ==
  ASSUME MapTypes, NEW k, NEW n, Unmap(k, n)
  PROVE  /\ page' \in [Pages -> PageUse]
         /\ \A j \in Pages : IF j \in Span(k, n) THEN page'[j].by = "none" /\ page'[j].what = "free"
                                                 ELSE page'[j] = page[j]
<1>1. Free \in PageUse
  BY SMTT(30) DEF PageUse, Free
<1>2. page' = [j \in Pages |-> IF j \in Span(k, n) THEN Free ELSE page[j]]
  BY Zenon DEF Unmap
<1>3. \A j \in Pages : page'[j] = IF j \in Span(k, n) THEN Free ELSE page[j]
  BY <1>2, Zenon
<1>4. page' \in [Pages -> PageUse]
  BY <1>1, <1>2, SMTT(30) DEF MapTypes
<1> QED BY <1>3, <1>4, SMTT(30) DEF Free

\* A thread with no call, or one that ends its call.
LEMMA IdleFine ==
  ASSUME NEW t \in Threads, NEW pg, NEW cl, NEW b,
         \A k \in Pages : pg[k].by = t => pg[k].what \notin {"probe", "new"}
  PROVE  /\ Idle \in MapCall /\ KnowsPlace(Idle) /\ Backs(Idle, cl, b)
         /\ Tracks(t, Idle, pg) /\ Holds(t, Idle, pg)
<1>1. Idle \in MapCall
  BY SMTT(30) DEF Idle, MapCall, MapPcs, FlagSets
<1>2. KnowsPlace(Idle) /\ Backs(Idle, cl, b)
  BY SMTT(30) DEF Idle, KnowsPlace, Backs
<1>3. Tracks(t, Idle, pg) /\ Holds(t, Idle, pg)
  BY SMTT(30) DEF Idle, Tracks, Holds
<1> QED BY <1>1, <1>2, <1>3, Zenon

\* What the invariant says of one thread.
LEMMA MapOf ==
  ASSUME MapInv, NEW t \in Threads
  PROVE  /\ MapTypes /\ call[t] \in MapCall
         /\ KnowsPlace(call[t]) /\ Backs(call[t], closed, back) /\ Tracks(t, call[t], page)
         /\ ~dropped => Holds(t, call[t], page)
BY Zenon DEF MapInv, MapTypes

\* A call that ends with the pages as they are, having none of its own.
LEMMA ReturnsFine ==
  ASSUME MapInv, NEW t \in Threads, Return(t), UNCHANGED <<page, back, closed>>,
         call[t].pc \in {"pin", "fallback", "strip"} \/ (call[t].pc = "map" /\ ~call[t].probed)
  PROVE  Goes(t, Idle, page')
<1>1. /\ MapTypes /\ KnowsPlace(call[t]) /\ Tracks(t, call[t], page)
  BY MapOf, Zenon
<1>2. \A k \in Pages : page[k].by = t => page[k].what \notin {"probe", "new"}
  BY <1>1, SMTT(30) DEF Tracks
<1>3. /\ Idle \in MapCall /\ KnowsPlace(Idle) /\ Backs(Idle, closed, back)
      /\ Tracks(t, Idle, page) /\ Holds(t, Idle, page)
  BY <1>2, IdleFine, Zenon
<1>4. Goto(t, Idle) /\ page' = page /\ closed' = closed /\ back' = back
  BY Zenon DEF Return
<1>5. /\ call' = [call EXCEPT ![t] = Idle]
      /\ dropped' \/ ~dropped \/ \A u \in Threads : call'[u] = Idle
  BY <1>1, <1>4, MapGoto, Zenon
<1> QED BY <1>1, <1>3, <1>4, <1>5, Zenon DEF Goes, MapTypes

\* A call that goes on, with the pages as they are.
LEMMA MovesFine ==
  ASSUME MapInv, NEW t \in Threads, NEW c \in MapCall, Goto(t, c), UNCHANGED <<page, back, closed>>,
         KnowsPlace(c), Backs(c, closed, back), Tracks(t, c, page), ~dropped => Holds(t, c, page)
  PROVE  Goes(t, c, page')
<1>1. MapTypes
  BY MapOf, Zenon
<1>2. /\ call' = [call EXCEPT ![t] = c]
      /\ dropped' \/ ~dropped \/ \A u \in Threads : call'[u] = Idle
  BY <1>1, MapGoto, Zenon
<1> QED BY <1>1, <1>2, Zenon DEF Goes, MapTypes

\* A call that changes pages.
LEMMA PagesFine ==
  ASSUME MapInv, NEW t \in Threads, NEW c \in MapCall, Goto(t, c), UNCHANGED <<back, closed>>,
         page' \in [Pages -> PageUse],
         KnowsPlace(c), Backs(c, closed, back), Tracks(t, c, page'),
         \A k \in Pages : page'[k] = page[k] \/ page'[k].by = t \/ page'[k].what \in {"free", "map"},
         ~dropped =>
           /\ Holds(t, c, page')
           /\ \A k \in Pages : \/ page'[k] = page[k] \/ page[k] = Free
                               \/ page[k].by = t /\ (NoReplace \in call[t].flags => page[k].what # "map")
  PROVE  Goes(t, c, page')
<1>1. MapTypes
  BY MapOf, Zenon
<1>2. /\ call' = [call EXCEPT ![t] = c]
      /\ dropped' \/ ~dropped \/ \A u \in Threads : call'[u] = Idle
  BY <1>1, MapGoto, Zenon
<1> QED BY <1>1, <1>2, Zenon DEF Goes

-----------------------------------------------------------------------------
\* Each step of a call.
LEMMA MmapFine ==
  ASSUME MapInv, NEW t \in Threads, NEW flags \in FlagSets, NEW k \in Pages, NEW n \in Sizes,
         NEW fd \in {"anon", "wrap"}, Mmap(t, flags, k, n, fd)
  PROVE  Goes(t, call'[t], page')
<1> DEFINE c == [Idle EXCEPT !.pc = IF fd = "wrap" THEN "pin" ELSE "strip",
                             !.flags = flags, !.addr = k, !.n = n, !.fd = fd]
<1>1. MapTypes /\ Tracks(t, call[t], page)
  BY MapOf, Zenon
<1>2. /\ call[t] = Idle /\ Goto(t, c) /\ UNCHANGED <<page, back, closed>>
      /\ Fixed \in flags => \A j \in Span(k, n) : page[j].by = t /\ page[j].what = "map"
  BY Zenon DEF Mmap
<1>9. c \in MapCall
  BY Zenon DEF Idle, MapCall, MapPcs
<1>3. /\ c.pc \in {"pin", "strip"} /\ c.probed = FALSE /\ c.pin = FALSE /\ c.fd # "real"
      /\ c.flags = flags /\ c.addr = k /\ c.n = n
  BY SMTT(30) DEF Idle
<1> HIDE DEF c
<1>4. KnowsPlace(c) /\ Backs(c, closed, back)
  BY <1>3, SMTT(30) DEF KnowsPlace, Backs
<1>5. \A j \in Pages : page[j].by = t => page[j].what \notin {"probe", "new"}
  BY <1>1, <1>2, SMTT(30) DEF Tracks, Idle
<1>6. Tracks(t, c, page)
  BY <1>5, SMTT(30) DEF Tracks
<1>7. Holds(t, c, page)
  BY <1>2, <1>3, SMTT(30) DEF Holds
<1>8. Goes(t, c, page')
  BY <1>2, <1>4, <1>6, <1>7, <1>9, MovesFine, Zenon
<1> QED BY <1>1, <1>2, <1>8, MapGoto, Zenon

\* mmap_synth_fallback pins the entry and takes the number of its backing.
LEMMA PinFine ==
  ASSUME MapInv, NEW t \in Threads, Pin(t)
  PROVE  Goes(t, call'[t], page')
<1> DEFINE c == [call[t] EXCEPT !.pc = "fallback", !.pin = TRUE, !.fd = "real"]
<1>1. /\ MapTypes /\ call[t] \in MapCall
      /\ KnowsPlace(call[t]) /\ Backs(call[t], closed, back) /\ Tracks(t, call[t], page)
      /\ ~dropped => Holds(t, call[t], page)
  BY MapOf, Zenon
<1>2. /\ call[t].pc = "pin" /\ UNCHANGED <<page, back, closed>>
      /\ (closed /\ Return(t)) \/ (~closed /\ Goto(t, c))
  BY Zenon DEF Pin
<1>3. CASE closed /\ Return(t)
  <2>1. Goes(t, Idle, page')
    BY <1>2, <1>3, ReturnsFine, Zenon
  <2>2. call'[t] = Idle
    BY <1>1, <1>3, MapGoto, Zenon DEF Return
  <2> QED BY <2>1, <2>2, Zenon
<1>4. CASE ~closed /\ Goto(t, c)
  <2>7. c \in MapCall
    BY <1>1, Zenon DEF MapCall, MapPcs
  <2>1. /\ c.pc = "fallback" /\ c.pin = TRUE /\ c.fd = "real" /\ c.probed = call[t].probed
        /\ c.flags = call[t].flags /\ c.addr = call[t].addr /\ c.n = call[t].n /\ c.at = call[t].at
    BY <1>1, SMTT(30) DEF MapCall
  <2> HIDE DEF c
  <2>2. ~closed => back = "tty"
    BY Zenon DEF MapInv
  <2>3. KnowsPlace(c) /\ Backs(c, closed, back)
    BY <1>1, <1>2, <1>4, <2>1, <2>2, SMTT(30) DEF KnowsPlace, Backs
  <2>4. Tracks(t, c, page)
    BY <1>1, <1>2, <2>1, SMTT(30) DEF Tracks
  <2>5. ~dropped => Holds(t, c, page)
    BY <1>1, <1>2, <2>1, SMTT(30) DEF Holds
  <2>6. Goes(t, c, page')
    BY <1>2, <1>4, <2>3, <2>4, <2>5, <2>7, MovesFine, Zenon
  <2> QED BY <1>1, <1>4, <2>6, MapGoto, Zenon
<1> QED BY <1>2, <1>3, <1>4, Zenon

\* The places the kernel chooses are free; the one it is given is the call's.
LEMMA TargetFine ==
  ASSUME MapInv, FlagsDiffer, NEW t \in Threads, NEW k \in Target(t),
         call[t].pc = "fallback" \/ call[t].pc = "map"
  PROVE  /\ k \in Pages \cup {0}
         /\ call[t].probed => k = call[t].at
         /\ ~dropped => \A j \in Pages \cap Span(k, call[t].n) :
              \/ page[j] = Free
              \/ page[j].by = t /\ (NoReplace \in call[t].flags => page[j].what # "map")
<1>1. /\ MapTypes /\ call[t] \in MapCall
      /\ KnowsPlace(call[t])
      /\ ~dropped => Holds(t, call[t], page)
  BY MapOf, Zenon
<1>2. call[t].addr \in Pages \cup {0} /\ call[t].flags \in FlagSets
  BY <1>1, SMTT(30) DEF MapCall
<1>3. Fixed \in call[t].flags => NoReplace \notin call[t].flags
  BY <1>2, SMTT(30) DEF FlagSets, FlagsDiffer
<1>4. /\ call[t].probed => call[t].at = call[t].addr /\ call[t].pc = "map"
      /\ call[t].probed => NoReplace \in call[t].flags
  BY <1>1, SMTT(30) DEF KnowsPlace
<1>5. CASE Fixed \in call[t].flags \/ call[t].probed
  <2>1. k = call[t].addr
    BY <1>5, Zenon DEF Target
  <2>2. ASSUME ~dropped, NEW j \in Pages, j \in Span(k, call[t].n)
        PROVE  page[j].by = t /\ (NoReplace \in call[t].flags => page[j].what # "map")
    BY <1>1, <1>3, <1>4, <1>5, <2>1, <2>2, SMTT(30) DEF Holds
  <2> QED BY <1>2, <1>4, <2>1, <2>2, Zenon
<1>6. CASE ~(Fixed \in call[t].flags \/ call[t].probed)
  BY <1>6, Zenon DEF Target, Places, IsFree
<1> QED BY <1>5, <1>6, Zenon

\* mmap_synth_fallback maps the backing, or fails with the flags or for good.
LEMMA FallbackFine ==
  ASSUME MapInv, FlagsDiffer, NEW t \in Threads, Fallback(t)
  PROVE  Goes(t, call'[t], page')
<1> DEFINE c == [call[t] EXCEPT !.pin = FALSE]
           d == [c EXCEPT !.pc = "strip"]
<1>1. /\ MapTypes /\ call[t] \in MapCall
      /\ KnowsPlace(call[t]) /\ Backs(call[t], closed, back) /\ Tracks(t, call[t], page)
      /\ ~dropped => Holds(t, call[t], page)
  BY MapOf, Zenon
<1>2. /\ call[t].pc = "fallback" /\ UNCHANGED <<back, closed>>
      /\ \/ (\E k \in Target(t) : Map(t, k, c.n, "map")) /\ Return(t)
         \/ Return(t) /\ UNCHANGED page
         \/ Goto(t, d) /\ UNCHANGED page
  BY Zenon DEF Fallback
<1>3. CASE (\E k \in Target(t) : Map(t, k, c.n, "map")) /\ Return(t)
  <2>1. PICK k \in Target(t) : Map(t, k, c.n, "map")
    BY <1>3, Zenon
  <2>2. c.n = call[t].n
    BY <1>1, SMTT(30) DEF MapCall
  <2>3. /\ page' \in [Pages -> PageUse]
        /\ \A j \in Pages : IF j \in Span(k, call[t].n) THEN page'[j].by = t /\ page'[j].what = "map"
                                                        ELSE page'[j] = page[j]
    BY <1>1, <2>1, <2>2, Mapped, Zenon
  <2>4. ~dropped => \A j \in Pages \cap Span(k, call[t].n) :
              \/ page[j] = Free
              \/ page[j].by = t /\ (NoReplace \in call[t].flags => page[j].what # "map")
    BY <1>2, <2>1, TargetFine, Zenon
  <2>5. \A j \in Pages : page'[j].by = t => page'[j].what \notin {"probe", "new"}
    BY <1>1, <1>2, <2>3, SMTT(30) DEF Tracks
  <2>6. /\ Idle \in MapCall /\ KnowsPlace(Idle) /\ Backs(Idle, closed, back)
        /\ Tracks(t, Idle, page') /\ Holds(t, Idle, page')
    BY <2>5, IdleFine, Zenon
  <2>7. Goto(t, Idle)
    BY <1>3, Zenon DEF Return
  <2>8. \A j \in Pages : page'[j] = page[j] \/ page'[j].by = t \/ page'[j].what \in {"free", "map"}
    BY <2>3, Zenon
  <2>9. ~dropped => \A j \in Pages :
          \/ page'[j] = page[j] \/ page[j] = Free
          \/ page[j].by = t /\ (NoReplace \in call[t].flags => page[j].what # "map")
    BY <2>3, <2>4, Zenon
  <2>10. Goes(t, Idle, page')
    BY <1>2, <2>3, <2>6, <2>7, <2>8, <2>9, PagesFine, Zenon
  <2> QED BY <1>1, <2>7, <2>10, MapGoto, Zenon
<1>4. CASE Return(t) /\ UNCHANGED page
  <2>1. Goes(t, Idle, page')
    BY <1>2, <1>4, ReturnsFine, Zenon
  <2>2. call'[t] = Idle
    BY <1>1, <1>4, MapGoto, Zenon DEF Return
  <2> QED BY <2>1, <2>2, Zenon
<1>5. CASE Goto(t, d) /\ UNCHANGED page
  <2>7. c \in MapCall
    BY <1>1, Zenon DEF MapCall, MapPcs
  <2>8. d \in MapCall
    BY <2>7, Zenon DEF MapCall, MapPcs
  <2>1. /\ d.pc = "strip" /\ d.pin = FALSE /\ d.fd = call[t].fd /\ d.probed = call[t].probed
        /\ d.gone = call[t].gone
        /\ d.flags = call[t].flags /\ d.addr = call[t].addr /\ d.n = call[t].n /\ d.at = call[t].at
    BY <1>1, SMTT(30) DEF MapCall
  <2> HIDE DEF d
  <2>3. KnowsPlace(d) /\ Backs(d, closed, back)
    BY <1>1, <1>2, <2>1, SMTT(30) DEF KnowsPlace, Backs
  <2>4. Tracks(t, d, page)
    BY <1>1, <1>2, <2>1, SMTT(30) DEF Tracks
  <2>5. ~dropped => Holds(t, d, page)
    BY <1>1, <1>2, <2>1, SMTT(30) DEF Holds
  <2>6. Goes(t, d, page')
    BY <1>2, <1>5, <2>3, <2>4, <2>5, <2>8, MovesFine, Zenon
  <2> QED BY <1>1, <1>5, <2>6, MapGoto, Zenon
<1> QED BY <1>2, <1>3, <1>4, <1>5, Zenon

\* MAP_FIXED_NOREPLACE: the probe mapping, which lands where it was asked for
\* or is to be removed.
LEMMA ProbeFine ==
  ASSUME MapInv, NEW t \in Threads, Probe(t)
  PROVE  Goes(t, call'[t], page')
<1> DEFINE r == call[t]
           c == [r EXCEPT !.pc = "map", !.probed = TRUE, !.at = r.addr]
           d(k) == [r EXCEPT !.pc = "unmap", !.at = k]
<1>1. /\ MapTypes /\ r \in MapCall
      /\ KnowsPlace(r) /\ Backs(r, closed, back) /\ Tracks(t, r, page)
      /\ ~dropped => Holds(t, r, page)
  BY MapOf, Zenon
<1>2. r.pc = "strip" /\ NoReplace \in r.flags /\ UNCHANGED <<back, closed>>
  BY Zenon DEF Probe
<1>6. \/ IsFree(r.addr, r.n) /\ Map(t, r.addr, r.n, "probe") /\ Goto(t, c)
      \/ \E k \in Places(r.n) : Map(t, k, r.n, "probe") /\ Goto(t, d(k))
      \/ Return(t) /\ UNCHANGED page
  BY Zenon DEF Probe
<1>3. CASE IsFree(r.addr, r.n) /\ Map(t, r.addr, r.n, "probe") /\ Goto(t, c)
  <2>1. r.addr \in Pages \cup {0}
    BY <1>1, SMTT(30) DEF MapCall
  <2>2. c \in MapCall
    BY <1>1, <2>1, Zenon DEF MapCall, MapPcs
  <2>3. /\ c.pc = "map" /\ c.probed = TRUE /\ c.at = r.addr /\ c.pin = r.pin /\ c.fd = r.fd
        /\ c.gone = r.gone /\ c.flags = r.flags /\ c.addr = r.addr /\ c.n = r.n
    BY <1>1, SMTT(30) DEF MapCall
  <2> HIDE DEF c
  <2>4. /\ page' \in [Pages -> PageUse]
        /\ \A j \in Pages : IF j \in Span(r.addr, r.n) THEN page'[j].by = t /\ page'[j].what = "probe"
                                                       ELSE page'[j] = page[j]
    BY <1>1, <1>3, Mapped, Zenon
  <2>5. KnowsPlace(c) /\ Backs(c, closed, back)
    BY <1>1, <1>2, <2>3, SMTT(30) DEF KnowsPlace, Backs
  <2>6. Tracks(t, c, page')
    BY <1>1, <1>2, <2>3, <2>4, SMTT(30) DEF Tracks
  <2>7. \A j \in Pages : j \in Span(r.addr, r.n) => page[j] = Free
    BY <1>3, Zenon DEF IsFree
  <2>8. ~dropped => Holds(t, c, page')
    <3>1. SUFFICES ASSUME ~dropped, NEW j \in Pages, Fixed \in c.flags,
                          j \in Span(r.addr, r.n) PROVE FALSE
      BY <2>3, <2>4, SMTT(30) DEF Holds
    <3>2. page[j].what = "map"
      BY <1>1, <1>2, <2>3, <3>1, SMTT(30) DEF Holds
    <3> QED BY <2>7, <3>1, <3>2, SMTT(30) DEF Free
  <2>9. \A j \in Pages : page'[j] = page[j] \/ page'[j].by = t \/ page'[j].what \in {"free", "map"}
    BY <2>4, Zenon
  <2>10. \A j \in Pages : page'[j] = page[j] \/ page[j] = Free
    BY <2>4, <2>7, Zenon
  <2>11. Goes(t, c, page')
    BY <1>2, <1>3, <2>2, <2>4, <2>5, <2>6, <2>8, <2>9, <2>10, PagesFine, Zenon
  <2> QED BY <1>1, <1>3, <2>11, MapGoto, Zenon
<1>4. CASE \E k \in Places(r.n) : Map(t, k, r.n, "probe") /\ Goto(t, d(k))
  <2>1. PICK k \in Places(r.n) : Map(t, k, r.n, "probe") /\ Goto(t, d(k))
    BY <1>4, Zenon
  <2> DEFINE e == d(k)
  <2>0. k \in Pages /\ \A j \in Span(k, r.n) : page[j] = Free
    BY Zenon DEF Places, IsFree
  <2>2. e \in MapCall
    BY <1>1, <2>0, Zenon DEF MapCall, MapPcs
  <2>3. /\ e.pc = "unmap" /\ e.probed = r.probed /\ e.at = k /\ e.pin = r.pin /\ e.fd = r.fd
        /\ e.gone = r.gone /\ e.flags = r.flags /\ e.addr = r.addr /\ e.n = r.n
    BY <1>1, SMTT(30) DEF MapCall
  <2>12. Goto(t, e)
    BY <2>1, Zenon
  <2> HIDE DEF e
  <2>4. /\ page' \in [Pages -> PageUse]
        /\ \A j \in Pages : IF j \in Span(k, r.n) THEN page'[j].by = t /\ page'[j].what = "probe"
                                                  ELSE page'[j] = page[j]
    BY <1>1, <2>1, Mapped, Zenon
  <2>5. KnowsPlace(e) /\ Backs(e, closed, back)
    BY <1>1, <1>2, <2>3, SMTT(30) DEF KnowsPlace, Backs
  <2>6. Tracks(t, e, page')
    BY <1>1, <1>2, <2>3, <2>4, SMTT(30) DEF Tracks
  <2>8. Holds(t, e, page')
    BY <2>3, <2>4, SMTT(30) DEF Holds
  <2>9. \A j \in Pages : page'[j] = page[j] \/ page'[j].by = t \/ page'[j].what \in {"free", "map"}
    BY <2>4, Zenon
  <2>10. \A j \in Pages : page'[j] = page[j] \/ page[j] = Free
    BY <2>0, <2>4, Zenon
  <2>11. Goes(t, e, page')
    BY <1>2, <2>2, <2>4, <2>5, <2>6, <2>8, <2>9, <2>10, <2>12, PagesFine, Zenon
  <2> QED BY <1>1, <2>11, <2>12, MapGoto, Zenon
<1>5. CASE Return(t) /\ UNCHANGED page
  <2>1. Goes(t, Idle, page')
    BY <1>2, <1>5, ReturnsFine, Zenon
  <2>2. call'[t] = Idle
    BY <1>1, <1>5, MapGoto, Zenon DEF Return
  <2> QED BY <2>1, <2>2, Zenon
<1> QED BY <1>3, <1>4, <1>5, <1>6, Zenon

\* Without that flag there is no probe.
LEMMA NoProbeFine ==
  ASSUME MapInv, NEW t \in Threads, NoProbe(t)
  PROVE  Goes(t, call'[t], page')
<1> DEFINE r == call[t]
           c == [r EXCEPT !.pc = "map"]
<1>1. /\ MapTypes /\ r \in MapCall
      /\ KnowsPlace(r) /\ Backs(r, closed, back) /\ Tracks(t, r, page)
      /\ ~dropped => Holds(t, r, page)
  BY MapOf, Zenon
<1>2. /\ r.pc = "strip" /\ NoReplace \notin r.flags /\ UNCHANGED <<page, back, closed>> /\ Goto(t, c)
  BY Zenon DEF NoProbe
<1>3. c \in MapCall
  BY <1>1, Zenon DEF MapCall, MapPcs
<1>4. /\ c.pc = "map" /\ c.probed = r.probed /\ c.at = r.at /\ c.pin = r.pin /\ c.fd = r.fd
      /\ c.gone = r.gone /\ c.flags = r.flags /\ c.addr = r.addr /\ c.n = r.n
  BY <1>1, SMTT(30) DEF MapCall
<1> HIDE DEF c
<1>5. KnowsPlace(c) /\ Backs(c, closed, back)
  BY <1>1, <1>2, <1>4, SMTT(30) DEF KnowsPlace, Backs
<1>6. Tracks(t, c, page)
  BY <1>1, <1>2, <1>4, SMTT(30) DEF Tracks
<1>7. ~dropped => Holds(t, c, page)
  BY <1>1, <1>2, <1>4, <1>5, SMTT(30) DEF Holds, KnowsPlace
<1>8. Goes(t, c, page')
  BY <1>2, <1>3, <1>5, <1>6, <1>7, MovesFine, Zenon
<1> QED BY <1>1, <1>2, <1>8, MapGoto, Zenon

\* The mapping proper, over the probe or where the kernel likes.
LEMMA PlaceFine ==
  ASSUME MapInv, FlagsDiffer, NEW t \in Threads, Place(t)
  PROVE  Goes(t, call'[t], page')
<1> DEFINE r == call[t]
           d(k) == [r EXCEPT !.pc = "lock", !.at = k]
           c == [r EXCEPT !.pc = "unmap"]
<1>1. /\ MapTypes /\ r \in MapCall
      /\ KnowsPlace(r) /\ Backs(r, closed, back) /\ Tracks(t, r, page)
      /\ ~dropped => Holds(t, r, page)
  BY MapOf, Zenon
<1>2. r.pc = "map" /\ UNCHANGED <<back, closed>>
  BY Zenon DEF Place
<1>10. \/ \E k \in Target(t) : Map(t, k, r.n, "new") /\ Goto(t, d(k))
       \/ ~r.probed /\ Return(t) /\ UNCHANGED page
       \/ r.probed /\ Goto(t, c) /\ UNCHANGED page
       \/ r.probed /\ Unmap(r.at, r.n) /\ call' = [call EXCEPT ![t].pc = "unmap"] /\ dropped'
  BY Zenon DEF Place
<1>3. CASE \E k \in Target(t) : Map(t, k, r.n, "new") /\ Goto(t, d(k))
  <2>1. PICK k \in Target(t) : Map(t, k, r.n, "new") /\ Goto(t, d(k))
    BY <1>3, Zenon
  <2> DEFINE e == d(k)
  <2>0. /\ k \in Pages \cup {0}
        /\ r.probed => k = r.at
        /\ ~dropped => \A j \in Pages \cap Span(k, r.n) :
              \/ page[j] = Free
              \/ page[j].by = t /\ (NoReplace \in r.flags => page[j].what # "map")
    BY <1>2, TargetFine, Zenon
  <2>2. e \in MapCall
    BY <1>1, <2>0, Zenon DEF MapCall, MapPcs
  <2>3. /\ e.pc = "lock" /\ e.probed = r.probed /\ e.at = k /\ e.pin = r.pin /\ e.fd = r.fd
        /\ e.gone = r.gone /\ e.flags = r.flags /\ e.addr = r.addr /\ e.n = r.n
    BY <1>1, SMTT(30) DEF MapCall
  <2>12. Goto(t, e)
    BY <2>1, Zenon
  <2> HIDE DEF e
  <2>4. /\ page' \in [Pages -> PageUse]
        /\ \A j \in Pages : IF j \in Span(k, r.n) THEN page'[j].by = t /\ page'[j].what = "new"
                                                  ELSE page'[j] = page[j]
    BY <1>1, <2>1, Mapped, Zenon
  <2>5. KnowsPlace(e) /\ Backs(e, closed, back)
    BY <1>1, <1>2, <2>0, <2>3, SMTT(30) DEF KnowsPlace, Backs
  <2>6. Tracks(t, e, page')
    BY <1>1, <1>2, <2>0, <2>3, <2>4, SMTT(30) DEF Tracks
  <2>8. Holds(t, e, page')
    BY <2>3, <2>4, SMTT(30) DEF Holds
  <2>9. \A j \in Pages : page'[j] = page[j] \/ page'[j].by = t \/ page'[j].what \in {"free", "map"}
    BY <2>4, Zenon
  <2>10. ~dropped => \A j \in Pages :
           \/ page'[j] = page[j] \/ page[j] = Free
           \/ page[j].by = t /\ (NoReplace \in r.flags => page[j].what # "map")
    BY <2>0, <2>4, Zenon
  <2>11. Goes(t, e, page')
    BY <1>2, <2>2, <2>4, <2>5, <2>6, <2>8, <2>9, <2>10, <2>12, PagesFine, Zenon
  <2> QED BY <1>1, <2>11, <2>12, MapGoto, Zenon
<1>4. CASE ~r.probed /\ Return(t) /\ UNCHANGED page
  <2>1. Goes(t, Idle, page')
    BY <1>2, <1>4, ReturnsFine, Zenon
  <2>2. call'[t] = Idle
    BY <1>1, <1>4, MapGoto, Zenon DEF Return
  <2> QED BY <2>1, <2>2, Zenon
<1>5. c \in MapCall
  BY <1>1, Zenon DEF MapCall, MapPcs
<1>6. /\ c.pc = "unmap" /\ c.probed = r.probed /\ c.at = r.at /\ c.pin = r.pin /\ c.fd = r.fd
      /\ c.gone = r.gone /\ c.flags = r.flags /\ c.addr = r.addr /\ c.n = r.n
  BY <1>1, SMTT(30) DEF MapCall
<1>7. KnowsPlace(c) /\ Backs(c, closed, back)
  <2> HIDE DEF c
  <2> QED BY <1>1, <1>2, <1>6, SMTT(30) DEF KnowsPlace, Backs
<1>8. CASE r.probed /\ Goto(t, c) /\ UNCHANGED page
  <2> HIDE DEF c
  <2>1. Tracks(t, c, page)
    BY <1>1, <1>2, <1>6, SMTT(30) DEF Tracks
  <2>2. ~dropped => Holds(t, c, page)
    BY <1>1, <1>2, <1>6, <1>8, SMTT(30) DEF Holds
  <2>3. Goes(t, c, page')
    BY <1>2, <1>5, <1>7, <1>8, <2>1, <2>2, MovesFine, Zenon
  <2> QED BY <1>1, <1>8, <2>3, MapGoto, Zenon
<1>9. CASE r.probed /\ Unmap(r.at, r.n) /\ call' = [call EXCEPT ![t].pc = "unmap"] /\ dropped'
  <2>1. call' = [call EXCEPT ![t] = c] /\ call'[t] = c
    BY <1>1, <1>9, Zenon DEF MapTypes
  <2> HIDE DEF c
  <2>2. /\ page' \in [Pages -> PageUse]
        /\ \A j \in Pages : IF j \in Span(r.at, r.n) THEN page'[j].by = "none" /\ page'[j].what = "free"
                                                     ELSE page'[j] = page[j]
    BY <1>1, <1>9, Unmapped, Zenon
  <2>3. Tracks(t, c, page')
    BY <1>1, <1>2, <1>6, <2>2, SMTT(30) DEF Tracks
  <2>4. \A j \in Pages : page'[j] = page[j] \/ page'[j].by = t \/ page'[j].what \in {"free", "map"}
    BY <2>2, Zenon
  <2>5. ~dropped => \A j \in Pages :
           \/ page'[j] = page[j] \/ page[j] = Free
           \/ page[j].by = t /\ (NoReplace \in r.flags => page[j].what # "map")
    BY <1>1, <1>2, <1>9, <2>2, SMTT(30) DEF Holds
  <2> QED BY <1>2, <1>5, <1>7, <1>9, <2>1, <2>2, <2>3, <2>4, <2>5, Zenon DEF Goes
<1> QED BY <1>3, <1>4, <1>8, <1>9, <1>10, Zenon

\* munmap of a probe that landed elsewhere, or of a mapping that could not be
\* locked.
LEMMA CleanFine ==
  ASSUME MapInv, NEW t \in Threads, Clean(t)
  PROVE  Goes(t, call'[t], page')
<1> DEFINE r == call[t]
<1>1. /\ MapTypes /\ Tracks(t, r, page)
      /\ ~dropped => Holds(t, r, page)
  BY MapOf, Zenon
<1>2. r.pc = "unmap" /\ UNCHANGED <<back, closed>> /\ Unmap(r.at, r.n) /\ Goto(t, Idle)
  BY Zenon DEF Clean, Return
<1>3. /\ page' \in [Pages -> PageUse]
      /\ \A j \in Pages : IF j \in Span(r.at, r.n) THEN page'[j].by = "none" /\ page'[j].what = "free"
                                                   ELSE page'[j] = page[j]
  BY <1>1, <1>2, Unmapped, Zenon
<1>4. \A j \in Pages : page'[j].by = t => page'[j].what \notin {"probe", "new"}
  BY <1>1, <1>3, SMTT(30) DEF Tracks
<1>5. /\ Idle \in MapCall /\ KnowsPlace(Idle) /\ Backs(Idle, closed, back)
      /\ Tracks(t, Idle, page') /\ Holds(t, Idle, page')
  BY <1>4, IdleFine, Zenon
<1>6. \A j \in Pages : page'[j] = page[j] \/ page'[j].by = t \/ page'[j].what \in {"free", "map"}
  BY <1>3, Zenon
<1>7. ~dropped => \A j \in Pages :
        \/ page'[j] = page[j] \/ page[j] = Free
        \/ page[j].by = t /\ (NoReplace \in r.flags => page[j].what # "map")
  BY <1>1, <1>2, <1>3, SMTT(30) DEF Holds
<1>8. Goes(t, Idle, page')
  BY <1>2, <1>3, <1>5, <1>6, <1>7, PagesFine, Zenon
<1> QED BY <1>1, <1>2, <1>8, MapGoto, Zenon

\* The emulation of MAP_LOCKED.
LEMMA MlockFine ==
  ASSUME MapInv, NEW t \in Threads, Mlock(t)
  PROVE  Goes(t, call'[t], page')
<1> DEFINE r == call[t]
           c == [r EXCEPT !.pc = "unmap"]
<1>1. /\ MapTypes /\ r \in MapCall
      /\ KnowsPlace(r) /\ Backs(r, closed, back) /\ Tracks(t, r, page)
      /\ ~dropped => Holds(t, r, page)
  BY MapOf, Zenon
<1>2. r.pc = "lock" /\ UNCHANGED <<back, closed>>
  BY Zenon DEF Mlock
<1>3. Succeed(t) \/ (Goto(t, c) /\ UNCHANGED page)
  BY Zenon DEF Mlock
<1>4. CASE Succeed(t)
  <2>1. Goto(t, Idle)
    BY <1>4, Zenon DEF Succeed, Return
  <2>2. page' = [k \in Pages |-> IF k \in Mine(t, "new") THEN [page[k] EXCEPT !.what = "map"] ELSE page[k]]
    BY <1>4, Zenon DEF Succeed
  <2>3. ASSUME NEW j \in Pages
        PROVE  /\ page'[j] \in PageUse
               /\ IF page[j].by = t /\ page[j].what = "new" THEN page'[j].by = t /\ page'[j].what = "map"
                                                             ELSE page'[j] = page[j]
    <3>1. page'[j] = IF page[j].by = t /\ page[j].what = "new" THEN [page[j] EXCEPT !.what = "map"] ELSE page[j]
      BY <2>2, Zenon DEF Mine
    <3>2. page[j] \in PageUse
      BY <1>1, Zenon DEF MapTypes
    <3> QED BY <3>1, <3>2, SMTT(30) DEF PageUse
  <2>4. page' \in [Pages -> PageUse]
    <3>1. page' = [k \in Pages |-> page'[k]]
      BY <2>2, Zenon
    <3> QED BY <2>3, <3>1, SMTT(30)
  <2>5. \A j \in Pages : page'[j].by = t => page'[j].what \notin {"probe", "new"}
    BY <1>1, <1>2, <2>3, SMTT(30) DEF Tracks
  <2>6. /\ Idle \in MapCall /\ KnowsPlace(Idle) /\ Backs(Idle, closed, back)
        /\ Tracks(t, Idle, page') /\ Holds(t, Idle, page')
    BY <2>5, IdleFine, Zenon
  <2>7. \A j \in Pages : page'[j] = page[j] \/ page'[j].by = t \/ page'[j].what \in {"free", "map"}
    BY <2>3, Zenon
  <2>8. \A j \in Pages :
          \/ page'[j] = page[j] \/ page[j] = Free
          \/ page[j].by = t /\ (NoReplace \in r.flags => page[j].what # "map")
    BY <2>3, SMTT(30)
  <2>9. Goes(t, Idle, page')
    BY <1>2, <2>1, <2>4, <2>6, <2>7, <2>8, PagesFine, Zenon
  <2> QED BY <1>1, <2>1, <2>9, MapGoto, Zenon
<1>5. CASE Goto(t, c) /\ UNCHANGED page
  <2>1. c \in MapCall
    BY <1>1, Zenon DEF MapCall, MapPcs
  <2>2. /\ c.pc = "unmap" /\ c.probed = r.probed /\ c.at = r.at /\ c.pin = r.pin /\ c.fd = r.fd
        /\ c.gone = r.gone /\ c.flags = r.flags /\ c.addr = r.addr /\ c.n = r.n
    BY <1>1, SMTT(30) DEF MapCall
  <2> HIDE DEF c
  <2>3. KnowsPlace(c) /\ Backs(c, closed, back)
    BY <1>1, <1>2, <2>2, SMTT(30) DEF KnowsPlace, Backs
  <2>4. Tracks(t, c, page)
    BY <1>1, <1>2, <2>2, SMTT(30) DEF Tracks
  <2>5. ~dropped => Holds(t, c, page)
    BY <1>1, <1>2, <2>2, SMTT(30) DEF Holds
  <2>6. Goes(t, c, page')
    BY <1>2, <1>5, <2>1, <2>3, <2>4, <2>5, MovesFine, Zenon
  <2> QED BY <1>1, <1>5, <2>6, MapGoto, Zenon
<1> QED BY <1>3, <1>4, <1>5, Zenon

\* The rest of the process: a thread without a call maps and unmaps.
LEMMA PlainFine ==
  ASSUME MapInv, NEW t \in Threads, Plain(t) \/ \E k \in Pages : Munmap(t, k)
  PROVE  Goes(t, call'[t], page')
<1>1. MapTypes /\ Tracks(t, call[t], page)
  BY MapOf, Zenon
<1>2. call[t] = Idle /\ call' = call /\ UNCHANGED <<back, closed, dropped>>
  BY Zenon DEF Plain, Munmap
<1>3. \A j \in Pages : page[j].by = t => page[j].what \notin {"probe", "new"}
  BY <1>1, <1>2, SMTT(30) DEF Tracks, Idle
<1>4. /\ page' \in [Pages -> PageUse]
      /\ \A j \in Pages : page'[j].by = t => page'[j].what \notin {"probe", "new"}
      /\ \A j \in Pages : page'[j] = page[j] \/ page'[j].by = t \/ page'[j].what \in {"free", "map"}
      /\ \A j \in Pages : page'[j] = page[j] \/ page[j] = Free \/ page[j].by = t
  <2>1. CASE Plain(t)
    <3>1. PICK k \in Places(1) : Map(t, k, 1, "map")
      BY <2>1, Zenon DEF Plain
    <3>2. \A j \in Span(k, 1) : page[j] = Free
      BY Zenon DEF Places, IsFree
    <3>3. /\ page' \in [Pages -> PageUse]
          /\ \A j \in Pages : IF j \in Span(k, 1) THEN page'[j].by = t /\ page'[j].what = "map"
                                                  ELSE page'[j] = page[j]
      BY <1>1, <3>1, Mapped, Zenon
    <3> QED BY <1>3, <3>2, <3>3, SMTT(30)
  <2>2. CASE \E k \in Pages : Munmap(t, k)
    <3>1. PICK k \in Pages : Munmap(t, k)
      BY <2>2, Zenon
    <3>2. page[k].by = t /\ Unmap(k, 1)
      BY <3>1, Zenon DEF Munmap, Mine
    <3>3. /\ page' \in [Pages -> PageUse]
          /\ \A j \in Pages : IF j \in Span(k, 1) THEN page'[j].by = "none" /\ page'[j].what = "free"
                                                  ELSE page'[j] = page[j]
      BY <1>1, <3>2, Unmapped, Zenon
    <3>4. \A j \in Pages : j \in Span(k, 1) => j = k
      BY SMTT(30) DEF Span, Pages
    <3> QED BY <1>3, <3>2, <3>3, <3>4, SMTT(30)
  <2> QED BY <2>1, <2>2, Zenon
<1>5. /\ Idle \in MapCall /\ KnowsPlace(Idle) /\ Backs(Idle, closed, back)
      /\ Tracks(t, Idle, page') /\ Holds(t, Idle, page')
  BY <1>4, IdleFine, Zenon
<1>6. call' = [call EXCEPT ![t] = Idle] /\ call'[t] = Idle
  BY <1>1, <1>2, Zenon DEF MapTypes
<1>7. NoReplace \notin call[t].flags
  BY <1>2, SMTT(30) DEF Idle
<1> QED BY <1>2, <1>4, <1>5, <1>6, <1>7, Zenon DEF Goes

\* A call that is told of the close differs in that only.
LEMMA GoneFine ==
  ASSUME NEW r \in MapCall, KnowsPlace(r), NEW t \in Threads, NEW c, c = [r EXCEPT !.gone = r # Idle],
         Tracks(t, r, page), Backs(r, closed, back)
  PROVE  /\ c \in MapCall /\ KnowsPlace(c) /\ Backs(c, TRUE, back) /\ Tracks(t, c, page)
         /\ Holds(t, r, page) => Holds(t, c, page)
<1>1. CASE r = Idle
  <2>1. r.gone = FALSE
    BY <1>1, SMTT(30) DEF Idle
  <2>5. [r EXCEPT !.gone = FALSE] = r
    BY <2>1, Zenon DEF MapCall
  <2>2. c = Idle
    BY <1>1, <2>5, Zenon
  <2>3. Idle.fd # "real" /\ Idle.pin = FALSE
    BY SMTT(30) DEF Idle
  <2>4. Backs(c, TRUE, back)
    BY <2>2, <2>3, Zenon DEF Backs
  <2> QED BY <1>1, <2>2, <2>4, Zenon
<1>2. CASE r # Idle
  <2>1. c = [r EXCEPT !.gone = TRUE]
    BY <1>2, Zenon
  <2>2. c \in MapCall
    BY <2>1, Zenon DEF MapCall
  <2>3. /\ c.pc = r.pc /\ c.probed = r.probed /\ c.at = r.at /\ c.pin = r.pin /\ c.fd = r.fd
        /\ c.gone = TRUE /\ c.flags = r.flags /\ c.addr = r.addr /\ c.n = r.n
    BY <2>1, SMTT(30) DEF MapCall
  <2>4. r.pc # "idle"
    BY <1>2, Zenon DEF KnowsPlace
  <2>5. KnowsPlace(c) /\ Backs(c, TRUE, back)
    BY <2>3, <2>4, SMTT(30) DEF KnowsPlace, Backs
  <2>6. Tracks(t, c, page)
    BY <2>3, SMTT(30) DEF Tracks
  <2>7. Holds(t, r, page) => Holds(t, c, page)
    BY <2>3, SMTT(30) DEF Holds
  <2> QED BY <2>2, <2>5, <2>6, <2>7, Zenon
<1> QED BY <1>1, <1>2, Zenon

\* Another thread closes the wrap in the middle of the call.
LEMMA CloseFine ==
  ASSUME MapInv, NEW t \in Threads, CloseWrap(t)
  PROVE  MapInv' /\ page' = page
<1>1. /\ closed' = TRUE /\ call' = [u \in Threads |-> [call[u] EXCEPT !.gone = call[u] # Idle]]
      /\ page' = page /\ back' = back /\ dropped' = dropped
  BY Zenon DEF CloseWrap
<1>2. ASSUME NEW u \in Threads
      PROVE  /\ call'[u] \in MapCall /\ KnowsPlace(call'[u]) /\ Backs(call'[u], TRUE, back)
             /\ Tracks(u, call'[u], page)
             /\ ~dropped => Holds(u, call'[u], page)
  <2>1. /\ call[u] \in MapCall
        /\ KnowsPlace(call[u]) /\ Backs(call[u], closed, back) /\ Tracks(u, call[u], page)
        /\ ~dropped => Holds(u, call[u], page)
    BY MapOf, Zenon
  <2>2. call'[u] = [call[u] EXCEPT !.gone = call[u] # Idle]
    BY <1>1, Zenon
  <2>3. /\ call'[u] \in MapCall /\ KnowsPlace(call'[u]) /\ Backs(call'[u], TRUE, back)
        /\ Tracks(u, call'[u], page)
        /\ Holds(u, call[u], page) => Holds(u, call'[u], page)
    BY <2>1, <2>2, GoneFine, Zenon
  <2> QED BY <2>1, <2>3, Zenon
<1>3. MapTypes'
  <2>1. call' = [u \in Threads |-> call'[u]]
    BY <1>1, Zenon
  <2>2. call' \in [Threads -> MapCall]
    BY <1>2, <2>1, Zenon
  <2> QED BY <1>1, <2>2, Zenon DEF MapInv, MapTypes
<1>4. Backs(call'[t], closed', back') /\ \A u \in Threads : Backs(call'[u], closed', back')
  BY <1>1, <1>2, Zenon
<1> QED BY <1>1, <1>2, <1>3, <1>4, Zenon DEF MapInv

\* The backing goes when nobody has it pinned.
LEMMA ReleaseFine ==
  ASSUME MapInv, Release \/ Reuse
  PROVE  MapInv' /\ page' = page
<1>1. /\ page' = page /\ closed' = closed /\ call' = call /\ dropped' = dropped
      /\ closed \/ back # "tty"
      /\ \A t \in Threads : back = "tty" => ~call[t].pin
  BY SMTT(30) DEF Release, Reuse
<1>2. \A t \in Threads : Backs(call[t], closed, back)
  BY Zenon DEF MapInv
<1>3. closed /\ \A t \in Threads : ~call[t].pin
  BY <1>1, <1>2, Zenon DEF MapInv, Backs
<1>4. \A t \in Threads : Backs(call'[t], closed', back')
  BY <1>1, <1>2, <1>3, Zenon DEF Backs
<1> QED BY <1>1, <1>3, <1>4, Zenon DEF MapInv, MapTypes

\* Every step keeps the invariant and spares what is not its own.
LEMMA MapStep ==
  ASSUME MapInv, FlagsDiffer, [Next]_vars
  PROVE  MapInv' /\ SparesOthers
<1>1. ASSUME NEW t \in Threads, Goes(t, call'[t], page')
      PROVE  MapInv' /\ SparesOthers
  <2>1. /\ MapInv' /\ (~dropped => Spares(t, call[t]))
        /\ \A u \in Threads : u # t => call'[u] = call[u]
    BY <1>1, MapGoes, Zenon
  <2>2. SparesOthers
    BY <2>1, Zenon DEF SparesOthers, Spares
  <2> QED BY <2>1, <2>2, Zenon
<1>2. ASSUME page' = page PROVE SparesOthers
  BY <1>2, Zenon DEF SparesOthers
<1>3. CASE UNCHANGED vars
  <2>1. page' = page /\ back' = back /\ closed' = closed /\ call' = call /\ dropped' = dropped
    BY <1>3, Zenon DEF vars
  <2>2. MapInv'
    BY <2>1, Zenon DEF MapInv, MapTypes
  <2> QED BY <1>2, <2>1, <2>2, Zenon
<1>4. CASE Release \/ Reuse
  BY <1>2, <1>4, ReleaseFine, Zenon
<1>5. ASSUME NEW t \in Threads, Step(t) PROVE MapInv' /\ SparesOthers
  <2>1. CASE \E flags \in FlagSets, k \in Pages, n \in Sizes, fd \in {"anon", "wrap"} : Mmap(t, flags, k, n, fd)
    BY <1>1, <2>1, MmapFine, Zenon
  <2>2. CASE Pin(t) \/ Fallback(t)
    BY <1>1, <2>2, PinFine, FallbackFine, Zenon
  <2>3. CASE Probe(t) \/ NoProbe(t)
    BY <1>1, <2>3, ProbeFine, NoProbeFine, Zenon
  <2>4. CASE Place(t) \/ Clean(t) \/ Mlock(t)
    BY <1>1, <2>4, PlaceFine, CleanFine, MlockFine, Zenon
  <2>5. CASE Plain(t) \/ \E k \in Pages : Munmap(t, k)
    BY <1>1, <2>5, PlainFine, Zenon
  <2>6. CASE CloseWrap(t)
    BY <1>2, <2>6, CloseFine, Zenon
  <2> QED BY <1>5, <2>1, <2>2, <2>3, <2>4, <2>5, <2>6, Zenon DEF Step
<1> QED BY <1>3, <1>4, <1>5, Zenon DEF Next

\* It holds when the process starts.
LEMMA MapInit == Init => MapInv
<1> SUFFICES ASSUME Init PROVE MapInv
  OBVIOUS
<1>1. /\ page = [k \in Pages |-> Free] /\ call = [t \in Threads |-> Idle]
      /\ back = "tty" /\ closed = FALSE /\ dropped = FALSE
  BY Zenon DEF Init
<1>2. \A k \in Pages : page[k] = Free
  BY <1>1, Zenon
<1>3. ASSUME NEW t \in Threads
      PROVE  /\ Idle \in MapCall /\ KnowsPlace(Idle) /\ Backs(Idle, closed, back)
             /\ Tracks(t, Idle, page) /\ Holds(t, Idle, page)
  <2>1. \A k \in Pages : page[k].by = t => page[k].what \notin {"probe", "new"}
    BY <1>2, SMTT(30) DEF Free
  <2> QED BY <2>1, IdleFine, Zenon
<1>4. Free \in PageUse
  BY SMTT(30) DEF Free, PageUse
<1>5. MapTypes
  <2>1. page \in [Pages -> PageUse]
    BY <1>1, <1>4, Zenon
  <2>2. call \in [Threads -> MapCall]
    BY <1>1, <1>3, Zenon
  <2> QED BY <2>1, <2>2, Zenon DEF MapTypes
<1>6. \A t \in Threads : call[t] = Idle
  BY <1>1, Zenon
<1> QED BY <1>1, <1>3, <1>5, <1>6, Zenon DEF MapInv

\* The invariant says what the call maps and leaves behind.
LEMMA MapInvSafe == MapInv => MapsItsFile /\ NothingLeft
<1> SUFFICES ASSUME MapInv PROVE MapsItsFile /\ NothingLeft
  OBVIOUS
<1>1. ASSUME NEW t \in Threads
      PROVE  /\ KnowsPlace(call[t]) /\ Backs(call[t], closed, back) /\ Tracks(t, call[t], page)
  BY MapOf, Zenon
<1>2. MapsItsFile
  BY <1>1, Zenon DEF MapInv, MapsItsFile, Backs, KnowsPlace
<1>3. NothingLeft
  <2> SUFFICES ASSUME NEW t \in Threads, call[t] = Idle, NEW k \in Pages,
                      page[k].by = t, page[k].what \in {"probe", "new"}
               PROVE  FALSE
    BY Zenon DEF NothingLeft, Mine
  <2> QED BY <1>1, SMTT(30) DEF Tracks, Idle
<1> QED BY <1>2, <1>3, Zenon

\* While mmap of a wrap uses the number of the backing, that is the wrap's
\* tty, even if another thread closes the wrap: the entry is pinned
\* (mmap_synth_fallback), except in the retry after a close; and a call that
\* is over has left neither a probe nor a mapping that could not be locked.
\* For any number of threads and pages, and every set of flags.
THEOREM MapsTheTty == FlagsDiffer => (Spec => [](MapsItsFile /\ NothingLeft))
<1> SUFFICES ASSUME FlagsDiffer PROVE Spec => [](MapsItsFile /\ NothingLeft)
  OBVIOUS
<1>1. MapInv /\ [Next]_vars => MapInv'
  BY MapStep, Zenon
<1> QED BY <1>1, MapInit, MapInvSafe, PTL DEF Spec

\* A MAP_FIXED_NOREPLACE call neither replaces nor unmaps a page that it did
\* not map itself, in any of its system calls (mmap.c), until a kernel that
\* fails to map has dropped the probe.
THEOREM MapSparesOthers == FlagsDiffer => (Spec => [][SparesOthers]_vars)
<1> SUFFICES ASSUME FlagsDiffer PROVE Spec => [][SparesOthers]_vars
  OBVIOUS
<1>1. MapInv /\ [Next]_vars => MapInv'
  BY MapStep, Zenon
<1>2. MapInv /\ [Next]_vars => [SparesOthers]_vars
  BY MapStep, Zenon
<1> QED BY <1>1, <1>2, MapInit, PTL DEF Spec

-----------------------------------------------------------------------------
CONSTANTS Chunk, Size, Want, Starts
VARIABLES job, data, offset, passed, done, cut, pc, len, off, total, buf, written

Range == INSTANCE CopyRange

\* What the constants are: a chunk is not empty, the rest are numbers.
CopySizes == Chunk \in Nat \ {0} /\ Size \in Nat /\ Want \in Nat /\ Starts \subseteq Nat

\* The n bytes of file s from bo on are those of the original file from bi on.
\* A byte of the original is its own position.
InPlace(s, bi, bo, n) ==
  \A i \in 1..n : bi + i <= Size /\ bo + i <= Len(s) /\ s[bo + i] = bi + i

\* The bytes still to be read from file s are those of the original.
Intact(s, bi) ==
  \A i \in bi + 1..bi + Want : (i <= Size <=> i <= Len(s)) /\ (i <= Size => s[i] = i)

\* The buffer has the original's bytes from at on.
Carries(b, at) ==
  \A k \in 1..Len(b) : at + k <= Size /\ b[k] = at + k

\* The original file as a sequence.
LEMMA OriginalSeq ==
  ASSUME CopySizes
  PROVE  /\ Range!Original \in Seq(Nat) /\ Len(Range!Original) = Size
         /\ \A i \in 1..Size : Range!Original[i] = i
<1>1. Size \in Nat
  BY Zenon DEF CopySizes
<1>2. \A i \in 1..Size : i \in Nat
  BY <1>1, SMTT(30)
<1>3. Range!Original \in [1..Size -> Nat]
  BY <1>2, Zenon DEF Range!Original
<1> QED BY <1>1, <1>3, SMTT(30) DEF Range!Original

\* b is what a read of n bytes at a position of s returns.
Taken(b, s, at, n) ==
  /\ b \in Seq(Nat) /\ Len(b) <= n
  /\ at + n <= Len(s) => Len(b) = n
  /\ Len(b) > 0 => at + Len(b) <= Len(s)
  /\ \A k \in 1..Len(b) : b[k] = s[at + k]

\* Bytes is such a read.
LEMMA BytesOf ==
  ASSUME NEW s \in Seq(Nat), NEW at \in Nat, NEW n \in Nat
  PROVE  Taken(Range!Bytes(s, at, n), s, at, n)
<1> DEFINE e == IF at + n < Len(s) THEN at + n ELSE Len(s)
           b == Range!Bytes(s, at, n)
<1>1. Len(s) \in Nat
  BY SMTT(30)
<1>2. e \in Nat /\ e <= Len(s) /\ e <= at + n /\ (at + n <= Len(s) => e = at + n)
  BY <1>1, SMTT(30)
<1>3. b = SubSeq(s, at + 1, e)
  BY Zenon DEF Range!Bytes
<1> HIDE DEF e, b
<1>4. CASE at + 1 <= e
  <2>1. b \in Seq(Nat) /\ Len(b) = e - at /\ \A k \in 1..(e - at) : b[k] = s[at + k]
    BY <1>1, <1>2, <1>3, <1>4, SMTT(30)
  <2> QED BY <1>1, <1>2, <1>4, <2>1, SMTT(30) DEF b, Taken
<1>5. CASE ~(at + 1 <= e)
  <2>1. b = <<>>
    BY <1>1, <1>2, <1>3, <1>5, SMTT(30)
  <2> QED BY <1>1, <1>2, <1>5, <2>1, SMTT(30) DEF b, Taken
<1> QED BY <1>4, <1>5, Zenon

\* p is file s after b was written at a position, with a hole before it if
\* that lies behind the end.
Laid(p, s, at, b) ==
  /\ p \in Seq(Nat)
  /\ Len(p) = IF at + Len(b) > Len(s) THEN at + Len(b) ELSE Len(s)
  /\ \A i \in 1..Len(p) : p[i] = IF i > at /\ i <= at + Len(b) THEN b[i - at]
                                 ELSE IF i <= Len(s) THEN s[i] ELSE Range!Hole

\* Put is such a write.
LEMMA PutSeq ==
  ASSUME NEW s \in Seq(Nat), NEW at \in Nat, NEW b \in Seq(Nat)
  PROVE  Laid(Range!Put(s, at, b), s, at, b)
<1> DEFINE n == IF at + Len(b) > Len(s) THEN at + Len(b) ELSE Len(s)
           v(i) == IF i > at /\ i <= at + Len(b) THEN b[i - at]
                   ELSE IF i <= Len(s) THEN s[i] ELSE Range!Hole
           p == Range!Put(s, at, b)
<1>1. n \in Nat
  BY SMTT(30)
<1>2. \A i \in 1..n : v(i) \in Nat
  BY SMTT(30) DEF Range!Hole
<1>3. p = [i \in 1..n |-> v(i)]
  BY Zenon DEF Range!Put
<1>4. p \in [1..n -> Nat] /\ \A i \in 1..n : p[i] = v(i)
  BY <1>2, <1>3, Zenon
<1> HIDE DEF n, v, p
<1>5. p \in Seq(Nat) /\ Len(p) = n
  BY <1>1, <1>4, SMTT(30)
<1>6. \A i \in 1..Len(p) : p[i] = v(i)
  BY <1>4, <1>5, Zenon
<1> QED BY <1>5, <1>6, Zenon DEF Laid, n, v, p

\* Writing the next bytes of the buffer after those in place puts them in
\* place too.
LEMMA PutCopies ==
  ASSUME CopySizes, NEW s \in Seq(Nat), NEW bi \in Nat, NEW bo \in Nat, NEW n \in Nat, NEW w \in Nat,
         NEW m \in Nat, NEW b \in Seq(Nat), m > 0, w + m <= Len(b),
         InPlace(s, bi, bo, n + w), Carries(b, bi + n)
  PROVE  InPlace(Range!Put(s, bo + n + w, SubSeq(b, w + 1, w + m)), bi, bo, n + w + m)
<1> DEFINE c == SubSeq(b, w + 1, w + m)
           at == bo + n + w
           p == Range!Put(s, at, c)
<1>1. c \in Seq(Nat) /\ Len(c) = m /\ \A k \in 1..m : c[k] = b[w + k]
  BY SMTT(30)
<1>2. at \in Nat /\ at = bo + n + w
  BY SMTT(30)
<1> HIDE DEF c, at
<1>3. Laid(p, s, at, c)
  BY <1>1, <1>2, PutSeq, Zenon
<1> HIDE DEF p
<1>5. p \in Seq(Nat) /\ Len(p) = IF at + Len(c) > Len(s) THEN at + Len(c) ELSE Len(s)
  BY <1>3, Zenon DEF Laid
<1>7. Len(p) = IF at + m > Len(s) THEN at + m ELSE Len(s)
  BY <1>1, <1>5, Zenon
<1>8. Len(s) \in Nat
  BY SMTT(30)
<1>6. Len(p) \in Nat /\ Len(s) <= Len(p) /\ at + m <= Len(p)
  BY <1>2, <1>7, <1>8, SMTT(30)
<1>4. ASSUME NEW i \in 1..n + w + m PROVE bi + i <= Size /\ bo + i <= Len(p) /\ p[bo + i] = bi + i
  <2>1. i \in Nat /\ Size \in Nat /\ Len(s) \in Nat
    BY <1>4, SMTT(30) DEF CopySizes
  <2>2. CASE i <= n + w
    <3>1. bi + i <= Size /\ bo + i <= Len(s) /\ s[bo + i] = bi + i
      BY <2>1, <2>2, SMTT(30) DEF InPlace
    <3>2. bo + i <= Len(p) /\ bo + i \in 1..Len(p) /\ ~(bo + i > at)
      BY <1>2, <1>6, <2>1, <2>2, <3>1, SMTT(30)
    <3>3. p[bo + i] = s[bo + i]
      BY <1>3, <3>1, <3>2, Zenon DEF Laid
    <3> QED BY <3>1, <3>2, <3>3, Zenon
  <2>3. CASE i > n + w
    <3>1. i - n \in 1..Len(b) /\ i - n - w \in 1..m
      BY <2>1, <2>3, SMTT(30)
    <3>2. bi + n + (i - n) <= Size /\ b[i - n] = bi + n + (i - n)
      BY <3>1, SMTT(30) DEF Carries
    <3>3. c[i - n - w] = b[w + (i - n - w)]
      BY <1>1, <3>1, Zenon
    <3>4. bi + n + (i - n) = bi + i /\ w + (i - n - w) = i - n /\ (bo + i) - at = i - n - w
      BY <1>2, <2>1, SMTT(30)
    <3>5. bo + i > at /\ bo + i <= at + Len(c) /\ bo + i <= Len(p) /\ bo + i \in 1..Len(p)
      BY <1>1, <1>2, <1>6, <2>1, <2>3, SMTT(30)
    <3>6. p[bo + i] = c[(bo + i) - at]
      BY <1>3, <3>5, Zenon DEF Laid
    <3> QED BY <3>2, <3>3, <3>4, <3>5, <3>6, Zenon
  <2> QED BY <2>1, <2>2, <2>3, SMTT(30)
<1> QED BY <1>4, Zenon DEF InPlace, p, c, at

\* A write within the target range spares what is still to be read, if the
\* ranges do not meet and the write does not extend the file before them.
LEMMA PutSpares ==
  ASSUME CopySizes, NEW s \in Seq(Nat), NEW bi \in Nat, NEW bo \in Nat, NEW at \in Nat,
         NEW b \in Seq(Nat),
         bo <= at, at + Len(b) <= bo + Want, Intact(s, bi),
         bo + Want <= bi \/ (bi + Want <= bo /\ bi + Want <= Size)
  PROVE  Intact(Range!Put(s, at, b), bi)
<1> DEFINE p == Range!Put(s, at, b)
<1>1. Laid(p, s, at, b)
  BY PutSeq, Zenon
<1> HIDE DEF p
<1>4. p \in Seq(Nat) /\ Len(p) = IF at + Len(b) > Len(s) THEN at + Len(b) ELSE Len(s)
  BY <1>1, Zenon DEF Laid
<1>2. Want \in Nat /\ Size \in Nat /\ Len(s) \in Nat /\ Len(b) \in Nat
  BY SMTT(30) DEF CopySizes
<1>3. ASSUME NEW i \in bi + 1..bi + Want
      PROVE (i <= Size <=> i <= Len(p)) /\ (i <= Size => p[i] = i)
  <2>1. (i <= Size <=> i <= Len(s)) /\ (i <= Size => s[i] = i)
    BY <1>3, Zenon DEF Intact
  <2>2. ~(i > at /\ i <= at + Len(b)) /\ (i <= Len(s) <=> i <= Len(p))
    BY <1>2, <1>4, <2>1, SMTT(30)
  <2>3. i <= Len(p) => i \in 1..Len(p)
    BY <1>2, <1>4, SMTT(30)
  <2> QED BY <1>1, <2>1, <2>2, <2>3, Zenon DEF Laid
<1> QED BY <1>3, Zenon DEF Intact, p

\* What is read from the part that is intact, cut short or not, is the
\* original's.
LEMMA ReadCarries ==
  ASSUME CopySizes, NEW s \in Seq(Nat), NEW bi \in Nat, NEW k \in Nat, NEW c \in Nat, k + c <= Want,
         Intact(s, bi), NEW n \in 1..Len(Range!Bytes(s, bi + k, c))
  PROVE  Carries(SubSeq(Range!Bytes(s, bi + k, c), 1, n), bi + k)
<1> DEFINE f == Range!Bytes(s, bi + k, c)
           b == SubSeq(f, 1, n)
<1>1. bi + k \in Nat /\ Want \in Nat /\ Size \in Nat /\ Len(s) \in Nat
  BY SMTT(30) DEF CopySizes
<1>6. Taken(f, s, bi + k, c)
  BY <1>1, BytesOf, Zenon
<1> HIDE DEF f
<1>2. f \in Seq(Nat) /\ Len(f) <= c /\ (Len(f) > 0 => bi + k + Len(f) <= Len(s))
  BY <1>6, Zenon DEF Taken
<1>7. \A j \in 1..Len(f) : f[j] = s[bi + k + j]
  BY <1>6, Zenon DEF Taken
<1>3. n \in 1..Len(f)
  BY Zenon DEF f
<1>4. Len(b) = n /\ \A j \in 1..n : b[j] = f[j]
  BY <1>2, <1>3, SMTT(30)
<1> HIDE DEF b
<1>5. ASSUME NEW j \in 1..Len(b) PROVE bi + k + j <= Size /\ b[j] = bi + k + j
  <2>1. j \in 1..Len(f) /\ j \in 1..n
    BY <1>2, <1>3, <1>4, SMTT(30)
  <2>2. b[j] = s[bi + k + j]
    BY <1>4, <1>7, <2>1, Zenon
  <2>3. bi + k + j <= Len(s) /\ bi + k + j \in bi + 1..bi + Want
    BY <1>1, <1>2, <2>1, SMTT(30)
  <2> QED BY <2>2, <2>3, Zenon DEF Intact
<1> QED BY <1>5, Zenon DEF Carries, b, f

\* Bytes in place are read back as the original's.
LEMMA InPlaceIsCopied ==
  ASSUME CopySizes, NEW s \in Seq(Nat), NEW bi \in Nat, NEW bo \in Nat, NEW n \in Nat,
         InPlace(s, bi, bo, n)
  PROVE  Range!Bytes(s, bo, n) = Range!Bytes(Range!Original, bi, n)
<1>1. Range!Original \in Seq(Nat) /\ Len(Range!Original) = Size /\ \A i \in 1..Size : Range!Original[i] = i
  BY OriginalSeq
<1>2. Size \in Nat /\ Len(s) \in Nat
  BY SMTT(30) DEF CopySizes
<1> DEFINE a == Range!Bytes(s, bo, n)
           b == Range!Bytes(Range!Original, bi, n)
<1>9. Taken(a, s, bo, n) /\ Taken(b, Range!Original, bi, n)
  BY <1>1, BytesOf, Zenon
<1> HIDE DEF a, b
<1>3. /\ a \in Seq(Nat) /\ Len(a) <= n /\ (bo + n <= Len(s) => Len(a) = n)
      /\ \A k \in 1..Len(a) : a[k] = s[bo + k]
  BY <1>9, Zenon DEF Taken
<1>4. /\ b \in Seq(Nat) /\ Len(b) <= n /\ (bi + n <= Size => Len(b) = n)
      /\ \A k \in 1..Len(b) : b[k] = Range!Original[bi + k]
  BY <1>1, <1>9, Zenon DEF Taken
<1>5. n > 0 => bi + n <= Size /\ bo + n <= Len(s)
  BY SMTT(30) DEF InPlace
<1>6. Len(a) = n /\ Len(b) = n
  BY <1>3, <1>4, <1>5, SMTT(30)
<1>7. ASSUME NEW k \in 1..n PROVE a[k] = b[k]
  <2>1. s[bo + k] = bi + k /\ bi + k <= Size
    BY <1>7, Zenon DEF InPlace
  <2>2. bi + k \in 1..Size
    BY <1>2, <2>1, SMTT(30)
  <2> QED BY <1>1, <1>3, <1>4, <1>6, <2>1, <2>2, Zenon
<1>8. a = b
  BY <1>3, <1>4, <1>6, <1>7, SMTT(30)
<1> QED BY <1>8, Zenon DEF a, b

\* Where the end of the target may be, after a write.
LEMMA EndMoves ==
  ASSUME NEW b \in Nat, NEW d \in Nat, NEW t \in Nat, NEW w \in Nat, NEW n \in Nat, NEW c \in Nat,
         NEW l \in Nat, NEW m,
         l < b + d + t + c \/ l <= b + d + t + w,
         m = IF b + d + t + w + n > l THEN b + d + t + w + n ELSE l
  PROVE  m < b + d + t + c \/ m <= b + d + t + (w + n)
BY SMTT(30)

\* And once the buffer is written.
LEMMA EndPassed ==
  ASSUME NEW b \in Nat, NEW d \in Nat, NEW t \in Nat, NEW w \in Nat, NEW c \in Nat, c > 0,
         NEW l \in Nat,
         l < b + d + t + c \/ l <= b + d + t + w
  PROVE  l < b + d + (t + w) + c
BY SMTT(30)

\* A write of part of a buffer stays within the range asked for.
LEMMA StaysWithin ==
  ASSUME NEW b \in Nat, NEW k \in Nat, NEW w \in Nat, NEW n \in Nat, NEW l \in Nat, NEW c \in Nat,
         w + n <= c, c <= l
  PROVE  b <= b + k + w /\ b + k + w + n <= b + (k + l)
BY SMTT(30)

-----------------------------------------------------------------------------
\* The types of the variables.
CopyTypes ==
  /\ job \in [same : BOOLEAN, null : SUBSET Range!Ends, start : [Range!Ends -> Nat]]
  /\ data \in [Range!Ends -> Seq(Nat)]
  /\ offset \in [Range!Ends -> Nat] /\ passed \in [Range!Ends -> Nat] /\ off \in [Range!Ends -> Nat]
  /\ done \in Nat /\ len \in Nat /\ total \in Nat /\ written \in Nat
  /\ buf \in Seq(Nat) /\ cut \in BOOLEAN
  /\ pc \in {"none", "idle", "read", "write", "seek"}

\* What the counters of the loops say of each other.
Counted ==
  /\ Range!AtRest => total = 0 /\ done <= Want
  /\ ~Range!AtRest => done + total + len = Want
  /\ pc = "none" => done = 0 /\ ~cut
  /\ pc # "write" => Len(buf) = 0
  /\ written <= Len(buf) /\ Len(buf) <= len /\ Len(buf) <= Chunk

\* The offsets stand behind what was copied: the file's own between calls, the
\* program's after every chunk, the local ones in the loop.
StandsAt(e) ==
  /\ e \in job.null => offset[e] = Range!Begin(e) + done
  /\ e \notin job.null => offset[e] = 0 /\ passed[e] = Range!Begin(e) + done + total
  /\ ~Range!AtRest => off[e] = Range!Begin(e) + done + total

\* So do both ends, unless an error has lost a position.
Stands == ~Range!Lost => \A e \in Range!Ends : StandsAt(e)

\* The target reaches less than a chunk beyond what was copied.
Reaches ==
  ~Range!Lost /\ ~job.same =>
    \/ Len(data["out"]) < Range!Begin("out") + done + total + Chunk
    \/ Len(data["out"]) <= Range!Begin("out") + done + total + written

\* What was counted is in place, what is to come is intact, and the buffer has
\* what comes next.
Copied ==
  Range!Apart /\ ~Range!Lost =>
    /\ InPlace(data[Range!Target], Range!Begin("in"), Range!Begin("out"), done + total + written)
    /\ pc # "none" => Intact(data["in"], Range!Begin("in"))
    /\ Carries(buf, Range!Begin("in") + done + total)

\* The inductive invariant.
CopyInv == CopyTypes /\ Counted /\ Stands /\ Reaches /\ Copied

\* The positions and files that the invariant speaks of.
LEMMA CopyPlaces ==
  ASSUME CopyTypes
  PROVE  /\ Range!Begin("in") \in Nat /\ Range!Begin("out") \in Nat /\ Range!Target \in Range!Ends
         /\ data[Range!Target] \in Seq(Nat) /\ data["in"] \in Seq(Nat) /\ data["out"] \in Seq(Nat)
         /\ Len(data["in"]) \in Nat /\ Len(data["out"]) \in Nat
         /\ \A e \in Range!Ends : Range!Begin(e) \in Nat
<1>1. \A e \in Range!Ends : Range!Begin(e) \in Nat
  BY SMTT(30) DEF CopyTypes, Range!Begin
<1>2. "in" \in Range!Ends /\ "out" \in Range!Ends /\ Range!Target \in Range!Ends
  BY Zenon DEF Range!Target, Range!Ends
<1>3. \A e \in Range!Ends : data[e] \in Seq(Nat)
  BY Zenon DEF CopyTypes
<1>4. \A x \in Seq(Nat) : Len(x) \in Nat
  BY SMTT(30)
<1> QED BY <1>1, <1>2, <1>3, <1>4, Zenon

\* It says that the copy is exact and the offsets agree.
LEMMA CopyInvSafe ==
  ASSUME CopySizes, CopyInv
  PROVE  Range!CopiedExactly /\ Range!OffsetsAgree
<1>1. CopyTypes /\ Counted /\ Stands /\ Reaches /\ Copied
  BY Zenon DEF CopyInv
<1>2. Range!AtRest => total = 0 /\ written = 0
  BY <1>1, SMTT(30) DEF Counted, CopyTypes, Range!AtRest
<1>3. /\ Range!Begin("in") \in Nat /\ Range!Begin("out") \in Nat /\ data[Range!Target] \in Seq(Nat)
      /\ done \in Nat
      /\ Len(data["out"]) \in Nat /\ \A e \in Range!Ends : Range!Begin(e) \in Nat
  BY <1>1, CopyPlaces, Zenon DEF CopyTypes
<1>4. Range!CopiedExactly
  <2> SUFFICES ASSUME Range!AtRest, Range!Apart, ~Range!Lost
               PROVE Range!Bytes(data[Range!Target], Range!Begin("out"), done) = Range!Bytes(Range!Original, Range!Begin("in"), done)
    BY Zenon DEF Range!CopiedExactly
  <2>1. InPlace(data[Range!Target], Range!Begin("in"), Range!Begin("out"), done + total + written)
    BY <1>1, Zenon DEF Copied
  <2>2. done + total + written = done
    BY <1>2, <1>3, SMTT(30)
  <2>3. InPlace(data[Range!Target], Range!Begin("in"), Range!Begin("out"), done)
    BY <2>1, <2>2, Zenon
  <2>4. data[Range!Target] \in Seq(Nat) /\ Range!Begin("in") \in Nat /\ Range!Begin("out") \in Nat
        /\ done \in Nat
    BY <1>3
  <2> QED BY <2>3, <2>4, InPlaceIsCopied, Zenon
<1>5. Range!OffsetsAgree
  <2> SUFFICES ASSUME Range!AtRest, ~Range!Lost
               PROVE  /\ \A e \in Range!Ends : IF e \in job.null THEN offset[e] = Range!Begin(e) + done
                                         ELSE passed[e] = Range!Begin(e) + done /\ offset[e] = 0
                      /\ ~job.same => Len(data["out"]) < Range!Begin("out") + done + Chunk
    BY Zenon DEF Range!OffsetsAgree
  <2>1. ASSUME NEW e \in Range!Ends PROVE IF e \in job.null THEN offset[e] = Range!Begin(e) + done
                                    ELSE passed[e] = Range!Begin(e) + done /\ offset[e] = 0
    <3>1. StandsAt(e)
      BY <1>1, Zenon DEF Stands
    <3>2. Range!Begin(e) + done + total = Range!Begin(e) + done
      BY <1>2, <1>3, SMTT(30)
    <3> QED BY <3>1, <3>2, Zenon DEF StandsAt
  <2>2. ~job.same => Len(data["out"]) < Range!Begin("out") + done + Chunk
    BY <1>1, <1>2, <1>3, SMTT(30) DEF Reaches, CopySizes
  <2> QED BY <2>1, <2>2, Zenon
<1> QED BY <1>4, <1>5

\* It holds at first, and for every copy the program starts.
LEMMA CopyInit ==
  ASSUME CopySizes, Range!Init
  PROVE  CopyInv
<1>1. CopyTypes
  <2>1. job \in [same : BOOLEAN, null : SUBSET Range!Ends, start : [Range!Ends -> Nat]]
    BY SMTT(30) DEF Range!Init, Range!NoJob, Range!Ends
  <2>2. data \in [Range!Ends -> Seq(Nat)] /\ offset \in [Range!Ends -> Nat]
        /\ passed \in [Range!Ends -> Nat]
        /\ off \in [Range!Ends -> Nat]
    BY SMTT(30) DEF Range!Init, Range!Quiet, Range!Zero
  <2>3. done \in Nat /\ len \in Nat /\ total \in Nat /\ written \in Nat /\ buf \in Seq(Nat)
    BY SMTT(30) DEF Range!Init, Range!Quiet
  <2>4. cut \in BOOLEAN /\ pc \in {"none", "idle", "read", "write", "seek"}
    BY Zenon DEF Range!Init
  <2> QED BY <2>1, <2>2, <2>3, <2>4, Zenon DEF CopyTypes
<1>2. ~cut /\ pc = "none" /\ done = 0 /\ total = 0 /\ written = 0 /\ Len(buf) = 0 /\ len = 0
  BY SMTT(30) DEF Range!Init, Range!Quiet
<1>3. Counted
  BY <1>2, SMTT(30) DEF Counted, Range!AtRest, CopySizes
<1>4. /\ \A e \in Range!Ends : offset[e] = 0 /\ passed[e] = 0 /\ Range!Begin(e) = 0 /\ e \notin job.null
      /\ data["out"] = <<>>
  BY SMTT(30) DEF Range!Init, Range!Zero, Range!NoJob, Range!Begin, Range!Ends
<1>5. Stands
  BY <1>2, <1>4, SMTT(30) DEF Stands, StandsAt, Range!AtRest
<1>6. Reaches
  BY <1>2, <1>4, SMTT(30) DEF Reaches, CopySizes, Range!Ends
<1>7. Copied
  BY <1>2, <1>4, SMTT(30) DEF Copied, InPlace, Carries
<1> QED BY <1>1, <1>3, <1>5, <1>6, <1>7, Zenon DEF CopyInv

\* The program's own steps.
LEMMA StartFine ==
  ASSUME CopySizes, CopyInv, NEW j \in Range!Jobs, Range!Start(j)
  PROVE  CopyInv'
<1>1. CopyTypes /\ Counted
  BY Zenon DEF CopyInv
<1>2. /\ job' = j /\ data' = [e \in Range!Ends |-> IF e = "in" THEN Range!Original ELSE <<>>]
      /\ offset' = [e \in Range!Ends |-> IF e \in j.null THEN j.start[e] ELSE 0]
      /\ passed' = [e \in Range!Ends |-> IF e \in j.null THEN 0 ELSE j.start[e]]
      /\ pc = "none" /\ pc' = "idle" /\ done' = done /\ cut' = cut
      /\ len' = len /\ off' = off /\ total' = total /\ buf' = buf /\ written' = written
  BY Zenon DEF Range!Start, Range!locals
<1>3. done = 0 /\ ~cut /\ total = 0 /\ Len(buf) = 0 /\ written = 0
  BY <1>1, <1>2, SMTT(30) DEF Counted, Range!AtRest, CopyTypes
<1>4. j \in [same : BOOLEAN, null : SUBSET Range!Ends, start : [Range!Ends -> Nat]]
      /\ j.start \in [Range!Ends -> Nat]
  <2>1. Starts \subseteq Nat
    BY Zenon DEF CopySizes
  <2>2. j.same \in BOOLEAN /\ j.null \in SUBSET Range!Ends /\ j.start \in [Range!Ends -> Starts]
    BY SMTT(30) DEF Range!Jobs
  <2>3. j.start \in [Range!Ends -> Nat]
    BY <2>1, <2>2, SMTT(30)
  <2> QED BY <2>1, <2>3, SMTT(30) DEF Range!Jobs
<1>5. Range!Original \in Seq(Nat) /\ Len(Range!Original) = Size /\ \A i \in 1..Size : Range!Original[i] = i
  BY OriginalSeq
<1>6. data' \in [Range!Ends -> Seq(Nat)]
  BY <1>2, <1>5, SMTT(30)
<1>7. offset' \in [Range!Ends -> Nat] /\ passed' \in [Range!Ends -> Nat]
  BY <1>2, <1>4, SMTT(30)
<1>8. CopyTypes'
  BY <1>1, <1>2, <1>4, <1>6, <1>7, Zenon DEF CopyTypes
<1>9. Counted'
  BY <1>1, <1>2, <1>3, SMTT(30) DEF Counted, Range!AtRest, CopyTypes, CopySizes
<1>10. ASSUME NEW e \in Range!Ends PROVE StandsAt(e)'
  <2>1. /\ offset'[e] = IF e \in j.null THEN j.start[e] ELSE 0
        /\ passed'[e] = IF e \in j.null THEN 0 ELSE j.start[e]
    BY <1>2, Zenon
  <2>2. j.start[e] \in Nat /\ Range!Begin(e)' = j.start[e] /\ job'.null = j.null
    BY <1>2, <1>4, Zenon DEF Range!Begin
  <2>3. j.start[e] + 0 = j.start[e] /\ j.start[e] + 0 + 0 = j.start[e]
    BY <2>2, SMTT(30)
  <2>4. done' = 0 /\ total' = 0 /\ Range!AtRest'
    BY <1>2, <1>3, Zenon DEF Range!AtRest
  <2> QED BY <2>1, <2>2, <2>3, <2>4, Zenon DEF StandsAt
<1>11. data'["in"] = Range!Original /\ data'["out"] = <<>> /\ Range!Begin("in")' = j.start["in"]
       /\ Range!Begin("out")' = j.start["out"]
       /\ j.start["in"] \in Nat /\ j.start["out"] \in Nat
  BY <1>2, <1>4, SMTT(30) DEF Range!Ends, Range!Begin
<1>12. Reaches'
  BY <1>2, <1>3, <1>11, SMTT(30) DEF Reaches, CopySizes
<1>13. Intact(data["in"], Range!Begin("in"))'
  BY <1>5, <1>11, SMTT(30) DEF Intact, CopySizes
<1>14. done' + total' + written' = 0 /\ Len(buf') = 0
  BY <1>2, <1>3, SMTT(30)
<1>15. Copied'
  BY <1>13, <1>14, SMTT(30) DEF Copied, InPlace, Carries
<1> QED BY <1>8, <1>9, <1>10, <1>12, <1>15, Zenon DEF CopyInv, Stands

\* The program is done with a copy.
LEMMA StopFine ==
  ASSUME CopySizes, CopyInv, Range!Stop
  PROVE  CopyInv'
<1>1. CopyTypes /\ Counted
  BY Zenon DEF CopyInv
<1>2. /\ job' = Range!NoJob /\ data' = [e \in Range!Ends |-> <<>>]
      /\ offset' = Range!Zero /\ passed' = Range!Zero /\ done' = 0 /\ cut' = FALSE /\ pc' = "none"
      /\ pc = "idle"
      /\ len' = len /\ off' = off /\ total' = total /\ buf' = buf /\ written' = written
  BY Zenon DEF Range!Stop, Range!locals
<1>3. total = 0 /\ Len(buf) = 0 /\ written = 0
  BY <1>1, <1>2, SMTT(30) DEF Counted, Range!AtRest, CopyTypes
<1>4. job' \in [same : BOOLEAN, null : SUBSET Range!Ends, start : [Range!Ends -> Nat]]
  BY <1>2, SMTT(30) DEF Range!NoJob, Range!Ends
<1>5. data' \in [Range!Ends -> Seq(Nat)] /\ offset' \in [Range!Ends -> Nat]
      /\ passed' \in [Range!Ends -> Nat] /\ done' \in Nat
  BY <1>2, SMTT(30) DEF Range!Zero
<1>8. CopyTypes'
  BY <1>1, <1>2, <1>4, <1>5, Zenon DEF CopyTypes
<1>9. Counted'
  BY <1>1, <1>2, <1>3, SMTT(30) DEF Counted, Range!AtRest, CopyTypes, CopySizes
<1>10. /\ \A e \in Range!Ends : offset'[e] = 0 /\ passed'[e] = 0 /\ Range!Begin(e)' = 0 /\ e \notin job'.null
       /\ data'["out"] = <<>>
  BY <1>2, SMTT(30) DEF Range!Zero, Range!NoJob, Range!Begin, Range!Ends
<1>11. Stands'
  BY <1>2, <1>3, <1>10, SMTT(30) DEF Stands, StandsAt, Range!AtRest
<1>12. Reaches'
  BY <1>2, <1>3, <1>10, SMTT(30) DEF Reaches, CopySizes, Range!Ends
<1>13. Copied'
  BY <1>2, <1>3, <1>10, SMTT(30) DEF Copied, InPlace, Carries
<1> QED BY <1>8, <1>9, <1>11, <1>12, <1>13, Zenon DEF CopyInv

\* The job alone decides where the copy begins and goes to.
LEMMA SameJob ==
  ASSUME job' = job
  PROVE  /\ \A e : Range!Begin(e)' = Range!Begin(e)
         /\ Range!Target' = Range!Target /\ (Range!Apart' <=> Range!Apart)
  BY Zenon DEF Range!Begin, Range!Target, Range!Apart

\* The program calls copy_file_range for what is left.
LEMMA CallFine ==
  ASSUME CopySizes, CopyInv, Range!Call
  PROVE  CopyInv'
<1>1. CopyTypes /\ Counted /\ Stands /\ Reaches /\ Copied
  BY Zenon DEF CopyInv
<1>2. /\ pc = "idle" /\ done < Want /\ len' = Want - done /\ pc' = "read"
      /\ job' = job /\ data' = data /\ offset' = offset /\ passed' = passed /\ done' = done
      /\ cut' = cut /\ total' = total /\ buf' = buf /\ written' = written
  BY Zenon DEF Range!Call
<1>3. off' = [e \in Range!Ends |-> IF e \in job.null THEN offset[e] ELSE passed[e]]
  BY Zenon DEF Range!Call
<1>4. off' \in [Range!Ends -> Nat]
  BY <1>1, <1>3, SMTT(30) DEF CopyTypes
<1>5. len' \in Nat
  BY <1>1, <1>2, SMTT(30) DEF CopyTypes, CopySizes
<1>6. CopyTypes'
  BY <1>1, <1>2, <1>4, <1>5, Zenon DEF CopyTypes
<1>7. Counted'
  BY <1>1, <1>2, <1>5, SMTT(30) DEF Counted, Range!AtRest, CopyTypes, CopySizes
<1>8. \A e : Range!Begin(e)' = Range!Begin(e)
  BY <1>2, SameJob
<1>9. Range!Target' = Range!Target /\ (Range!Apart' <=> Range!Apart) /\ (Range!Lost' <=> Range!Lost)
  BY <1>2, SameJob, Zenon DEF Range!Lost
<1>10. ASSUME NEW e \in Range!Ends, StandsAt(e) PROVE StandsAt(e)'
  <2>1. Range!AtRest /\ total = 0
    BY <1>1, <1>2, Zenon DEF Range!AtRest, Counted
  <2>2. Range!Begin(e) + done \in Nat
    <3>1. Range!Begin(e) \in Nat /\ done \in Nat
      BY <1>1, <1>10, CopyPlaces, Zenon DEF CopyTypes
    <3> QED BY <3>1, SMTT(30)
  <2>3. Range!Begin(e) + done + total = Range!Begin(e) + done
    BY <2>1, <2>2, SMTT(30)
  <2>4. off'[e] = IF e \in job.null THEN offset[e] ELSE passed[e]
    BY <1>3, <1>10, Zenon
  <2> QED BY <1>2, <1>8, <1>10, <2>3, <2>4, Zenon DEF StandsAt
<1>11. Stands'
  BY <1>1, <1>9, <1>10, Zenon DEF Stands
<1>12. Reaches'
  BY <1>1, <1>2, <1>8, <1>9, Zenon DEF Reaches
<1>13. Copied'
  <2>1. "idle" # "none" /\ "read" # "none"
    OBVIOUS
  <2> QED BY <1>1, <1>2, <1>8, <1>9, <2>1, Zenon DEF Copied
<1> QED BY <1>6, <1>7, <1>11, <1>12, <1>13, Zenon DEF CopyInv

\* The call returns what it has copied, with the offsets updated.
LEMMA CopyReturns ==
  ASSUME CopySizes, CopyInv, ~Range!AtRest, Range!Return(total), UNCHANGED <<job, data, passed>>,
         offset' \in [Range!Ends -> Nat], cut' \in BOOLEAN, Range!Lost => Range!Lost', written < Chunk,
         ~Range!Lost' => \A e \in Range!Ends : StandsAt(e)'
  PROVE  CopyInv'
<1>1. CopyTypes /\ Counted /\ Stands /\ Reaches /\ Copied
  BY Zenon DEF CopyInv
<1>2. /\ pc' = "idle" /\ done' = done + total /\ len' = 0 /\ off' = Range!Zero /\ total' = 0
      /\ buf' = <<>>
      /\ written' = 0 /\ job' = job /\ data' = data /\ passed' = passed
  BY Zenon DEF Range!Return
<1>3. off' \in [Range!Ends -> Nat] /\ done' \in Nat /\ len' \in Nat /\ total' \in Nat
      /\ buf' \in Seq(Nat) /\ written' \in Nat
      /\ Len(buf') = 0
  BY <1>1, <1>2, SMTT(30) DEF CopyTypes, Range!Zero
<1>4. CopyTypes'
  BY <1>1, <1>2, <1>3, Zenon DEF CopyTypes
<1>5. done + total <= Want
  BY <1>1, SMTT(30) DEF CopyTypes, Counted
<1>6. Counted'
  BY <1>2, <1>3, <1>5, SMTT(30) DEF Counted, Range!AtRest, CopySizes
<1>7. \A e : Range!Begin(e)' = Range!Begin(e)
  BY <1>2, SameJob
<1>8. Range!Target' = Range!Target /\ (Range!Apart' <=> Range!Apart)
  BY <1>2, SameJob, Zenon
<1>9. Range!Begin("in") \in Nat /\ Range!Begin("out") \in Nat /\ data[Range!Target] \in Seq(Nat)
      /\ data["out"] \in Seq(Nat)
  BY <1>1, CopyPlaces, Zenon DEF CopyTypes
<1>10. Reaches'
  <2> SUFFICES ASSUME ~Range!Lost', ~job.same
               PROVE  Len(data["out"]) < Range!Begin("out") + done' + total' + Chunk
    BY <1>2, <1>7, Zenon DEF Reaches
  <2>1. \/ Len(data["out"]) < Range!Begin("out") + done + total + Chunk
        \/ Len(data["out"]) <= Range!Begin("out") + done + total + written
    BY <1>1, Zenon DEF Reaches
  <2>2. Len(data["out"]) \in Nat /\ done \in Nat /\ total \in Nat /\ written \in Nat
    BY <1>1, <1>9, SMTT(30) DEF CopyTypes
  <2> QED BY <1>2, <1>9, <2>1, <2>2, SMTT(30) DEF CopySizes
<1>11. ASSUME Range!Apart',
              ~Range!Lost' PROVE InPlace(data[Range!Target], Range!Begin("in"), Range!Begin("out"), done + total + written)'
  <2>1. InPlace(data[Range!Target], Range!Begin("in"), Range!Begin("out"), done + total + written)
    BY <1>1, <1>8, <1>11, Zenon DEF Copied
  <2>2. \A k \in 1..(done' + total' + written') : k \in 1..(done + total + written)
    BY <1>1, <1>2, SMTT(30) DEF CopyTypes
  <2> QED BY <1>2, <1>7, <1>8, <2>1, <2>2, Zenon DEF InPlace
<1>12. ASSUME Range!Apart', ~Range!Lost' PROVE Intact(data["in"], Range!Begin("in"))'
  <2>1. pc # "none"
    BY Zenon DEF Range!AtRest
  <2> QED BY <1>1, <1>2, <1>7, <1>8, <1>12, <2>1, Zenon DEF Copied
<1>13. Carries(buf, Range!Begin("in") + done + total)'
  BY <1>3, SMTT(30) DEF Carries
<1>14. Copied'
  BY <1>11, <1>12, <1>13, Zenon DEF Copied
<1> QED BY <1>4, <1>6, <1>10, <1>14, Zenon DEF CopyInv, Stands

\* A pread or pwrite fails; the call returns what it has copied so far.
LEMMA FailFine ==
  ASSUME CopySizes, CopyInv, ~Range!AtRest, written < Chunk, Range!Fail
  PROVE  CopyInv'
<1>1. CopyTypes /\ Stands
  BY Zenon DEF CopyInv
<1>2. /\ (cut' <=> cut \/ total > 0) /\ Range!Return(total)
      /\ job' = job /\ data' = data /\ offset' = offset /\ passed' = passed
  BY Zenon DEF Range!Fail
<1>3. cut' \in BOOLEAN
  BY Zenon DEF Range!Fail
<1>4. Range!Lost => Range!Lost'
  BY <1>2, Zenon DEF Range!Lost
<1>5. ASSUME ~Range!Lost', NEW e \in Range!Ends PROVE StandsAt(e)'
  <2>1. StandsAt(e) /\ (e \in job.null => ~(total > 0))
    BY <1>1, <1>2, <1>4, <1>5, Zenon DEF Stands, Range!Lost
  <2>2. done' = done + total /\ total' = 0 /\ pc' = "idle"
    BY <1>2, Zenon DEF Range!Return
  <2>3. Range!Begin(e)' = Range!Begin(e) /\ Range!Begin(e) \in Nat /\ done \in Nat /\ total \in Nat
    BY <1>1, <1>2, <1>5, SMTT(30) DEF Range!Begin, CopyTypes
  <2>4. /\ Range!Begin(e) + done' + total' = Range!Begin(e) + done + total
        /\ ~(total > 0) => Range!Begin(e) + done' = Range!Begin(e) + done
    BY <2>2, <2>3, SMTT(30)
  <2> QED BY <1>2, <2>1, <2>2, <2>3, <2>4, Zenon DEF StandsAt, Range!AtRest
<1> QED BY <1>1, <1>2, <1>3, <1>4, <1>5, CopyReturns, Zenon DEF CopyTypes

\* The lseek that moves a file's own offset at the end of the call.
LEMMA SeekFine ==
  ASSUME CopySizes, CopyInv, Range!Seek
  PROVE  CopyInv'
<1>1. CopyTypes /\ Stands /\ Counted
  BY Zenon DEF CopyInv
<1>2. /\ pc = "seek" /\ Range!Return(total)
      /\ job' = job /\ data' = data /\ passed' = passed /\ cut' = cut
  BY Zenon DEF Range!Seek
<1>3. offset' = [e \in Range!Ends |-> IF e \in job.null THEN off[e] ELSE offset[e]]
  BY Zenon DEF Range!Seek
<1>4. (Range!Lost => Range!Lost') /\ (~Range!Lost' => ~Range!Lost)
  BY <1>2, Zenon DEF Range!Lost
<1>5. offset' \in [Range!Ends -> Nat] /\ cut' \in BOOLEAN
  BY <1>1, <1>2, <1>3, Zenon DEF CopyTypes
<1>6. ~Range!AtRest
  BY <1>2, Zenon DEF Range!AtRest
<1>7. written < Chunk
  BY <1>1, <1>2, SMTT(30) DEF Counted, CopyTypes, CopySizes
<1>8. ASSUME ~Range!Lost', NEW e \in Range!Ends PROVE StandsAt(e)'
  <2>1. StandsAt(e)
    BY <1>1, <1>4, <1>8, Zenon DEF Stands
  <2>2. done' = done + total /\ total' = 0 /\ pc' = "idle"
    BY <1>2, Zenon DEF Range!Return
  <2>3. Range!Begin(e)' = Range!Begin(e) /\ Range!Begin(e) \in Nat /\ done \in Nat /\ total \in Nat
    BY <1>1, <1>2, <1>8, SMTT(30) DEF Range!Begin, CopyTypes
  <2>4. /\ Range!Begin(e) + done' + total' = Range!Begin(e) + done + total
        /\ Range!Begin(e) + done' = Range!Begin(e) + done + total
    BY <2>2, <2>3, SMTT(30)
  <2>5. offset'[e] = IF e \in job.null THEN off[e] ELSE offset[e]
    BY <1>3, <1>8, Zenon
  <2> QED BY <1>2, <1>6, <2>1, <2>2, <2>3, <2>4, <2>5, Zenon DEF StandsAt, Range!AtRest
<1> QED BY <1>2, <1>4, <1>5, <1>6, <1>7, <1>8, CopyReturns, Zenon

\* The pread of a chunk.
LEMMA ReadFine ==
  ASSUME CopySizes, CopyInv, Range!Read
  PROVE  CopyInv'
<1>1. CopyTypes /\ Counted /\ Stands /\ Reaches /\ Copied
  BY Zenon DEF CopyInv
<1>2. pc = "read" /\ len > 0 /\ ~Range!AtRest
  BY Zenon DEF Range!Read, Range!AtRest
<1>3. Len(buf) = 0 /\ written = 0 /\ written < Chunk
  BY <1>1, <1>2, SMTT(30) DEF Counted, CopyTypes, CopySizes
<1> DEFINE chunk == IF len < Chunk THEN len ELSE Chunk
           full  == Range!Bytes(data["in"], off["in"], chunk)
<1>4. chunk \in Nat /\ chunk <= len /\ chunk <= Chunk
  BY <1>1, SMTT(30) DEF CopyTypes, CopySizes
<1>5. \/ Range!Fail
      \/ pc' = "seek" /\ UNCHANGED <<job, data, offset, passed, done, cut, Range!locals>>
      \/ /\ \E n \in 1..Len(full) : buf' = SubSeq(full, 1, n)
         /\ pc' = "write"
         /\ UNCHANGED <<job, data, offset, passed, done, cut, len, off, total, written>>
  BY Zenon DEF Range!Read
<1> HIDE DEF chunk
<1>6. CASE Range!Fail
  BY <1>2, <1>3, <1>6, FailFine
<1>7. ASSUME pc' \in {"seek", "write"}, UNCHANGED <<job, data, offset, passed, done, cut, len, off,
             total, written>>,
             buf' \in Seq(Nat), pc' = "seek" => Len(buf') = 0, Len(buf') <= chunk,
             Range!Apart /\ ~Range!Lost => Carries(buf', Range!Begin("in") + done + total)
      PROVE  CopyInv'
  <2>1. /\ job' = job /\ data' = data /\ offset' = offset /\ passed' = passed /\ done' = done
        /\ cut' = cut /\ len' = len /\ off' = off /\ total' = total /\ written' = written
    BY <1>7, Zenon
  <2>2. pc' \in {"none", "idle", "read", "write", "seek"} /\ ~Range!AtRest' /\ pc' # "none"
        /\ pc # "none"
    BY <1>2, <1>7, Zenon DEF Range!AtRest
  <2>3. CopyTypes'
    BY <1>1, <1>7, <2>1, <2>2, Zenon DEF CopyTypes
  <2>4. Len(buf') \in Nat
    BY <1>7, SMTT(30)
  <2>5. written' <= Len(buf') /\ Len(buf') <= len' /\ Len(buf') <= Chunk
    BY <1>1, <1>3, <1>4, <1>7, <2>1, <2>4, SMTT(30) DEF CopyTypes, CopySizes
  <2>6. Counted'
    BY <1>1, <1>2, <1>7, <2>1, <2>2, <2>5, Zenon DEF Counted
  <2>7. \A e : Range!Begin(e)' = Range!Begin(e)
    BY <2>1, SameJob
  <2>8. Range!Target' = Range!Target /\ (Range!Apart' <=> Range!Apart) /\ (Range!Lost' <=> Range!Lost)
    BY <2>1, SameJob, Zenon DEF Range!Lost
  <2>9. Stands'
    BY <1>1, <1>2, <2>1, <2>2, <2>7, <2>8, Zenon DEF Stands, StandsAt
  <2>10. Reaches'
    BY <1>1, <2>1, <2>7, <2>8, Zenon DEF Reaches
  <2>11. Copied'
    BY <1>1, <1>7, <2>1, <2>2, <2>7, <2>8, Zenon DEF Copied
  <2> QED BY <2>3, <2>6, <2>9, <2>10, <2>11, Zenon DEF CopyInv
<1>8. CASE pc' = "seek" /\ UNCHANGED <<job, data, offset, passed, done, cut, Range!locals>>
  <2>1. buf' = buf /\ UNCHANGED <<job, data, offset, passed, done, cut, len, off, total, written>>
    BY <1>8, Zenon DEF Range!locals
  <2>2. Len(buf') = 0 /\ Len(buf') <= chunk /\ buf' \in Seq(Nat)
    BY <1>1, <1>3, <1>4, <2>1, SMTT(30) DEF CopyTypes
  <2>3. Range!Apart /\ ~Range!Lost => Carries(buf', Range!Begin("in") + done + total)
    BY <1>1, <2>1, Zenon DEF Copied
  <2> QED BY <1>7, <1>8, <2>1, <2>2, <2>3, Zenon
<1>9. CASE /\ \E n \in 1..Len(full) : buf' = SubSeq(full, 1, n)
           /\ pc' = "write"
           /\ UNCHANGED <<job, data, offset, passed, done, cut, len, off, total, written>>
  <2>1. PICK n \in 1..Len(full) : buf' = SubSeq(full, 1, n)
    BY <1>9
  <2>2. data["in"] \in Seq(Nat) /\ off["in"] \in Nat
    BY <1>1, SMTT(30) DEF CopyTypes, Range!Ends
  <2>3. Taken(full, data["in"], off["in"], chunk)
    BY <1>4, <2>2, BytesOf, Zenon
  <2> HIDE DEF full
  <2>4. full \in Seq(Nat) /\ Len(full) <= chunk
    BY <2>3, Zenon DEF Taken
  <2>5. buf' \in Seq(Nat) /\ Len(buf') = n /\ n <= Len(full)
    BY <2>1, <2>4, SMTT(30)
  <2>6. Len(buf') <= chunk
    BY <1>4, <2>4, <2>5, SMTT(30)
  <2>7. ASSUME Range!Apart, ~Range!Lost PROVE Carries(buf', Range!Begin("in") + done + total)
    <3>1. StandsAt("in") /\ Intact(data["in"], Range!Begin("in"))
      BY <1>1, <1>2, <2>7, Zenon DEF Stands, Copied, Range!Ends, Range!AtRest
    <3>2. off["in"] = Range!Begin("in") + done + total
      BY <1>2, <3>1, Zenon DEF StandsAt
    <3>3. Range!Begin("in") \in Nat /\ done \in Nat /\ total \in Nat
      BY <1>1, CopyPlaces, Zenon DEF CopyTypes
    <3>4. done + total \in Nat /\ done + total + chunk <= Want
          /\ Range!Begin("in") + done + total = Range!Begin("in") + (done + total)
      BY <1>1, <1>2, <1>4, <3>3, SMTT(30) DEF Counted, CopyTypes, CopySizes
    <3>5. full = Range!Bytes(data["in"], Range!Begin("in") + (done + total), chunk)
      BY <3>2, <3>4, Zenon DEF full
    <3> DEFINE k == done + total
    <3>6. k \in Nat /\ k + chunk <= Want
      BY <3>4, Zenon
    <3>7. full = Range!Bytes(data["in"], Range!Begin("in") + k, chunk)
      BY <3>5, Zenon
    <3> HIDE DEF k
    <3>8. n \in 1..Len(Range!Bytes(data["in"], Range!Begin("in") + k, chunk))
      BY <2>1, <3>7, Zenon
    <3>9. Carries(SubSeq(Range!Bytes(data["in"], Range!Begin("in") + k, chunk), 1, n), Range!Begin("in") + k)
      BY <1>4, <2>2, <3>1, <3>3, <3>6, <3>8, ReadCarries, Zenon
    <3> QED BY <2>1, <3>4, <3>7, <3>9, Zenon DEF k
  <2> QED BY <1>7, <1>9, <2>5, <2>6, <2>7, Zenon
<1> QED BY <1>5, <1>6, <1>8, <1>9, Zenon

\* A pwrite of what is left of a chunk, which may be short.
LEMMA WriteFine ==
  ASSUME CopySizes, CopyInv, Range!Write
  PROVE  CopyInv'
<1>1. CopyTypes /\ Counted /\ Stands /\ Reaches /\ Copied
  BY Zenon DEF CopyInv
<1>2. pc = "write" /\ written < Len(buf) /\ ~Range!AtRest
  BY Zenon DEF Range!Write, Range!AtRest
<1>3. Len(buf) \in Nat /\ written \in Nat /\ Len(buf) <= len /\ Len(buf) <= Chunk
      /\ done + total + len = Want
      /\ done \in Nat /\ total \in Nat /\ len \in Nat /\ Want \in Nat /\ Chunk \in Nat
  BY <1>1, <1>2, SMTT(30) DEF Counted, CopyTypes, CopySizes
<1>4. CASE Range!Fail
  <2>1. written < Chunk
    BY <1>2, <1>3, SMTT(30)
  <2> QED BY <1>2, <1>4, <2>1, FailFine
<1>5. CASE ~Range!Fail
  <2>1. PICK n \in 1..(Len(buf) - written) :
          /\ data' = [data EXCEPT ![Range!Target] =
                        Range!Put(@, off["out"] + written, SubSeq(buf, written + 1, written + n))]
          /\ written' = written + n
    BY <1>5, Zenon DEF Range!Write
  <2>2. /\ job' = job /\ offset' = offset /\ passed' = passed /\ done' = done /\ cut' = cut /\ pc' = pc
        /\ len' = len /\ off' = off /\ total' = total /\ buf' = buf
    BY <1>5, Zenon DEF Range!Write
  <2> DEFINE at  == off["out"] + written
             c   == SubSeq(buf, written + 1, written + n)
             old == data[Range!Target]
             new == Range!Put(old, at, c)
  <2>3. n \in Nat /\ n > 0 /\ written + n <= Len(buf) /\ written + n \in Nat
    BY <1>3, <2>1, SMTT(30)
  <2>4. c \in Seq(Nat) /\ Len(c) = n
    BY <1>1, <1>3, <2>3, SMTT(30) DEF CopyTypes
  <2>5. at \in Nat /\ Range!Target \in Range!Ends /\ old \in Seq(Nat)
    <3>1. off["out"] \in Nat
      BY <1>1, Zenon DEF CopyTypes, Range!Ends
    <3>2. at \in Nat
      BY <1>3, <3>1, SMTT(30)
    <3> QED BY <1>1, <3>2, CopyPlaces, Zenon
  <2>6. data' = [data EXCEPT ![Range!Target] = new]
    BY <2>1, Zenon
  <2>7. new \in Seq(Nat) /\ Len(new) = IF at + Len(c) > Len(old) THEN at + Len(c) ELSE Len(old)
    <3>1. Laid(new, old, at, c)
      BY <2>4, <2>5, PutSeq, Zenon
    <3> HIDE DEF new, old, at, c
    <3> QED BY <3>1, Zenon DEF Laid
  <2>8. Range!Begin("in") \in Nat /\ Range!Begin("out") \in Nat
    BY <1>1, CopyPlaces, Zenon
  <2>9. ~Range!Lost => off["out"] = Range!Begin("out") + done + total
    BY <1>1, <1>2, Zenon DEF Stands, StandsAt, Range!Ends
  <2>10. /\ Range!Apart /\ ~Range!Lost => InPlace(new, Range!Begin("in"), Range!Begin("out"), done + total + written')
         /\ Range!Apart /\ ~Range!Lost /\ job.same => Intact(new, Range!Begin("in"))
    <3> SUFFICES ASSUME Range!Apart, ~Range!Lost
                 PROVE  /\ InPlace(new, Range!Begin("in"), Range!Begin("out"), done + total + written')
                        /\ job.same => Intact(new, Range!Begin("in"))
      OBVIOUS
    <3>1. /\ InPlace(old, Range!Begin("in"), Range!Begin("out"), done + total + written)
          /\ Carries(buf, Range!Begin("in") + done + total)
          /\ Intact(data["in"], Range!Begin("in"))
      BY <1>1, <1>2, Zenon DEF Copied
    <3> DEFINE k == done + total
    <3>2. k \in Nat /\ at = Range!Begin("out") + k + written
          /\ Range!Begin("in") + done + total = Range!Begin("in") + k
          /\ k + written + n = k + written' /\ k + len = Want
      BY <1>3, <2>1, <2>3, <2>8, <2>9, SMTT(30)
    <3>3. InPlace(old, Range!Begin("in"), Range!Begin("out"), k + written)
          /\ Carries(buf, Range!Begin("in") + k)
      BY <3>1, <3>2, Zenon
    <3> HIDE DEF k, at, old
    <3>4. InPlace(Range!Put(old, Range!Begin("out") + k + written, c), Range!Begin("in"), Range!Begin("out"), k + written + n)
      BY <1>1, <1>3, <2>3, <2>5, <2>8, <3>2, <3>3, PutCopies, Zenon DEF CopyTypes
    <3>5. InPlace(new, Range!Begin("in"), Range!Begin("out"), done + total + written')
      BY <3>2, <3>4, Zenon DEF k
    <3>6. ASSUME job.same PROVE Intact(new, Range!Begin("in"))
      <4>1. Intact(old, Range!Begin("in"))
        BY <3>1, <3>6, Zenon DEF old, Range!Target
      <4>2. Range!Begin("out") <= at /\ at + Len(c) <= Range!Begin("out") + Want
        <5> HIDE DEF c
        <5>1. Range!Begin("out") <= Range!Begin("out") + k + written
              /\ Range!Begin("out") + k + written + n <= Range!Begin("out") + (k + len)
          BY <1>3, <2>3, <2>8, <3>2, StaysWithin, Zenon
        <5> QED BY <2>4, <3>2, <5>1, Zenon
      <4>3. \/ Range!Begin("out") + Want <= Range!Begin("in")
            \/ Range!Begin("in") + Want <= Range!Begin("out") /\ Range!Begin("in") + Want <= Size
        BY <3>6, Zenon DEF Range!Apart
      <4> HIDE DEF c
      <4> QED BY <2>4, <2>5, <2>8, <4>1, <4>2, <4>3, PutSpares, Zenon
    <3> QED BY <3>5, <3>6, Zenon
  <2>11. ~Range!Lost => at = Range!Begin("out") + done + total + written
    BY <2>9, Zenon
  <2> HIDE DEF at, c, old, new
  <2>12. data' \in [Range!Ends -> Seq(Nat)] /\ data'[Range!Target] = new /\ \A e \in Range!Ends : e # Range!Target => data'[e] = data[e]
    BY <1>1, <2>5, <2>6, <2>7, Zenon DEF CopyTypes
  <2>13. CopyTypes'
    BY <1>1, <2>1, <2>2, <2>3, <2>12, Zenon DEF CopyTypes
  <2>14. Counted'
    BY <1>1, <1>2, <2>1, <2>2, <2>3, Zenon DEF Counted, Range!AtRest
  <2>15. \A e : Range!Begin(e)' = Range!Begin(e)
    BY <2>2, SameJob
  <2>16. Range!Target' = Range!Target /\ (Range!Apart' <=> Range!Apart) /\ (Range!Lost' <=> Range!Lost)
    BY <2>2, SameJob, Zenon DEF Range!Lost
  <2>17. Stands'
    BY <1>1, <2>2, <2>15, <2>16, Zenon DEF Stands, StandsAt, Range!AtRest
  <2>18. Reaches'
    <3> SUFFICES ASSUME ~Range!Lost, ~job.same
                 PROVE  \/ Len(data'["out"]) < Range!Begin("out") + done + total + Chunk
                        \/ Len(data'["out"]) <= Range!Begin("out") + done + total + (written + n)
      BY <2>1, <2>2, <2>15, <2>16, Zenon DEF Reaches
    <3>1. data'["out"] = new /\ data["out"] = old
      BY <2>12, Zenon DEF Range!Target, old
    <3>2. \/ Len(old) < Range!Begin("out") + done + total + Chunk
          \/ Len(old) <= Range!Begin("out") + done + total + written
      BY <1>1, <3>1, Zenon DEF Reaches
    <3>3. Len(old) \in Nat
      BY <2>5, SMTT(30)
    <3>4. Len(new) = IF Range!Begin("out") + done + total + written + n > Len(old)
                     THEN Range!Begin("out") + done + total + written + n ELSE Len(old)
      BY <2>4, <2>7, <2>11, Zenon
    <3>5. \/ Len(new) < Range!Begin("out") + done + total + Chunk
          \/ Len(new) <= Range!Begin("out") + done + total + (written + n)
      BY <1>3, <2>3, <2>8, <3>2, <3>3, <3>4, EndMoves, Zenon
    <3> QED BY <3>1, <3>5, Zenon
  <2>19. Copied'
    <3> SUFFICES ASSUME Range!Apart, ~Range!Lost
                 PROVE  /\ InPlace(data'[Range!Target], Range!Begin("in"), Range!Begin("out"), done + total + written')
                        /\ Intact(data'["in"], Range!Begin("in"))
                        /\ Carries(buf, Range!Begin("in") + done + total)
      BY <2>2, <2>15, <2>16, Zenon DEF Copied
    <3>1. Intact(data["in"], Range!Begin("in")) /\ Carries(buf, Range!Begin("in") + done + total)
      BY <1>1, <1>2, Zenon DEF Copied
    <3>2. CASE job.same
      BY <2>10, <2>12, <3>1, <3>2, Zenon DEF Range!Target
    <3>3. CASE ~job.same
      <4>1. data'["in"] = data["in"]
        BY <2>12, <3>3, Zenon DEF Range!Target, Range!Ends
      <4> QED BY <2>10, <2>12, <3>1, <4>1, Zenon
    <3> QED BY <3>2, <3>3, Zenon
  <2> QED BY <2>13, <2>14, <2>17, <2>18, <2>19, Zenon DEF CopyInv
<1> QED BY <1>4, <1>5, Zenon

\* The end of a chunk: the offsets move by its length.
LEMMA AdvanceFine ==
  ASSUME CopySizes, CopyInv, Range!Advance
  PROVE  CopyInv'
<1>1. CopyTypes /\ Counted /\ Stands /\ Reaches /\ Copied
  BY Zenon DEF CopyInv
<1>2. /\ pc = "write" /\ written = Len(buf) /\ total' = total + Len(buf) /\ len' = len - Len(buf)
      /\ buf' = <<>> /\ written' = 0 /\ job' = job /\ data' = data /\ offset' = offset /\ done' = done
      /\ cut' = cut
  BY Zenon DEF Range!Advance
<1>3. pc' \in {"seek", "read"} /\ pc' # "none" /\ pc # "none" /\ ~Range!AtRest /\ ~Range!AtRest'
  BY Zenon DEF Range!Advance, Range!AtRest
<1>4. /\ off' = [e \in Range!Ends |-> off[e] + Len(buf)]
      /\ passed' = [e \in Range!Ends |-> IF e \in job.null THEN passed[e] ELSE off[e] + Len(buf)]
  BY Zenon DEF Range!Advance
<1>5. Len(buf) \in Nat /\ Len(buf) <= len /\ done + total + len = Want
      /\ done \in Nat /\ total \in Nat /\ len \in Nat /\ Want \in Nat /\ Chunk \in Nat /\ Chunk > 0
  BY <1>1, <1>3, SMTT(30) DEF Counted, CopyTypes, CopySizes
<1>6. off' \in [Range!Ends -> Nat] /\ passed' \in [Range!Ends -> Nat]
  <2>1. \A e \in Range!Ends : off[e] + Len(buf) \in Nat /\ passed[e] \in Nat
    BY <1>1, <1>5, SMTT(30) DEF CopyTypes
  <2> QED BY <1>4, <2>1, Zenon
<1>7. total' \in Nat /\ len' \in Nat /\ written' \in Nat /\ buf' \in Seq(Nat) /\ Len(buf') = 0
      /\ done + total' + len' = Want /\ done + total' = done + total + written
      /\ done + total' + written' = done + total + written
  BY <1>2, <1>5, SMTT(30)
<1>8. CopyTypes'
  BY <1>1, <1>2, <1>3, <1>6, <1>7, Zenon DEF CopyTypes
<1>9. Counted'
  BY <1>2, <1>3, <1>5, <1>7, SMTT(30) DEF Counted
<1>10. \A e : Range!Begin(e)' = Range!Begin(e)
  BY <1>2, SameJob
<1>11. Range!Target' = Range!Target /\ (Range!Apart' <=> Range!Apart) /\ (Range!Lost' <=> Range!Lost)
  BY <1>2, SameJob, Zenon DEF Range!Lost
<1>12. ASSUME NEW e \in Range!Ends, StandsAt(e) PROVE StandsAt(e)'
  <2>1. Range!Begin(e) \in Nat
    BY <1>1, <1>12, CopyPlaces, Zenon
  <2>2. /\ off'[e] = off[e] + Len(buf)
        /\ passed'[e] = IF e \in job.null THEN passed[e] ELSE off[e] + Len(buf)
    BY <1>4, <1>12, Zenon
  <2>3. off[e] = Range!Begin(e) + done + total
    BY <1>3, <1>12, Zenon DEF StandsAt
  <2>5. Range!Begin(e) + done + total + Len(buf) = Range!Begin(e) + done + (total + Len(buf))
    BY <1>5, <2>1, SMTT(30)
  <2>4. off[e] + Len(buf) = Range!Begin(e) + done + total'
    BY <1>2, <2>3, <2>5, Zenon
  <2> QED BY <1>2, <1>10, <1>12, <2>2, <2>4, Zenon DEF StandsAt
<1>13. Stands'
  BY <1>1, <1>11, <1>12, Zenon DEF Stands
<1>14. Range!Begin("in") \in Nat /\ Range!Begin("out") \in Nat /\ Len(data["out"]) \in Nat
  BY <1>1, CopyPlaces, Zenon
<1>15. Reaches'
  <2> SUFFICES ASSUME ~Range!Lost, ~job.same
               PROVE  Len(data["out"]) < Range!Begin("out") + done + total' + Chunk
    BY <1>2, <1>10, <1>11, Zenon DEF Reaches
  <2>1. \/ Len(data["out"]) < Range!Begin("out") + done + total + Chunk
        \/ Len(data["out"]) <= Range!Begin("out") + done + total + written
    BY <1>1, Zenon DEF Reaches
  <2>2. written \in Nat
    BY <1>1, Zenon DEF CopyTypes
  <2>3. Len(data["out"]) < Range!Begin("out") + done + (total + written) + Chunk
    BY <1>5, <1>14, <2>1, <2>2, EndPassed, Zenon
  <2> QED BY <1>2, <2>3, Zenon
<1>16. Carries(buf, Range!Begin("in") + done + total)'
  BY <1>7, SMTT(30) DEF Carries
<1>17. Copied'
  BY <1>1, <1>2, <1>3, <1>7, <1>10, <1>11, <1>16, Zenon DEF Copied
<1> QED BY <1>8, <1>9, <1>13, <1>15, <1>17, Zenon DEF CopyInv

\* Every step keeps the invariant.
LEMMA CopyStep ==
  ASSUME CopySizes, CopyInv, [Range!Next]_Range!vars
  PROVE  CopyInv'
<1>1. CASE UNCHANGED Range!vars
  BY <1>1, Zenon
     DEF Range!vars, Range!locals, CopyInv, CopyTypes, Counted, Stands, StandsAt, Reaches, Copied,
         Range!AtRest, Range!Lost, Range!Apart,
     Range!Begin, Range!Target
<1> QED
  BY <1>1, StartFine, StopFine, CallFine, ReadFine, WriteFine, AdvanceFine, SeekFine, Zenon
     DEF Range!Next

\* What the calls of copy_file_range have returned between calls is in place,
\* byte for byte as the source had it, unless the ranges meet, the copy goes
\* behind the end of its own source, or an error struck a call with a NULL
\* offset; the file's own offset, or the caller's variable, has moved by just
\* that much (copy_file_range.c). For every chunk, file size and length, short
\* reads and writes included.
THEOREM CopiesServed == CopySizes => (Range!Spec => [](Range!CopiedExactly /\ Range!OffsetsAgree))
<1> SUFFICES ASSUME CopySizes PROVE Range!Spec => [](Range!CopiedExactly /\ Range!OffsetsAgree)
  OBVIOUS
<1>1. Range!Init => CopyInv
  BY CopyInit
<1>2. CopyInv /\ [Range!Next]_Range!vars => CopyInv'
  BY CopyStep
<1>3. CopyInv => Range!CopiedExactly /\ Range!OffsetsAgree
  BY CopyInvSafe
<1> QED BY <1>1, <1>2, <1>3, PTL DEF Range!Spec

-----------------------------------------------------------------------------
CONSTANTS Sec, Tick, NsMax, Cores, RealMax, TaiOffset, Requests
VARIABLES cpu, real, step, abs, target, now, left, goal, late

Time == INSTANCE Clock WITH pc <- step

\* What the constants are: times and numbers of cores.
Units ==
  /\ NsMax \in Nat /\ Tick \in Nat \ {0} /\ Cores \in Nat /\ RealMax \in Nat
  /\ TaiOffset \in Nat /\ Requests \subseteq Nat

\* The values of a long long.
LongLongs == -(NsMax + 1)..NsMax

\* Where a sleeper on the CPU clock may be.
CpuPcs    == {"check", "sleep", "interrupted"}

\* The types of the variables.
ClockTypes ==
  /\ cpu \in 0..NsMax /\ real \in 0..RealMax /\ step \in CpuPcs \cup {"idle", "tai"}
  /\ abs \in BOOLEAN /\ target \in Int /\ now \in Int /\ left \in Nat /\ goal \in Nat
  /\ late \in BOOLEAN

\* A sleep on the CPU clock ends no earlier than asked; a clock that was read is
\* used at once; what is told of the rest of an interrupted sleep is its length.
Sleeps ==
  /\ step \in CpuPcs => target \in LongLongs
  /\ step \in CpuPcs /\ goal <= NsMax => target >= goal
  /\ step = "check" => now = cpu
  /\ step = "interrupted" /\ ~abs => left = Time!Max(target - cpu, 0)
  /\ step = "tai" => target = Time!tai_to_real(goal)

\* The inductive invariant.
ClockInv == ClockTypes /\ Sleeps /\ Time!LessThanTickLate

\* Conversion to long long wraps, and keeps what fits.
LEMMA LongLongFits ==
  ASSUME Units, NEW x \in Int
  PROVE  /\ Time!LongLong(x) \in LongLongs
         /\ x \in LongLongs => Time!LongLong(x) = x
<1> DEFINE m == 2 * (NsMax + 1)
           y == x + NsMax + 1
<1>1. m \in Nat \ {0} /\ y \in Int /\ NsMax \in Nat
  BY SMTT(30) DEF Units
<1>2. Time!LongLong(x) = (y % m) - NsMax - 1
  BY Zenon DEF Time!LongLong, Time!Wrap
<1>3. m = 2 * NsMax + 2 /\ y = x + NsMax + 1
  BY <1>1, SMTT(30)
<1>6. x \in LongLongs <=> y \in 0..m - 1
  BY <1>1, SMTT(30) DEF LongLongs
<1> HIDE DEF m, y
<1>4. y % m \in 0..m - 1
  BY <1>1, SMTT(30)
<1>5. y \in 0..m - 1 => y % m = y
  BY <1>1, SMTT(30)
<1> QED BY <1>1, <1>2, <1>3, <1>4, <1>5, <1>6, SMTT(30) DEF LongLongs

\* The first reading of the clock, for a relative or absolute request or one
\* that is resumed.
LEMMA EntersFine ==
  ASSUME Units, NEW req \in Int, NEW a \in BOOLEAN, NEW g \in Nat, ClockTypes, Time!Enter(req, a, g),
         g <= NsMax => Time!LongLong(IF a THEN req ELSE Time!LongLong(req) + cpu) >= g
  PROVE  ClockInv'
<1>1. Time!LongLong(req) \in Int
  BY LongLongFits, SMTT(30) DEF LongLongs, Units
<1> DEFINE x == IF a THEN req ELSE Time!LongLong(req) + cpu
<1>2. x \in Int
  BY <1>1, SMTT(30) DEF ClockTypes
<1>3. Time!LongLong(x) \in LongLongs
  BY <1>2, LongLongFits, Zenon
<1>4. target' = Time!LongLong(x) /\ now' = cpu /\ abs' = a /\ goal' = g /\ step' = "check"
      /\ late' = FALSE
      /\ left' = 0 /\ cpu' = cpu /\ real' = real
  BY Zenon DEF Time!Enter
<1>5. g <= NsMax => Time!LongLong(x) >= g
  BY Zenon
<1> HIDE DEF x
<1>8. abs' \in BOOLEAN /\ late' \in BOOLEAN
  BY <1>4, Zenon
<1>9. target' \in Int /\ now' \in Int /\ left' \in Nat /\ goal' \in Nat /\ step' \in CpuPcs
  BY <1>3, <1>4, SMTT(30) DEF ClockTypes, LongLongs, CpuPcs, Units
<1>6. ClockTypes'
  BY <1>4, <1>8, <1>9, Zenon DEF ClockTypes
<1>7. Sleeps'
  BY <1>3, <1>4, <1>5, SMTT(30) DEF Sleeps, CpuPcs
<1> QED BY <1>4, <1>6, <1>7, Zenon DEF ClockInv, Time!LessThanTickLate

\* A sleep that returns.
LEMMA ClockRests ==
  ASSUME Units, ClockTypes, Time!Return, UNCHANGED <<cpu, real>>
  PROVE  ClockInv'
<1>1. abs' \in BOOLEAN /\ late' \in BOOLEAN
  BY Zenon DEF Time!Return
<1>2. target' \in Int /\ now' \in Int /\ left' \in Nat /\ goal' \in Nat
  BY SMTT(30) DEF Time!Return
<1>3. ClockTypes'
  BY <1>1, <1>2, Zenon DEF ClockTypes, Time!Return
<1>4. Sleeps' /\ Time!LessThanTickLate'
  BY SMTT(30) DEF Sleeps, Time!LessThanTickLate, Time!Return, CpuPcs
<1> QED BY <1>3, <1>4, Zenon DEF ClockInv

\* Every step keeps the invariant.
LEMMA ClockStep ==
  ASSUME Units, ClockInv, [Time!Next]_Time!vars
  PROVE  ClockInv'
<1>0. Units /\ ClockTypes /\ Sleeps /\ Time!LessThanTickLate
  BY Zenon DEF ClockInv
<1>1. ASSUME NEW req \in Requests, Time!TaiSleep(req) PROVE ClockInv'
  BY <1>0, <1>1, SMTT(30)
     DEF ClockInv, ClockTypes, Sleeps, Time!LessThanTickLate, Time!TaiSleep, CpuPcs, Time!tai_to_real,
         Units
<1>2. ASSUME NEW req \in Requests, NEW a \in BOOLEAN, Time!CpuSleep(req, a) PROVE ClockInv'
  <2>1. req \in Nat /\ NsMax \in Nat /\ cpu \in 0..NsMax
    BY <1>0, SMTT(30) DEF Units, ClockTypes
  <2>2. CASE a
    <3>1. Time!Enter(req, a, req)
      BY <1>2, <2>2, Zenon DEF Time!CpuSleep
    <3>2. req <= NsMax => req \in LongLongs
      BY <2>1, SMTT(30) DEF LongLongs
    <3>3. req <= NsMax => Time!LongLong(req) >= req
      BY <2>1, <3>2, <1>0, LongLongFits, SMTT(30)
    <3>4. req \in Int
      BY <2>1, SMTT(30)
    <3> QED BY <1>0, <2>1, <2>2, <3>1, <3>3, <3>4, EntersFine, Zenon
  <2>3. CASE ~a
    <3>1. Time!Enter(req, a, cpu + req)
      BY <1>2, <2>3, Zenon DEF Time!CpuSleep
    <3>2. cpu + req <= NsMax => req \in LongLongs /\ req + cpu \in LongLongs /\ req + cpu >= cpu + req
      BY <2>1, SMTT(30) DEF LongLongs
    <3>3. req \in Int /\ req + cpu \in Int /\ cpu + req \in Nat
      BY <2>1, SMTT(30)
    <3>4. cpu + req <= NsMax => Time!LongLong(Time!LongLong(req) + cpu) >= cpu + req
      BY <3>2, <3>3, <1>0, LongLongFits, Zenon
    <3> QED BY <1>0, <2>3, <3>1, <3>3, <3>4, EntersFine, Zenon
  <2> QED BY <2>2, <2>3, Zenon
<1>3. ASSUME Time!Check PROVE ClockInv'
  <2>1. CASE now < target
    <3>1. step = "check" /\ step' = "sleep" /\ left' = Time!sleep_ns(target - now)
          /\ UNCHANGED <<cpu, real, abs, target, now, goal, late>>
      BY <1>3, <2>1, Zenon DEF Time!Check
    <3>2. left' \in Nat /\ (left' = target - now \/ left' = Tick)
      BY <1>0, <2>1, <3>1, SMTT(30) DEF Time!sleep_ns, Time!Max, ClockTypes, Units
    <3>3. ClockTypes'
      BY <1>0, <3>1, <3>2, SMTT(30) DEF ClockTypes, CpuPcs
    <3>4. Sleeps'
      BY <1>0, <3>1, SMTT(30) DEF Sleeps, CpuPcs
    <3>5. Time!LessThanTickLate'
      BY <1>0, <2>1, <3>1, <3>2, SMTT(30) DEF Sleeps, Time!LessThanTickLate, ClockTypes, Units
    <3> QED BY <3>3, <3>4, <3>5, Zenon DEF ClockInv
  <2>2. CASE ~(now < target)
    BY <1>0, <1>3, <2>2, ClockRests, Zenon DEF Time!Check
  <2> QED BY <2>1, <2>2, Zenon
<1>4. ASSUME Time!Wake PROVE ClockInv'
  BY <1>0, <1>4, SMTT(30)
     DEF ClockInv, ClockTypes, Sleeps, Time!LessThanTickLate, Time!Wake, CpuPcs, Units
<1>5. ASSUME Time!Interrupt PROVE ClockInv'
  <2>1. left' \in Nat
    BY <1>0, <1>5, SMTT(30) DEF Time!Interrupt, ClockTypes, Time!Max
  <2> QED
    BY <1>0, <1>5, <2>1, SMTT(30)
       DEF ClockInv, ClockTypes, Sleeps, Time!LessThanTickLate, Time!Interrupt, CpuPcs
<1>6. ASSUME Time!Restart PROVE ClockInv'
  <2>1. CASE Time!Enter(IF abs THEN target ELSE left, abs, goal)
    <3>1. step \in CpuPcs /\ step = "interrupted"
      BY <1>6, Zenon DEF Time!Restart, CpuPcs
    <3>2. goal <= NsMax => target >= goal
      BY <1>0, <3>1, Zenon DEF Sleeps
    <3>3. target \in LongLongs /\ target \in Int /\ abs \in BOOLEAN /\ goal \in Nat /\ left \in Int
      BY <1>0, <3>1, SMTT(30) DEF Sleeps, ClockTypes
    <3>4. CASE abs
      <4>1. Time!Enter(target, abs, goal)
        BY <2>1, <3>4, Zenon
      <4>2. Time!LongLong(target) = target
        BY <1>0, <3>3, LongLongFits, Zenon
      <4> QED BY <1>0, <3>2, <3>3, <3>4, <4>1, <4>2, EntersFine, Zenon
    <3>5. CASE ~abs
      <4>1. Time!Enter(left, abs, goal)
        BY <2>1, <3>5, Zenon
      <4>2. left = Time!Max(target - cpu, 0)
        BY <1>0, <3>1, <3>5, Zenon DEF Sleeps
      <4>3. left \in LongLongs /\ left + cpu \in LongLongs /\ left + cpu \in Int /\ left + cpu >= target
        BY <1>0, <3>3, <4>2, SMTT(30) DEF LongLongs, Time!Max, ClockTypes, Units
      <4>4. Time!LongLong(Time!LongLong(left) + cpu) = left + cpu
        BY <1>0, <3>3, <4>3, LongLongFits, Zenon
      <4>5. goal <= NsMax => left + cpu >= goal
        BY <1>0, <3>2, <3>3, <4>3, SMTT(30) DEF Units
      <4> QED BY <1>0, <3>3, <3>5, <4>1, <4>4, <4>5, EntersFine, Zenon
    <3> QED BY <3>4, <3>5, Zenon
  <2>2. CASE Time!Return /\ UNCHANGED <<cpu, real>>
    BY <1>0, <2>2, ClockRests, Zenon
  <2> QED BY <1>6, <2>1, <2>2, Zenon DEF Time!Restart
<1>7. ASSUME Time!TaiWake PROVE ClockInv'
  BY <1>0, <1>7, ClockRests, Zenon DEF Time!TaiWake
<1>8. ASSUME NEW used \in 0..Cores, Time!Pass(used) PROVE ClockInv'
  <2>1. /\ cpu' \in 0..NsMax /\ cpu' <= cpu + used /\ real' \in 0..RealMax
        /\ left' \in Nat /\ (left > 0 => left' = left - 1)
    BY <1>0, <1>8, SMTT(30) DEF Time!Pass, Time!Min, Time!Max, ClockTypes, Units
  <2>2. ClockTypes'
    BY <1>0, <1>8, <2>1, SMTT(30) DEF Time!Pass, ClockTypes
  <2>3. Sleeps'
    BY <1>0, <1>8, SMTT(30) DEF Time!Pass, Sleeps, CpuPcs
  <2>4. Time!LessThanTickLate'
    <3>0. SUFFICES ASSUME step' = "sleep", ~late' PROVE cpu' + left' < target' + Tick
      BY Zenon DEF Time!LessThanTickLate
    <3>1. step = "sleep" /\ left > 0 /\ target' = target
      BY <1>8, <3>0, Zenon DEF Time!Pass
    <3>2. ~late /\ ~(used > 1)
      BY <1>8, <3>0, <3>1, Zenon DEF Time!Pass
    <3>3. cpu + left < target + Tick
      BY <1>0, <3>1, <3>2, Zenon DEF Time!LessThanTickLate
    <3>4. cpu \in Int /\ left \in Int /\ target \in Int /\ Tick \in Int /\ used \in Int /\ Cores \in Int
      BY <1>0, SMTT(30) DEF ClockTypes, Units
    <3>5. used <= 1
      BY <3>2, <3>4, SMTT(30)
    <3>6. cpu' \in Int /\ left' \in Int /\ cpu' <= cpu + used /\ left' = left - 1
      BY <2>1, <3>1, <3>4, SMTT(30)
    <3>7. \A c, l, d, k, t \in Int : c + l < t + k /\ d <= c + 1 => d + (l - 1) < t + k
      BY SMTT(30)
    <3>9. cpu' <= cpu + 1
      BY <3>4, <3>5, <3>6, SMTT(30)
    <3>8. cpu' + left' < target + Tick
      BY <3>3, <3>4, <3>6, <3>7, <3>9, Zenon
    <3> QED BY <3>1, <3>8, Zenon
  <2> QED BY <2>2, <2>3, <2>4, Zenon DEF ClockInv
<1>9. ASSUME NEW r \in 0..RealMax, Time!SetTime(r) PROVE ClockInv'
  BY <1>0, <1>9, SMTT(30) DEF ClockInv, ClockTypes, Sleeps, Time!LessThanTickLate, Time!SetTime
<1>10. ASSUME UNCHANGED Time!vars PROVE ClockInv'
  BY <1>0, <1>10, SMTT(30) DEF ClockInv, ClockTypes, Sleeps, Time!LessThanTickLate, Time!vars
<1> QED
  BY <1>1, <1>2, <1>3, <1>4, <1>5, <1>6, <1>7, <1>8, <1>9, <1>10, Zenon DEF Time!Next

\* It holds at first.
LEMMA ClockInit ==
  ASSUME Units, Time!Init
  PROVE  ClockInv
<1>1. abs \in BOOLEAN /\ late \in BOOLEAN
  BY Zenon DEF Time!Init, Time!Idle
<1>2. cpu \in 0..NsMax /\ real \in 0..RealMax /\ target \in Int /\ now \in Int /\ left \in Nat
      /\ goal \in Nat
  BY SMTT(30) DEF Time!Init, Time!Idle, Units
<1>3. ClockTypes
  BY <1>1, <1>2, Zenon DEF ClockTypes, Time!Init, Time!Idle
<1>4. Sleeps /\ Time!LessThanTickLate
  BY SMTT(30) DEF Sleeps, Time!LessThanTickLate, Time!Init, Time!Idle, CpuPcs
<1> QED BY <1>3, <1>4, Zenon DEF ClockInv

\* It says that sleepers wake in time.
LEMMA ClockSafe ==
  ASSUME Units, ClockInv
  PROVE  Time!NeverEarly /\ Time!LessThanTickLate /\ Time!TaiAgrees
<1>1. Time!NeverEarly
  BY SMTT(30) DEF Time!NeverEarly, ClockInv, ClockTypes, Sleeps, CpuPcs, LongLongs, Units
<1>2. Time!TaiAgrees
  BY SMTT(30) DEF Time!TaiAgrees, ClockInv, ClockTypes, Sleeps, Time!tai_to_real, Time!tai_now, Units
<1> QED BY <1>1, <1>2, Zenon DEF ClockInv

\* A sleep on the process CPU clock does not end before its time, also when
\* signals interrupt it and the program goes on with the rest it was told,
\* unless that time is past the end of long long; it ends less than a tick
\* late while one thread runs (handle_process_cputime); and a sleep on
\* CLOCK_TAI is over exactly when clock_gettime shows its time (handle_tai).
\* For every width, tick and number of cores.
THEOREM SleepsOnTime == Units => (Time!Spec => [](Time!WakesOnTime /\ Time!TaiAgrees))
<1> SUFFICES ASSUME Units PROVE Time!Spec => [](Time!WakesOnTime /\ Time!TaiAgrees)
  OBVIOUS
<1>1. Time!Init => ClockInv
  BY ClockInit
<1>2. ClockInv /\ [Time!Next]_Time!vars => ClockInv'
  BY ClockStep
<1>3. ClockInv => Time!WakesOnTime /\ Time!TaiAgrees
  BY ClockSafe DEF Time!WakesOnTime
<1> QED BY <1>1, <1>2, <1>3, PTL DEF Time!Spec

\* The fields of a CPU clock id, as clock_getcpuclockid packs them.
LEMMA IdBits ==
  ASSUME NEW id \in Int, NEW n \in Nat
  PROVE  /\ id = Time!CpuClockId(n, FALSE) <=> id % 4 = 2 /\ ~Time!Bit(id, 4) /\ -(id \div 8) - 1 = n
         /\ id = Time!CpuClockId(n, TRUE) <=> id % 4 = 2 /\ Time!Bit(id, 4) /\ -(id \div 8) - 1 = n
         /\ Time!CpuClockId(n, FALSE) < 0 /\ Time!CpuClockId(n, TRUE) < 0
  BY SMTT(30) DEF Time!CpuClockId, Time!Bit

\* encoded_cpuclock_who knows the CPU clocks of the caller's own process and
\* thread from all other ids, for every width of clockid_t and all pids
\* (clock.c).
THEOREM ClockIdsKnown ==
  \A range \in Nat, pids \in SUBSET Nat : Time!CpuClocksKnown(range, pids)
<1> SUFFICES ASSUME NEW range \in Nat, NEW pids \in SUBSET Nat, NEW pid \in pids, NEW tid \in pids,
                    NEW id \in -(range \div 2)..(range \div 2 - 1)
             PROVE  Time!encoded_cpuclock_who(id, range, pid, tid) =
                      CASE id \in {Time!CpuClockId(0, FALSE), Time!CpuClockId(pid, FALSE)} -> "RUSAGE_SELF"
                        [] id \in {Time!CpuClockId(0, TRUE), Time!CpuClockId(tid, TRUE)}   -> "RUSAGE_THREAD"
                        [] OTHER -> "none"
  BY Zenon DEF Time!CpuClocksKnown
<1>1. id \in Int /\ pid \in Nat /\ tid \in Nat /\ 0 \in Nat
  BY SMTT(30)
<1> DEFINE mine(n, t) == id >= 0 \/ id % 4 # 2 \/ -(id \div 8) - 1 \notin {0, n}
<1>2. \A n \in Nat : id = Time!CpuClockId(n, FALSE) <=> id % 4 = 2 /\ ~Time!Bit(id, 4) /\ -(id \div 8) - 1 = n
  BY <1>1, IdBits, Zenon
<1>3. \A n \in Nat : id = Time!CpuClockId(n, TRUE) <=> id % 4 = 2 /\ Time!Bit(id, 4) /\ -(id \div 8) - 1 = n
  BY <1>1, IdBits, Zenon
<1>4. \A n \in Nat : id = Time!CpuClockId(n, FALSE) \/ id = Time!CpuClockId(n, TRUE) => ~(id >= 0)
  BY <1>1, SMTT(30) DEF Time!CpuClockId
<1>5. CASE id \in {Time!CpuClockId(0, FALSE), Time!CpuClockId(pid, FALSE)}
  <2>1. ~(id >= 0) /\ id % 4 = 2 /\ ~Time!Bit(id, 4) /\ -(id \div 8) - 1 \in {0, pid}
    BY <1>1, <1>2, <1>4, <1>5, Zenon
  <2>2. Time!encoded_cpuclock_who(id, range, pid, tid) = "RUSAGE_SELF"
    BY <2>1, Zenon DEF Time!encoded_cpuclock_who, Time!decoded
  <2>3. id \notin {Time!CpuClockId(0, TRUE), Time!CpuClockId(tid, TRUE)}
    BY <2>1, <1>1, <1>3, Zenon
  <2> QED BY <1>5, <2>2, <2>3, Zenon
<1>6. CASE id \in {Time!CpuClockId(0, TRUE), Time!CpuClockId(tid, TRUE)}
  <2>1. ~(id >= 0) /\ id % 4 = 2 /\ Time!Bit(id, 4) /\ -(id \div 8) - 1 \in {0, tid}
    BY <1>1, <1>3, <1>4, <1>6, Zenon
  <2>2. Time!encoded_cpuclock_who(id, range, pid, tid) = "RUSAGE_THREAD"
    BY <2>1, Zenon DEF Time!encoded_cpuclock_who, Time!decoded
  <2>3. id \notin {Time!CpuClockId(0, FALSE), Time!CpuClockId(pid, FALSE)}
    BY <2>1, <1>1, <1>2, Zenon
  <2> QED BY <1>6, <2>2, <2>3, Zenon
<1>7. CASE /\ id \notin {Time!CpuClockId(0, FALSE), Time!CpuClockId(pid, FALSE)}
           /\ id \notin {Time!CpuClockId(0, TRUE), Time!CpuClockId(tid, TRUE)}
  <2>1. id % 4 = 2 /\ Time!Bit(id, 4) => -(id \div 8) - 1 \notin {0, tid}
    BY <1>1, <1>3, <1>7, Zenon
  <2>2. id % 4 = 2 /\ ~Time!Bit(id, 4) => -(id \div 8) - 1 \notin {0, pid}
    BY <1>1, <1>2, <1>7, Zenon
  <2>3. Time!encoded_cpuclock_who(id, range, pid, tid) = "none"
    BY <2>1, <2>2, Zenon DEF Time!encoded_cpuclock_who, Time!decoded
  <2> QED BY <1>7, <2>3, Zenon
<1> QED BY <1>5, <1>6, <1>7, Zenon

\* A conversion to a signed type keeps what fits.
LEMMA WrapFits ==
  ASSUME NEW max \in Nat, NEW x \in Int
  PROVE  x \in -(max + 1)..max => Time!Wrap(x, max) = x
<1> DEFINE m == 2 * (max + 1)
           y == x + max + 1
<1>1. m \in Nat \ {0} /\ y \in Int
  BY SMTT(30)
<1>2. Time!Wrap(x, max) = (y % m) - max - 1
  BY Zenon DEF Time!Wrap
<1>3. m = 2 * max + 2 /\ y = x + max + 1
  BY <1>1, SMTT(30)
<1> HIDE DEF m, y
<1>4. y \in 0..m - 1 => y % m = y
  BY <1>1, SMTT(30)
<1> QED BY <1>1, <1>2, <1>3, <1>4, SMTT(30)

\* The milliseconds that epoll_pwait2 passes to epoll_pwait are no less than
\* the timeout asked for, and less than one more (epoll.c:112), as long as
\* they fit an int; for every division of the second.
THEOREM TimeoutsRoundUp ==
  \A secs \in SUBSET Nat, perMs \in Nat \ {0}, intMax, inSec \in Nat :
    Sec = inSec * perMs => Time!WaitsLongEnough(secs, perMs, intMax)
<1> SUFFICES ASSUME NEW secs \in SUBSET Nat, NEW perMs \in Nat \ {0}, NEW intMax \in Nat,
                    NEW k \in Nat, Sec = k * perMs, NEW s \in secs, NEW ns \in 0..Sec - 1,
                    s * Sec + ns <= intMax * perMs
             PROVE  Time!timeout_ms(s, ns, perMs, intMax) * perMs - (s * Sec + ns) \in 0..perMs - 1
  BY Zenon DEF Time!WaitsLongEnough
<1>1. s \in Nat /\ Sec \in Nat /\ ns \in Nat
  BY SMTT(30)
<1>2. Sec \div perMs = k
  BY <1>1, SMTT(30)
<1> DEFINE c == (ns + perMs - 1) \div perMs
<1>3. c \in Nat /\ c * perMs - ns \in 0..perMs - 1
  BY <1>1, SMTT(30)
<1> HIDE DEF c
<1> DEFINE x == s * k + c
<1>4. x \in Nat
  BY <1>1, <1>3, SMTT(30)
<1>5. x * perMs = s * Sec + c * perMs
  BY <1>1, <1>3, SMTT(30)
<1>6. x * perMs - (s * Sec + ns) \in 0..perMs - 1
  BY <1>1, <1>3, <1>5, SMTT(30)
<1> HIDE DEF x
<1>7. x * perMs < (intMax + 1) * perMs
  BY <1>1, <1>4, <1>6, SMTT(30)
<1>8. x <= intMax
  BY <1>4, <1>7, SMTT(30)
<1>9. x \in -(intMax + 1)..intMax
  BY <1>4, <1>8, SMTT(30)
<1>10. Time!Wrap(x, intMax) = x
  BY <1>4, <1>9, WrapFits, SMTT(30)
<1>11. Time!timeout_ms(s, ns, perMs, intMax) = x
  BY <1>2, <1>10, Zenon DEF Time!timeout_ms, x, c
<1> QED BY <1>6, <1>11, Zenon
=============================================================================
