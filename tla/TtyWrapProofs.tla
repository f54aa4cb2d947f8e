--------------------------- MODULE TtyWrapProofs ----------------------------
(***************************************************************************)
(* Theorems about TtyWrap, for any number of processes, fds and wraps, any *)
(* PREEXEC_MAX and whatever numbers the applications close or dup over.    *)
(***************************************************************************)
EXTENDS TtyWrap, TLAPS, FiniteSetTheorems

Nums    == Fds \cup {NoFd}
Opened  == Files \ {File("none", 0)}
Entries == {Closed} \cup [file : Opened, cloexec : BOOLEAN]
Views   == [real : Nums, probe : Nums, live : BOOLEAN]
States  == [tab : [Fds -> Entries], view : [Wraps -> Views]]

\* The file a wrap's number of each kind is to lead to.
FileFor(w, k) == IF k = "real" THEN File("tty", 0) ELSE File("probe", w)

\* A fd table and a memory in order, but for the wraps that are not in W: each number
\* a wrap knows leads to that wrap's file, and is none of the fds to be kept; no
\* private tty is two wraps'; and the fds to be kept are open.
InOrder(t, v, keep, W) ==
  /\ t \in [Fds -> Entries] /\ v \in [Wraps -> Views] /\ W \subseteq Wraps
  /\ \A w \in Wraps : ~v[w].live => v[w] = NoView
  /\ \A w \in W : \A k \in Kinds : v[w][k] # NoFd =>
       v[w][k] \notin keep /\ t[v[w][k]].file = FileFor(w, k)
  /\ \A w, x \in W : v[w].real # NoFd /\ v[w].real = v[x].real => w = x
  /\ \A f \in keep : f \in Fds /\ t[f] # Closed

Holds(s, keep, W) == s \in States /\ InOrder(s.tab, s.view, keep, W)

\* No wrap of W knows f.
Unknown(v, f, W) == \A w \in W : \A k \in Kinds : v[w][k] # f

-----------------------------------------------------------------------------
\* Numbers.

\* Fds are natural numbers, NoFd is none.
LEMMA FdsAreNumbers == NoFd \notin Fds /\ Fds \subseteq Nat
  BY FdsAssumption, SMTT(30) DEF NoFd

\* A set of naturals that is not empty has a least element: what F_DUPFD takes.
LEMMA LeastExists ==
  ASSUME NEW S, S \subseteq Nat, S # {}
  PROVE  Min(S) \in S /\ \A y \in S : Min(S) <= y
<1> DEFINE R == {ss \in Nat \X Nat : ss[1] < ss[2]}
<1>1. IsWellFoundedOn(R, Nat)
  BY NatLessThanWellFounded, Zenon DEF OpToRel
<1>2. PICK x \in S : \A y \in S : ~(<<y, x>> \in R)
  <2> HIDE DEF R
  <2> QED BY <1>1, WFMin, Zenon
<1>3. ASSUME NEW y \in S PROVE x <= y
  <2>1. ~(<<y, x>> \in R)
    BY <1>2, Zenon
  <2> QED BY <2>1, SMTT(30)
<1> QED BY <1>3, Zenon DEF Min

\* In a finite set of numbers there is one with as many below it as one likes.
LEMMA RankExists ==
  ASSUME NEW S, S \subseteq Nat, IsFiniteSet(S), NEW i \in 1..Cardinality(S)
  PROVE  \E f \in S : Cardinality({g \in S : g < f}) = i - 1
<1> DEFINE Below(f) == {g \in S : g < f}
           Bad == {n \in Nat : n \in 1..Cardinality(S) /\ \A f \in S : Cardinality(Below(f)) # n - 1}
<1>1. ASSUME Bad # {} PROVE FALSE
  <2> DEFINE n == Min(Bad)
  <2>1. n \in Bad /\ \A m \in Bad : n <= m
    <3>1. Bad \subseteq Nat
      BY Zenon
    <3> HIDE DEF Bad
    <3> QED BY <1>1, <3>1, LeastExists, Zenon
  <2> HIDE DEF n
  <2>2. n \in Nat /\ n \in 1..Cardinality(S) /\ \A f \in S : Cardinality(Below(f)) # n - 1
    BY <2>1, Zenon
  <2>3. CASE n = 1
    <3>1. S # {}
      BY <2>2, <2>3, FS_EmptySet, SMTT(30)
    <3> DEFINE f == Min(S)
    <3>2. f \in S /\ \A y \in S : f <= y
      BY <3>1, LeastExists, Zenon
    <3> HIDE DEF f
    <3>3. Below(f) = {}
      <4>1. ASSUME NEW g \in S, g < f PROVE FALSE
        <5>1. g \in Nat /\ f \in Nat /\ f <= g
          BY <3>2, Zenon
        <5> QED BY <4>1, <5>1, SMTT(30)
      <4> QED BY <4>1, Zenon
    <3> QED BY <2>2, <2>3, <3>2, <3>3, FS_EmptySet, SMTT(30)
  <2>4. CASE n # 1
    <3>1. n - 1 \in Nat /\ n - 1 \in 1..Cardinality(S) /\ ~(n - 1 \in Bad)
      BY <2>1, <2>2, <2>4, FS_CardinalityType, SMTT(30)
    <3>2. PICK a \in S : Cardinality(Below(a)) = (n - 1) - 1
      BY <3>1, Zenon
    <3> DEFINE Up == {g \in S : g > a}
               Down == Below(a)
    <3>3. IsFiniteSet(Down) /\ a \notin Down
      BY FS_Subset, SMTT(30)
    <3>4. Cardinality(Down \cup {a}) = n - 1
      <4> HIDE DEF Down
      <4>1. Cardinality(Down \cup {a}) = Cardinality(Down) + 1
        BY <3>3, FS_AddElement, Zenon
      <4>2. Cardinality(Down) = (n - 1) - 1
        BY <3>2, Zenon DEF Down
      <4> QED BY <2>2, <4>1, <4>2, SMTT(30)
    <3>5. Up # {}
      <4>1. ASSUME Up = {} PROVE FALSE
        <5>1. S = Down \cup {a}
          <6>1. ASSUME NEW g \in S PROVE g < a \/ g = a
            <7>1. g \in Nat /\ a \in Nat /\ ~(g > a)
              BY <4>1, Zenon
            <7> QED BY <7>1, SMTT(30)
          <6> QED BY <6>1, Zenon
        <5> HIDE DEF Down
        <5>2. Cardinality(S) = n - 1
          BY <3>4, <5>1, Zenon
        <5> QED BY <2>2, <5>2, SMTT(30)
      <4> QED BY <4>1, Zenon
    <3> DEFINE f == Min(Up)
    <3>6. f \in Up /\ \A y \in Up : f <= y
      <4>1. Up \subseteq Nat
        BY Zenon
      <4> HIDE DEF Up
      <4> QED BY <3>5, <4>1, LeastExists, Zenon
    <3> HIDE DEF f
    <3>7. f \in S /\ Below(f) = Down \cup {a}
      <4>1. f \in S /\ f > a
        BY <3>6, Zenon
      <4>2. ASSUME NEW g \in S PROVE g < f <=> (g < a \/ g = a)
        <5>1. g \in Nat /\ a \in Nat /\ f \in Nat /\ (g > a => f <= g)
          BY <3>6, <4>1, Zenon
        <5> QED BY <4>1, <5>1, SMTT(30)
      <4> QED BY <4>1, <4>2, Zenon
    <3> QED BY <2>2, <3>4, <3>7, Zenon
  <2> QED BY <2>3, <2>4, Zenon
<1>2. i \in Nat /\ ~(i \in Bad)
  BY <1>1, FS_CardinalityType, SMTT(30)
<1> QED BY <1>2, Zenon

\* Ascending lists a set of fds, each once.
LEMMA AscendingLists ==
  ASSUME NEW S, S \subseteq Fds
  PROVE  /\ Ascending(S) \in [1..Cardinality(S) -> S] /\ Cardinality(S) \in Nat
         /\ \A i, j \in 1..Cardinality(S) : Ascending(S)[i] = Ascending(S)[j] => i = j
<1>1. IsFiniteSet(S) /\ S \subseteq Nat /\ Cardinality(S) \in Nat
  <2>1. IsFiniteSet(S)
    BY FdsAssumption, FS_Subset, Zenon
  <2> QED BY <2>1, FdsAreNumbers, FS_CardinalityType, Zenon
<1> DEFINE at(i) == CHOOSE f \in S : Cardinality({g \in S : g < f}) = i - 1
<1>2. ASSUME NEW i \in 1..Cardinality(S)
      PROVE  at(i) \in S /\ Cardinality({g \in S : g < at(i)}) = i - 1
  <2>1. \E f \in S : Cardinality({g \in S : g < f}) = i - 1
    BY <1>1, RankExists, Zenon
  <2> QED BY <2>1, Zenon
<1>3. Ascending(S) = [i \in 1..Cardinality(S) |-> at(i)]
  BY Zenon DEF Ascending
<1> HIDE DEF at
<1>4. Ascending(S) \in [1..Cardinality(S) -> S]
  BY <1>2, <1>3, Zenon
<1>5. ASSUME NEW i \in 1..Cardinality(S), NEW j \in 1..Cardinality(S), at(i) = at(j)
      PROVE  i = j
  <2>1. i - 1 = j - 1
    BY <1>2, <1>5, Zenon
  <2> QED BY <1>1, <2>1, SMTT(30)
<1>6. \A i \in 1..Cardinality(S) : Ascending(S)[i] = at(i)
  BY <1>3, Zenon
<1>7. ASSUME NEW i \in 1..Cardinality(S), NEW j \in 1..Cardinality(S),
             Ascending(S)[i] = Ascending(S)[j]
      PROVE  i = j
  <2>1. at(i) = at(j)
    BY <1>6, <1>7, Zenon
  <2> QED BY <1>5, <2>1, Zenon
<1> QED BY <1>1, <1>4, <1>7, Zenon

\* Distinct wraps and kinds have distinct numbers.
LEMMA NumbersDiffer ==
  ASSUME NEW t, NEW v, NEW keep, NEW W, InOrder(t, v, keep, W), NEW w \in W, NEW x \in W,
         NEW k \in Kinds, NEW l \in Kinds, v[w][k] # NoFd, v[w][k] = v[x][l]
  PROVE  w = x /\ k = l
<1>1. FileFor(w, k) = FileFor(x, l)
  <2>1. t[v[w][k]].file = FileFor(w, k)
    BY Zenon DEF InOrder
  <2>2. t[v[x][l]].file = FileFor(x, l)
    BY Zenon DEF InOrder
  <2> QED BY <2>1, <2>2, Zenon
<1>2. k = l
  BY <1>1, SMTT(30) DEF FileFor, File, Kinds
<1>3. CASE k = "real"
  BY <1>2, <1>3, Zenon DEF InOrder
<1>4. CASE k = "probe"
  BY <1>1, <1>2, <1>4, SMTT(30) DEF FileFor, File
<1> QED BY <1>2, <1>3, <1>4, Zenon DEF Kinds

\* A record of a table and a memory.
LEMMA StateOf ==
  ASSUME NEW t, NEW v, NEW keep, NEW W, InOrder(t, v, keep, W)
  PROVE  Holds([tab |-> t, view |-> v], keep, W)
<1>1. [tab |-> t, view |-> v].tab = t /\ [tab |-> t, view |-> v].view = v
  BY Zenon
<1>2. [tab |-> t, view |-> v] \in States
  BY Zenon DEF States, InOrder
<1> QED BY <1>1, <1>2, Zenon DEF Holds

\* An entry of a fd table that is not closed has a file, and a file makes one.
LEMMA OpenEntry ==
  /\ \A e \in Entries : e # Closed => e.file \in Opened /\ e.cloexec \in BOOLEAN
  /\ \A x \in Opened, cx \in BOOLEAN :
       Entry(x, cx) \in Entries /\ Entry(x, cx) # Closed /\ Entry(x, cx).file = x
<1>1. ASSUME NEW e \in Entries, e # Closed PROVE e.file \in Opened /\ e.cloexec \in BOOLEAN
  BY <1>1, SMTT(30) DEF Entries
<1>2. ASSUME NEW x \in Opened, NEW cx \in BOOLEAN
      PROVE  Entry(x, cx) \in Entries /\ Entry(x, cx) # Closed /\ Entry(x, cx).file = x
  <2>1. x # File("none", 0)
    BY Zenon DEF Opened
  <2>2. Entry(x, cx).file = x /\ Closed.file = File("none", 0)
    BY Zenon DEF Entry, Closed
  <2>3. Entry(x, cx) # Closed
    BY <2>1, <2>2, Zenon
  <2>4. Entry(x, cx) \in Entries
    BY SMTT(30) DEF Entry, Entries
  <2> QED BY <2>2, <2>3, <2>4, Zenon
<1> QED BY <1>1, <1>2, Zenon

\* A known number is a fd.
LEMMA KnownIsFd ==
  ASSUME NEW t, NEW v, NEW keep, NEW W, InOrder(t, v, keep, W), NEW w \in Wraps, NEW k \in Kinds,
         v[w][k] # NoFd
  PROVE  v[w][k] \in Fds
<1>1. v[w] \in Views
  BY Zenon DEF InOrder
<1> QED BY <1>1, SMTT(30) DEF Views, Kinds, Nums

-----------------------------------------------------------------------------
\* What the close and dup3 shims do to a process in order.

\* The fds of a process that are free are none of those to be kept, and no wrap in
\* order knows them.
LEMMA FreeIsUnknown ==
  ASSUME NEW t, NEW v, NEW keep, NEW W, InOrder(t, v, keep, W), NEW f \in Fds, t[f] = Closed
  PROVE  f \notin keep /\ Unknown(v, f, W)
<1>1. f \notin keep
  BY Zenon DEF InOrder
<1>2. ASSUME NEW w \in W, NEW k \in Kinds PROVE v[w][k] # f
  <2>1. t[f].file # FileFor(w, k)
    BY SMTT(30) DEF Closed, Entry, File, FileFor
  <2> QED BY <2>1, FdsAreNumbers, Zenon DEF InOrder
<1> QED BY <1>1, <1>2, Zenon DEF Unknown

\* A wrap that is not live knows no number.
LEMMA DeadKnowsNothing ==
  ASSUME NEW t, NEW v, NEW keep, NEW W, InOrder(t, v, keep, W), NEW w \in Wraps, NEW k \in Kinds,
         v[w][k] # NoFd
  PROVE  v[w].live
<1>1. ASSUME ~v[w].live PROVE FALSE
  <2>1. v[w] = NoView
    BY <1>1, Zenon DEF InOrder
  <2> QED BY <2>1, SMTT(30) DEF NoView, Kinds
<1> QED BY <1>1, Zenon

\* How many of a set of numbers are at most w, which is one of them.
LEMMA RankIs ==
  ASSUME NEW S, S \subseteq Nat, NEW w \in S
  PROVE  Cardinality({x \in S : x <= w}) \in Nat \ {0}
<1> DEFINE L == {x \in S : x <= w}
<1>1. w \in Nat /\ IsFiniteSet(0..w)
  BY FS_Interval, SMTT(30)
<1>2. L \subseteq 0..w /\ w \in L
  <2>1. ASSUME NEW x \in S, x <= w PROVE x \in 0..w
    <3>1. x \in Nat
      BY Zenon
    <3> QED BY <1>1, <2>1, <3>1, SMTT(30)
  <2>2. w <= w
    BY <1>1, SMTT(30)
  <2> QED BY <2>1, <2>2, Zenon
<1> HIDE DEF L
<1>3. IsFiniteSet(L)
  BY <1>1, <1>2, FS_Subset, Zenon
<1>4. Cardinality(L) \in Nat /\ Cardinality(L) # 0
  BY <1>2, <1>3, FS_CardinalityType, FS_EmptySet, Zenon
<1> QED BY <1>4, Zenon DEF L

\* wslcompat_synth_relocate_internal keeps a process in order, leaves every open fd
\* alone, and makes number f nobody's.
LEMMA RelocateHolds ==
  ASSUME NEW s, NEW keep, NEW W, Holds(s, keep, W), NEW f \in Fds
  PROVE  /\ Holds(Relocate(s, f), keep, W) /\ Unknown(Relocate(s, f).view, f, W)
         /\ \A g \in Fds : s.tab[g] # Closed => Relocate(s, f).tab[g] = s.tab[g]
         /\ \A x \in Wraps : Relocate(s, f).view[x].live = s.view[x].live
<1> DEFINE t == s.tab
           v == s.view
           hit == {w \in Wraps : v[w].live /\ f \in {v[w].real, v[w].probe}}
           rank(w) == Cardinality({x \in hit : x <= w})
           fails(w) == t[f] = Closed \/ rank(w) > Cardinality(Free(s))
           to(w) == IF fails(w) THEN NoFd ELSE Ascending(Free(s))[rank(w)]
           moved(w, n) == IF w \in hit /\ n = f THEN to(w) ELSE n
           e == Entry(t[f].file, TRUE)
           u == [g \in Fds |-> IF \E w \in hit : to(w) = g THEN e ELSE t[g]]
           y == [w \in Wraps |-> [real  |-> moved(w, v[w].real),
                                  probe |-> moved(w, v[w].probe),
                                  live  |-> v[w].live]]
<1>0. InOrder(t, v, keep, W)
  BY Zenon DEF Holds
<1>1. Relocate(s, f) = IF hit = {} THEN s ELSE [tab |-> u, view |-> y]
  BY Zenon DEF Relocate
<1>2. t \in [Fds -> Entries] /\ v \in [Wraps -> Views] /\ W \subseteq Wraps /\ f # NoFd
  BY <1>0, FdsAreNumbers, Zenon DEF InOrder
<1>3. ASSUME NEW w \in Wraps, NEW k \in Kinds, v[w][k] = f PROVE w \in hit
  <2>1. v[w].live
    BY <1>0, <1>2, <1>3, DeadKnowsNothing, SMTT(30)
  <2> QED BY <1>3, <2>1, Zenon DEF Kinds
<1>4. CASE hit = {}
  <2>1. Unknown(v, f, W)
    BY <1>2, <1>3, <1>4, Zenon DEF Unknown
  <2>2. Relocate(s, f) = s
    BY <1>1, <1>4, Zenon
  <2> QED BY <2>1, <2>2, Zenon
<1>5. CASE hit # {}
  <2>1. ASSUME NEW w \in hit, to(w) # NoFd
        PROVE  to(w) \in Fds /\ t[to(w)] = Closed /\ t[f] # Closed
    <3>1. rank(w) \in Nat \ {0}
      <4>1. hit \subseteq Nat
        BY WrapAssumption, Zenon
      <4> HIDE DEF hit
      <4> QED BY <4>1, RankIs, Zenon
    <3>2. ~fails(w)
      BY <2>1, Zenon
    <3> HIDE DEF rank
    <3>3. /\ Ascending(Free(s)) \in [1..Cardinality(Free(s)) -> Free(s)]
          /\ Cardinality(Free(s)) \in Nat
      <4>1. Free(s) \subseteq Fds
        BY Zenon DEF Free
      <4> QED BY <4>1, AscendingLists, Zenon
    <3>4. rank(w) \in 1..Cardinality(Free(s))
      BY <3>1, <3>2, <3>3, SMTT(30)
    <3>5. Ascending(Free(s))[rank(w)] \in Free(s)
      BY <3>3, <3>4, Zenon
    <3> QED BY <3>2, <3>5, Zenon DEF Free
  <2>2. \A w \in hit : to(w) \in Nums
    BY <2>1, Zenon DEF Nums
  <2> HIDE DEF hit, to
  <2>3. t[f] # Closed => e \in Entries /\ e.file = t[f].file
    BY <1>2, OpenEntry, Zenon
  <2>4. \A g \in Fds : t[g] # Closed => u[g] = t[g]
    BY <2>1, FdsAreNumbers, Zenon
  <2>5. ASSUME NEW w \in hit, to(w) # NoFd PROVE u[to(w)].file = t[f].file
    <3>1. u[to(w)] = e
      BY <2>1, <2>5, Zenon
    <3> HIDE DEF u, e
    <3> QED BY <2>1, <2>3, <2>5, <3>1, Zenon
  <2>6. u \in [Fds -> Entries]
    <3>1. ASSUME NEW g \in Fds PROVE (IF \E w \in hit : to(w) = g THEN e ELSE t[g]) \in Entries
      <4> HIDE DEF e
      <4> QED BY <1>2, <2>1, <2>3, FdsAreNumbers, Zenon
    <3> HIDE DEF e
    <3> QED BY <3>1, Zenon
  <2>7. ASSUME NEW w \in Wraps, NEW k \in Kinds
        PROVE  /\ v[w][k] = f => w \in hit /\ y[w][k] = to(w)
               /\ v[w][k] # f => y[w][k] = v[w][k]
               /\ y[w].live = v[w].live
    <3>1. /\ y[w].real = moved(w, v[w].real) /\ y[w].probe = moved(w, v[w].probe)
          /\ y[w].live = v[w].live
      BY SMTT(30)
    <3> HIDE DEF y
    <3> QED BY <1>3, <3>1, Zenon DEF Kinds
  <2>8. y \in [Wraps -> Views]
    <3>1. ASSUME NEW w \in Wraps
          PROVE  [real |-> moved(w, v[w].real), probe |-> moved(w, v[w].probe), live |-> v[w].live] \in Views
      <4>1. v[w].real \in Nums /\ v[w].probe \in Nums /\ v[w].live \in BOOLEAN
        BY <1>2, SMTT(30) DEF Views
      <4>2. moved(w, v[w].real) \in Nums /\ moved(w, v[w].probe) \in Nums
        BY <2>2, <4>1, Zenon
      <4> HIDE DEF moved
      <4> QED BY <4>1, <4>2, SMTT(30) DEF Views
    <3> HIDE DEF moved
    <3> QED BY <3>1, Zenon
  <2>9. Relocate(s, f).tab = u /\ Relocate(s, f).view = y
    <3>1. [tab |-> u, view |-> y].tab = u /\ [tab |-> u, view |-> y].view = y
      BY Zenon
    <3> QED BY <1>1, <1>5, <3>1, Zenon
  <2>10. Relocate(s, f) = [tab |-> u, view |-> y]
    BY <1>1, <1>5, Zenon
  <2> HIDE DEF u, y, moved, e
  <2>11. ASSUME NEW w \in W, NEW k \in Kinds, v[w][k] = f, to(w) # NoFd
         PROVE  to(w) \in Fds /\ to(w) \notin keep /\ Unknown(v, to(w), W) /\ u[to(w)].file = FileFor(w, k)
    <3>1. w \in hit
      BY <1>2, <1>3, <2>11, Zenon
    <3>2. to(w) \in Fds /\ t[to(w)] = Closed /\ u[to(w)].file = t[f].file
      BY <2>1, <2>5, <2>11, <3>1, Zenon
    <3>3. t[f].file = FileFor(w, k)
      BY <1>0, <1>2, <2>11, Zenon DEF InOrder
    <3> QED BY <1>0, <3>2, <3>3, FreeIsUnknown, Zenon
  <2>12. ASSUME NEW w \in W, NEW k \in Kinds, y[w][k] # NoFd
         PROVE  y[w][k] \notin keep /\ u[y[w][k]].file = FileFor(w, k)
    <3>0. w \in Wraps
      BY <1>2, Zenon
    <3>1. CASE v[w][k] = f
      BY <2>7, <2>11, <2>12, <3>0, <3>1, Zenon
    <3>2. CASE v[w][k] # f
      <4>1. y[w][k] = v[w][k] /\ v[w][k] # NoFd
        BY <2>7, <2>12, <3>0, <3>2, Zenon
      <4>2. v[w][k] \notin keep /\ t[v[w][k]].file = FileFor(w, k)
        BY <1>0, <4>1, Zenon DEF InOrder
      <4>3. v[w][k] \in Fds
        BY <1>0, <3>0, <4>1, KnownIsFd, Zenon
      <4>4. t[v[w][k]] # Closed
        <5>1. ASSUME t[v[w][k]] = Closed PROVE Unknown(v, v[w][k], W)
          <6> HIDE DEF v, t
          <6> QED BY <1>0, <4>3, <5>1, FreeIsUnknown, Zenon
        <5> QED BY <5>1, Zenon DEF Unknown
      <4> QED BY <2>4, <4>1, <4>2, <4>3, <4>4, Zenon
    <3> QED BY <3>1, <3>2, Zenon
  <2>13. Unknown(y, f, W)
    <3>1. ASSUME NEW w \in W, NEW k \in Kinds, y[w][k] = f PROVE FALSE
      <4>0. w \in Wraps
        BY <1>2, Zenon
      <4>1. CASE v[w][k] = f
        <5>1. to(w) = f
          BY <2>7, <3>1, <4>0, <4>1, Zenon
        <5>2. Unknown(v, f, W)
          BY <1>2, <2>11, <4>1, <5>1, Zenon
        <5> QED BY <4>1, <5>2, Zenon DEF Unknown
      <4>2. CASE v[w][k] # f
        BY <2>7, <3>1, <4>0, <4>2, Zenon
      <4> QED BY <4>1, <4>2, Zenon
    <3> QED BY <3>1, Zenon DEF Unknown
  <2>14. ASSUME NEW w \in W, NEW x \in W, y[w].real # NoFd, y[w].real = y[x].real
         PROVE  w = x
    <3>0. w \in Wraps /\ x \in Wraps /\ "real" \in Kinds
      BY <1>2, Zenon DEF Kinds
    <3>1. ASSUME NEW i \in W, NEW j \in W, v[i].real = f, v[j].real # f, y[i].real = y[j].real,
                 y[i].real # NoFd
          PROVE  FALSE
      <4>0. i \in Wraps /\ j \in Wraps
        BY <1>2, Zenon
      <4>1. y[i].real = to(i) /\ y[j].real = v[j].real
        BY <2>7, <3>0, <3>1, <4>0, Zenon
      <4>2. Unknown(v, to(i), W)
        BY <2>11, <3>0, <3>1, <4>1, Zenon
      <4> QED BY <3>0, <3>1, <4>1, <4>2, Zenon DEF Unknown
    <3>2. CASE v[w].real = f /\ v[x].real = f
      BY <1>0, <1>2, <3>2, Zenon DEF InOrder
    <3>3. CASE v[w].real # f /\ v[x].real # f
      <4>1. v[w].real # NoFd /\ v[w].real = v[x].real
        BY <2>7, <2>14, <3>0, <3>3, Zenon
      <4> QED BY <1>0, <4>1, Zenon DEF InOrder
    <3> QED BY <2>14, <3>1, <3>2, <3>3, Zenon
  <2>15. ASSUME NEW w \in Wraps, ~y[w].live PROVE y[w] = NoView
    <3>1. ~v[w].live
      BY <2>7, <2>15, Zenon DEF Kinds
    <3>2. v[w] = NoView /\ w \notin hit
      BY <1>0, <3>1, Zenon DEF InOrder, hit
    <3>3. y[w] = [real |-> v[w].real, probe |-> v[w].probe, live |-> v[w].live]
      BY <3>2, Zenon DEF y, moved
    <3> QED BY <3>2, <3>3, SMTT(30) DEF NoView
  <2>16. \A g \in keep : g \in Fds /\ u[g] # Closed
    BY <1>0, <2>4, Zenon DEF InOrder
  <2>17. InOrder(u, y, keep, W)
    BY <1>2, <2>6, <2>8, <2>12, <2>14, <2>15, <2>16, Zenon DEF InOrder
  <2>18. Holds(Relocate(s, f), keep, W)
    BY <2>10, <2>17, StateOf, Zenon
  <2>19. \A x \in Wraps : y[x].live = v[x].live
    BY <2>7, Zenon DEF Kinds
  <2> QED BY <2>4, <2>9, <2>13, <2>18, <2>19, Zenon
<1> QED BY <1>4, <1>5, Zenon

\* A number that no wrap knows may become anything; it is kept open unless it is
\* closed.
LEMMA PutInOrder ==
  ASSUME NEW t, NEW v, NEW keep, NEW W, InOrder(t, v, keep, W), NEW f \in Fds, Unknown(v, f, W),
         NEW e \in Entries, NEW rest, rest \subseteq keep \cup {f}, f \in rest => e # Closed
  PROVE  InOrder([t EXCEPT ![f] = e], v, rest, W)
<1> DEFINE u == [t EXCEPT ![f] = e]
<1>1. t \in [Fds -> Entries] /\ v \in [Wraps -> Views]
  BY Zenon DEF InOrder
<1>2. u \in [Fds -> Entries] /\ u[f] = e /\ \A g \in Fds : g # f => u[g] = t[g]
  BY <1>1, SMTT(30)
<1> HIDE DEF u
<1>3. ASSUME NEW w \in W, NEW k \in Kinds, v[w][k] # NoFd
      PROVE  v[w][k] \notin rest /\ u[v[w][k]].file = FileFor(w, k)
  <2>1. v[w][k] \in Fds
    <3>1. w \in Wraps
      BY Zenon DEF InOrder
    <3> QED BY <1>3, <3>1, KnownIsFd, SMTT(30)
  <2>2. v[w][k] # f
    BY Zenon DEF Unknown
  <2>3. v[w][k] \notin keep /\ t[v[w][k]].file = FileFor(w, k)
    BY <1>3, Zenon DEF InOrder
  <2> QED BY <1>2, <2>1, <2>2, <2>3, Zenon
<1>4. ASSUME NEW g \in rest PROVE g \in Fds /\ u[g] # Closed
  <2>1. CASE g = f
    BY <1>2, <2>1, Zenon
  <2>2. CASE g # f
    <3>1. g \in keep
      BY <2>2, Zenon
    <3>2. g \in Fds /\ t[g] # Closed
      BY <3>1, Zenon DEF InOrder
    <3> QED BY <1>2, <2>2, <3>2, Zenon
  <2> QED BY <2>1, <2>2, Zenon
<1>5. InOrder(u, v, rest, W)
  <2>1. /\ \A w \in Wraps : ~v[w].live => v[w] = NoView
        /\ \A w, x \in W : v[w].real # NoFd /\ v[w].real = v[x].real => w = x
        /\ W \subseteq Wraps
    BY Zenon DEF InOrder
  <2> QED BY <1>1, <1>2, <1>3, <1>4, <2>1, Zenon DEF InOrder
<1> QED BY <1>5, Zenon DEF u

\* The release of an entry closes its two numbers and no other: the process stays in
\* order, and the fds to be kept are untouched (tty_release, synth_cleanup).
LEMMA ForgetInOrder ==
  ASSUME NEW t, NEW v, NEW keep, NEW W, InOrder(t, v, keep, W), NEW w \in W, NEW u, NEW y,
         u = [f \in Fds |-> IF f \in {v[w].real, v[w].probe} THEN Closed ELSE t[f]],
         y = [v EXCEPT ![w] = NoView]
  PROVE  /\ InOrder(u, y, keep, W)
         /\ \A g \in Fds : Unknown(v, g, W) => u[g] = t[g]
         /\ \A x \in Wraps : y[x].live => v[x].live
<1>0. /\ t \in [Fds -> Entries] /\ v \in [Wraps -> Views] /\ "real" \in Kinds /\ "probe" \in Kinds
      /\ W \subseteq Wraps /\ w \in Wraps
  BY Zenon DEF InOrder, Kinds
<1>1. y \in [Wraps -> Views] /\ y[w] = NoView /\ \A x \in Wraps : x # w => y[x] = v[x]
  <2>1. NoView \in Views
    BY SMTT(30) DEF NoView, Views, Nums
  <2> QED BY <1>0, <2>1, SMTT(30)
<1>2. u \in [Fds -> Entries]
  <2>1. Closed \in Entries
    BY Zenon DEF Entries
  <2> QED BY <1>0, <2>1, SMTT(30)
<1>3. \A g \in Fds : g # v[w].real /\ g # v[w].probe => u[g] = t[g]
  BY Zenon
<1>4. ASSUME NEW g \in Fds, Unknown(v, g, W) PROVE u[g] = t[g]
  <2>1. v[w].real # g /\ v[w].probe # g
    BY <1>0, <1>4, Zenon DEF Unknown
  <2> QED BY <1>3, <2>1, Zenon
<1>5. \A k \in Kinds : y[w][k] = NoFd
  BY <1>1, SMTT(30) DEF NoView, Kinds
<1>6. ASSUME NEW x \in W, NEW k \in Kinds, y[x][k] # NoFd
      PROVE  y[x][k] \notin keep /\ u[y[x][k]].file = FileFor(x, k)
  <2>1. x # w /\ y[x] = v[x] /\ x \in Wraps
    BY <1>0, <1>1, <1>5, <1>6, Zenon
  <2>2. v[x][k] # NoFd
    BY <1>6, <2>1, Zenon
  <2>3. v[x][k] \in Fds
    BY <2>1, <2>2, KnownIsFd, SMTT(30)
  <2>4. v[x][k] # v[w].real
    BY <1>0, <2>1, <2>2, NumbersDiffer, SMTT(30)
  <2>5. v[x][k] # v[w].probe
    BY <1>0, <2>1, <2>2, NumbersDiffer, SMTT(30)
  <2>6. v[x][k] \notin keep /\ t[v[x][k]].file = FileFor(x, k)
    BY <2>2, Zenon DEF InOrder
  <2>7. u[v[x][k]] = t[v[x][k]]
    BY <1>3, <2>3, <2>4, <2>5, Zenon
  <2> QED BY <2>1, <2>6, <2>7, Zenon
<1>7. ASSUME NEW x \in Wraps, ~y[x].live PROVE y[x] = NoView
  <2>1. CASE x = w
    BY <1>1, <2>1, Zenon
  <2>2. CASE x # w
    <3>1. y[x] = v[x] /\ ~v[x].live
      BY <1>1, <1>7, <2>2, Zenon
    <3> QED BY <3>1, Zenon DEF InOrder
  <2> QED BY <2>1, <2>2, Zenon
<1>8. ASSUME NEW x \in W, NEW z \in W, y[x].real # NoFd, y[x].real = y[z].real
      PROVE  x = z
  <2>1. x # w /\ z # w
    BY <1>0, <1>5, <1>8, Zenon
  <2>2. v[x].real # NoFd /\ v[x].real = v[z].real
    BY <1>0, <1>1, <1>8, <2>1, Zenon
  <2> QED BY <2>2, Zenon DEF InOrder
<1>9. ASSUME NEW g \in keep PROVE g \in Fds /\ u[g] # Closed
  <2>1. g \in Fds /\ t[g] # Closed
    BY Zenon DEF InOrder
  <2>2. v[w].real # g /\ v[w].probe # g
    <3>1. ASSUME NEW k \in Kinds PROVE v[w][k] # g
      BY <2>1, FdsAreNumbers, Zenon DEF InOrder
    <3> QED BY <1>0, <3>1, Zenon
  <2> QED BY <1>3, <2>1, <2>2, Zenon
<1>10. InOrder(u, y, keep, W)
  BY <1>0, <1>1, <1>2, <1>6, <1>7, <1>8, <1>9, Zenon DEF InOrder
<1>11. \A x \in Wraps : y[x].live => v[x].live
  BY <1>1, Zenon DEF NoView
<1> QED BY <1>4, <1>10, <1>11, Zenon

\* From s to s1, the numbers no wrap of W knows are untouched, and no wrap becomes live.
Spares(s, s1, W)   == \A g \in Fds : Unknown(s.view, g, W) => s1.tab[g] = s.tab[g]
NoneRevived(s, s1) == \A x \in Wraps : s1.view[x].live => s.view[x].live

\* wslcompat_synth_post_close keeps a process in order.
LEMMA PostCloseHolds ==
  ASSUME NEW p, NEW s, NEW keep, NEW W, Holds(s, keep, W), NEW w \in Wraps, installer[w] = p => w \in W
  PROVE  /\ Holds(PostClose(p, s, w), keep, W)
         /\ Spares(s, PostClose(p, s, w), W) /\ NoneRevived(s, PostClose(p, s, w))
<1> DEFINE u == [f \in Fds |-> IF f \in {s.view[w].real, s.view[w].probe} THEN Closed ELSE s.tab[f]]
           y == [s.view EXCEPT ![w] = NoView]
<1>0. InOrder(s.tab, s.view, keep, W)
  BY Zenon DEF Holds
<1>1. CASE installer[w] # p \/ ~ShouldRelease(p, s, w)
  <2>1. PostClose(p, s, w) = s
    BY <1>1, Zenon DEF PostClose
  <2> QED BY <2>1, Zenon DEF Spares, NoneRevived
<1>2. CASE ~(installer[w] # p \/ ~ShouldRelease(p, s, w))
  <2>1. PostClose(p, s, w) = [tab |-> u, view |-> y]
    BY <1>2, Zenon DEF PostClose
  <2>2. /\ InOrder(u, y, keep, W)
        /\ \A g \in Fds : Unknown(s.view, g, W) => u[g] = s.tab[g]
        /\ \A x \in Wraps : y[x].live => s.view[x].live
    <3>1. /\ u = [f \in Fds |-> IF f \in {s.view[w].real, s.view[w].probe} THEN Closed ELSE s.tab[f]]
          /\ y = [s.view EXCEPT ![w] = NoView]
      BY Zenon
    <3> HIDE DEF u, y
    <3>2. w \in W
      BY <1>2, Zenon
    <3> QED BY <1>0, <3>1, <3>2, ForgetInOrder, SMTT(30)
  <2> HIDE DEF u, y
  <2>3. [tab |-> u, view |-> y].tab = u /\ [tab |-> u, view |-> y].view = y
    BY Zenon
  <2>4. Holds([tab |-> u, view |-> y], keep, W)
    BY <2>2, StateOf, Zenon
  <2>5. Spares(s, [tab |-> u, view |-> y], W) /\ NoneRevived(s, [tab |-> u, view |-> y])
    BY <2>2, <2>3, Zenon DEF Spares, NoneRevived
  <2> QED BY <2>1, <2>4, <2>5, Zenon
<1> QED BY <1>1, <1>2, Zenon

\* What is kept when number f becomes e.
Kept(keep, f, e) == IF e = Closed THEN keep \ {f} ELSE keep \cup {f}

\* The close and dup3 shims keep a process in order, put e at f, and leave the other
\* fds to be kept alone.
LEMMA ReplaceHolds ==
  ASSUME NEW p, NEW s, NEW keep, NEW W, Holds(s, keep, W), NEW f \in Fds, NEW e \in Entries,
         \A w \in Wraps : installer[w] = p => w \in W
  PROVE  /\ Holds(Replace(p, s, f, e), Kept(keep, f, e), W)
         /\ Replace(p, s, f, e).tab[f] = e
         /\ \A g \in keep : g # f => Replace(p, s, f, e).tab[g] = s.tab[g]
         /\ NoneRevived(s, Replace(p, s, f, e))
<1> DEFINE ws == EntryOf(s, f)
           s1 == Relocate(s, f)
           s2 == [s1 EXCEPT !.tab[f] = e]
<1>1. /\ Holds(s1, keep, W) /\ Unknown(s1.view, f, W)
      /\ \A g \in Fds : s.tab[g] # Closed => s1.tab[g] = s.tab[g]
      /\ \A x \in Wraps : s1.view[x].live = s.view[x].live
  BY RelocateHolds, Zenon
<1>2. Replace(p, s, f, e) = IF ws = {} THEN s2 ELSE PostClose(p, s2, CHOOSE w \in ws : TRUE)
  BY Zenon DEF Replace
<1>3. ws # {} => (CHOOSE w \in ws : TRUE) \in Wraps
  BY Zenon DEF EntryOf
<1>4. s1 \in States /\ InOrder(s1.tab, s1.view, keep, W)
  BY <1>1, Zenon DEF Holds
<1> HIDE DEF ws, s1
<1>5. s2 = [tab |-> [s1.tab EXCEPT ![f] = e], view |-> s1.view]
  BY <1>4, SMTT(30) DEF States
<1>6. s2.tab = [s1.tab EXCEPT ![f] = e] /\ s2.view = s1.view
  BY <1>4, SMTT(30) DEF States
<1> HIDE DEF s2
<1>7. Holds(s2, Kept(keep, f, e), W)
  <2>1. Kept(keep, f, e) \subseteq keep \cup {f} /\ (f \in Kept(keep, f, e) => e # Closed)
    BY Zenon DEF Kept
  <2>2. InOrder([s1.tab EXCEPT ![f] = e], s1.view, Kept(keep, f, e), W)
    BY <1>1, <1>4, <2>1, PutInOrder, Zenon
  <2> QED BY <1>5, <2>2, StateOf, Zenon
<1>8. s2.tab[f] = e /\ \A g \in keep : g # f => s2.tab[g] = s.tab[g]
  <2>1. s1.tab \in [Fds -> Entries]
    BY <1>4, Zenon DEF InOrder
  <2>2. s2.tab[f] = e /\ \A g \in Fds : g # f => s2.tab[g] = s1.tab[g]
    BY <1>6, <2>1, SMTT(30)
  <2>3. \A g \in keep : g \in Fds /\ s1.tab[g] = s.tab[g]
    <3>1. \A g \in keep : g \in Fds /\ s.tab[g] # Closed
      BY Zenon DEF Holds, InOrder
    <3> QED BY <1>1, <3>1, Zenon
  <2> QED BY <2>2, <2>3, Zenon
<1>0. \A x \in Wraps : s2.view[x].live => s.view[x].live
  BY <1>1, <1>6, Zenon
<1>9. CASE ws = {}
  <2>1. Replace(p, s, f, e) = s2
    BY <1>2, <1>9, Zenon
  <2> QED BY <1>0, <1>7, <1>8, <2>1, Zenon DEF NoneRevived
<1>10. CASE ws # {}
  <2>1. PICK w \in Wraps : Replace(p, s, f, e) = PostClose(p, s2, w)
    BY <1>2, <1>3, <1>10, Zenon
  <2>2. /\ Holds(PostClose(p, s2, w), Kept(keep, f, e), W)
        /\ \A g \in Fds : Unknown(s2.view, g, W) => PostClose(p, s2, w).tab[g] = s2.tab[g]
        /\ \A x \in Wraps : PostClose(p, s2, w).view[x].live => s2.view[x].live
    <3>1. /\ Holds(PostClose(p, s2, w), Kept(keep, f, e), W)
          /\ Spares(s2, PostClose(p, s2, w), W) /\ NoneRevived(s2, PostClose(p, s2, w))
      BY <1>7, PostCloseHolds, Zenon
    <3> QED BY <3>1, Zenon DEF Spares, NoneRevived
  <2>3. Unknown(s2.view, f, W)
    BY <1>1, <1>6, Zenon
  <2>4. ASSUME NEW g \in keep PROVE g \in Fds /\ Unknown(s2.view, g, W)
    <3>1. g \in Fds
      BY <1>4, Zenon DEF InOrder
    <3>2. Unknown(s1.view, g, W)
      BY <1>4, <3>1, FdsAreNumbers, Zenon DEF Unknown, InOrder
    <3> QED BY <1>6, <3>1, <3>2, Zenon
  <2>5. PostClose(p, s2, w).tab[f] = e
    BY <1>8, <2>2, <2>3, Zenon
  <2>6. \A g \in keep : g # f => PostClose(p, s2, w).tab[g] = s.tab[g]
    BY <1>8, <2>2, <2>4, Zenon
  <2>7. \A x \in Wraps : PostClose(p, s2, w).view[x].live => s.view[x].live
    BY <1>0, <2>2, Zenon
  <2> QED BY <2>1, <2>2, <2>5, <2>6, <2>7, Zenon DEF NoneRevived
<1> QED BY <1>9, <1>10, Zenon

-----------------------------------------------------------------------------
\* The inductive invariant.

Saved  == [user : Fds, at : Fds, cloexec : BOOLEAN]
States4 == {"run", "unborn", "save", "restore"}

\* The numbers at which fds are parked.
Parked(sv) == {sv[i].at : i \in DOMAIN sv}

\* The wraps whose numbers a process goes by rightly.
Trusted(p) == Wraps \ Astray(p)

\* A process with fd table t, memory v and application fds o, whose exec has the
\* fds c still to save and has saved sv: it is in order but for the wraps not in W,
\* with the application's and the parked fds to be kept; what is parked is nobody
\* else's, and parked once; only an exec parks; and the array of swaps is not overrun.
Fine(W, t, v, o, c, sv, x) ==
  /\ InOrder(t, v, o \cup Parked(sv), W)
  /\ c \in Seq(Fds) /\ sv \in Seq(Saved)
  /\ \A i \in DOMAIN sv : sv[i].at \notin o
  /\ \A i, j \in DOMAIN sv : sv[i].at = sv[j].at => i = j
  /\ x \notin {"save", "restore"} => sv = <<>>
  /\ Len(c) + Len(sv) <= PreexecMax

\* A memory says nothing of a wrap that is not live.
Quiet(v) == v \in [Wraps -> Views] /\ \A w \in Wraps : ~v[w].live => v[w] = NoView

Types ==
  /\ tab \in [Procs -> [Fds -> Entries]] /\ view \in [Procs -> [Wraps -> Views]]
  /\ base \in [Procs -> [Wraps -> Views]]
  /\ own \in [Procs -> SUBSET Fds] /\ st \in [Procs -> States4]
  /\ cand \in [Procs -> Seq(Fds)] /\ saved \in [Procs -> Seq(Saved)]
  /\ DOMAIN installer = Wraps

FineAt(p) ==
  Fine(Trusted(p), tab[p], view[p], own[p], cand[p], saved[p], st[p]) /\ Quiet(base[p])

\* A wrap that was not installed yet is live nowhere.
Fresh ==
  \A w \in Wraps : installer[w] = "none" => \A p \in Procs : ~view[p][w].live /\ ~base[p][w].live

\* The installer of a wrap exists, and is not astray for it.
Placed == \A p \in Procs, w \in Wraps : installer[w] = p => st[p] # "unborn" /\ w \in Trusted(p)

IInv == Types /\ Fresh /\ Placed /\ \A p \in Procs : FineAt(p)

\* The swaps of an exec fit their array.
SwapsFit == \A p \in Procs : Len(cand[p]) + Len(saved[p]) <= PreexecMax

\* The base values of process p change, if any do.
BaseMoves(p) ==
  /\ base' \in [Procs -> [Wraps -> Views]] /\ \A q \in Procs : q # p => base'[q] = base[q]
  /\ Quiet(base'[p]) /\ \A w \in Wraps : installer'[w] = "none" => ~base'[p][w].live

\* Process p becomes s, with application fds o, and its exec moves on to c, sv and x;
\* a wrap that is not installed yet stays so, and is not live in s; no other process
\* is rid of an astray wrap.
Changes(p, s, o, c, sv, x) ==
  /\ tab' = [tab EXCEPT ![p] = s.tab] /\ view' = [view EXCEPT ![p] = s.view] /\ BaseMoves(p)
  /\ own' = [own EXCEPT ![p] = o] /\ cand' = [cand EXCEPT ![p] = c]
  /\ saved' = [saved EXCEPT ![p] = sv] /\ st' = [st EXCEPT ![p] = x]
  /\ DOMAIN installer' = Wraps
  /\ \A w \in Wraps : installer'[w] = "none" => installer[w] = "none" /\ ~s.view[w].live
  /\ Placed' /\ \A q \in Procs : q # p => Trusted(q)' \subseteq Trusted(q)

\* The same, with p fine afterwards.
ChangesWell(p, s, o, c, sv, x) ==
  /\ Changes(p, s, o, c, sv, x) /\ o \in SUBSET Fds /\ x \in States4
  /\ Fine(Trusted(p)', s.tab, s.view, o, c, sv, x)

\* What is in order but for some wraps is in order but for more.
LEMMA LessTrusted ==
  ASSUME NEW t, NEW v, NEW keep, NEW W, InOrder(t, v, keep, W), NEW V, V \subseteq W
  PROVE  InOrder(t, v, keep, V)
<1>1. /\ \A w \in V : \A k \in Kinds : v[w][k] # NoFd =>
           v[w][k] \notin keep /\ t[v[w][k]].file = FileFor(w, k)
      /\ \A w, x \in V : v[w].real # NoFd /\ v[w].real = v[x].real => w = x
      /\ V \subseteq Wraps
  BY Zenon DEF InOrder
<1> QED BY <1>1, Zenon DEF InOrder

\* A step of one process preserves the invariant if that process stays fine.
LEMMA StepFine ==
  ASSUME IInv, NEW p \in Procs, NEW s, NEW o, NEW c, NEW sv, NEW x,
         ChangesWell(p, s, o, c, sv, x)
  PROVE  IInv'
<1>0. /\ o \in SUBSET Fds /\ x \in States4
      /\ Changes(p, s, o, c, sv, x) /\ Fine(Trusted(p)', s.tab, s.view, o, c, sv, x)
  BY Zenon DEF ChangesWell
<1>1. /\ s.tab \in [Fds -> Entries] /\ s.view \in [Wraps -> Views]
      /\ c \in Seq(Fds) /\ sv \in Seq(Saved)
  BY <1>0, Zenon DEF Fine, InOrder
<1>2. Types
  BY Zenon DEF IInv
<1>3. /\ tab' \in [Procs -> [Fds -> Entries]] /\ tab'[p] = s.tab
      /\ \A q \in Procs : q # p => tab'[q] = tab[q]
  BY <1>0, <1>1, <1>2, Zenon DEF Changes, Types
<1>4. /\ view' \in [Procs -> [Wraps -> Views]] /\ view'[p] = s.view
      /\ \A q \in Procs : q # p => view'[q] = view[q]
  BY <1>0, <1>1, <1>2, Zenon DEF Changes, Types
<1>5. /\ own' \in [Procs -> SUBSET Fds] /\ own'[p] = o
      /\ \A q \in Procs : q # p => own'[q] = own[q]
  BY <1>0, <1>2, Zenon DEF Changes, Types
<1>6. /\ cand' \in [Procs -> Seq(Fds)] /\ cand'[p] = c
      /\ \A q \in Procs : q # p => cand'[q] = cand[q]
  BY <1>0, <1>1, <1>2, Zenon DEF Changes, Types
<1>7. /\ saved' \in [Procs -> Seq(Saved)] /\ saved'[p] = sv
      /\ \A q \in Procs : q # p => saved'[q] = saved[q]
  BY <1>0, <1>1, <1>2, Zenon DEF Changes, Types
<1>8. /\ st' \in [Procs -> States4] /\ st'[p] = x
      /\ \A q \in Procs : q # p => st'[q] = st[q]
  BY <1>0, <1>2, Zenon DEF Changes, Types
<1>9. BaseMoves(p) /\ base' \in [Procs -> [Wraps -> Views]]
  BY <1>0, Zenon DEF Changes, BaseMoves
<1>10. Types'
  BY <1>0, <1>3, <1>4, <1>5, <1>6, <1>7, <1>8, <1>9, Zenon DEF Types, Changes
<1>11. FineAt(p)'
  BY <1>0, <1>3, <1>4, <1>5, <1>6, <1>7, <1>8, <1>9, Zenon DEF FineAt, BaseMoves
<1>12. ASSUME NEW q \in Procs, q # p PROVE FineAt(q)'
  <2>1. FineAt(q) /\ Trusted(q)' \subseteq Trusted(q)
    BY <1>0, <1>12, Zenon DEF IInv, Changes
  <2>2. Fine(Trusted(q)', tab[q], view[q], own[q], cand[q], saved[q], st[q])
    <3>1. InOrder(tab[q], view[q], own[q] \cup Parked(saved[q]), Trusted(q)')
      BY <2>1, LessTrusted, Zenon DEF FineAt, Fine
    <3> QED BY <2>1, <3>1, Zenon DEF FineAt, Fine
  <2>3. base'[q] = base[q] /\ Quiet(base[q])
    BY <1>9, <1>12, <2>1, Zenon DEF BaseMoves, FineAt
  <2> QED BY <1>3, <1>4, <1>5, <1>6, <1>7, <1>8, <1>12, <2>2, <2>3, Zenon DEF FineAt
<1>13. ASSUME NEW w \in Wraps, installer'[w] = "none", NEW q \in Procs
       PROVE  ~view'[q][w].live /\ ~base'[q][w].live
  <2>1. installer[w] = "none" /\ ~s.view[w].live
    BY <1>0, <1>13, Zenon DEF Changes
  <2>2. ~view[q][w].live /\ ~base[q][w].live
    BY <2>1, Zenon DEF IInv, Fresh
  <2>3. ~base'[q][w].live
    BY <1>9, <1>13, <2>2, Zenon DEF BaseMoves
  <2> QED BY <1>4, <2>1, <2>2, <2>3, Zenon
<1> QED BY <1>0, <1>10, <1>11, <1>12, <1>13, Zenon DEF IInv, Fresh, Changes

\* A step after which no process has ended, nor wraps have another installer.
LEMMA StillPlaced ==
  ASSUME IInv, installer' = installer, astray' = astray,
         \A q \in Procs : st[q] # "unborn" => st'[q] # "unborn"
  PROVE  Placed' /\ \A q \in Procs : Trusted(q)' = Trusted(q)
<1>1. \A q \in Procs : Trusted(q)' = Trusted(q)
  BY Zenon DEF Trusted, Astray
<1>2. Placed
  BY Zenon DEF IInv
<1> QED BY <1>1, <1>2, Zenon DEF Placed

\* A step that leaves the base values alone.
LEMMA BaseStays ==
  ASSUME IInv, NEW p \in Procs, base' = base, installer' = installer
  PROVE  BaseMoves(p)
BY Zenon DEF IInv, Types, FineAt, Fresh, BaseMoves

\* The base values after a store of an installer or of another process.
LEMMA BecomeBase ==
  ASSUME IInv, NEW p \in Procs, NEW s, Become(p, s), installer' = installer, Quiet(s.view),
         \A w \in Wraps : installer[w] = "none" => ~s.view[w].live
  PROVE  BaseMoves(p)
<1> DEFINE b == [w \in Wraps |-> IF installer[w] = p THEN s.view[w] ELSE base[p][w]]
<1>1. base' = [base EXCEPT ![p] = b] /\ base \in [Procs -> [Wraps -> Views]] /\ Quiet(base[p])
  BY Zenon DEF Become, IInv, Types, FineAt
<1>2. \A w \in Wraps : b[w] = s.view[w] \/ b[w] = base[p][w]
  BY Zenon
<1>3. b \in [Wraps -> Views]
  <2>1. \A w \in Wraps : (IF installer[w] = p THEN s.view[w] ELSE base[p][w]) \in Views
    BY <1>1, Zenon DEF Quiet
  <2> QED BY <2>1, Zenon
<1> HIDE DEF b
<1>4. Quiet(b) /\ \A w \in Wraps : installer[w] = "none" => ~b[w].live
  BY <1>1, <1>2, <1>3, Zenon DEF Quiet, IInv, Fresh
<1>5. /\ base' \in [Procs -> [Wraps -> Views]] /\ base'[p] = b
      /\ \A q \in Procs : q # p => base'[q] = base[q]
  BY <1>1, <1>3, Zenon
<1> QED BY <1>4, <1>5, Zenon DEF BaseMoves

\* What a step leaves alone.
LEMMA SameAgain ==
  ASSUME IInv, NEW p \in Procs
  PROVE  /\ tab = [tab EXCEPT ![p] = tab[p]] /\ view = [view EXCEPT ![p] = view[p]]
         /\ own = [own EXCEPT ![p] = own[p]] /\ cand = [cand EXCEPT ![p] = cand[p]]
         /\ saved = [saved EXCEPT ![p] = saved[p]] /\ st = [st EXCEPT ![p] = st[p]]
<1>1. Types
  BY Zenon DEF IInv
<1> QED BY <1>1, SMTT(30) DEF Types

\* What is in order with more to be kept is in order with less.
LEMMA LessKept ==
  ASSUME NEW t, NEW v, NEW keep, NEW W, InOrder(t, v, keep, W), NEW rest, rest \subseteq keep
  PROVE  InOrder(t, v, rest, W)
<1>1. ASSUME NEW w \in W, NEW k \in Kinds, v[w][k] # NoFd
      PROVE  v[w][k] \notin rest /\ t[v[w][k]].file = FileFor(w, k)
  BY <1>1, Zenon DEF InOrder
<1>2. \A f \in rest : f \in Fds /\ t[f] # Closed
  BY Zenon DEF InOrder
<1> QED BY <1>1, <1>2, Zenon DEF InOrder

\* An image that knows no wrap is in order, whatever its fds.
LEMMA BlankInOrder ==
  ASSUME NEW t \in [Fds -> Entries], NEW keep, keep \subseteq OpenIn(t), NEW W, W \subseteq Wraps
  PROVE  InOrder(t, [w \in Wraps |-> NoView], keep, W) /\ Quiet([w \in Wraps |-> NoView])
<1> DEFINE v == [w \in Wraps |-> NoView]
<1>1. NoView \in Views /\ NoView.real = NoFd /\ NoView.probe = NoFd
  BY SMTT(30) DEF NoView, Views, Nums
<1>2. v \in [Wraps -> Views] /\ \A w \in Wraps : v[w] = NoView
  BY <1>1, Zenon
<1> HIDE DEF v
<1>3. ASSUME NEW w \in Wraps, NEW k \in Kinds PROVE v[w][k] = NoFd
  BY <1>1, <1>2, Zenon DEF Kinds
<1>4. \A f \in keep : f \in Fds /\ t[f] # Closed
  BY Zenon DEF OpenIn
<1>5. \A w \in Wraps : v[w].real = NoFd
  BY <1>1, <1>2, Zenon
<1>6. InOrder(t, v, keep, W)
  BY <1>2, <1>3, <1>4, <1>5, Zenon DEF InOrder
<1>7. Quiet(v)
  BY <1>2, Zenon DEF Quiet
<1> QED BY <1>6, <1>7, Zenon DEF v

\* Outside an exec nothing is parked.
LEMMA NoneParked ==
  ASSUME IInv, NEW p \in Procs, st[p] \notin {"save", "restore"}
  PROVE  saved[p] = <<>> /\ Parked(saved[p]) = {}
<1>1. saved[p] = <<>>
  BY Zenon DEF IInv, FineAt, Fine
<1>2. Parked(<<>>) = {}
  BY SMTT(30) DEF Parked
<1> QED BY <1>1, <1>2, Zenon

\* Proc(p) is in order.
LEMMA ProcHolds ==
  ASSUME IInv, NEW p \in Procs
  PROVE  /\ Proc(p).tab = tab[p] /\ Proc(p).view = view[p]
         /\ Holds(Proc(p), own[p] \cup Parked(saved[p]), Trusted(p))
         /\ \A w \in Wraps : installer[w] = p => w \in Trusted(p)
<1>1. Proc(p).tab = tab[p] /\ Proc(p).view = view[p]
  BY Zenon DEF Proc
<1>2. InOrder(tab[p], view[p], own[p] \cup Parked(saved[p]), Trusted(p))
  BY Zenon DEF IInv, FineAt, Fine
<1>3. Holds(Proc(p), own[p] \cup Parked(saved[p]), Trusted(p))
  BY <1>2, StateOf, Zenon DEF Proc
<1> QED BY <1>1, <1>3, Zenon DEF IInv, Placed

\* A wrap that is not installed is not live in what a process becomes when no wrap
\* is revived.
LEMMA NoneRevivedFresh ==
  ASSUME IInv, NEW p \in Procs, NEW s, NoneRevived(Proc(p), s), NEW w \in Wraps,
         installer[w] = "none"
  PROVE  ~s.view[w].live
<1>1. ~view[p][w].live
  BY Zenon DEF IInv, Fresh
<1>2. Proc(p).view = view[p]
  BY ProcHolds, Zenon
<1> QED BY <1>1, <1>2, Zenon DEF NoneRevived

-----------------------------------------------------------------------------
\* The actions.

\* An application makes f become e, which leaves it the fds o.
Shim(p, f, e, o) ==
  /\ st[p] = "run" /\ Become(p, Replace(p, Proc(p), f, e))
  /\ o \in SUBSET Fds /\ o \subseteq Kept(own[p], f, e) /\ own' = [own EXCEPT ![p] = o]
  /\ installer' = installer /\ st' = st /\ cand' = cand /\ saved' = saved /\ astray' = astray

\* A close or dup3 of an application keeps its process fine.
LEMMA ShimFine ==
  ASSUME IInv, NEW p \in Procs, NEW f \in Fds, NEW e \in Entries, NEW o, Shim(p, f, e, o)
  PROVE  IInv'
<1> USE DEF Shim
<1> DEFINE r == Replace(p, Proc(p), f, e)
<1>1. saved[p] = <<>> /\ Parked(saved[p]) = {}
  BY NoneParked, Zenon
<1>2. Holds(Proc(p), own[p], Trusted(p)) /\ \A w \in Wraps : installer[w] = p => w \in Trusted(p)
  <2>1. own[p] \cup Parked(saved[p]) = own[p]
    BY <1>1, SMTT(30)
  <2>2. /\ Holds(Proc(p), own[p] \cup Parked(saved[p]), Trusted(p))
        /\ \A w \in Wraps : installer[w] = p => w \in Trusted(p)
    BY ProcHolds, Zenon
  <2> QED BY <2>1, <2>2, Zenon
<1>3. Holds(r, Kept(own[p], f, e), Trusted(p)) /\ NoneRevived(Proc(p), r)
  BY <1>2, ReplaceHolds, Zenon
<1>4. Become(p, r)
  BY Zenon
<1> HIDE DEF r
<1>5. InOrder(r.tab, r.view, o \cup Parked(saved[p]), Trusted(p))
  <2>1. o \cup Parked(saved[p]) \subseteq Kept(own[p], f, e)
    BY <1>1, Zenon
  <2>2. InOrder(r.tab, r.view, Kept(own[p], f, e), Trusted(p))
    BY <1>3, Zenon DEF Holds
  <2> QED BY <2>1, <2>2, LessKept, Zenon
<1>6. Placed' /\ \A q \in Procs : Trusted(q)' = Trusted(q)
  BY StillPlaced, Zenon
<1>7. Fine(Trusted(p)', r.tab, r.view, o, cand[p], saved[p], "run")
  <2>1. FineAt(p)
    BY Zenon DEF IInv
  <2>2. \A i \in DOMAIN saved[p] : FALSE
    BY <1>1, SMTT(30)
  <2> QED BY <1>1, <1>5, <1>6, <2>1, <2>2, Zenon DEF FineAt, Fine
<1>8. Changes(p, r, o, cand[p], saved[p], "run")
  <2>1. cand' = [cand EXCEPT ![p] = cand[p]] /\ saved' = [saved EXCEPT ![p] = saved[p]]
    BY SameAgain, Zenon
  <2>2. st' = [st EXCEPT ![p] = "run"]
    BY SameAgain, Zenon
  <2>3. DOMAIN installer' = Wraps
    BY Zenon DEF IInv, Types
  <2>4. ASSUME NEW w \in Wraps, installer'[w] = "none"
        PROVE  installer[w] = "none" /\ ~r.view[w].live
    BY <1>3, <2>4, NoneRevivedFresh, Zenon
  <2>5. BaseMoves(p)
    <3>1. Quiet(r.view)
      BY <1>5, Zenon DEF InOrder, Quiet
    <3> QED BY <1>4, <2>4, <3>1, BecomeBase, Zenon
  <2> QED BY <1>4, <1>6, <2>1, <2>2, <2>3, <2>4, <2>5, Zenon DEF Changes, Become
<1>9. "run" \in States4
  BY Zenon DEF States4
<1>10. ChangesWell(p, r, o, cand[p], saved[p], "run")
  BY <1>7, <1>8, <1>9, Zenon DEF ChangesWell
<1> QED BY <1>10, StepFine, Zenon

\* close(f) preserves the invariant.
LEMMA CloseFine ==
  ASSUME IInv, NEW p \in Procs, NEW f \in Fds, Close(p, f)
  PROVE  IInv'
<1>1. Closed \in Entries
  BY Zenon DEF Entries
<1>2. own[p] \ {f} \in SUBSET Fds /\ own[p] \ {f} \subseteq Kept(own[p], f, Closed)
  BY Zenon DEF IInv, Types, Kept
<1>3. own' = [own EXCEPT ![p] = own[p] \ {f}]
  BY Zenon DEF Close
<1>4. /\ st[p] = "run" /\ Become(p, Replace(p, Proc(p), f, Closed))
      /\ installer' = installer /\ st' = st /\ cand' = cand /\ saved' = saved /\ astray' = astray
  BY Zenon DEF Close, exec
<1>5. Shim(p, f, Closed, own[p] \ {f})
  BY <1>2, <1>3, <1>4, Zenon DEF Shim
<1> QED BY <1>1, <1>5, ShimFine, Zenon

\* dup3(f, g, cx) preserves the invariant.
LEMMA Dup3Fine ==
  ASSUME IInv, NEW p \in Procs, NEW f \in Fds, NEW g \in Fds, NEW cx \in Flags[g], Dup3(p, f, g, cx)
  PROVE  IInv'
<1> DEFINE e == Entry(tab[p][f].file, cx)
<1>0. cx \in BOOLEAN
  BY OwnAssumption, SMTT(30)
<1>1. e \in Entries /\ e # Closed
  <2>1. f \in own[p]
    BY Zenon DEF Dup3
  <2>2. tab[p][f] # Closed /\ tab[p][f] \in Entries
    BY <2>1, Zenon DEF IInv, FineAt, Fine, InOrder
  <2> QED BY <1>0, <2>2, OpenEntry, Zenon
<1>2. own[p] \cup {g} \in SUBSET Fds /\ own[p] \cup {g} \subseteq Kept(own[p], g, e)
  <2> HIDE DEF e
  <2> QED BY <1>1, Zenon DEF IInv, Types, Kept
<1>3. own' = [own EXCEPT ![p] = own[p] \cup {g}]
  BY Zenon DEF Dup3
<1>4. /\ st[p] = "run" /\ Become(p, Replace(p, Proc(p), g, e))
      /\ installer' = installer /\ st' = st /\ cand' = cand /\ saved' = saved /\ astray' = astray
  BY Zenon DEF Dup3, exec
<1> HIDE DEF e
<1>5. Shim(p, g, e, own[p] \cup {g})
  BY <1>2, <1>3, <1>4, Zenon DEF Shim
<1> QED BY <1>1, <1>5, ShimFine, Zenon

\* fork copies a process that is fine; of the wraps it is fine for, the child is
\* astray for those whose base values are not what the parent goes by.
LEMMA ForkFine ==
  ASSUME IInv, NEW p \in Procs, NEW q \in Procs, Fork(p, q)
  PROVE  IInv'
<1> DEFINE s == [tab |-> tab[p], view |-> base[p]]
<1>1. /\ st[p] = "run" /\ st[q] = "unborn" /\ installer' = installer
      /\ tab' = [tab EXCEPT ![q] = tab[p]] /\ view' = [view EXCEPT ![q] = base[p]]
      /\ base' = [base EXCEPT ![q] = base[p]] /\ own' = [own EXCEPT ![q] = own[p]]
      /\ st' = [st EXCEPT ![q] = "run"] /\ cand' = cand /\ saved' = saved
  BY Zenon DEF Fork, exec
<1>2. saved[p] = <<>> /\ saved[q] = <<>>
  BY <1>1, NoneParked, SMTT(30)
<1>3. s.tab = tab[p] /\ s.view = base[p]
  BY Zenon
<1> HIDE DEF s
<1>4. /\ \A w \in Trusted(q)' : w \in Trusted(p) /\ base[p][w] = view[p][w]
      /\ \A r \in Procs : r # q => Trusted(r)' = Trusted(r)
  <2>1. \A r \in Procs, w \in Wraps : <<r, w>> \in astray' <=>
          <<r, w>> \in astray \/ (r = q /\ (base[p][w] # view[p][w] \/ w \in Astray(p)))
    BY SMTT(30) DEF Fork
  <2>2. \A r \in Procs, w \in Wraps : (w \in Trusted(r) <=> <<r, w>> \notin astray) /\ (w \in Trusted(r)' <=> <<r, w>> \notin astray')
    BY Zenon DEF Trusted, Astray
  <2>3. \A r \in Procs : Trusted(r) \subseteq Wraps /\ Trusted(r)' \subseteq Wraps
    BY Zenon DEF Trusted
  <2>4. \A w \in Wraps : w \notin Astray(p) => w \in Trusted(p)
    BY Zenon DEF Trusted
  <2>5. \A w \in Trusted(q)' : w \in Trusted(p) /\ base[p][w] = view[p][w]
    BY <2>1, <2>2, <2>3, <2>4, Zenon
  <2>6. ASSUME NEW r \in Procs, r # q PROVE Trusted(r)' = Trusted(r)
    <3>1. \A w \in Wraps : w \in Trusted(r)' <=> w \in Trusted(r)
      BY <2>1, <2>2, <2>6, Zenon
    <3> QED BY <2>3, <3>1, Zenon
  <2> QED BY <2>5, <2>6, Zenon
<1>5. Quiet(base[p]) /\ FineAt(p) /\ FineAt(q)
  BY Zenon DEF IInv, FineAt
<1>6. InOrder(tab[p], base[p], own[p] \cup Parked(saved[q]), Trusted(q)')
  <2> DEFINE v == view[p]
             b == base[p]
             V == Trusted(q)'
  <2>1. InOrder(tab[p], v, own[p] \cup Parked(saved[q]), V)
    <3>1. V \subseteq Trusted(p)
      BY <1>4, Zenon
    <3>2. InOrder(tab[p], v, own[p] \cup Parked(saved[q]), Trusted(p))
      BY <1>2, <1>5, Zenon DEF FineAt, Fine
    <3> QED BY <3>1, <3>2, LessTrusted, Zenon
  <2>2. \A w \in V : b[w] = v[w]
    BY <1>4, Zenon
  <2>3. Quiet(b)
    BY <1>5, Zenon
  <2> HIDE DEF v, b, V
  <2>4. /\ \A w \in V : \A k \in Kinds : b[w][k] # NoFd =>
             b[w][k] \notin own[p] \cup Parked(saved[q]) /\ tab[p][b[w][k]].file = FileFor(w, k)
        /\ \A w, x \in V : b[w].real # NoFd /\ b[w].real = b[x].real => w = x
    <3>1. /\ \A w \in V : \A k \in Kinds : v[w][k] # NoFd =>
               v[w][k] \notin own[p] \cup Parked(saved[q]) /\ tab[p][v[w][k]].file = FileFor(w, k)
          /\ \A w, x \in V : v[w].real # NoFd /\ v[w].real = v[x].real => w = x
      BY <2>1, Zenon DEF InOrder
    <3> QED BY <2>2, <3>1, Zenon
  <2>5. InOrder(tab[p], b, own[p] \cup Parked(saved[q]), V)
    BY <2>1, <2>3, <2>4, Zenon DEF InOrder, Quiet
  <2> QED BY <2>5, Zenon DEF b, V
<1>7. Fine(Trusted(q)', tab[p], base[p], own[p], cand[q], saved[q], "run")
  <2>1. \A i \in DOMAIN saved[q] : FALSE
    BY <1>2, SMTT(30)
  <2> QED BY <1>1, <1>2, <1>5, <1>6, <2>1, Zenon DEF FineAt, Fine
<1>8. \A w \in Wraps : installer[w] = "none" => ~base[p][w].live
  BY Zenon DEF IInv, Fresh
<1>9. BaseMoves(q)
  <2>1. base \in [Procs -> [Wraps -> Views]]
    BY Zenon DEF IInv, Types
  <2>2. /\ base' \in [Procs -> [Wraps -> Views]] /\ base'[q] = base[p]
        /\ \A r \in Procs : r # q => base'[r] = base[r]
    BY <1>1, <2>1, Zenon
  <2> QED BY <1>1, <1>5, <1>8, <2>2, Zenon DEF BaseMoves
<1>10. Placed'
  <2>1. st'[q] = "run" /\ \A r \in Procs : r # q => st'[r] = st[r]
    BY <1>1, Zenon DEF IInv, Types
  <2>2. ASSUME NEW r \in Procs, NEW w \in Wraps, installer[w] = r PROVE r # q /\ st[r] # "unborn" /\ w \in Trusted(r)
    BY <1>1, <2>2, Zenon DEF IInv, Placed
  <2> QED BY <1>1, <1>4, <2>1, <2>2, Zenon DEF Placed
<1>11. Changes(q, s, own[p], cand[q], saved[q], "run")
  <2>1. cand' = [cand EXCEPT ![q] = cand[q]] /\ saved' = [saved EXCEPT ![q] = saved[q]]
    BY <1>1, SameAgain, Zenon
  <2>2. DOMAIN installer' = Wraps
    BY <1>1, Zenon DEF IInv, Types
  <2> QED BY <1>1, <1>3, <1>4, <1>8, <1>9, <1>10, <2>1, <2>2, Zenon DEF Changes
<1>12. "run" \in States4 /\ own[p] \in SUBSET Fds
  BY Zenon DEF States4, IInv, Types
<1>13. Fine(Trusted(q)', s.tab, s.view, own[p], cand[q], saved[q], "run")
  BY <1>3, <1>7, Zenon
<1>14. ChangesWell(q, s, own[p], cand[q], saved[q], "run")
  BY <1>11, <1>12, <1>13, Zenon DEF ChangesWell
<1> QED BY <1>14, StepFine, Zenon

\* Process p is left with a memory that knows no wrap.
LEMMA BlankBase ==
  ASSUME IInv, NEW p \in Procs, base' = [base EXCEPT ![p] = [w \in Wraps |-> NoView]]
  PROVE  BaseMoves(p)
<1> DEFINE v == [w \in Wraps |-> NoView]
<1>1. v \in [Wraps -> Views] /\ \A w \in Wraps : v[w] = NoView /\ ~v[w].live
  BY SMTT(30) DEF NoView, Views, Nums
<1>2. base' = [base EXCEPT ![p] = v] /\ base \in [Procs -> [Wraps -> Views]]
  BY Zenon DEF IInv, Types
<1> HIDE DEF v
<1>3. /\ base' \in [Procs -> [Wraps -> Views]] /\ base'[p] = v
      /\ \A q \in Procs : q # p => base'[q] = base[q]
  BY <1>1, <1>2, Zenon
<1> QED BY <1>1, <1>3, Zenon DEF BaseMoves, Quiet

\* What a process that is gone leaves.
LEMMA GonePlaced ==
  ASSUME IInv, NEW p \in Procs, Gone(p), \A q \in Procs : q # p => st'[q] = st[q]
  PROVE  /\ DOMAIN installer' = Wraps
         /\ \A w \in Wraps : installer'[w] = "none" => installer[w] = "none"
         /\ Placed' /\ \A q \in Procs : q # p => Trusted(q)' = Trusted(q)
<1>1. /\ DOMAIN installer' = Wraps
      /\ \A w \in Wraps : installer'[w] = IF installer[w] = p THEN "gone" ELSE installer[w]
  <2>1. installer' = [w \in Wraps |-> IF installer[w] = p THEN "gone" ELSE installer[w]]
    BY Zenon DEF Gone
  <2> QED BY <2>1, Zenon
<1>2. "gone" \notin Procs
  BY ProcAssumption, Zenon
<1>3. \A w \in Wraps : installer'[w] = "none" => installer[w] = "none"
  BY <1>1, SMTT(30)
<1>4. ASSUME NEW q \in Procs, q # p PROVE Trusted(q)' = Trusted(q)
  <2>1. \A w \in Wraps : <<q, w>> \in astray' <=> <<q, w>> \in astray
    BY <1>4, SMTT(30) DEF Gone
  <2> QED BY <2>1, Zenon DEF Trusted, Astray
<1>5. ASSUME NEW q \in Procs, NEW w \in Wraps, installer'[w] = q
      PROVE  st'[q] # "unborn" /\ w \in Trusted(q)'
  <2>1. q # p /\ installer[w] = q
    BY <1>1, <1>2, <1>5, Zenon
  <2>2. st[q] # "unborn" /\ w \in Trusted(q)
    BY <2>1, Zenon DEF IInv, Placed
  <2> QED BY <1>4, <2>1, <2>2, Zenon
<1> QED BY <1>1, <1>3, <1>4, <1>5, Zenon DEF Placed

\* A process that ends knows nothing.
LEMMA ExitFine ==
  ASSUME IInv, NEW p \in Procs, Exit(p)
  PROVE  IInv'
<1> DEFINE v == [w \in Wraps |-> NoView]
           s == [tab |-> AllClosed, view |-> v]
           W == Trusted(p)'
<1>1. saved[p] = <<>> /\ Parked(saved[p]) = {}
  BY NoneParked, SMTT(30) DEF Exit
<1>2. InOrder(AllClosed, v, {} \cup Parked(saved[p]), W)
  <2>1. AllClosed \in [Fds -> Entries]
    BY Zenon DEF AllClosed, Entries
  <2>2. {} \cup Parked(saved[p]) \subseteq OpenIn(AllClosed)
    BY <1>1, Zenon
  <2>3. W \subseteq Wraps
    BY Zenon DEF Trusted
  <2> HIDE DEF W
  <2> QED BY <2>1, <2>2, <2>3, BlankInOrder, Zenon
<1>3. s.tab = AllClosed /\ s.view = v
  BY Zenon
<1>4. \A w \in Wraps : ~v[w].live
  BY SMTT(30) DEF NoView
<1>5. tab' = [tab EXCEPT ![p] = s.tab] /\ view' = [view EXCEPT ![p] = s.view] /\ BaseMoves(p)
  BY <1>3, BlankBase, Zenon DEF Exit
<1> HIDE DEF v, s, W
<1>6. Fine(W, AllClosed, v, {}, cand[p], saved[p], "unborn")
  <2>1. FineAt(p)
    BY Zenon DEF IInv
  <2>2. \A i \in DOMAIN saved[p] : FALSE
    BY <1>1, SMTT(30)
  <2> QED BY <1>1, <1>2, <2>1, <2>2, Zenon DEF FineAt, Fine
<1>7. Changes(p, s, {}, cand[p], saved[p], "unborn")
  <2>1. cand' = [cand EXCEPT ![p] = cand[p]] /\ saved' = [saved EXCEPT ![p] = saved[p]]
    BY SameAgain, Zenon DEF Exit, exec
  <2>2. st' = [st EXCEPT ![p] = "unborn"] /\ own' = [own EXCEPT ![p] = {}] /\ Gone(p)
    BY Zenon DEF Exit
  <2>3. \A q \in Procs : q # p => st'[q] = st[q]
    BY <2>2, Zenon DEF IInv, Types
  <2>4. /\ DOMAIN installer' = Wraps
        /\ \A w \in Wraps : installer'[w] = "none" => installer[w] = "none"
        /\ Placed' /\ \A q \in Procs : q # p => Trusted(q)' = Trusted(q)
    BY <2>2, <2>3, GonePlaced, Zenon
  <2> QED BY <1>3, <1>4, <1>5, <2>1, <2>2, <2>4, Zenon DEF Changes
<1>8. "unborn" \in States4 /\ {} \in SUBSET Fds
  BY Zenon DEF States4
<1>9. Fine(Trusted(p)', s.tab, s.view, {}, cand[p], saved[p], "unborn")
  BY <1>3, <1>6, Zenon DEF W
<1>10. ChangesWell(p, s, {}, cand[p], saved[p], "unborn")
  BY <1>7, <1>8, <1>9, Zenon DEF ChangesWell
<1> QED BY <1>10, StepFine, Zenon

\* The exec of a process moves on to c and x, and nothing else changes.
Moved(p, c, x) ==
  /\ cand' = [cand EXCEPT ![p] = c] /\ st' = [st EXCEPT ![p] = x]
  /\ tab' = tab /\ view' = view /\ own' = own /\ saved' = saved /\ installer' = installer
  /\ base' = base /\ astray' = astray /\ x # "unborn"
  /\ c \in Seq(Fds) /\ x \in States4 /\ Len(c) + Len(saved[p]) <= PreexecMax
  /\ x \notin {"save", "restore"} => saved[p] = <<>>

\* A step that only moves the exec of a process on preserves the invariant.
LEMMA MovedFine ==
  ASSUME IInv, NEW p \in Procs, NEW c, NEW x, Moved(p, c, x)
  PROVE  IInv'
<1>1. Proc(p).tab = tab[p] /\ Proc(p).view = view[p]
  BY ProcHolds, Zenon
<1>2. /\ tab' = [tab EXCEPT ![p] = tab[p]] /\ view' = [view EXCEPT ![p] = view[p]]
      /\ own' = [own EXCEPT ![p] = own[p]] /\ saved' = [saved EXCEPT ![p] = saved[p]]
  BY SameAgain, Zenon DEF Moved
<1>3. DOMAIN installer' = Wraps /\ \A w \in Wraps : installer'[w] = "none" => ~view[p][w].live
  BY Zenon DEF IInv, Types, Fresh, Moved
<1>4. BaseMoves(p) /\ Placed' /\ \A q \in Procs : Trusted(q)' = Trusted(q)
  <2>1. installer' = installer /\ astray' = astray /\ base' = base
    BY Zenon DEF Moved
  <2>2. \A q \in Procs : st[q] # "unborn" => st'[q] # "unborn"
    BY Zenon DEF IInv, Types, Moved
  <2> QED BY <2>1, <2>2, BaseStays, StillPlaced, Zenon
<1>5. Changes(p, Proc(p), own[p], c, saved[p], x)
  BY <1>1, <1>2, <1>3, <1>4, Zenon DEF Changes, Moved
<1>6. Fine(Trusted(p), tab[p], view[p], own[p], c, saved[p], x)
  BY Zenon DEF IInv, FineAt, Fine, Moved
<1>7. Fine(Trusted(p)', Proc(p).tab, Proc(p).view, own[p], c, saved[p], x)
  BY <1>1, <1>4, <1>6, Zenon
<1>8. own[p] \in SUBSET Fds /\ x \in States4
  BY Zenon DEF IInv, Types, Moved
<1>9. ChangesWell(p, Proc(p), own[p], c, saved[p], x)
  BY <1>5, <1>7, <1>8, Zenon DEF ChangesWell
<1> QED BY <1>9, StepFine, Zenon

\* A failed execve starts to restore.
LEMMA ExecFailsFine ==
  ASSUME IInv, NEW p \in Procs, ExecFails(p)
  PROVE  IInv'
<1>1. cand[p] \in Seq(Fds) /\ Len(cand[p]) + Len(saved[p]) <= PreexecMax
  BY Zenon DEF IInv, FineAt, Fine
<1>2. Moved(p, cand[p], "restore")
  BY <1>1, SameAgain, Zenon DEF ExecFails, Moved, exec, States4
<1> QED BY <1>2, MovedFine, Zenon

\* An exec call returns when all is restored.
LEMMA ExecReturnsFine ==
  ASSUME IInv, NEW p \in Procs, ExecReturns(p)
  PROVE  IInv'
<1>1. cand[p] \in Seq(Fds) /\ Len(cand[p]) + Len(saved[p]) <= PreexecMax
  BY Zenon DEF IInv, FineAt, Fine
<1>2. Moved(p, cand[p], "run")
  BY <1>1, SameAgain, Zenon DEF ExecReturns, Moved, States4
<1> QED BY <1>2, MovedFine, Zenon

\* The save collects no more fds than its array holds.
LEMMA SaveFine ==
  ASSUME IInv, NEW p \in Procs, Save(p)
  PROVE  IInv'
<1> DEFINE all  == Ascending(Collect(Proc(p)))
           n    == Min({Len(all), PreexecMax})
           some == SubSeq(all, 1, n)
<1>1. /\ all \in [1..Cardinality(Collect(Proc(p))) -> Collect(Proc(p))]
      /\ Cardinality(Collect(Proc(p))) \in Nat
  <2>1. Collect(Proc(p)) \subseteq Fds
    BY Zenon DEF Collect
  <2> QED BY <2>1, AscendingLists, Zenon
<1>2. Collect(Proc(p)) \subseteq Fds
  BY Zenon DEF Collect
<1> HIDE DEF all
<1>3. Len(all) \in Nat /\ \A i \in 1..Len(all) : all[i] \in Fds
  BY <1>1, <1>2, SMTT(30)
<1>4. n \in Nat /\ n <= Len(all) /\ n <= PreexecMax
  <2>1. {Len(all), PreexecMax} \subseteq Nat /\ {Len(all), PreexecMax} # {}
    BY <1>3, WrapAssumption, Zenon
  <2>2. n \in {Len(all), PreexecMax} /\ \A y \in {Len(all), PreexecMax} : n <= y
    BY <2>1, LeastExists, Zenon
  <2> HIDE DEF n
  <2> QED BY <2>1, <2>2, Zenon
<1>5. some \in Seq(Fds) /\ Len(some) <= PreexecMax
  <2> HIDE DEF n
  <2>1. \A i \in 1..n : all[i] \in Fds
    BY <1>3, <1>4, SMTT(30)
  <2>2. some \in Seq(Fds) /\ Len(some) = IF 1 <= n THEN n - 1 + 1 ELSE 0
    <3>1. 1 \in Int /\ n \in Int
      BY <1>4, SMTT(30)
    <3> QED BY <2>1, <3>1, SMTT(30)
  <2> HIDE DEF some
  <2> QED BY <1>4, <2>2, WrapAssumption, SMTT(30)
<1>6. cand' = [cand EXCEPT ![p] = some]
  BY Zenon DEF Save, all
<1> HIDE DEF some
<1>7. saved[p] = <<>> /\ Len(some) + Len(saved[p]) <= PreexecMax
  <2>1. saved[p] = <<>>
    BY NoneParked, SMTT(30) DEF Save
  <2> QED BY <1>5, <2>1, WrapAssumption, SMTT(30)
<1>8. Moved(p, some, "save")
  BY <1>5, <1>6, <1>7, Zenon DEF Save, Moved, States4
<1> QED BY <1>8, MovedFine, Zenon

\* A new image is in order with the fds it inherits.
LEMMA ImageInOrder ==
  ASSUME IInv, NEW p \in Procs, NEW W, W \subseteq Wraps
  PROVE  /\ Inherited(p) \in [Fds -> Entries] /\ OpenIn(Inherited(p)) \in SUBSET Fds
         /\ InOrder(Inherited(p), [w \in Wraps |-> NoView], OpenIn(Inherited(p)) \cup Parked(<<>>), W)
<1>1. Inherited(p) \in [Fds -> Entries]
  <2>1. \A f \in Fds : tab[p][f] \in Entries
    BY Zenon DEF IInv, Types
  <2>2. Closed \in Entries
    BY Zenon DEF Entries
  <2> QED BY <2>1, <2>2, SMTT(30) DEF Inherited
<1>2. OpenIn(Inherited(p)) \cup Parked(<<>>) \subseteq OpenIn(Inherited(p))
  <2>1. Parked(<<>>) = {}
    BY SMTT(30) DEF Parked
  <2> QED BY <2>1, Zenon
<1>3. InOrder(Inherited(p), [w \in Wraps |-> NoView], OpenIn(Inherited(p)) \cup Parked(<<>>), W)
  BY <1>1, <1>2, BlankInOrder, Zenon
<1> QED BY <1>1, <1>3, Zenon DEF OpenIn

\* execve leaves a process with a new image.
LEMMA ExecveFine ==
  ASSUME IInv, NEW p \in Procs, Execve(p)
  PROVE  IInv'
<1> DEFINE t == Inherited(p)
           v == [w \in Wraps |-> NoView]
           s == [tab |-> t, view |-> v]
           W == Trusted(p)'
<1>1. t \in [Fds -> Entries] /\ OpenIn(t) \in SUBSET Fds /\ InOrder(t, v, OpenIn(t) \cup Parked(<<>>), W)
  <2>1. W \subseteq Wraps
    BY Zenon DEF Trusted
  <2> HIDE DEF W
  <2> QED BY <2>1, ImageInOrder, Zenon
<1>2. s.tab = t /\ s.view = v /\ \A w \in Wraps : ~v[w].live
  BY SMTT(30) DEF NoView
<1>3. /\ tab' = [tab EXCEPT ![p] = s.tab] /\ view' = [view EXCEPT ![p] = s.view]
      /\ own' = [own EXCEPT ![p] = OpenIn(t)] /\ BaseMoves(p)
  BY <1>2, BlankBase, Zenon DEF Execve, Image
<1> HIDE DEF t, v, s, W
<1>4. Fine(W, t, v, OpenIn(t), cand[p], <<>>, "run")
  <2>1. <<>> \in Seq(Saved) /\ \A i \in DOMAIN <<>> : FALSE
    BY SMTT(30)
  <2>2. cand[p] = <<>> /\ cand[p] \in Seq(Fds)
    BY SMTT(30) DEF Execve
  <2>3. Len(cand[p]) + Len(<<>>) <= PreexecMax
    BY <2>2, WrapAssumption, SMTT(30)
  <2> QED BY <1>1, <2>1, <2>2, <2>3, Zenon DEF Fine
<1>5. Changes(p, s, OpenIn(t), cand[p], <<>>, "run")
  <2>1. cand' = [cand EXCEPT ![p] = cand[p]]
    BY SameAgain, Zenon DEF Execve
  <2>2. st' = [st EXCEPT ![p] = "run"] /\ saved' = [saved EXCEPT ![p] = <<>>] /\ Gone(p)
    BY Zenon DEF Execve
  <2>3. \A q \in Procs : q # p => st'[q] = st[q]
    BY <2>2, Zenon DEF IInv, Types
  <2>4. /\ DOMAIN installer' = Wraps
        /\ \A w \in Wraps : installer'[w] = "none" => installer[w] = "none"
        /\ Placed' /\ \A q \in Procs : q # p => Trusted(q)' = Trusted(q)
    BY <2>2, <2>3, GonePlaced, Zenon
  <2> QED BY <1>2, <1>3, <2>1, <2>2, <2>4, Zenon DEF Changes
<1>6. Fine(Trusted(p)', s.tab, s.view, OpenIn(t), cand[p], <<>>, "run")
  BY <1>2, <1>4, Zenon DEF W
<1>7. "run" \in States4
  BY Zenon DEF States4
<1>8. ChangesWell(p, s, OpenIn(t), cand[p], <<>>, "run")
  BY <1>1, <1>5, <1>6, <1>7, Zenon DEF ChangesWell
<1> QED BY <1>8, StepFine, Zenon

\* system, popen and posix_spawn start an image in a new process, and the caller
\* starts to restore.
LEMMA SpawnFine ==
  ASSUME IInv, NEW p \in Procs, NEW q \in Procs, Spawn(p, q)
  PROVE  IInv'
<1> DEFINE t == Inherited(p)
           v == [w \in Wraps |-> NoView]
<1>1. /\ t \in [Fds -> Entries] /\ OpenIn(t) \in SUBSET Fds
      /\ InOrder(t, v, OpenIn(t) \cup Parked(<<>>), Trusted(q))
  <2>1. Trusted(q) \subseteq Wraps
    BY Zenon DEF Trusted
  <2> QED BY <2>1, ImageInOrder, Zenon
<1>2. v \in [Wraps -> Views] /\ \A w \in Wraps : ~v[w].live
  <2>1. \A w \in Wraps : ~v[w].live
    BY SMTT(30) DEF NoView
  <2> QED BY <1>1, <2>1, Zenon DEF InOrder
<1>3. /\ tab' = [tab EXCEPT ![q] = t] /\ view' = [view EXCEPT ![q] = v]
      /\ own' = [own EXCEPT ![q] = OpenIn(t)] /\ BaseMoves(q)
  BY BlankBase, Zenon DEF Spawn, Image
<1> HIDE DEF t, v
<1>4. /\ st[p] = "save" /\ st[q] = "unborn" /\ st' = [st EXCEPT ![p] = "restore", ![q] = "run"]
      /\ installer' = installer /\ cand' = cand /\ saved' = saved /\ astray' = astray
  BY Zenon DEF Spawn, exec
<1>5. Types
  BY Zenon DEF IInv
<1>6. p # q
  BY <1>4, SMTT(30)
<1>7. /\ st' \in [Procs -> States4] /\ st'[p] = "restore" /\ st'[q] = "run"
      /\ \A r \in Procs : r # p /\ r # q => st'[r] = st[r]
  <2> DEFINE u == [st EXCEPT ![p] = "restore"]
  <2>1. st' = [u EXCEPT ![q] = "run"]
    BY <1>4, Zenon
  <2>2. "restore" \in States4 /\ "run" \in States4 /\ st \in [Procs -> States4]
    BY <1>5, Zenon DEF Types, States4
  <2>3. u \in [Procs -> States4] /\ u[p] = "restore" /\ \A r \in Procs : r # p => u[r] = st[r]
    BY <2>2, Zenon
  <2> HIDE DEF u
  <2>4. /\ st' \in [Procs -> States4] /\ st'[q] = "run"
        /\ \A r \in Procs : r # q => st'[r] = u[r]
    BY <2>1, <2>2, <2>3, Zenon
  <2> QED BY <1>6, <2>3, <2>4, Zenon
<1>8. /\ tab' \in [Procs -> [Fds -> Entries]] /\ tab'[q] = t
      /\ \A r \in Procs : r # q => tab'[r] = tab[r]
  BY <1>1, <1>3, <1>5, Zenon DEF Types
<1>9. /\ view' \in [Procs -> [Wraps -> Views]] /\ view'[q] = v
      /\ \A r \in Procs : r # q => view'[r] = view[r]
  BY <1>2, <1>3, <1>5, Zenon DEF Types
<1>10. /\ own' \in [Procs -> SUBSET Fds] /\ own'[q] = OpenIn(t)
       /\ \A r \in Procs : r # q => own'[r] = own[r]
  BY <1>1, <1>3, <1>5, Zenon DEF Types
<1>11. Types' /\ Placed' /\ \A r \in Procs : Trusted(r)' = Trusted(r)
  <2>1. \A r \in Procs : st[r] # "unborn" => st'[r] # "unborn"
    BY <1>7, Zenon
  <2>2. Placed' /\ \A r \in Procs : Trusted(r)' = Trusted(r)
    BY <1>4, <2>1, StillPlaced, Zenon
  <2>3. base' \in [Procs -> [Wraps -> Views]]
    BY <1>3, Zenon DEF BaseMoves
  <2> QED BY <1>4, <1>5, <1>7, <1>8, <1>9, <1>10, <2>2, <2>3, Zenon DEF Types
<1>12. ASSUME NEW w \in Wraps, installer'[w] = "none", NEW r \in Procs
       PROVE  ~view'[r][w].live /\ ~base'[r][w].live
  <2>1. ~view[r][w].live /\ ~base[r][w].live
    BY <1>4, <1>12, Zenon DEF IInv, Fresh
  <2>2. ~base'[r][w].live
    BY <1>3, <1>12, <2>1, Zenon DEF BaseMoves
  <2> QED BY <1>2, <1>9, <2>1, <2>2, Zenon
<1>13. ASSUME NEW r \in Procs PROVE Quiet(base'[r])
  <2>1. Quiet(base[r])
    BY Zenon DEF IInv, FineAt
  <2> QED BY <1>3, <2>1, Zenon DEF BaseMoves
<1>14. FineAt(q)'
  <2>1. FineAt(q) /\ saved[q] = <<>>
    <3>1. saved[q] = <<>>
      BY <1>4, NoneParked, SMTT(30)
    <3> QED BY <3>1, Zenon DEF IInv
  <2>2. \A i \in DOMAIN saved[q] : FALSE
    BY <2>1, SMTT(30)
  <2>3. Fine(Trusted(q), t, v, OpenIn(t), cand[q], saved[q], "run")
    BY <1>1, <2>1, <2>2, Zenon DEF FineAt, Fine
  <2> QED BY <1>4, <1>7, <1>8, <1>9, <1>10, <1>11, <1>13, <2>3, Zenon DEF FineAt
<1>15. FineAt(p)'
  <2>1. FineAt(p)
    BY Zenon DEF IInv
  <2>2. Fine(Trusted(p), tab[p], view[p], own[p], cand[p], saved[p], "restore")
    BY <2>1, Zenon DEF FineAt, Fine
  <2> QED BY <1>4, <1>6, <1>7, <1>8, <1>9, <1>10, <1>11, <1>13, <2>2, Zenon DEF FineAt
<1>16. ASSUME NEW r \in Procs, r # p, r # q PROVE FineAt(r)'
  <2>1. FineAt(r)
    BY Zenon DEF IInv
  <2> QED BY <1>4, <1>7, <1>8, <1>9, <1>10, <1>11, <1>13, <1>16, <2>1, Zenon DEF FineAt
<1> QED BY <1>11, <1>12, <1>14, <1>15, <1>16, Zenon DEF IInv, Fresh

\* The fds of sv are parked once each, and none is in o.
ParkedApart(sv, o) ==
  /\ sv \in Seq(Saved)
  /\ \A i \in DOMAIN sv : sv[i].at \notin o
  /\ \A i, j \in DOMAIN sv : sv[i].at = sv[j].at => i = j

\* The first of the parked fds, and the rest of them.
LEMMA TailParked ==
  ASSUME NEW sv, NEW o, ParkedApart(sv, o), sv # <<>>
  PROVE  /\ Head(sv) \in Saved /\ Head(sv).at \in Parked(sv) /\ Head(sv).at \notin o
         /\ ParkedApart(Tail(sv), o) /\ Len(Tail(sv)) = Len(sv) - 1 /\ Len(sv) \in Nat
         /\ Parked(Tail(sv)) \subseteq Parked(sv) /\ Head(sv).at \notin Parked(Tail(sv))
<1>1. sv \in Seq(Saved)
  BY Zenon DEF ParkedApart
<1> DEFINE h == Head(sv)
           u == Tail(sv)
<1>2. /\ h \in Saved /\ u \in Seq(Saved) /\ Len(u) = Len(sv) - 1
      /\ \A i \in 1..Len(u) : u[i] = sv[i + 1]
  BY <1>1, SMTT(30)
<1>3. h = sv[1] /\ 1 \in DOMAIN sv /\ Len(sv) \in Nat /\ DOMAIN sv = 1..Len(sv) /\ DOMAIN u = 1..Len(u)
  BY <1>1, SMTT(30)
<1> HIDE DEF h, u
<1>4. ASSUME NEW i \in DOMAIN u PROVE i + 1 \in DOMAIN sv /\ u[i] = sv[i + 1] /\ i + 1 # 1 /\ i \in Int
  BY <1>2, <1>3, SMTT(30)
<1>5. ASSUME NEW i \in DOMAIN u PROVE u[i].at \notin o /\ u[i].at # h.at /\ u[i].at \in Parked(sv)
  <2>1. sv[i + 1].at \notin o /\ sv[i + 1].at # sv[1].at
    BY <1>3, <1>4, Zenon DEF ParkedApart
  <2>2. sv[i + 1].at \in Parked(sv)
    BY <1>4, Zenon DEF Parked
  <2> QED BY <1>3, <1>4, <2>1, <2>2, Zenon
<1>6. ASSUME NEW i \in DOMAIN u, NEW j \in DOMAIN u, u[i].at = u[j].at PROVE i = j
  <2>1. sv[i + 1].at = sv[j + 1].at
    BY <1>4, <1>6, Zenon
  <2>2. i + 1 = j + 1
    BY <1>4, <2>1, Zenon DEF ParkedApart
  <2> QED BY <1>4, <2>2, SMTT(30)
<1>7. h.at \in Parked(sv) /\ h.at \notin o
  BY <1>3, Zenon DEF Parked, ParkedApart
<1>8. ParkedApart(u, o)
  BY <1>2, <1>5, <1>6, Zenon DEF ParkedApart
<1>9. Parked(u) \subseteq Parked(sv) /\ h.at \notin Parked(u)
  BY <1>5, Zenon DEF Parked
<1> QED BY <1>2, <1>3, <1>7, <1>8, <1>9, Zenon DEF h, u

\* One more fd is parked, at a number of its own.
LEMMA AppendParked ==
  ASSUME NEW sv, NEW o, ParkedApart(sv, o), NEW r \in Saved, r.at \notin o, r.at \notin Parked(sv)
  PROVE  /\ ParkedApart(Append(sv, r), o)
         /\ Len(Append(sv, r)) = Len(sv) + 1 /\ Len(sv) \in Nat
         /\ Parked(Append(sv, r)) \subseteq Parked(sv) \cup {r.at}
<1>1. sv \in Seq(Saved)
  BY Zenon DEF ParkedApart
<1> DEFINE u == Append(sv, r)
<1>2. /\ u \in Seq(Saved) /\ Len(u) = Len(sv) + 1 /\ u[Len(sv) + 1] = r
      /\ \A i \in 1..Len(sv) : u[i] = sv[i]
  BY <1>1, SMTT(30)
<1> HIDE DEF u
<1>3. Len(sv) \in Nat /\ DOMAIN sv = 1..Len(sv) /\ DOMAIN u = 1..Len(u)
  BY <1>1, <1>2, SMTT(30)
<1>4. ASSUME NEW i \in DOMAIN u PROVE (i \in DOMAIN sv /\ u[i] = sv[i]) \/ (i = Len(sv) + 1 /\ u[i] = r)
  BY <1>2, <1>3, SMTT(30)
<1>5. ASSUME NEW i \in DOMAIN sv PROVE sv[i].at \in Parked(sv) /\ sv[i].at # r.at /\ sv[i].at \notin o
  BY Zenon DEF Parked, ParkedApart
<1>6. ASSUME NEW i \in DOMAIN u PROVE u[i].at \notin o /\ u[i].at \in Parked(sv) \cup {r.at}
  BY <1>4, <1>5, Zenon
<1>7. ASSUME NEW i \in DOMAIN u, NEW j \in DOMAIN u, u[i].at = u[j].at PROVE i = j
  BY <1>4, <1>5, <1>7, Zenon DEF ParkedApart
<1>8. ParkedApart(u, o)
  BY <1>2, <1>6, <1>7, Zenon DEF ParkedApart
<1>9. Parked(u) \subseteq Parked(sv) \cup {r.at}
  BY <1>6, Zenon DEF Parked
<1> QED BY <1>2, <1>3, <1>8, <1>9, Zenon DEF u

\* A shim revives no wrap, nor do two.
LEMMA NoneRevivedTwice ==
  ASSUME NEW s, NEW s1, NEW s2, NoneRevived(s, s1), NoneRevived(s1, s2)
  PROVE  NoneRevived(s, s2)
BY Zenon DEF NoneRevived

\* A turn of an exec's loops: a process becomes s, with c still to save and sv saved.
Turn(p, s, c, sv, x) ==
  /\ Become(p, s) /\ NoneRevived(Proc(p), s)
  /\ cand' = [cand EXCEPT ![p] = c] /\ saved' = [saved EXCEPT ![p] = sv]
  /\ own' = own /\ st' = st /\ installer' = installer /\ astray' = astray
  /\ st[p] = x /\ x \in {"save", "restore"}
  /\ Holds(s, own[p] \cup Parked(sv), Trusted(p)) /\ ParkedApart(sv, own[p])
  /\ c \in Seq(Fds) /\ Len(c) + Len(sv) <= PreexecMax

\* A turn of an exec's loops that leaves the process in order preserves the invariant.
LEMMA TurnFine ==
  ASSUME IInv, NEW p \in Procs, NEW s, NEW c, NEW sv, NEW x, Turn(p, s, c, sv, x)
  PROVE  IInv'
<1>1. Fine(Trusted(p), s.tab, s.view, own[p], c, sv, x)
  BY Zenon DEF Turn, Holds, ParkedApart, Fine
<1>2. own' = [own EXCEPT ![p] = own[p]] /\ st' = [st EXCEPT ![p] = x]
  BY SameAgain, Zenon DEF Turn
<1>3. DOMAIN installer' = Wraps
  BY Zenon DEF IInv, Types, Turn
<1>4. ASSUME NEW w \in Wraps, installer'[w] = "none"
      PROVE  installer[w] = "none" /\ ~s.view[w].live
  <2>1. installer[w] = "none" /\ NoneRevived(Proc(p), s)
    BY <1>4, Zenon DEF Turn
  <2> QED BY <2>1, NoneRevivedFresh, Zenon
<1>5. BaseMoves(p) /\ Placed' /\ \A q \in Procs : Trusted(q)' = Trusted(q)
  <2>1. Become(p, s) /\ installer' = installer /\ astray' = astray /\ st' = st
    BY Zenon DEF Turn
  <2>2. Quiet(s.view)
    BY <1>1, Zenon DEF Fine, InOrder, Quiet
  <2> QED BY <1>4, <2>1, <2>2, BecomeBase, StillPlaced, Zenon
<1>6. Changes(p, s, own[p], c, sv, x)
  BY <1>2, <1>3, <1>4, <1>5, Zenon DEF Changes, Turn, Become
<1>7. own[p] \in SUBSET Fds /\ x \in States4
  BY Zenon DEF IInv, Types, Turn, States4
<1>8. ChangesWell(p, s, own[p], c, sv, x)
  BY <1>1, <1>5, <1>6, <1>7, Zenon DEF ChangesWell
<1> QED BY <1>8, StepFine, Zenon

\* An fd less to save and one more saved, or one less of either.
LEMMA StillFits ==
  ASSUME NEW a \in Nat, NEW b \in Nat, a + b <= PreexecMax
  PROVE  (a - 1) + b <= PreexecMax /\ a + (b - 1) <= PreexecMax /\ (a - 1) + (b + 1) <= PreexecMax
BY WrapAssumption, SMTT(30)

\* What FineAt says of a process in an exec.
LEMMA FineInExec ==
  ASSUME IInv, NEW p \in Procs
  PROVE  /\ ParkedApart(saved[p], own[p]) /\ cand[p] \in Seq(Fds)
         /\ Len(cand[p]) \in Nat /\ Len(cand[p]) + Len(saved[p]) <= PreexecMax
<1>1. cand[p] \in Seq(Fds) /\ ParkedApart(saved[p], own[p]) /\ Len(cand[p]) + Len(saved[p]) <= PreexecMax
  BY Zenon DEF IInv, FineAt, Fine, ParkedApart
<1>2. cand[p] \in Seq(Fds)
  BY <1>1, Zenon
<1>3. Len(cand[p]) \in Nat
  BY <1>2, SMTT(30)
<1> QED BY <1>1, <1>3, Zenon

\* dup3 back, close the parked fd: the process stays in order.
LEMMA RestoreOneFine ==
  ASSUME IInv, NEW p \in Procs, RestoreOne(p)
  PROVE  IInv'
<1> DEFINE keep == own[p] \cup Parked(saved[p])
           W == Trusted(p)
           r == Head(saved[p])
           e == Entry(tab[p][r.at].file, r.cloexec)
           s == Replace(p, Proc(p), r.user, e)
           z == Replace(p, s, r.at, Closed)
<1>1. /\ st[p] = "restore" /\ saved[p] # <<>> /\ Become(p, z)
      /\ saved' = [saved EXCEPT ![p] = Tail(saved[p])]
      /\ own' = own /\ st' = st /\ cand' = cand /\ installer' = installer /\ astray' = astray
  BY Zenon DEF RestoreOne
<1>2. /\ r \in Saved /\ r.at \in Parked(saved[p]) /\ r.at \notin own[p]
      /\ ParkedApart(Tail(saved[p]), own[p])
      /\ Len(Tail(saved[p])) = Len(saved[p]) - 1 /\ Len(saved[p]) \in Nat
      /\ Parked(Tail(saved[p])) \subseteq Parked(saved[p]) /\ r.at \notin Parked(Tail(saved[p]))
  BY <1>1, FineInExec, TailParked, Zenon
<1> HIDE DEF r
<1>3. r.user \in Fds /\ r.at \in Fds /\ r.cloexec \in BOOLEAN
  BY <1>2, SMTT(30) DEF Saved
<1>4. /\ Holds(Proc(p), keep, W) /\ Proc(p).tab = tab[p] /\ Proc(p).view = view[p]
      /\ \A w \in Wraps : installer[w] = p => w \in W
  BY ProcHolds, Zenon
<1>5. e \in Entries /\ e # Closed
  <2>1. r.at \in keep
    BY <1>2, Zenon
  <2>2. tab[p][r.at] # Closed /\ tab[p][r.at] \in Entries
    BY <1>3, <1>4, <2>1, Zenon DEF Holds, InOrder
  <2> QED BY <1>3, <2>2, OpenEntry, Zenon
<1> HIDE DEF keep, e, W
<1>6. Holds(s, Kept(keep, r.user, e), W) /\ NoneRevived(Proc(p), s)
  BY <1>3, <1>4, <1>5, ReplaceHolds, Zenon
<1> HIDE DEF s
<1>7. Holds(z, Kept(Kept(keep, r.user, e), r.at, Closed), W) /\ NoneRevived(s, z)
  <2>1. Closed \in Entries
    BY Zenon DEF Entries
  <2> QED BY <1>3, <1>4, <1>6, <2>1, ReplaceHolds, Zenon
<1> HIDE DEF z
<1>8. Holds(z, own[p] \cup Parked(Tail(saved[p])), W)
  <2>1. ASSUME NEW g \in own[p] \cup Parked(Tail(saved[p]))
        PROVE  g \in Kept(Kept(keep, r.user, e), r.at, Closed)
    <3>1. g \in keep /\ g # r.at
      BY <1>2, Zenon DEF keep
    <3> QED BY <1>5, <3>1, Zenon DEF Kept
  <2>2. own[p] \cup Parked(Tail(saved[p])) \subseteq Kept(Kept(keep, r.user, e), r.at, Closed)
    BY <2>1, Zenon
  <2>3. InOrder(z.tab, z.view, own[p] \cup Parked(Tail(saved[p])), W)
    BY <1>7, <2>2, LessKept, Zenon DEF Holds
  <2> QED BY <1>7, <2>3, Zenon DEF Holds
<1>9. NoneRevived(Proc(p), z)
  BY <1>6, <1>7, NoneRevivedTwice, Zenon
<1>10. cand[p] \in Seq(Fds) /\ Len(cand[p]) + Len(Tail(saved[p])) <= PreexecMax
  <2>1. cand[p] \in Seq(Fds) /\ Len(cand[p]) \in Nat /\ Len(cand[p]) + Len(saved[p]) <= PreexecMax
    BY FineInExec, Zenon
  <2> QED BY <1>2, <2>1, StillFits, Zenon
<1>11. cand' = [cand EXCEPT ![p] = cand[p]]
  BY <1>1, SameAgain, Zenon
<1>12. Turn(p, z, cand[p], Tail(saved[p]), "restore")
  BY <1>1, <1>2, <1>8, <1>9, <1>10, <1>11, Zenon DEF Turn, W
<1> QED BY <1>12, TurnFine, Zenon

\* Park the fd's file, put over it what is at the wrap's number: the process stays
\* in order, and it does if the second dup3 fails.
LEMMA SaveOneFine ==
  ASSUME IInv, NEW p \in Procs, SaveOne(p)
  PROVE  IInv'
<1> DEFINE keep == own[p] \cup Parked(saved[p])
           W    == Trusted(p)
           s    == Proc(p)
           f    == Head(cand[p])
           ws   == EntryOf(s, f)
           r    == s.view[CHOOSE w \in ws : TRUE].real
           room == {m \in Free(s) : m >= Parking}
           n    == Min(room)
           cx   == tab[p][f].cloexec
           d    == Entry(s.tab[f].file, TRUE)
           s1   == [s EXCEPT !.tab[n] = d]
           e    == Entry(s1.tab[r].file, cx)
           z    == Replace(p, s1, f, e)
           y    == [Relocate(s1, f) EXCEPT !.tab[n] = Closed]
           sv   == [user |-> f, at |-> n, cloexec |-> cx]
           skips == ws = {} \/ r = NoFd \/ room = {}
           fails == r = f \/ s1.tab[r] = Closed
<1>1. /\ st[p] = "save" /\ cand[p] # <<>> /\ cand' = [cand EXCEPT ![p] = Tail(cand[p])]
      /\ own' = own /\ st' = st /\ installer' = installer /\ astray' = astray
  BY Zenon DEF SaveOne
<1>2. /\ skips => tab' = tab /\ view' = view /\ base' = base /\ saved' = saved
      /\ ~skips /\ fails => Become(p, y) /\ saved' = saved
      /\ ~skips /\ ~fails => Become(p, z) /\ saved' = [saved EXCEPT ![p] = Append(saved[p], sv)]
  BY Zenon DEF SaveOne
<1>3. /\ f \in Fds /\ Tail(cand[p]) \in Seq(Fds) /\ Len(Tail(cand[p])) = Len(cand[p]) - 1
      /\ Len(cand[p]) \in Nat /\ Len(cand[p]) + Len(saved[p]) <= PreexecMax
  <2>1. cand[p] \in Seq(Fds) /\ Len(cand[p]) \in Nat /\ Len(cand[p]) + Len(saved[p]) <= PreexecMax
    BY FineInExec, Zenon
  <2>2. f \in Fds /\ Tail(cand[p]) \in Seq(Fds) /\ Len(Tail(cand[p])) = Len(cand[p]) - 1
    BY <1>1, <2>1, SMTT(30)
  <2> QED BY <2>1, <2>2, Zenon
<1>4. Len(saved[p]) \in Nat /\ ParkedApart(saved[p], own[p])
  <2>1. ParkedApart(saved[p], own[p])
    BY FineInExec, Zenon
  <2> QED BY <2>1, SMTT(30) DEF ParkedApart
<1>5. /\ Holds(s, keep, W) /\ s.tab = tab[p] /\ s.view = view[p]
      /\ \A w \in Wraps : installer[w] = p => w \in W
  BY ProcHolds, Zenon
<1>6. Len(Tail(cand[p])) + Len(saved[p]) <= PreexecMax
  BY <1>3, <1>4, StillFits, Zenon
<1> HIDE DEF s, f, W
<1>7. CASE skips
  <2>1. st' = [st EXCEPT ![p] = "save"]
    BY <1>1, SameAgain, Zenon
  <2>2. Moved(p, Tail(cand[p]), "save")
    BY <1>1, <1>2, <1>3, <1>6, <1>7, <2>1, Zenon DEF Moved, States4
  <2> QED BY <2>2, MovedFine, Zenon
<1>8. CASE ~skips
  <2>1. n \in Fds /\ s.tab[n] = Closed
    <3>1. room \subseteq Nat /\ room # {}
      BY <1>8, FdsAreNumbers, Zenon DEF Free
    <3>2. n \in room
      BY <3>1, LeastExists, Zenon
    <3> HIDE DEF n
    <3> QED BY <3>2, Zenon DEF Free
  <2>2. s.tab[f] \in Entries /\ s.tab[f] # Closed
    <3>1. PICK w \in Wraps : s.tab[f].file.wrap = w
      BY <1>8, Zenon DEF EntryOf
    <3>2. Closed.file.wrap = 0 /\ 0 \notin Wraps
      BY WrapAssumption, SMTT(30) DEF Closed, Entry, File
    <3>3. s.tab[f] \in Entries
      BY <1>3, <1>5, Zenon DEF Holds, InOrder
    <3> QED BY <3>1, <3>2, <3>3, Zenon
  <2>3. d \in Entries /\ d # Closed /\ cx \in BOOLEAN
    BY <1>5, <2>2, OpenEntry, Zenon
  <2>4. r \in Fds
    <3> DEFINE w == CHOOSE w \in ws : TRUE
    <3>1. w \in Wraps
      BY <1>8, Zenon DEF EntryOf
    <3>2. s.view[w].real \in Nums
      <4> HIDE DEF w
      <4>1. s.view[w] \in Views
        BY <1>5, <3>1, Zenon DEF Holds, InOrder
      <4> QED BY <4>1, SMTT(30) DEF Views
    <3> QED BY <1>8, <3>2, Zenon DEF Nums
  <2> HIDE DEF n, cx, d, ws, room, r
  <2>5. n \notin keep /\ Unknown(s.view, n, W)
    <3> HIDE DEF keep
    <3>1. InOrder(s.tab, s.view, keep, W)
      BY <1>5, Zenon DEF Holds
    <3> QED BY <2>1, <3>1, FreeIsUnknown, Zenon
  <2>6. Holds(s1, keep \cup {n}, W) /\ s1.view = s.view
    <3> HIDE DEF keep
    <3>1. s \in States /\ InOrder(s.tab, s.view, keep, W)
      BY <1>5, Zenon DEF Holds
    <3>2. s1 = [tab |-> [s.tab EXCEPT ![n] = d], view |-> s.view] /\ s1.view = s.view
      BY <3>1, SMTT(30) DEF States
    <3>3. InOrder([s.tab EXCEPT ![n] = d], s.view, keep \cup {n}, W)
      BY <2>1, <2>3, <2>5, <3>1, PutInOrder, Zenon
    <3> HIDE DEF s1
    <3> QED BY <3>2, <3>3, StateOf, Zenon
  <2> HIDE DEF s1
  <2>7. CASE fails
    <3> DEFINE s2 == Relocate(s1, f)
    <3>1. Become(p, y) /\ saved' = [saved EXCEPT ![p] = saved[p]]
      BY <1>2, <1>8, <2>7, SameAgain, Zenon
    <3>2. Holds(s2, keep \cup {n}, W) /\ \A x \in Wraps : s2.view[x].live = s1.view[x].live
      <4> HIDE DEF keep
      <4> QED BY <1>3, <2>6, RelocateHolds, Zenon
    <3> HIDE DEF s2
    <3>3. Unknown(s2.view, n, W)
      BY <2>1, <3>2, FdsAreNumbers, Zenon DEF Unknown, Holds, InOrder
    <3>4. Holds(y, keep, W) /\ y.view = s2.view
      <4> HIDE DEF keep
      <4>1. s2 \in States /\ InOrder(s2.tab, s2.view, keep \cup {n}, W)
        BY <3>2, Zenon DEF Holds
      <4>2. y = [s2 EXCEPT !.tab[n] = Closed]
        BY Zenon DEF s2
      <4> HIDE DEF y
      <4>3. y = [tab |-> [s2.tab EXCEPT ![n] = Closed], view |-> s2.view] /\ y.view = s2.view
        BY <4>1, <4>2, SMTT(30) DEF States
      <4>4. InOrder([s2.tab EXCEPT ![n] = Closed], s2.view, keep, W)
        <5>1. Closed \in Entries /\ keep \subseteq (keep \cup {n}) \cup {n} /\ (n \in keep => Closed # Closed)
          BY <2>5, Zenon DEF Entries
        <5> QED BY <2>1, <3>3, <4>1, <5>1, PutInOrder, Zenon
      <4> QED BY <4>3, <4>4, StateOf, Zenon
    <3> HIDE DEF y
    <3>5. NoneRevived(s, y)
      BY <2>6, <3>2, <3>4, Zenon DEF NoneRevived
    <3>6. Turn(p, y, Tail(cand[p]), saved[p], "save")
      BY <1>1, <1>3, <1>4, <1>6, <3>1, <3>4, <3>5, Zenon DEF Turn, s, W
    <3> QED BY <3>6, TurnFine, Zenon
  <2>8. CASE ~fails
    <3>1. Become(p, z) /\ saved' = [saved EXCEPT ![p] = Append(saved[p], sv)]
      BY <1>2, <1>8, <2>8, Zenon
    <3>2. e \in Entries /\ e # Closed
      <4>1. s1.tab[r] \in Entries /\ s1.tab[r] # Closed
        BY <2>4, <2>6, <2>8, Zenon DEF Holds, InOrder
      <4> QED BY <2>3, <4>1, OpenEntry, Zenon
    <3>3. sv \in Saved /\ sv.at = n
      BY <1>3, <2>1, <2>3, SMTT(30) DEF Saved
    <3> HIDE DEF e, sv
    <3>4. Holds(z, Kept(keep \cup {n}, f, e), W) /\ NoneRevived(s1, z)
      <4> HIDE DEF keep
      <4> QED BY <1>3, <1>5, <2>6, <3>2, ReplaceHolds, Zenon
    <3> HIDE DEF z
    <3>5. NoneRevived(s, z)
      BY <2>6, <3>4, Zenon DEF NoneRevived
    <3>6. n \notin own[p] /\ n \notin Parked(saved[p])
      BY <2>5, Zenon
    <3>7. /\ ParkedApart(Append(saved[p], sv), own[p])
          /\ Len(Append(saved[p], sv)) = Len(saved[p]) + 1
          /\ Parked(Append(saved[p], sv)) \subseteq Parked(saved[p]) \cup {n}
      <4>1. sv.at \notin own[p] /\ sv.at \notin Parked(saved[p])
        BY <3>3, <3>6, Zenon
      <4>2. /\ ParkedApart(Append(saved[p], sv), own[p])
            /\ Len(Append(saved[p], sv)) = Len(saved[p]) + 1
            /\ Parked(Append(saved[p], sv)) \subseteq Parked(saved[p]) \cup {sv.at}
        BY <1>4, <3>3, <4>1, AppendParked, Zenon
      <4> QED BY <3>3, <4>2, Zenon
    <3>8. Holds(z, own[p] \cup Parked(Append(saved[p], sv)), W)
      <4>1. own[p] \cup Parked(Append(saved[p], sv)) \subseteq Kept(keep \cup {n}, f, e)
        BY <3>2, <3>7, Zenon DEF Kept
      <4>2. InOrder(z.tab, z.view, own[p] \cup Parked(Append(saved[p], sv)), W)
        BY <3>4, <4>1, LessKept, Zenon DEF Holds
      <4> QED BY <3>4, <4>2, Zenon DEF Holds
    <3>9. Len(Tail(cand[p])) + Len(Append(saved[p], sv)) <= PreexecMax
      BY <1>3, <1>4, <3>7, StillFits, Zenon
    <3>10. Turn(p, z, Tail(cand[p]), Append(saved[p], sv), "save")
      BY <1>1, <1>3, <3>1, <3>5, <3>7, <3>8, <3>9, Zenon DEF Turn, s, W
    <3> QED BY <3>10, TurnFine, Zenon
  <2> QED BY <2>7, <2>8, Zenon
<1> QED BY <1>7, <1>8, Zenon

\* Wrap w, known to nobody yet, comes to know the tty at a and the probe at b, which
\* were free; of the other open fds only those to be kept change.
Adopts(t, v, keep, w, a, b, u, y) ==
  /\ w \in Wraps /\ v[w] = NoView
  /\ a \in Fds /\ t[a] = Closed /\ u[a].file = File("tty", 0)
  /\ b \in Nums /\ (b # NoFd => t[b] = Closed /\ u[b].file = File("probe", w))
  /\ u \in [Fds -> Entries]
  /\ \A g \in Fds : g \notin keep /\ t[g] # Closed => u[g] = t[g]
  /\ \A g \in keep : u[g] # Closed
  /\ y = [v EXCEPT ![w] = [real |-> a, live |-> TRUE, probe |-> b]]

\* The installation of a wrap keeps a process in order.
LEMMA AdoptInOrder ==
  ASSUME NEW t, NEW v, NEW keep, NEW W, InOrder(t, v, keep, W), NEW w, NEW a, NEW b, NEW u, NEW y,
         Adopts(t, v, keep, w, a, b, u, y)
  PROVE  InOrder(u, y, keep, W) /\ \A x \in Wraps : x # w => y[x] = v[x]
<1> DEFINE k0 == [real |-> a, live |-> TRUE, probe |-> b]
<1>1. /\ w \in Wraps /\ v[w] = NoView /\ a \in Fds /\ t[a] = Closed /\ u[a].file = File("tty", 0)
      /\ b \in Nums /\ u \in [Fds -> Entries] /\ y = [v EXCEPT ![w] = k0]
  BY Zenon DEF Adopts
<1>2. k0 \in Views /\ k0.real = a /\ k0.probe = b /\ k0.live
  BY <1>1, SMTT(30) DEF Views, Nums
<1>3. v \in [Wraps -> Views] /\ W \subseteq Wraps
  BY Zenon DEF InOrder
<1> HIDE DEF k0
<1>4. y \in [Wraps -> Views] /\ y[w] = k0 /\ \A x \in Wraps : x # w => y[x] = v[x]
  BY <1>1, <1>2, <1>3, Zenon
<1>5. a \notin keep /\ Unknown(v, a, W) /\ a # NoFd
  BY <1>1, FreeIsUnknown, FdsAreNumbers, Zenon
<1>6. b # NoFd => b \in Fds /\ b \notin keep /\ u[b].file = File("probe", w)
  <2>1. ASSUME b # NoFd PROVE b \in Fds /\ t[b] = Closed /\ u[b].file = File("probe", w)
    BY <1>1, <2>1, Zenon DEF Nums, Adopts
  <2> QED BY <2>1, FreeIsUnknown, Zenon
<1>7. FileFor(w, "real") = File("tty", 0) /\ FileFor(w, "probe") = File("probe", w)
  BY SMTT(30) DEF FileFor
<1>8. ASSUME NEW x \in W, NEW k \in Kinds, y[x][k] # NoFd
      PROVE  y[x][k] \notin keep /\ u[y[x][k]].file = FileFor(x, k)
  <2>1. CASE x = w /\ k = "real"
    <3>1. y[x][k] = a
      BY <1>2, <1>4, <2>1, Zenon
    <3> QED BY <1>1, <1>5, <1>7, <2>1, <3>1, Zenon
  <2>2. CASE x = w /\ k = "probe"
    <3>1. y[x][k] = b
      BY <1>2, <1>4, <2>2, Zenon
    <3> QED BY <1>6, <1>7, <1>8, <2>2, <3>1, Zenon
  <2>3. CASE x # w
    <3>1. y[x] = v[x] /\ v[x][k] # NoFd /\ x \in Wraps
      BY <1>3, <1>4, <1>8, <2>3, Zenon
    <3>2. v[x][k] \in Fds
      BY <3>1, KnownIsFd, Zenon
    <3>3. v[x][k] \notin keep /\ t[v[x][k]].file = FileFor(x, k)
      BY <3>1, Zenon DEF InOrder
    <3>4. ASSUME t[v[x][k]] = Closed PROVE FALSE
      <4>1. Unknown(v, v[x][k], W)
        BY <3>2, <3>4, FreeIsUnknown, Zenon
      <4> QED BY <4>1, Zenon DEF Unknown
    <3>5. u[v[x][k]] = t[v[x][k]]
      BY <3>2, <3>3, <3>4, Zenon DEF Adopts
    <3> QED BY <3>1, <3>3, <3>5, Zenon
  <2> QED BY <2>1, <2>2, <2>3, Zenon DEF Kinds
<1>9. ASSUME NEW x \in Wraps, ~y[x].live PROVE y[x] = NoView
  <2>1. x # w /\ y[x] = v[x]
    BY <1>2, <1>4, <1>9, Zenon
  <2> QED BY <1>9, <2>1, Zenon DEF InOrder
<1>10. ASSUME NEW x \in W, NEW z \in W, y[x].real # NoFd, y[x].real = y[z].real
       PROVE  x = z
  <2>1. ASSUME NEW i \in W, i # w PROVE y[i].real = v[i].real /\ y[i].real # a
    <3>1. y[i].real = v[i].real
      BY <1>3, <1>4, <2>1, Zenon
    <3>2. "real" \in Kinds
      BY Zenon DEF Kinds
    <3> QED BY <1>5, <3>1, <3>2, Zenon DEF Unknown
  <2>2. y[w].real = a
    BY <1>2, <1>4, Zenon
  <2>3. CASE x # w /\ z # w
    <3>1. v[x].real # NoFd /\ v[x].real = v[z].real
      BY <1>10, <2>1, <2>3, Zenon
    <3> QED BY <3>1, Zenon DEF InOrder
  <2> QED BY <1>10, <2>1, <2>2, <2>3, Zenon
<1>11. \A g \in keep : g \in Fds /\ u[g] # Closed
  BY Zenon DEF InOrder, Adopts
<1>12. InOrder(u, y, keep, W)
  BY <1>1, <1>3, <1>4, <1>8, <1>9, <1>10, <1>11, Zenon DEF InOrder
<1> QED BY <1>4, <1>12, Zenon

\* wslcompat_tty_install preserves the invariant.
LEMMA InstallFine ==
  ASSUME IInv, NEW p \in Procs, NEW f \in Fds, NEW w \in Wraps, NEW probed \in ProbeWorks,
         Install(p, f, w, probed)
  PROVE  IInv'
<1> DEFINE free == Ascending(Free(Proc(p)))
           hasProbe == probed /\ Len(free) >= 4
           a  == free[1]
           b  == IF hasProbe THEN free[4] ELSE NoFd
           t  == tab[p]
           v  == view[p]
           c1 == Entry(File("tty", 0), TRUE)
           c2 == Entry(File("path", w), t[f].cloexec)
           c3 == Entry(File("probe", w), TRUE)
           t0 == [t EXCEPT ![a] = c1]
           t1 == [t0 EXCEPT ![f] = c2]
           u  == IF ~hasProbe THEN t1 ELSE [t1 EXCEPT ![free[4]] = c3]
           k0 == [real |-> a, live |-> TRUE, probe |-> b]
           y  == [v EXCEPT ![w] = k0]
           s  == [tab |-> u, view |-> y]
<1>1. /\ st[p] = "run" /\ f \in own[p] /\ installer[w] = "none" /\ Len(free) >= 3
      /\ installer' = [installer EXCEPT ![w] = p]
      /\ own' = own /\ st' = st /\ cand' = cand /\ saved' = saved
      /\ astray' = astray /\ Astray(p) = {}
  BY Zenon DEF Install, exec
<1>2. InOrder(t, v, own[p], Trusted(p)) /\ saved[p] = <<>> /\ Parked(saved[p]) = {}
  <2>1. saved[p] = <<>> /\ Parked(saved[p]) = {}
    <3>1. st[p] \notin {"save", "restore"}
      BY <1>1, Zenon
    <3> QED BY <3>1, NoneParked, Zenon
  <2>2. own[p] \cup Parked(saved[p]) = own[p]
    BY <2>1, SMTT(30)
  <2>3. InOrder(t, v, own[p] \cup Parked(saved[p]), Trusted(p))
    BY Zenon DEF IInv, FineAt, Fine
  <2> QED BY <2>1, <2>2, <2>3, Zenon
<1>3. t \in [Fds -> Entries] /\ v \in [Wraps -> Views] /\ t[f] \in Entries /\ t[f] # Closed
  BY <1>1, <1>2, Zenon DEF InOrder
<1>4. tab' = [tab EXCEPT ![p] = u]
  <2>1. t1 = [tab[p] EXCEPT ![free[1]] = Entry(File("tty", 0), TRUE),
                            ![f] = Entry(File("path", w), @.cloexec)]
    OBVIOUS
  <2> QED BY <2>1, Zenon DEF Install
<1>5. view' = [view EXCEPT ![p] = y] /\ base' = [base EXCEPT ![p] = [base[p] EXCEPT ![w] = k0]]
  BY Zenon DEF Install
<1>6. /\ a \in Fds /\ t[a] = Closed
      /\ hasProbe => free[4] \in Fds /\ t[free[4]] = Closed /\ free[4] # a
  <2>1. Free(Proc(p)) \subseteq Fds
    BY Zenon DEF Free
  <2>2. /\ free \in [1..Cardinality(Free(Proc(p))) -> Free(Proc(p))] /\ Cardinality(Free(Proc(p))) \in Nat
        /\ \A i, j \in 1..Cardinality(Free(Proc(p))) : free[i] = free[j] => i = j
    BY <2>1, AscendingLists, Zenon
  <2> HIDE DEF free
  <2>3. free[1] \in Free(Proc(p)) /\ (hasProbe => free[4] \in Free(Proc(p)) /\ free[4] # free[1])
    BY <1>1, <2>2, SMTT(30)
  <2>4. \A g \in Free(Proc(p)) : g \in Fds /\ t[g] = Closed
    BY ProcHolds, Zenon DEF Free
  <2> HIDE DEF hasProbe
  <2> QED BY <2>3, <2>4, Zenon
<1> HIDE DEF free, hasProbe, a
<1>7. c1 \in Entries /\ c1 # Closed /\ c1.file = File("tty", 0)
  <2>1. File("tty", 0) \in Opened
    BY SMTT(30) DEF Opened, Files, File
  <2> QED BY <2>1, OpenEntry, Zenon
<1>8. c2 \in Entries /\ c2 # Closed
  <2>1. File("path", w) \in Opened
    BY SMTT(30) DEF Opened, Files, File
  <2>2. t[f].cloexec \in BOOLEAN
    BY <1>3, OpenEntry, Zenon
  <2> QED BY <2>1, <2>2, OpenEntry, Zenon
<1>9. c3 \in Entries /\ c3 # Closed /\ c3.file = File("probe", w)
  <2>1. File("probe", w) \in Opened
    BY SMTT(30) DEF Opened, Files, File
  <2> QED BY <2>1, OpenEntry, Zenon
<1>10. a # f /\ (hasProbe => free[4] # f)
  BY <1>3, <1>6, Zenon
<1> HIDE DEF c1, c2, c3, t, v
<1>11. t0 \in [Fds -> Entries] /\ t0[a] = c1 /\ \A g \in Fds : g # a => t0[g] = t[g]
  BY <1>3, <1>6, <1>7, Zenon
<1> HIDE DEF t0
<1>12. t1 \in [Fds -> Entries] /\ t1[f] = c2 /\ \A g \in Fds : g # f => t1[g] = t0[g]
  BY <1>8, <1>11, Zenon
<1> HIDE DEF t1
<1>13. /\ u \in [Fds -> Entries] /\ (hasProbe => u[free[4]] = c3)
       /\ \A g \in Fds : (hasProbe => g # free[4]) => u[g] = t1[g]
  <2>1. CASE hasProbe
    <3>1. u = [t1 EXCEPT ![free[4]] = c3]
      BY <2>1, Zenon
    <3> HIDE DEF u
    <3> QED BY <1>6, <1>9, <1>12, <2>1, <3>1, Zenon
  <2>2. CASE ~hasProbe
    BY <1>12, <2>2, Zenon
  <2> QED BY <2>1, <2>2, Zenon
<1> HIDE DEF u
<1>14. Adopts(t, v, own[p], w, a, b, u, y)
  <2>1. v[w] = NoView
    <3>1. ~view[p][w].live
      BY <1>1, Zenon DEF IInv, Fresh
    <3> QED BY <1>2, <3>1, Zenon DEF InOrder, v
  <2>2. u[a].file = File("tty", 0)
    BY <1>6, <1>7, <1>10, <1>11, <1>12, <1>13, Zenon
  <2>3. b \in Nums /\ (b # NoFd => t[b] = Closed /\ u[b].file = File("probe", w))
    <3>1. CASE hasProbe
      <4>1. b = free[4]
        BY <3>1, Zenon
      <4>2. free[4] \in Nums /\ t[free[4]] = Closed
        BY <1>6, <3>1, Zenon DEF Nums
      <4>3. u[free[4]] = c3
        BY <1>13, <3>1, Zenon
      <4>4. u[free[4]].file = File("probe", w)
        BY <1>9, <4>3, Zenon
      <4> HIDE DEF b
      <4> QED BY <4>1, <4>2, <4>4, Zenon
    <3>2. CASE ~hasProbe
      <4>1. b = NoFd
        BY <3>2, Zenon
      <4> HIDE DEF b
      <4> QED BY <4>1, Zenon DEF Nums
    <3> QED BY <3>1, <3>2, Zenon
  <2>4. ASSUME NEW g \in Fds, t[g] # Closed, g # f PROVE u[g] = t[g]
    <3>1. g # a /\ (hasProbe => g # free[4])
      BY <1>6, <2>4, Zenon
    <3> QED BY <1>11, <1>12, <1>13, <2>4, <3>1, Zenon
  <2>5. u[f] = c2
    BY <1>10, <1>12, <1>13, Zenon
  <2>6. ASSUME NEW g \in own[p] PROVE u[g] # Closed
    <3>1. g \in Fds /\ t[g] # Closed
      BY <1>2, Zenon DEF InOrder
    <3> QED BY <1>8, <2>4, <2>5, <3>1, Zenon
  <2>7. y = [v EXCEPT ![w] = [real |-> a, live |-> TRUE, probe |-> b]]
    BY Zenon
  <2>8. \A g \in Fds : g \notin own[p] /\ t[g] # Closed => u[g] = t[g]
    BY <1>1, <2>4, Zenon
  <2> HIDE DEF y, b
  <2> QED BY <1>6, <1>13, <2>1, <2>2, <2>3, <2>6, <2>7, <2>8, Zenon DEF Adopts
<1>15. InOrder(u, y, own[p], Trusted(p)) /\ \A x \in Wraps : x # w => y[x] = v[x]
  BY <1>2, <1>14, AdoptInOrder, SMTT(30)
<1>16. k0 \in Views /\ k0.live
  <2>1. y[w] = k0
    BY <1>3, Zenon
  <2>2. k0.live
    BY Zenon
  <2> HIDE DEF y, k0
  <2> QED BY <1>15, <2>1, <2>2, Zenon DEF InOrder
<1> HIDE DEF y, k0
<1>17. s.tab = u /\ s.view = y
  BY Zenon
<1> HIDE DEF s
<1>18. \A q \in Procs : Trusted(q)' = Trusted(q)
  BY <1>1, Zenon DEF Trusted, Astray
<1>19. Fine(Trusted(p), u, y, own[p], cand[p], saved[p], "run")
  <2>1. FineAt(p)
    BY Zenon DEF IInv
  <2>2. own[p] \cup Parked(saved[p]) = own[p]
    BY <1>2, SMTT(30)
  <2> QED BY <1>1, <1>2, <1>15, <2>1, <2>2, Zenon DEF FineAt, Fine
<1>20. /\ DOMAIN installer' = Wraps /\ installer'[w] = p /\ p # "none"
       /\ \A x \in Wraps : x # w => installer'[x] = installer[x]
  <2>1. DOMAIN installer = Wraps /\ p # "none"
    BY ProcAssumption, Zenon DEF IInv, Types
  <2> QED BY <1>1, <2>1, Zenon
<1>21. BaseMoves(p)
  <2> DEFINE b0 == [base[p] EXCEPT ![w] = k0]
  <2>1. /\ base' = [base EXCEPT ![p] = b0] /\ base \in [Procs -> [Wraps -> Views]] /\ Quiet(base[p])
        /\ k0 \in Views /\ k0.live
    BY <1>5, <1>15, <1>16, Zenon DEF IInv, Types, FineAt
  <2>2. b0 \in [Wraps -> Views] /\ b0[w] = k0 /\ \A x \in Wraps : x # w => b0[x] = base[p][x]
    BY <2>1, Zenon
  <2> HIDE DEF b0
  <2>3. Quiet(b0)
    BY <2>1, <2>2, Zenon DEF Quiet
  <2>4. ASSUME NEW x \in Wraps, installer'[x] = "none" PROVE ~b0[x].live
    <3>1. x # w /\ installer[x] = "none"
      BY <1>20, <2>4, Zenon
    <3> QED BY <2>2, <3>1, Zenon DEF IInv, Fresh
  <2>5. /\ base' \in [Procs -> [Wraps -> Views]] /\ base'[p] = b0
        /\ \A q \in Procs : q # p => base'[q] = base[q]
    BY <2>1, <2>2, Zenon
  <2> QED BY <2>3, <2>4, <2>5, Zenon DEF BaseMoves
<1>22. Placed'
  <2>1. ASSUME NEW q \in Procs, NEW x \in Wraps, installer'[x] = q
        PROVE  st'[q] # "unborn" /\ x \in Trusted(q)'
    <3>1. CASE x = w
      BY <1>1, <1>18, <1>20, <2>1, <3>1, Zenon DEF Trusted
    <3>2. CASE x # w
      BY <1>1, <1>18, <1>20, <2>1, <3>2, ZenonT(30) DEF IInv, Placed
    <3> QED BY <3>1, <3>2, Zenon
  <2> QED BY <2>1, Zenon DEF Placed
<1>23. Changes(p, s, own[p], cand[p], saved[p], "run")
  <2>1. /\ own' = [own EXCEPT ![p] = own[p]] /\ cand' = [cand EXCEPT ![p] = cand[p]]
        /\ saved' = [saved EXCEPT ![p] = saved[p]] /\ st' = [st EXCEPT ![p] = "run"]
    BY <1>1, SameAgain, Zenon
  <2>2. tab' = [tab EXCEPT ![p] = s.tab] /\ view' = [view EXCEPT ![p] = s.view]
    BY <1>4, <1>5, <1>17, Zenon
  <2>3. ASSUME NEW x \in Wraps, installer'[x] = "none"
        PROVE  installer[x] = "none" /\ ~s.view[x].live
    <3>1. x # w /\ installer[x] = "none"
      BY <1>20, <2>3, Zenon
    <3>2. ~view[p][x].live
      BY <3>1, Zenon DEF IInv, Fresh
    <3> QED BY <1>15, <1>17, <3>1, <3>2, Zenon DEF v
  <2> QED BY <1>18, <1>20, <1>21, <1>22, <2>1, <2>2, <2>3, Zenon DEF Changes
<1>24. Fine(Trusted(p)', s.tab, s.view, own[p], cand[p], saved[p], "run")
  BY <1>17, <1>18, <1>19, Zenon
<1>25. "run" \in States4 /\ own[p] \in SUBSET Fds
  BY Zenon DEF States4, IInv, Types
<1>26. ChangesWell(p, s, own[p], cand[p], saved[p], "run")
  BY <1>23, <1>24, <1>25, Zenon DEF ChangesWell
<1> QED BY <1>26, StepFine, Zenon

-----------------------------------------------------------------------------
\* The theorems.

\* Initially one process has one fd, a tty, and nobody knows a wrap.
LEMMA InitFine ==
  ASSUME Init
  PROVE  IInv
<1>1. Min(Fds) \in Fds
  BY FdsAreNumbers, FdsAssumption, LeastExists, Zenon
<1>2. own \in [Procs -> SUBSET Fds]
  BY <1>1, SMTT(30) DEF Init
<1>3. tab = [p \in Procs |-> [f \in Fds |-> IF f \in own[p] THEN Entry(File("tty", 0), FALSE) ELSE Closed]]
  BY Zenon DEF Init
<1>4. Entry(File("tty", 0), FALSE) \in Entries /\ Entry(File("tty", 0), FALSE) # Closed /\ Closed \in Entries
  <2>1. File("tty", 0) \in Opened
    BY SMTT(30) DEF Opened, Files, File
  <2> QED BY <2>1, OpenEntry, Zenon DEF Entries
<1>5. ASSUME NEW p \in Procs PROVE tab[p] \in [Fds -> Entries] /\ own[p] \subseteq OpenIn(tab[p])
  <2>1. tab[p] = [f \in Fds |-> IF f \in own[p] THEN Entry(File("tty", 0), FALSE) ELSE Closed]
    BY <1>3, Zenon
  <2>2. own[p] \subseteq Fds
    BY <1>2, Zenon
  <2>3. \A f \in Fds : tab[p][f] = IF f \in own[p] THEN Entry(File("tty", 0), FALSE) ELSE Closed
    BY <2>1, Zenon
  <2>4. tab[p] \in [Fds -> Entries]
    <3> DEFINE e == Entry(File("tty", 0), FALSE)
    <3>1. e \in Entries /\ tab[p] = [f \in Fds |-> IF f \in own[p] THEN e ELSE Closed]
      BY <1>4, <2>1, Zenon
    <3> HIDE DEF e
    <3>2. \A f \in Fds : (IF f \in own[p] THEN e ELSE Closed) \in Entries
      BY <1>4, <3>1, Zenon
    <3> QED BY <3>1, <3>2, Zenon
  <2> QED BY <1>4, <2>2, <2>3, <2>4, Zenon DEF OpenIn
<1>6. ASSUME NEW p \in Procs
      PROVE  /\ view[p] = [w \in Wraps |-> NoView] /\ base[p] = [w \in Wraps |-> NoView]
             /\ cand[p] = <<>> /\ saved[p] = <<>>
  BY Zenon DEF Init
<1>7. ASSUME NEW p \in Procs
      PROVE  InOrder(tab[p], view[p], own[p] \cup Parked(saved[p]), Trusted(p)) /\ Quiet(base[p])
  <2>1. own[p] \cup Parked(saved[p]) \subseteq OpenIn(tab[p])
    <3>1. Parked(<<>>) = {}
      BY SMTT(30) DEF Parked
    <3> QED BY <1>5, <1>6, <3>1, Zenon
  <2>2. Trusted(p) \subseteq Wraps
    BY Zenon DEF Trusted
  <2> QED BY <1>5, <1>6, <2>1, <2>2, BlankInOrder, ZenonT(30)
<1>8. <<>> \in Seq(Fds) /\ <<>> \in Seq(Saved) /\ Len(<<>>) + Len(<<>>) <= PreexecMax /\ \A i \in DOMAIN <<>> : FALSE
  BY WrapAssumption, SMTT(30)
<1>9. ASSUME NEW p \in Procs PROVE FineAt(p)
  BY <1>6, <1>7, <1>8, Zenon DEF FineAt, Fine
<1>10. Types
  <2>1. tab \in [Procs -> [Fds -> Entries]]
    BY <1>3, <1>5, Zenon
  <2>2. view \in [Procs -> [Wraps -> Views]] /\ base \in [Procs -> [Wraps -> Views]]
    <3>1. view = [p \in Procs |-> [w \in Wraps |-> NoView]] /\ base = view
      BY Zenon DEF Init
    <3>2. NoView \in Views
      BY SMTT(30) DEF NoView, Views, Nums
    <3> QED BY <3>1, <3>2, Zenon
  <2>3. cand \in [Procs -> Seq(Fds)] /\ saved \in [Procs -> Seq(Saved)]
    BY <1>8, Zenon DEF Init
  <2>4. st \in [Procs -> States4]
    BY SMTT(30) DEF Init, States4
  <2>5. DOMAIN installer = Wraps
    BY SMTT(30) DEF Init
  <2> QED BY <1>2, <2>1, <2>2, <2>3, <2>4, <2>5, Zenon DEF Types
<1>11. ASSUME NEW w \in Wraps, NEW p \in Procs PROVE ~view[p][w].live /\ ~base[p][w].live
  BY <1>6, SMTT(30) DEF NoView
<1>12. ASSUME NEW w \in Wraps, NEW p \in Procs PROVE installer[w] # p
  BY ProcAssumption, Zenon DEF Init
<1> QED BY <1>9, <1>10, <1>11, <1>12, Zenon DEF IInv, Fresh, Placed

\* Every step of every process keeps every process in order.
LEMMA NextFine ==
  ASSUME IInv, [Next]_vars
  PROVE  IInv'
<1>1. CASE Next
  <2>1. PICK p \in Procs :
          \/ \E f \in Fds, w \in Wraps, probed \in ProbeWorks : Install(p, f, w, probed)
          \/ \E f \in Fds : Close(p, f)
          \/ \E f, g \in Fds : \E cx \in Flags[g] : Dup3(p, f, g, cx)
          \/ \E q \in Procs : Fork(p, q)
          \/ Exit(p) \/ Save(p) \/ SaveOne(p) \/ Execve(p) \/ ExecFails(p)
          \/ \E q \in Procs : Spawn(p, q)
          \/ RestoreOne(p) \/ ExecReturns(p)
    BY <1>1, Zenon DEF Next
  <2> QED BY <2>1, InstallFine, CloseFine, Dup3Fine, ForkFine, ExitFine, SaveFine, SaveOneFine,
             ExecveFine, ExecFailsFine, SpawnFine, RestoreOneFine, ExecReturnsFine, Zenon
<1>2. CASE UNCHANGED vars
  <2>1. /\ tab' = tab /\ view' = view /\ installer' = installer /\ own' = own
        /\ st' = st /\ cand' = cand /\ saved' = saved /\ base' = base /\ astray' = astray
    BY <1>2, Zenon DEF vars
  <2>2. Placed' /\ \A q \in Procs : Trusted(q)' = Trusted(q)
    BY <2>1, StillPlaced, Zenon
  <2> QED BY <2>1, <2>2, Zenon DEF IInv, Types, Fresh, FineAt
<1> QED BY <1>1, <1>2, Zenon

\* In every process, in the middle of an exec too, the numbers a live wrap knows
\* lead to its own private tty and its own probe, and are none of the application's
\* fds, whatever the applications close, dup over, fork or exec, and however many
\* processes, fds and wraps there are (synth.c relocate_internal, tty_relocate).
\* Not so for the wraps a process is astray for: those whose numbers had moved in
\* a process other than their installer when it forked.
THEOREM BackingHeld == Spec => []HoldsBacking
<1>1. Init => IInv
  BY InitFine, Zenon
<1>2. IInv /\ [Next]_vars => IInv'
  BY NextFine, Zenon
<1>3. IInv => HoldsBacking
  <2>1. ASSUME IInv, NEW p \in Procs, NEW w \in Trusted(p), NEW k \in Kinds, view[p][w][k] # NoFd
        PROVE  view[p][w][k] \notin own[p] /\ tab[p][view[p][w][k]].file = FileFor(w, k)
    <3>1. InOrder(tab[p], view[p], own[p] \cup Parked(saved[p]), Trusted(p))
      BY <2>1, Zenon DEF IInv, FineAt, Fine
    <3> QED BY <2>1, <3>1, Zenon DEF InOrder
  <2>2. ASSUME NEW w PROVE FileFor(w, "real") = File("tty", 0) /\ FileFor(w, "probe") = File("probe", w)
    BY SMTT(30) DEF FileFor
  <2>3. "real" \in Kinds /\ "probe" \in Kinds
    BY Zenon DEF Kinds
  <2> QED BY <2>1, <2>2, <2>3, ZenonT(30) DEF HoldsBacking, Trusted
<1> QED BY <1>1, <1>2, <1>3, PTL DEF Spec

\* The fds an exec swaps never overrun their array, whatever its size
\* (wslcompat_synth_preexec_save: PREEXEC_MAX).
THEOREM SwapsBounded == Spec => []SwapsFit
<1>1. Init => IInv
  BY InitFine, Zenon
<1>2. IInv /\ [Next]_vars => IInv'
  BY NextFine, Zenon
<1>3. IInv => SwapsFit
  BY Zenon DEF IInv, FineAt, Fine, SwapsFit
<1> QED BY <1>1, <1>2, <1>3, PTL DEF Spec
=============================================================================
