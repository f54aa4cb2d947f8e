----------------------------- MODULE PathProofs -----------------------------
(***************************************************************************)
(* Theorems about the calls on files: about Namespace (open, renameat2,    *)
(* statx), for any number of processes, names and files; about FcntlLock,  *)
(* for any number of open file descriptions; and about ProcFile, for any   *)
(* number of threads, any file and any width of off_t.                     *)
(***************************************************************************)
EXTENDS Namespace, FiniteSets, TLAPS

\* Names are no temporary names, and -1 is neither.
NamesApart == Names \cap TmpNames = {} /\ None \notin Names \cup TmpNames

\* Where a process may be in a call.
SpacePcs == {"idle", "dead", "gettime", "setxattr", "plain", "unlink tmp", "tmp", "unlink", "getxattr"}

\* A call in progress.
SpaceCall ==
  [pc : SpacePcs, kind : {"none", "open", "tmpfile", "rename", "path", "fd"},
   name : Names \cup TmpNames \cup {None}, to : Names \cup {None}, f : Int, ts : Nat,
   rebound : BOOLEAN]

\* A file with its times, as the history and the file system have them.
FileRec ==
  [born : Nat, ready : Nat \cup {None}, hand : {0, None}, low : Nat, mtime : Nat,
   ctime : Nat, btime : Nat \cup {None}]

\* The types of the four variables.
SpaceTypes ==
  /\ file \in Seq(FileRec) /\ clock \in Nat
  /\ dir \in [Names \cup TmpNames -> Made \cup {None}]
  /\ call \in [Procs -> SpaceCall]

\* A file's times are in order, and its recorded birth time is one of BirthRecorded's.
FileOk(r, now) ==
  /\ r.low <= r.mtime /\ r.low <= r.born /\ r.born <= r.ctime /\ r.ctime <= now
  /\ r.hand # None => r.btime = r.hand
  /\ r.btime # None /\ r.hand = None => r.ready # None /\ r.born <= r.btime /\ r.btime <= r.ready

\* A call that has still to date the file it made.
Dating(c) == c.pc \in {"gettime", "setxattr"}

\* A call c knows what its file and its names are, in directory d with files fl.
DatesNew(c, fl, now) ==
  Dating(c) => /\ c.kind \in {"open", "tmpfile"} /\ c.f \in DOMAIN fl /\ fl[c.f].ready = None
               /\ c.pc = "setxattr" => fl[c.f].born <= c.ts /\ c.ts <= now

\* The file of an O_TMPFILE open has its temporary name at most, and none once
\* that is unlinked.
HidesTmp(c, d, fl) ==
  c.kind = "tmpfile" => /\ c.f \in DOMAIN fl
                        /\ c.pc = "tmp" \/ ((Dating(c) \/ c.pc = "unlink tmp") /\ c.name \in TmpNames)
                        /\ \A m \in DOMAIN d : d[m] = c.f => c.pc # "tmp" /\ m = c.name

\* renameat2 has linked the new name; both lead to its file until somebody
\* rebinds one of them.
HasBoth(c, d, fl) ==
  c.kind = "rename" => /\ c.pc = "unlink" /\ c.name \in Names /\ c.to \in Names /\ c.name # c.to
                       /\ c.f \in DOMAIN fl
                       /\ ~c.rebound => d[c.name] = c.f /\ d[c.to] = c.f

\* statx asks about the file that its name led to when it started.
AsksOne(c, d, fl) ==
  c.pc = "getxattr" => /\ c.name \in Names /\ c.f \in DOMAIN fl
                       /\ ~c.rebound => d[c.name] = c.f
                       /\ fl[c.f].low <= c.ts /\ c.ts <= fl[c.f].ctime

\* Which calls pass which places.
CallKinds(c) ==
  /\ c.pc \in {"unlink tmp", "tmp"} => c.kind = "tmpfile"
  /\ c.pc = "unlink" => c.kind = "rename"
  /\ c.pc = "plain" => c.name \in Names
  /\ c.kind \in {"path", "fd"} => c.pc = "getxattr"
  /\ c.kind \in {"none", "open"} /\ ~Dating(c) => c.f = None

\* All of this holds of a call.
CallOk(c, d, fl, now) ==
  CallKinds(c) /\ DatesNew(c, fl, now) /\ HidesTmp(c, d, fl) /\ HasBoth(c, d, fl) /\ AsksOne(c, d, fl)

\* Nobody else works on a temporary file; two calls do not date the same file.
Apart(c, e) == c.f # e.f \/ (c.kind # "tmpfile" /\ e.kind # "tmpfile" /\ ~(Dating(c) /\ Dating(e)))

\* Somebody is dead, or has temporary name n.
Owns(c, n, f) == c.pc = "dead" \/ (c.kind = "tmpfile" /\ c.name = n /\ c.f = f)

\* The inductive invariant: types, the times of every file, what each call has
\* in hand, that calls do not meddle with each other's files, and that a
\* temporary name belongs to a call or was left by a process that was killed.
SpaceInv ==
  /\ SpaceTypes
  /\ \A f \in Made : FileOk(file[f], clock)
  /\ \A p \in Procs : CallOk(call[p], dir, file, clock)
  /\ \A p, q \in Procs : p # q => Apart(call[p], call[q])
  /\ \A n \in TmpNames : dir[n] # None => \E p \in Procs : Owns(call[p], n, dir[n])

-----------------------------------------------------------------------------
\* Call c goes on as e, another process having changed the directory.
Noted(c, e) ==
  /\ e \in SpaceCall
  /\ e.pc = c.pc /\ e.kind = c.kind /\ e.name = c.name /\ e.to = c.to /\ e.f = c.f /\ e.ts = c.ts
  /\ ~e.rebound => ~c.rebound /\ \A n \in {c.name, c.to} \ {None} : dir'[n] = dir[n]

\* The files grow, and the only one that a step of call c finishes is its own.
Grown(c) ==
  /\ file' \in Seq(FileRec) /\ Made \subseteq DOMAIN file'
  /\ \A f \in DOMAIN file' : FileOk(file'[f], clock)
  /\ \A f \in Made : /\ file'[f].born = file[f].born /\ file[f].ctime <= file'[f].ctime
                     /\ file'[f].low <= file[f].low
                     /\ file'[f].ready = file[f].ready \/ (c.pc = "setxattr" /\ c.f = f)

\* Names get files that had a name among Names, or that are new.
Renamed ==
  /\ dir' \in [Names \cup TmpNames -> DOMAIN file' \cup {None}]
  /\ \A m \in Names \cup TmpNames :
       \/ dir'[m] = dir[m] \/ dir'[m] = None \/ dir'[m] \notin Made
       \/ \E n \in Names : dir'[m] = dir[n]

\* Call c goes on as e, on the same file, a new one, none, or one it found by name.
SameFile(c, e) ==
  \/ e.f = None
  \/ e.f = c.f /\ (e.kind = "tmpfile" => c.kind = "tmpfile") /\ (Dating(e) => Dating(c))
  \/ e.f \notin Made
  \/ e.kind # "tmpfile" /\ ~Dating(e) /\ \E n \in Names : e.f = dir[n]

\* The temporary names are those of before, less c's own, or are e's.
KeepsTmp(c, e) ==
  /\ c.pc # "dead"
  /\ \A n \in TmpNames : dir'[n] # None =>
       \/ Owns(e, n, dir'[n])
       \/ dir'[n] = dir[n] /\ ~Owns(c, n, dir[n])

\* Process p goes on as e.
Goes(p, e) ==
  /\ e \in SpaceCall /\ call' \in [Procs -> SpaceCall] /\ call'[p] = e
  /\ \A q \in Procs : q # p => Noted(call[q], call'[q])
  /\ clock' = clock /\ Grown(call[p]) /\ Renamed /\ SameFile(call[p], e) /\ KeepsTmp(call[p], e)
  /\ CallOk(e, dir', file', clock)

\* What the invariant says of one process.
LEMMA SpaceOf ==
  ASSUME SpaceInv, NEW p \in Procs
  PROVE  SpaceTypes /\ call[p] \in SpaceCall /\ CallOk(call[p], dir, file, clock)
BY Zenon DEF SpaceInv, SpaceTypes

\* A file that was made has a number and a record.
LEMMA MadeInts ==
  ASSUME SpaceTypes, NEW f \in Made
  PROVE  f \in Int /\ f # None /\ file[f] \in FileRec
BY SMTT(30) DEF SpaceTypes, Made, None

\* The file of a call is one that was made, or none.
LEMMA CallFile ==
  ASSUME SpaceInv, NEW p \in Procs
  PROVE  call[p].f \in Made \cup {None}
<1>1. call[p] \in SpaceCall /\ CallOk(call[p], dir, file, clock)
  BY SpaceOf, Zenon
<1>2. call[p].kind \in {"none", "open", "tmpfile", "rename", "path", "fd"}
  BY <1>1, SMTT(30) DEF SpaceCall
<1>3. /\ Dating(call[p]) => call[p].f \in Made
      /\ call[p].kind = "tmpfile" => call[p].f \in Made
      /\ call[p].kind = "rename" => call[p].f \in Made
      /\ call[p].pc = "getxattr" => call[p].f \in Made
  BY <1>1, Zenon DEF CallOk, DatesNew, HidesTmp, HasBoth, AsksOne, Made
<1>4. /\ call[p].kind \in {"path", "fd"} => call[p].pc = "getxattr"
      /\ call[p].kind \in {"none", "open"} /\ ~Dating(call[p]) => call[p].f = None
  BY <1>1, Zenon DEF CallOk, CallKinds
<1> QED BY <1>2, <1>3, <1>4, Zenon

\* Such a step leaves the calls of the others right.
LEMMA OtherOk ==
  ASSUME SpaceInv, NamesApart, NEW p \in Procs, NEW q \in Procs, p # q,
         NEW e, Goes(p, e)
  PROVE  CallOk(call'[q], dir', file', clock)
<1> DEFINE c == call[q]
           g == call'[q]
<1>1. SpaceTypes /\ c \in SpaceCall
  BY SpaceOf, Zenon
<1>2. CallKinds(c) /\ DatesNew(c, file, clock) /\ HidesTmp(c, dir, file) /\ HasBoth(c, dir, file)
      /\ AsksOne(c, dir, file)
  BY SpaceOf, Zenon DEF CallOk
<1>3. /\ g.pc = c.pc /\ g.kind = c.kind /\ g.name = c.name /\ g.to = c.to /\ g.f = c.f /\ g.ts = c.ts
      /\ ~g.rebound => ~c.rebound /\ \A n \in {c.name, c.to} \ {None} : dir'[n] = dir[n]
  BY Zenon DEF Goes, Noted
<1>4. /\ Made \subseteq DOMAIN file'
      /\ \A f \in Made : /\ file'[f].born = file[f].born /\ file[f].ctime <= file'[f].ctime
                         /\ file'[f].low <= file[f].low
                         /\ file'[f].ready = file[f].ready \/ (call[p].pc = "setxattr" /\ call[p].f = f)
  BY Zenon DEF Goes, Grown
<1>5. /\ dir' \in [Names \cup TmpNames -> DOMAIN file' \cup {None}]
      /\ \A m \in Names \cup TmpNames :
           \/ dir'[m] = dir[m] \/ dir'[m] = None \/ dir'[m] \notin Made
           \/ \E n \in Names : dir'[m] = dir[n]
  BY Zenon DEF Goes, Renamed
<1>6. Apart(call[p], c)
  BY Zenon DEF SpaceInv
<1> HIDE DEF c, g
<1>7. CallKinds(g)
  BY <1>2, <1>3, Zenon DEF CallKinds, Dating
<1>8. DatesNew(g, file', clock)
  BY <1>2, <1>3, <1>4, <1>6, SMTT(30) DEF DatesNew, Dating, Apart, Made
<1>9. HidesTmp(g, dir', file')
  <2> SUFFICES ASSUME c.kind = "tmpfile" PROVE HidesTmp(g, dir', file')
    BY <1>3, Zenon DEF HidesTmp
  <2>1. /\ c.f \in Made
        /\ c.pc = "tmp" \/ ((Dating(c) \/ c.pc = "unlink tmp") /\ c.name \in TmpNames)
        /\ \A m \in Names \cup TmpNames : dir[m] = c.f => c.pc # "tmp" /\ m = c.name
    BY <1>1, <1>2, Zenon DEF HidesTmp, Made, SpaceTypes
  <2>2. \A n \in Names : dir[n] # c.f
    BY <2>1, Zenon DEF NamesApart, Dating
  <2>3. c.f # None
    BY <1>1, <2>1, MadeInts, Zenon
  <2>4. \A m \in Names \cup TmpNames : dir'[m] = c.f => dir[m] = c.f
    BY <1>5, <2>1, <2>2, <2>3, Zenon
  <2>5. \A m \in DOMAIN dir' : dir'[m] = c.f => c.pc # "tmp" /\ m = c.name
    BY <1>5, <2>1, <2>4, Zenon
  <2> QED BY <1>3, <1>4, <2>1, <2>5, Zenon DEF HidesTmp, Dating
<1>10. HasBoth(g, dir', file')
  <2> SUFFICES ASSUME c.kind = "rename" PROVE HasBoth(g, dir', file')
    BY <1>3, Zenon DEF HasBoth
  <2>1. /\ c.pc = "unlink" /\ c.name \in Names /\ c.to \in Names /\ c.name # c.to /\ c.f \in Made
        /\ ~c.rebound => dir[c.name] = c.f /\ dir[c.to] = c.f
    BY <1>2, Zenon DEF HasBoth, Made
  <2>2. ~g.rebound => dir'[c.name] = c.f /\ dir'[c.to] = c.f
    BY <1>3, <2>1, Zenon DEF NamesApart
  <2> QED BY <1>3, <1>4, <2>1, <2>2, Zenon DEF HasBoth
<1>11. AsksOne(g, dir', file')
  <2> SUFFICES ASSUME c.pc = "getxattr" PROVE AsksOne(g, dir', file')
    BY <1>3, Zenon DEF AsksOne
  <2>1. /\ c.name \in Names /\ c.f \in Made /\ (~c.rebound => dir[c.name] = c.f)
        /\ file[c.f].low <= c.ts /\ c.ts <= file[c.f].ctime
    BY <1>2, Zenon DEF AsksOne, Made
  <2>2. ~g.rebound => dir'[c.name] = c.f
    BY <1>3, <2>1, Zenon DEF NamesApart
  <2>3. /\ c.ts \in Int /\ file[c.f].ctime \in Int /\ file'[c.f].ctime \in Int
        /\ file[c.f].low \in Int /\ file'[c.f].low \in Int
    <3>1. file' \in Seq(FileRec) /\ c.f \in DOMAIN file'
      BY <1>4, <2>1, Zenon DEF Goes, Grown
    <3>2. file'[c.f] \in FileRec
      BY <3>1, SMTT(30)
    <3>3. file[c.f] \in FileRec
      BY <1>1, <2>1, MadeInts, Zenon
    <3> QED BY <1>1, <3>2, <3>3, SMTT(30) DEF FileRec, SpaceCall
  <2>4. c.ts <= file'[c.f].ctime /\ file'[c.f].low <= c.ts
    BY <1>4, <2>1, <2>3, SMTT(30)
  <2> QED BY <1>3, <1>4, <2>1, <2>2, <2>4, Zenon DEF AsksOne
<1> QED BY <1>7, <1>8, <1>9, <1>10, <1>11, Zenon DEF CallOk, c, g

\* ... and its own file is still not theirs.
LEMMA StaysApart ==
  ASSUME SpaceInv, NamesApart, NEW p \in Procs, NEW q \in Procs, p # q,
         NEW e, Goes(p, e)
  PROVE  Apart(e, call'[q]) /\ Apart(call'[q], e)
<1> DEFINE c == call[p]
           g == call[q]
           h == call'[q]
<1>1. SpaceTypes /\ g.f \in Made \cup {None}
  BY CallFile, SpaceOf, Zenon
<1>2. h.pc = g.pc /\ h.kind = g.kind /\ h.f = g.f
  BY Zenon DEF Goes, Noted
<1>3. Apart(c, g) /\ Apart(g, c)
  BY Zenon DEF SpaceInv
<1>4. HidesTmp(g, dir, file) /\ DatesNew(g, file, clock)
  BY SpaceOf, Zenon DEF CallOk
<1>5. DatesNew(e, file', clock) /\ HidesTmp(e, dir', file') /\ SameFile(c, e)
      /\ Made \subseteq DOMAIN file'
  BY Zenon DEF Goes, CallOk, Grown
<1>6. None \notin Made /\ None \notin DOMAIN file'
  <2>1. file' \in Seq(FileRec)
    BY Zenon DEF Goes, Grown
  <2> QED BY <1>1, <2>1, SMTT(30) DEF SpaceTypes, Made, None
<1> HIDE DEF c, g, h
<1>7. g.kind = "tmpfile" => g.f \in Made /\ \A n \in Names : dir[n] # g.f
  BY <1>1, <1>4, Zenon DEF HidesTmp, Made, SpaceTypes, NamesApart, Dating
<1>8. Dating(g) => g.f \in Made
  BY <1>4, Zenon DEF DatesNew, Made
<1>9. SUFFICES ASSUME e.f = g.f
               PROVE  e.kind # "tmpfile" /\ g.kind # "tmpfile" /\ ~(Dating(e) /\ Dating(g))
  BY <1>2, Zenon DEF Apart, Dating, h
<1>10. (e.kind = "tmpfile" \/ Dating(e)) => e.f # None
  BY <1>5, <1>6, Zenon DEF DatesNew, HidesTmp
<1>11. (g.kind = "tmpfile" \/ Dating(g)) => g.f # None
  BY <1>6, <1>7, <1>8, Zenon
<1>12. CASE e.f = None
  BY <1>9, <1>10, <1>11, <1>12, Zenon
<1>13. CASE e.f = c.f /\ (e.kind = "tmpfile" => c.kind = "tmpfile") /\ (Dating(e) => Dating(c))
  BY <1>3, <1>9, <1>13, Zenon DEF Apart
<1>14. CASE e.f \notin Made
  BY <1>1, <1>9, <1>10, <1>11, <1>14, Zenon
<1>15. CASE e.kind # "tmpfile" /\ ~Dating(e) /\ \E n \in Names : e.f = dir[n]
  BY <1>7, <1>9, <1>15, Zenon
<1> QED BY <1>5, <1>12, <1>13, <1>14, <1>15, Zenon DEF SameFile

\* ... and every temporary name has its owner.
LEMMA TmpOwned ==
  ASSUME SpaceInv, NEW p \in Procs, NEW e, Goes(p, e), NEW n \in TmpNames, dir'[n] # None
  PROVE  \E q \in Procs : Owns(call'[q], n, dir'[n])
<1>1. KeepsTmp(call[p], e) /\ call'[p] = e
  BY Zenon DEF Goes
<1>2. CASE Owns(e, n, dir'[n])
  BY <1>1, <1>2, Zenon
<1>3. CASE dir'[n] = dir[n] /\ ~Owns(call[p], n, dir[n])
  <2>1. PICK q \in Procs : Owns(call[q], n, dir[n])
    BY <1>3, Zenon DEF SpaceInv
  <2>2. q # p
    BY <1>1, <1>3, <2>1, Zenon DEF Owns, KeepsTmp
  <2>3. /\ call'[q].pc = call[q].pc /\ call'[q].kind = call[q].kind
        /\ call'[q].name = call[q].name /\ call'[q].f = call[q].f
    BY <2>2, Zenon DEF Goes, Noted
  <2>4. Owns(call'[q], n, dir'[n])
    BY <1>3, <2>1, <2>3, Zenon DEF Owns
  <2> QED BY <2>4, Zenon
<1> QED BY <1>1, <1>2, <1>3, Zenon DEF KeepsTmp

\* A step of a process that takes its call on, and spares what the other calls
\* have in hand, keeps the invariant.
LEMMA SpaceGoes ==
  ASSUME SpaceInv, NamesApart, NEW p \in Procs, NEW e, Goes(p, e)
  PROVE  SpaceInv'
<1>1. /\ e \in SpaceCall /\ call' \in [Procs -> SpaceCall] /\ call'[p] = e
      /\ clock' = clock /\ CallOk(e, dir', file', clock)
      /\ file' \in Seq(FileRec) /\ \A f \in DOMAIN file' : FileOk(file'[f], clock)
      /\ dir' \in [Names \cup TmpNames -> DOMAIN file' \cup {None}]
  BY Zenon DEF Goes, Grown, Renamed
<1>2. SpaceTypes'
  BY <1>1, Zenon DEF SpaceInv, SpaceTypes, Made
<1>3. ASSUME NEW q \in Procs PROVE CallOk(call'[q], dir', file', clock')
  BY <1>1, OtherOk, Zenon
<1>4. ASSUME NEW q \in Procs, NEW u \in Procs, q # u PROVE Apart(call'[q], call'[u])
  <2>1. CASE q = p \/ u = p
    BY <1>1, <1>4, <2>1, StaysApart, Zenon
  <2>2. CASE q # p /\ u # p
    <3>1. /\ call'[q].pc = call[q].pc /\ call'[q].kind = call[q].kind /\ call'[q].f = call[q].f
          /\ call'[u].pc = call[u].pc /\ call'[u].kind = call[u].kind /\ call'[u].f = call[u].f
      BY <2>2, Zenon DEF Goes, Noted
    <3>2. Apart(call[q], call[u])
      BY <1>4, Zenon DEF SpaceInv
    <3> QED BY <3>1, <3>2, Zenon DEF Apart, Dating
  <2> QED BY <2>1, <2>2, Zenon
<1>5. \A n \in TmpNames : dir'[n] # None => \E q \in Procs : Owns(call'[q], n, dir'[n])
  BY TmpOwned, Zenon
<1>6. \A f \in Made' : FileOk(file'[f], clock')
  BY <1>1, Zenon DEF Made
<1> QED BY <1>2, <1>3, <1>4, <1>5, <1>6, Zenon DEF SpaceInv

-----------------------------------------------------------------------------
\* What Goto and Create do.
LEMMA SpaceGoto ==
  ASSUME SpaceTypes, NEW p \in Procs, NEW e \in SpaceCall, Goto(p, e)
  PROVE  /\ call' \in [Procs -> SpaceCall] /\ call'[p] = e
         /\ \A q \in Procs : q # p => Noted(call[q], call'[q])
<1>1. call'[p] = e
  BY Zenon DEF Goto
<1>2. ASSUME NEW q \in Procs, q # p PROVE Noted(call[q], call'[q])
  <2> DEFINE b == call[q].rebound \/ \E n \in {call[q].name, call[q].to} \ {None} : dir'[n] # dir[n]
  <2>1. call'[q] = [call[q] EXCEPT !.rebound = b]
    BY <1>2, Zenon DEF Goto
  <2>2. b \in BOOLEAN /\ (~b => ~call[q].rebound /\ \A n \in {call[q].name, call[q].to} \ {None} : dir'[n] = dir[n])
    BY Zenon
  <2> HIDE DEF b
  <2>3. call[q] \in SpaceCall
    BY Zenon DEF SpaceTypes
  <2>4. call'[q] \in SpaceCall
    BY <2>1, <2>2, <2>3, Zenon DEF SpaceCall
  <2>5. /\ call'[q].pc = call[q].pc /\ call'[q].kind = call[q].kind /\ call'[q].name = call[q].name
        /\ call'[q].to = call[q].to /\ call'[q].f = call[q].f /\ call'[q].ts = call[q].ts
        /\ call'[q].rebound = b
    BY <2>1, <2>3, SMTT(30) DEF SpaceCall
  <2> QED BY <2>2, <2>4, <2>5, Zenon DEF Noted
<1>3. call' = [q \in Procs |-> call'[q]]
  BY Zenon DEF Goto
<1>4. \A q \in Procs : call'[q] \in SpaceCall
  BY <1>1, <1>2, Zenon DEF Noted
<1>5. call' \in [Procs -> SpaceCall]
  BY <1>3, <1>4, Zenon
<1> QED BY <1>1, <1>2, <1>5, Zenon

\* A step that changes neither the calls nor the directory disturbs nobody's
\* call.
LEMMA SpaceStays ==
  ASSUME SpaceTypes, NEW p \in Procs, call' = call, dir' = dir
  PROVE  /\ call' \in [Procs -> SpaceCall] /\ call'[p] = call[p]
         /\ \A q \in Procs : q # p => Noted(call[q], call'[q])
BY Zenon DEF SpaceTypes, Noted

\* A step that leaves the files alone keeps them in order.
LEMMA NothingGrown ==
  ASSUME SpaceInv, NEW c, file' = file
  PROVE  Grown(c)
<1>1. \A f \in Made : file[f] \in FileRec
  BY MadeInts, Zenon DEF SpaceInv
<1>2. \A f \in Made : file[f].ctime <= file[f].ctime /\ file[f].low <= file[f].low
  BY <1>1, SMTT(30) DEF FileRec
<1> QED BY <1>2, Zenon DEF SpaceInv, SpaceTypes, Grown, Made

\* A step that at most removes names leaves a directory of files.
LEMMA Unlinked ==
  ASSUME SpaceInv, Made \subseteq DOMAIN file',
         \A m \in Names \cup TmpNames : dir'[m] = dir[m] \/ dir'[m] = None,
         dir' = [m \in Names \cup TmpNames |-> dir'[m]]
  PROVE  Renamed
<1>1. \A m \in Names \cup TmpNames : dir'[m] \in DOMAIN file' \cup {None}
  BY Zenon DEF SpaceInv, SpaceTypes
<1> QED BY <1>1, Zenon DEF Renamed

\* So does one that leaves the directory alone.
LEMMA DirSame ==
  ASSUME SpaceInv, dir' = dir, Made \subseteq DOMAIN file'
  PROVE  Renamed
<1>1. dir' = [m \in Names \cup TmpNames |-> dir'[m]]
  BY Zenon DEF SpaceInv, SpaceTypes
<1> QED BY <1>1, Unlinked, Zenon

\* A process outside calls, or killed, owes nothing.
LEMMA IdleOk ==
  ASSUME NEW d, NEW fl, NEW now
  PROVE  /\ Idle \in SpaceCall /\ CallOk(Idle, d, fl, now)
         /\ Idle.f = None /\ Idle.kind = "none" /\ Idle.pc = "idle"
         /\ Dead \in SpaceCall /\ CallOk(Dead, d, fl, now) /\ Dead.f = None /\ Dead.pc = "dead"
<1>2. None \in Int /\ 0 \in Nat
  BY SMTT(30) DEF None
<1>1. Idle \in SpaceCall
  BY <1>2, Zenon DEF Idle, SpaceCall, SpacePcs
<1>3. Dead \in SpaceCall
  BY <1>1, Zenon DEF Dead, SpaceCall, SpacePcs
<1>4. Idle.f = None /\ Idle.kind = "none" /\ Idle.pc = "idle"
  BY SMTT(30) DEF Idle
<1>5. Dead.f = None /\ Dead.kind = "none" /\ Dead.pc = "dead"
  BY SMTT(30) DEF Idle, Dead
<1>6. ASSUME NEW c, c.f = None, c.kind = "none", c.pc \in {"idle", "dead"} PROVE CallOk(c, d, fl, now)
  <2>1. /\ c.kind \notin {"open", "tmpfile", "rename", "path", "fd"}
        /\ c.pc \notin {"gettime", "setxattr", "plain", "unlink tmp", "tmp", "unlink", "getxattr"}
    BY <1>6, Zenon
  <2> QED BY <1>6, <2>1, Zenon DEF CallOk, CallKinds, DatesNew, HidesTmp, HasBoth, AsksOne, Dating
<1> QED BY <1>1, <1>3, <1>4, <1>5, <1>6, Zenon

\* A step of a call that has no temporary name leaves those of the others.
LEMMA OthersTmp ==
  ASSUME NEW c, NEW e, c.pc # "dead", c.kind # "tmpfile", \A n \in TmpNames : dir'[n] = dir[n]
  PROVE  KeepsTmp(c, e)
BY Zenon DEF KeepsTmp, Owns

\* A call that goes on keeps its temporary name.
LEMMA KeepsOwnTmp ==
  ASSUME NEW c, NEW e, c.pc # "dead", e.kind = c.kind, e.name = c.name, e.f = c.f,
         \A n \in TmpNames : dir'[n] = dir[n]
  PROVE  KeepsTmp(c, e)
BY Zenon DEF KeepsTmp, Owns

\* What a file is when it is made.
LEMMA Created ==
  ASSUME SpaceInv, NEW n \in Names \cup TmpNames, NEW r \in {None, clock}, Create(n, r), NEW c
  PROVE  /\ Grown(c) /\ Renamed
         /\ dir'[n] \notin Made /\ dir'[n] \in DOMAIN file' /\ dir'[n] \in Int
         /\ file'[dir'[n]].ready = r /\ file'[dir'[n]].born = clock
         /\ \A m \in Names \cup TmpNames : m # n => dir'[m] = dir[m]
<1> DEFINE N == Len(file) + 1
           x == [New EXCEPT !.ready = r]
<1>1. SpaceTypes
  BY Zenon DEF SpaceInv
<1>2. dir' = [dir EXCEPT ![n] = N] /\ file' = Append(file, x)
  BY Zenon DEF Create
<1>3. clock \in Nat /\ file \in Seq(FileRec)
  BY <1>1, Zenon DEF SpaceTypes
<1>4. r \in Nat \cup {None}
  BY <1>3, Zenon
<1>5. x \in FileRec
  <2>1. New \in FileRec
    BY <1>3, SMTT(30) DEF New, FileRec
  <2> QED BY <1>4, <2>1, Zenon DEF FileRec
<1>6. x.ready = r /\ x.born = clock /\ x.mtime = clock /\ x.ctime = clock /\ x.hand = None
      /\ x.btime = None /\ x.low = clock
  BY SMTT(30) DEF New
<1>7. FileOk(x, clock)
  BY <1>3, <1>6, SMTT(30) DEF FileOk
<1> HIDE DEF x
<1>8. /\ file' \in Seq(FileRec) /\ DOMAIN file' = DOMAIN file \cup {N} /\ file'[N] = x
      /\ N \in Int /\ N \notin DOMAIN file
      /\ \A f \in DOMAIN file : file'[f] = file[f]
  BY <1>2, <1>3, <1>5, SMTT(30)
<1> HIDE DEF N
<1>9. Grown(c)
  <2>1. \A f \in Made : file[f].ctime <= file[f].ctime /\ file[f].low <= file[f].low
    <3>1. \A f \in Made : file[f] \in FileRec
      BY <1>1, MadeInts, Zenon
    <3> QED BY <3>1, SMTT(30) DEF FileRec
  <2>2. \A f \in Made : FileOk(file[f], clock)
    BY Zenon DEF SpaceInv
  <2> QED BY <1>7, <1>8, <2>1, <2>2, Zenon DEF Grown, Made
<1>10. dir'[n] = N /\ \A m \in Names \cup TmpNames : m # n => dir'[m] = dir[m]
  BY <1>1, <1>2, Zenon DEF SpaceTypes
<1>11. dir' = [m \in Names \cup TmpNames |-> dir'[m]]
  BY <1>1, <1>2, Zenon DEF SpaceTypes
<1>12. \A m \in Names \cup TmpNames : dir'[m] \in DOMAIN file' \cup {None}
  BY <1>1, <1>8, <1>10, Zenon DEF SpaceTypes, Made
<1>13. Renamed
  BY <1>8, <1>10, <1>11, <1>12, Zenon DEF Renamed, Made
<1> QED BY <1>6, <1>8, <1>9, <1>10, <1>13, Zenon DEF Made

\* A call that ends, or a process that has none: it keeps no file.
LEMMA EndsFine ==
  ASSUME SpaceInv, NEW p \in Procs, Return(p), clock' = clock,
         Grown(call[p]), Renamed, KeepsTmp(call[p], Idle)
  PROVE  Goes(p, Idle)
<1>1. SpaceTypes
  BY SpaceOf, Zenon
<1>2. /\ Idle \in SpaceCall /\ CallOk(Idle, dir', file', clock) /\ Idle.f = None
  BY IdleOk, Zenon
<1>3. /\ call' \in [Procs -> SpaceCall] /\ call'[p] = Idle
      /\ \A q \in Procs : q # p => Noted(call[q], call'[q])
  BY <1>1, <1>2, SpaceGoto, Zenon DEF Return
<1>4. SameFile(call[p], Idle)
  BY <1>2, Zenon DEF SameFile
<1> QED BY <1>2, <1>3, <1>4, Zenon DEF Goes

\* A call that ends with names and files as they are.
LEMMA ReturnsSame ==
  ASSUME SpaceInv, NEW p \in Procs, Return(p), UNCHANGED <<dir, file, clock>>, KeepsTmp(call[p], Idle)
  PROVE  Goes(p, Idle)
<1>1. Grown(call[p])
  BY NothingGrown, Zenon
<1>2. Made \subseteq DOMAIN file'
  BY Zenon DEF Made
<1>3. Renamed
  BY <1>2, DirSame, Zenon
<1> QED BY <1>1, <1>3, EndsFine, Zenon

\* A process without a call.
LEMMA NoCall ==
  ASSUME SpaceInv, NEW p \in Procs, call[p] = Idle
  PROVE  /\ call[p].pc # "dead" /\ call[p].kind # "tmpfile"
BY IdleOk, SMTT(30) DEF Idle

\* open with O_CREAT makes a file that is not dated yet, or finds one.
LEMMA OpenFine ==
  ASSUME SpaceInv, NamesApart, NEW p \in Procs, NEW n \in Names, NEW excl \in BOOLEAN, Open(p, n, excl)
  PROVE  \E e : Goes(p, e)
<1>1. SpaceTypes /\ call[p] = Idle /\ clock' = clock
  BY SpaceOf, Zenon DEF Open
<1>2. call[p].pc # "dead" /\ call[p].kind # "tmpfile"
  BY <1>1, NoCall, Zenon
<1>3. CASE Create(n, None) /\ Goto(p, [Idle EXCEPT !.pc = "gettime", !.kind = "open", !.f = dir'[n]])
  <2> DEFINE e == [Idle EXCEPT !.pc = "gettime", !.kind = "open", !.f = dir'[n]]
  <2>1. /\ Grown(call[p]) /\ Renamed
        /\ dir'[n] \notin Made /\ dir'[n] \in DOMAIN file' /\ dir'[n] \in Int
        /\ file'[dir'[n]].ready = None
        /\ \A m \in Names \cup TmpNames : m # n => dir'[m] = dir[m]
    BY <1>3, Created, Zenon
  <2>2. e \in SpaceCall
    BY <2>1, IdleOk, Zenon DEF SpaceCall, SpacePcs
  <2>3. e.pc = "gettime" /\ e.kind = "open" /\ e.f = dir'[n]
    BY SMTT(30) DEF Idle
  <2>4. Goto(p, e)
    BY <1>3, Zenon
  <2> HIDE DEF e
  <2>5. /\ call' \in [Procs -> SpaceCall] /\ call'[p] = e
        /\ \A q \in Procs : q # p => Noted(call[q], call'[q])
    BY <1>1, <2>2, <2>4, SpaceGoto, Zenon
  <2>6. SameFile(call[p], e)
    BY <2>1, <2>3, Zenon DEF SameFile
  <2>7. KeepsTmp(call[p], e)
    <3>1. \A m \in TmpNames : dir'[m] = dir[m]
      BY <2>1, Zenon DEF NamesApart
    <3> QED BY <1>2, <3>1, OthersTmp, Zenon
  <2>8. CallOk(e, dir', file', clock)
    BY <2>1, <2>3, SMTT(30) DEF CallOk, CallKinds, DatesNew, HidesTmp, HasBoth, AsksOne, Dating
  <2> QED BY <1>1, <2>1, <2>2, <2>5, <2>6, <2>7, <2>8, Zenon DEF Goes
<1>4. ASSUME UNCHANGED <<dir, file>>
      PROVE  \A e \in SpaceCall : /\ Grown(call[p]) /\ Renamed /\ KeepsTmp(call[p], e)
  BY <1>2, <1>4, NothingGrown, DirSame, OthersTmp, Zenon DEF Made
<1>5. CASE UNCHANGED <<dir, file>> /\ Return(p)
  <2>1. KeepsTmp(call[p], Idle)
    BY <1>4, <1>5, IdleOk, Zenon
  <2>2. Goes(p, Idle)
    BY <1>1, <1>5, <2>1, ReturnsSame, Zenon
  <2> QED BY <2>2, Zenon
<1>6. CASE UNCHANGED <<dir, file>> /\ Goto(p, [Idle EXCEPT !.pc = "plain", !.kind = "open", !.name = n])
  <2> DEFINE e == [Idle EXCEPT !.pc = "plain", !.kind = "open", !.name = n]
  <2>2. e \in SpaceCall
    BY IdleOk, Zenon DEF SpaceCall, SpacePcs
  <2>3. e.pc = "plain" /\ e.kind = "open" /\ e.f = None /\ e.name = n
    BY SMTT(30) DEF Idle
  <2>4. Goto(p, e)
    BY <1>6, Zenon
  <2> HIDE DEF e
  <2>5. /\ call' \in [Procs -> SpaceCall] /\ call'[p] = e
        /\ \A q \in Procs : q # p => Noted(call[q], call'[q])
    BY <1>1, <2>2, <2>4, SpaceGoto, Zenon
  <2>6. SameFile(call[p], e)
    BY <2>3, Zenon DEF SameFile
  <2>8. CallOk(e, dir', file', clock)
    BY <2>3, SMTT(30) DEF CallOk, CallKinds, DatesNew, HidesTmp, HasBoth, AsksOne, Dating
  <2>9. Grown(call[p]) /\ Renamed /\ KeepsTmp(call[p], e)
    BY <1>4, <1>6, <2>2, Zenon
  <2> QED BY <1>1, <2>2, <2>5, <2>6, <2>8, <2>9, Zenon DEF Goes
<1> QED BY <1>3, <1>5, <1>6, Zenon DEF Open

\* The second openat, without O_EXCL, when the file is there (open.c).
LEMMA OpenPlainFine ==
  ASSUME SpaceInv, NamesApart, NEW p \in Procs, OpenPlain(p)
  PROVE  \E e : Goes(p, e)
<1> DEFINE n == call[p].name
<1>1. SpaceTypes /\ CallKinds(call[p]) /\ HidesTmp(call[p], dir, file)
  BY SpaceOf, Zenon DEF CallOk
<1>2. /\ call[p].pc = "plain" /\ Return(p) /\ clock' = clock
      /\ Create(n, clock) \/ UNCHANGED <<dir, file>>
  BY Zenon DEF OpenPlain
<1>3. n \in Names /\ call[p].pc # "dead" /\ call[p].kind # "tmpfile"
  BY <1>1, <1>2, SMTT(30) DEF CallKinds, HidesTmp, Dating
<1>4. CASE Create(n, clock)
  <2>1. /\ Grown(call[p]) /\ Renamed
        /\ \A m \in Names \cup TmpNames : m # n => dir'[m] = dir[m]
    <3>1. clock \in {None, clock} /\ n \in Names \cup TmpNames
      BY <1>3, Zenon
    <3> HIDE DEF n
    <3> QED BY <1>4, <3>1, Created, Zenon
  <2>2. \A m \in TmpNames : dir'[m] = dir[m]
    BY <1>3, <2>1, Zenon DEF NamesApart
  <2>3. KeepsTmp(call[p], Idle)
    BY <1>3, <2>2, OthersTmp, Zenon
  <2>4. Goes(p, Idle)
    BY <1>2, <2>1, <2>3, EndsFine, Zenon
  <2> QED BY <2>4, Zenon
<1>5. CASE UNCHANGED <<dir, file>>
  <2>3. KeepsTmp(call[p], Idle)
    BY <1>3, <1>5, OthersTmp, Zenon
  <2>4. Goes(p, Idle)
    BY <1>2, <1>5, <2>3, ReturnsSame, Zenon
  <2> QED BY <2>4, Zenon
<1> QED BY <1>2, <1>4, <1>5, Zenon

\* A call that goes on, with names and files as they are.
LEMMA MovesSame ==
  ASSUME SpaceInv, NEW p \in Procs, NEW e \in SpaceCall, Goto(p, e), UNCHANGED <<dir, file, clock>>,
         SameFile(call[p], e), KeepsTmp(call[p], e), CallOk(e, dir, file, clock)
  PROVE  Goes(p, e)
<1>1. /\ call' \in [Procs -> SpaceCall] /\ call'[p] = e
      /\ \A q \in Procs : q # p => Noted(call[q], call'[q])
  BY SpaceOf, SpaceGoto, Zenon
<1>2. Grown(call[p])
  BY NothingGrown, Zenon
<1>3. Made \subseteq DOMAIN file'
  BY Zenon DEF Made
<1>4. Renamed
  BY <1>3, DirSame, Zenon
<1> QED BY <1>1, <1>2, <1>4, Zenon DEF Goes

\* handle_tmpfile_at makes a file under a fresh temporary name.
LEMMA TmpfileFine ==
  ASSUME SpaceInv, NamesApart, NEW p \in Procs, NEW n \in TmpNames, Tmpfile(p, n)
  PROVE  \E e : Goes(p, e)
<1>1. SpaceTypes /\ call[p] = Idle /\ clock' = clock
  BY SpaceOf, Zenon DEF Tmpfile
<1>2. call[p].pc # "dead" /\ call[p].kind # "tmpfile"
  BY <1>1, NoCall, Zenon
<1>3. CASE Create(n, None) /\ Goto(p, [Idle EXCEPT !.pc = "gettime", !.kind = "tmpfile", !.name = n, !.f = dir'[n]])
  <2> DEFINE e == [Idle EXCEPT !.pc = "gettime", !.kind = "tmpfile", !.name = n, !.f = dir'[n]]
  <2>1. /\ Grown(call[p]) /\ Renamed
        /\ dir'[n] \notin Made /\ dir'[n] \in DOMAIN file' /\ dir'[n] \in Int
        /\ file'[dir'[n]].ready = None
        /\ \A m \in Names \cup TmpNames : m # n => dir'[m] = dir[m]
    BY <1>3, Created, Zenon
  <2>2. e \in SpaceCall
    BY <2>1, IdleOk, Zenon DEF SpaceCall, SpacePcs
  <2>3. e.pc = "gettime" /\ e.kind = "tmpfile" /\ e.f = dir'[n] /\ e.name = n
    BY SMTT(30) DEF Idle
  <2>4. Goto(p, e)
    BY <1>3, Zenon
  <2> HIDE DEF e
  <2>5. /\ call' \in [Procs -> SpaceCall] /\ call'[p] = e
        /\ \A q \in Procs : q # p => Noted(call[q], call'[q])
    BY <1>1, <2>2, <2>4, SpaceGoto, Zenon
  <2>6. SameFile(call[p], e)
    BY <2>1, <2>3, Zenon DEF SameFile
  <2>7. KeepsTmp(call[p], e)
    BY <1>2, <2>1, <2>3, Zenon DEF KeepsTmp, Owns
  <2>8. dir'[n] # None
    <3>1. file' \in Seq(FileRec)
      BY <2>1, Zenon DEF Grown
    <3> QED BY <2>1, <3>1, SMTT(30) DEF None
  <2>9. \A m \in DOMAIN dir' : dir'[m] = e.f => m = n
    <3>1. \A m \in Names \cup TmpNames : dir[m] \in Made \cup {None}
      BY <1>1, Zenon DEF SpaceTypes
    <3>2. DOMAIN dir' = Names \cup TmpNames
      BY <2>1, Zenon DEF Renamed
    <3> QED BY <2>1, <2>3, <2>8, <3>1, <3>2, Zenon
  <2>10. HidesTmp(e, dir', file') /\ DatesNew(e, file', clock)
    BY <2>1, <2>3, <2>9, Zenon DEF HidesTmp, DatesNew, Dating
  <2>11. CallOk(e, dir', file', clock)
    BY <2>3, <2>10, Zenon DEF CallOk, CallKinds, HasBoth, AsksOne
  <2> QED BY <1>1, <2>1, <2>2, <2>5, <2>6, <2>7, <2>11, Zenon DEF Goes
<1>5. CASE UNCHANGED <<dir, file>> /\ Return(p)
  <2>1. KeepsTmp(call[p], Idle)
    BY <1>2, <1>5, OthersTmp, Zenon
  <2>2. Goes(p, Idle)
    BY <1>1, <1>5, <2>1, ReturnsSame, Zenon
  <2> QED BY <2>2, Zenon
<1> QED BY <1>3, <1>5, Zenon DEF Tmpfile

\* The temporary name goes, and with it the last name of the file.
LEMMA UnlinkTmpFine ==
  ASSUME SpaceInv, NamesApart, NEW p \in Procs, UnlinkTmp(p)
  PROVE  \E e : Goes(p, e)
<1> DEFINE c == call[p]
           e == [Idle EXCEPT !.pc = "tmp", !.kind = "tmpfile", !.f = c.f]
<1>1. SpaceTypes /\ c \in SpaceCall /\ CallKinds(c) /\ HidesTmp(c, dir, file)
  BY SpaceOf, Zenon DEF CallOk
<1>2. c.pc = "unlink tmp" /\ dir' = [dir EXCEPT ![c.name] = None] /\ Goto(p, e)
      /\ UNCHANGED <<file, clock>>
  BY Zenon DEF UnlinkTmp
<1>3. /\ c.kind = "tmpfile" /\ c.f \in Made /\ c.name \in TmpNames /\ c.pc # "dead"
      /\ \A m \in DOMAIN dir : dir[m] = c.f => m = c.name
  BY <1>1, <1>2, Zenon DEF CallKinds, HidesTmp, Dating, Made
<1>4. c.f \in Int /\ c.f # None
  BY <1>1, <1>3, MadeInts, Zenon
<1>5. e \in SpaceCall
  BY <1>4, IdleOk, Zenon DEF SpaceCall, SpacePcs
<1>6. e.pc = "tmp" /\ e.kind = "tmpfile" /\ e.f = c.f
  BY SMTT(30) DEF Idle
<1> HIDE DEF e, c
<1>7. /\ call' \in [Procs -> SpaceCall] /\ call'[p] = e
      /\ \A q \in Procs : q # p => Noted(call[q], call'[q])
  BY <1>1, <1>2, <1>5, SpaceGoto, Zenon
<1>8. /\ dir' = [m \in Names \cup TmpNames |-> dir'[m]] /\ DOMAIN dir' = DOMAIN dir
      /\ dir'[c.name] = None
      /\ \A m \in DOMAIN dir : m # c.name => dir'[m] = dir[m]
      /\ DOMAIN dir = Names \cup TmpNames
  BY <1>1, <1>2, <1>3, Zenon DEF SpaceTypes
<1>9. Grown(c)
  BY <1>2, NothingGrown, Zenon
<1>10. Renamed
  <2>1. Made \subseteq DOMAIN file'
    BY <1>2, Zenon DEF Made
  <2>2. \A m \in Names \cup TmpNames : dir'[m] = dir[m] \/ dir'[m] = None
    BY <1>8, Zenon
  <2> QED BY <1>8, <2>1, <2>2, Unlinked, Zenon
<1>11. SameFile(c, e)
  BY <1>3, <1>6, Zenon DEF SameFile, Dating
<1>12. KeepsTmp(c, e)
  BY <1>3, <1>8, Zenon DEF KeepsTmp, Owns
<1>13. HidesTmp(e, dir', file')
  BY <1>2, <1>3, <1>4, <1>6, <1>8, Zenon DEF HidesTmp, Made
<1>14. CallOk(e, dir', file', clock)
  BY <1>6, <1>13, Zenon DEF CallOk, CallKinds, DatesNew, HasBoth, AsksOne, Dating
<1> QED BY <1>2, <1>5, <1>7, <1>9, <1>10, <1>11, <1>12, <1>14, Zenon DEF Goes, c

\* The application closes the unnamed file.
LEMMA CloseTmpFine ==
  ASSUME SpaceInv, NEW p \in Procs, CloseTmp(p)
  PROVE  \E e : Goes(p, e)
<1>1. SpaceTypes /\ CallKinds(call[p]) /\ HidesTmp(call[p], dir, file)
  BY SpaceOf, Zenon DEF CallOk
<1>2. call[p].pc = "tmp" /\ UNCHANGED <<dir, file, clock>> /\ Return(p)
  BY Zenon DEF CloseTmp
<1>3. KeepsTmp(call[p], Idle)
  BY <1>1, <1>2, Zenon DEF CallKinds, HidesTmp, KeepsTmp, Owns, SpaceTypes
<1>4. Goes(p, Idle)
  BY <1>2, <1>3, ReturnsSame, Zenon
<1> QED BY <1>4, Zenon

\* record_btime_now reads the clock, after the file was made.
LEMMA GetTimeFine ==
  ASSUME SpaceInv, NEW p \in Procs, GetTime(p)
  PROVE  \E e : Goes(p, e)
<1> DEFINE c == call[p]
           e == [c EXCEPT !.pc = "setxattr", !.ts = clock]
<1>1. /\ SpaceTypes /\ c \in SpaceCall
      /\ CallKinds(c) /\ DatesNew(c, file, clock) /\ HidesTmp(c, dir, file)
      /\ HasBoth(c, dir, file)
  BY SpaceOf, Zenon DEF CallOk
<1>2. c.pc = "gettime" /\ Goto(p, e) /\ UNCHANGED <<dir, file, clock>>
  BY Zenon DEF GetTime
<1>3. c.kind \in {"open", "tmpfile"} /\ c.f \in Made /\ file[c.f].ready = None
  BY <1>1, <1>2, Zenon DEF DatesNew, Dating, Made
<1>4. file[c.f] \in FileRec /\ clock \in Nat
  BY <1>1, <1>3, MadeInts, Zenon DEF SpaceTypes
<1>5. e \in SpaceCall
  BY <1>1, <1>4, Zenon DEF SpaceCall, SpacePcs
<1>6. e.pc = "setxattr" /\ e.ts = clock /\ e.kind = c.kind /\ e.f = c.f /\ e.name = c.name
  BY <1>1, SMTT(30) DEF SpaceCall
<1> HIDE DEF e, c
<1>7. file[c.f].born <= clock /\ clock <= clock
  <2>1. FileOk(file[c.f], clock)
    BY <1>3, Zenon DEF SpaceInv
  <2> QED BY <1>4, <2>1, SMTT(30) DEF FileOk, FileRec
<1>8. SameFile(c, e)
  BY <1>2, <1>6, Zenon DEF SameFile, Dating
<1>9. KeepsTmp(c, e)
  BY <1>2, <1>6, Zenon DEF KeepsTmp, Owns
<1>10. DatesNew(e, file, clock)
  BY <1>3, <1>6, <1>7, Zenon DEF DatesNew, Made
<1>11. HidesTmp(e, dir, file)
  BY <1>1, <1>2, <1>6, Zenon DEF HidesTmp, Dating
<1>12. CallOk(e, dir, file, clock)
  BY <1>3, <1>6, <1>10, <1>11, Zenon DEF CallOk, CallKinds, HasBoth, AsksOne, Dating
<1>13. Goes(p, e)
  BY <1>2, <1>5, <1>8, <1>9, <1>12, MovesSame, Zenon DEF c
<1> QED BY <1>13, Zenon

\* What happens to a file that a step of call c changes.
LEMMA Updated ==
  ASSUME SpaceInv, NEW c, NEW f \in Made, NEW x \in FileRec, file' = [file EXCEPT ![f] = x],
         FileOk(x, clock), x.born = file[f].born, file[f].ctime <= x.ctime,
         x.low <= file[f].low,
         x.ready = file[f].ready \/ (c.pc = "setxattr" /\ c.f = f)
  PROVE  Grown(c) /\ DOMAIN file' = Made /\ file'[f] = x
<1>1. SpaceTypes /\ file \in Seq(FileRec)
  BY Zenon DEF SpaceInv, SpaceTypes
<1>2. file' \in Seq(FileRec) /\ DOMAIN file' = Made
  BY <1>1, SMTT(30) DEF Made
<1>3. file'[f] = x /\ \A g \in Made : g # f => file'[g] = file[g]
  BY Zenon DEF Made
<1>4. \A g \in Made : file[g].ctime <= file[g].ctime /\ file[g].low <= file[g].low
  <2>1. \A g \in Made : file[g] \in FileRec
    BY <1>1, MadeInts, Zenon
  <2> QED BY <2>1, SMTT(30) DEF FileRec
<1>5. \A g \in Made : FileOk(file[g], clock)
  BY Zenon DEF SpaceInv
<1> QED BY <1>2, <1>3, <1>4, <1>5, Zenon DEF Grown

\* record_btime_now sets the attribute, unless there is one (XATTR_CREATE).
LEMMA SetXattrFine ==
  ASSUME SpaceInv, NEW p \in Procs, SetXattr(p)
  PROVE  \E e : Goes(p, e)
<1> DEFINE c == call[p]
           F == c.f
           y == file[F]
           e == [c EXCEPT !.pc = "unlink tmp", !.ts = 0]
<1>1. /\ SpaceTypes /\ c \in SpaceCall
      /\ DatesNew(c, file, clock) /\ HidesTmp(c, dir, file)
  BY SpaceOf, Zenon DEF CallOk
<1>2. c.pc = "setxattr" /\ Recorded(p) /\ UNCHANGED <<dir, clock>>
  BY Zenon DEF SetXattr
<1>3. PICK ok \in BOOLEAN :
        file' = [file EXCEPT ![F].ready = IF @ = None THEN clock ELSE @,
                             ![F].btime = IF ok /\ @ = None THEN c.ts ELSE @]
  BY Zenon DEF SetXattr
<1>4. /\ c.kind \in {"open", "tmpfile"} /\ F \in Made /\ y.ready = None
      /\ y.born <= c.ts /\ c.ts <= clock
  BY <1>1, <1>2, Zenon DEF DatesNew, Dating, Made
<1>5. y \in FileRec /\ clock \in Nat /\ file \in Seq(FileRec) /\ c.ts \in Nat
  BY <1>1, <1>4, MadeInts, SMTT(30) DEF SpaceTypes, SpaceCall
<1> DEFINE x == [y EXCEPT !.ready = IF @ = None THEN clock ELSE @,
                          !.btime = IF ok /\ @ = None THEN c.ts ELSE @]
<1>6. file' = [file EXCEPT ![F] = x]
  BY <1>3, <1>4, <1>5, Zenon DEF Made
<1>7. /\ x.ready = clock /\ x.btime = (IF ok /\ y.btime = None THEN c.ts ELSE y.btime)
      /\ x.born = y.born /\ x.hand = y.hand /\ x.mtime = y.mtime /\ x.ctime = y.ctime /\ x.low = y.low
  <2> DEFINE b == IF ok /\ y.btime = None THEN c.ts ELSE y.btime
  <2>1. y \in FileRec
    BY <1>5, Zenon
  <2>2. x = [y EXCEPT !.ready = clock, !.btime = b]
    BY <1>4, <2>1, Zenon DEF FileRec
  <2> HIDE DEF b, x
  <2>3. /\ x.ready = clock /\ x.btime = b
        /\ x.born = y.born /\ x.hand = y.hand /\ x.mtime = y.mtime /\ x.ctime = y.ctime /\ x.low = y.low
    BY <2>1, <2>2, SMTT(30) DEF FileRec
  <2> QED BY <2>3, Zenon DEF b
<1>8. x \in FileRec
  <2> DEFINE a == IF y.ready = None THEN clock ELSE y.ready
             b == IF ok /\ y.btime = None THEN c.ts ELSE y.btime
  <2>0. y \in FileRec /\ clock \in Nat /\ c.ts \in Nat
    BY <1>5
  <2>1. a \in Nat \cup {None} /\ b \in Nat \cup {None}
    BY <2>0, Zenon DEF FileRec
  <2>2. x = [y EXCEPT !.ready = a, !.btime = b]
    BY <1>5, Zenon DEF FileRec
  <2> HIDE DEF a, b, x
  <2> QED BY <1>5, <2>1, <2>2, Zenon DEF FileRec
<1> HIDE DEF x
<1>9. FileOk(y, clock)
  BY <1>4, Zenon DEF SpaceInv
<1>10. FileOk(x, clock)
  <2>1. y.btime \in Nat \cup {None} /\ y.hand \in {0, None}
    <3>1. y \in FileRec
      BY <1>5, Zenon
    <3> QED BY <3>1, SMTT(30) DEF FileRec
  <2> QED BY <1>4, <1>5, <1>7, <1>9, <2>1, SMTT(30) DEF FileOk, None
<1>11. y.ctime <= x.ctime /\ x.low <= y.low
  BY <1>5, <1>7, SMTT(30) DEF FileRec
<1> HIDE DEF c, y, F
<1>12. Grown(c) /\ DOMAIN file' = Made
  BY <1>2, <1>4, <1>6, <1>7, <1>8, <1>10, <1>11, Updated, Zenon DEF y, F
<1>13. Renamed
  BY <1>2, <1>12, DirSame, Zenon
<1>14. c.pc # "dead"
  BY <1>2, Zenon
<1>15. CASE c.kind = "open" /\ Return(p)
  <2>1. KeepsTmp(c, Idle)
    BY <1>2, <1>14, <1>15, OthersTmp, Zenon
  <2>2. Goes(p, Idle)
    BY <1>2, <1>12, <1>13, <1>15, <2>1, EndsFine, Zenon DEF c
  <2> QED BY <2>2, Zenon
<1>16. CASE c.kind = "tmpfile" /\ Goto(p, e)
  <2>1. e \in SpaceCall
    <3>1. 0 \in Nat
      BY SMTT(30)
    <3> QED BY <1>1, <3>1, Zenon DEF SpaceCall, SpacePcs
  <2>2. e.pc = "unlink tmp" /\ e.kind = c.kind /\ e.f = c.f /\ e.name = c.name
    BY <1>1, SMTT(30) DEF SpaceCall
  <2> HIDE DEF e
  <2>3. /\ call' \in [Procs -> SpaceCall] /\ call'[p] = e
        /\ \A q \in Procs : q # p => Noted(call[q], call'[q])
    BY <1>1, <1>16, <2>1, SpaceGoto, Zenon
  <2>4. SameFile(c, e)
    BY <1>2, <2>2, Zenon DEF SameFile, Dating
  <2>5. KeepsTmp(c, e)
    BY <1>2, <1>14, <2>2, Zenon DEF KeepsTmp, Owns
  <2>6. HidesTmp(e, dir', file')
    BY <1>1, <1>2, <1>12, <1>16, <2>2, Zenon DEF HidesTmp, Dating, Made
  <2>7. CallOk(e, dir', file', clock)
    BY <1>16, <2>2, <2>6, Zenon DEF CallOk, CallKinds, DatesNew, HasBoth, AsksOne, Dating
  <2> QED BY <1>2, <1>12, <1>13, <2>1, <2>3, <2>4, <2>5, <2>7, Zenon DEF Goes, c
<1>17. c.kind # "open" => c.kind = "tmpfile"
  BY <1>4, Zenon
<1> QED BY <1>2, <1>15, <1>16, <1>17, Zenon DEF Recorded, c

\* The link of renameat2 with RENAME_NOREPLACE (rename.c).
LEMMA LinkFine ==
  ASSUME SpaceInv, NamesApart, NEW p \in Procs, NEW n \in Names, NEW to \in Names, Link(p, n, to)
  PROVE  \E e : Goes(p, e)
<1>1. SpaceTypes /\ call[p] = Idle /\ UNCHANGED <<file, clock>>
  BY SpaceOf, Zenon DEF Link
<1>2. call[p].pc # "dead" /\ call[p].kind # "tmpfile"
  BY <1>1, NoCall, Zenon
<1> DEFINE e == [Idle EXCEPT !.pc = "unlink", !.kind = "rename", !.name = n, !.to = to, !.f = dir[n]]
<1>3. Grown(call[p]) /\ Made \subseteq DOMAIN file'
  BY <1>1, NothingGrown, Zenon DEF Made
<1>4. CASE dir[n] # None /\ dir[to] = None /\ dir' = [dir EXCEPT ![to] = dir[n]] /\ Goto(p, e)
  <2>1. dir[n] \in Made /\ dir[n] \in Int
    BY <1>1, <1>4, MadeInts, Zenon DEF SpaceTypes
  <2>2. e \in SpaceCall
    BY <2>1, IdleOk, Zenon DEF SpaceCall, SpacePcs
  <2>3. e.pc = "unlink" /\ e.kind = "rename" /\ e.name = n /\ e.to = to /\ e.f = dir[n]
    BY SMTT(30) DEF Idle
  <2>4. Goto(p, e)
    BY <1>4, Zenon
  <2> HIDE DEF e
  <2>5. /\ call' \in [Procs -> SpaceCall] /\ call'[p] = e
        /\ \A q \in Procs : q # p => Noted(call[q], call'[q])
    BY <1>1, <2>2, <2>4, SpaceGoto, Zenon
  <2>6. /\ dir'[to] = dir[n] /\ n # to /\ DOMAIN dir = Names \cup TmpNames
        /\ \A m \in Names \cup TmpNames : m # to => dir'[m] = dir[m]
        /\ dir' = [m \in Names \cup TmpNames |-> dir'[m]]
    BY <1>1, <1>4, Zenon DEF SpaceTypes
  <2>7. Renamed
    <3>1. \A m \in Names \cup TmpNames : dir'[m] \in DOMAIN file' \cup {None}
      BY <1>1, <1>3, <2>1, <2>6, Zenon DEF SpaceTypes
    <3> QED BY <2>6, <3>1, Zenon DEF Renamed
  <2>8. SameFile(call[p], e)
    BY <2>3, Zenon DEF SameFile, Dating
  <2>9. KeepsTmp(call[p], e)
    <3>1. \A m \in TmpNames : dir'[m] = dir[m]
      BY <2>6, Zenon DEF NamesApart
    <3> QED BY <1>2, <3>1, OthersTmp, Zenon
  <2>10. HasBoth(e, dir', file')
    BY <1>3, <2>1, <2>3, <2>6, Zenon DEF HasBoth
  <2>11. CallOk(e, dir', file', clock)
    BY <2>3, <2>10, Zenon DEF CallOk, CallKinds, DatesNew, HidesTmp, AsksOne, Dating
  <2> QED BY <1>1, <1>3, <2>2, <2>5, <2>7, <2>8, <2>9, <2>11, Zenon DEF Goes
<1>5. CASE UNCHANGED <<dir, call>>
  <2>1. /\ call' \in [Procs -> SpaceCall] /\ call'[p] = Idle
        /\ \A q \in Procs : q # p => Noted(call[q], call'[q])
    BY <1>1, <1>5, SpaceStays, Zenon
  <2>2. Renamed
    BY <1>3, <1>5, DirSame, Zenon
  <2>3. KeepsTmp(call[p], Idle)
    BY <1>2, <1>5, OthersTmp, Zenon
  <2>4. Idle \in SpaceCall /\ CallOk(Idle, dir', file', clock) /\ Idle.f = None
    BY IdleOk, Zenon
  <2>5. SameFile(call[p], Idle)
    BY <2>4, Zenon DEF SameFile
  <2> QED BY <1>1, <1>3, <2>1, <2>2, <2>3, <2>4, <2>5, Zenon DEF Goes
<1> QED BY <1>4, <1>5, Zenon DEF Link

\* A step that only takes names away, or moves one of Names to another.
LEMMA NamesFine ==
  ASSUME SpaceInv, NamesApart, NEW p \in Procs, Return(p), UNCHANGED <<file, clock>>,
         call[p].pc # "dead", call[p].kind # "tmpfile",
         dir' = [m \in Names \cup TmpNames |-> dir'[m]],
         \A m \in TmpNames : dir'[m] = dir[m],
         \A m \in Names : dir'[m] = None \/ \E n \in Names : dir'[m] = dir[n]
  PROVE  \E e : Goes(p, e)
<1>1. Grown(call[p]) /\ Made \subseteq DOMAIN file'
  BY NothingGrown, Zenon DEF Made
<1>2. \A m \in Names \cup TmpNames : dir'[m] \in DOMAIN file' \cup {None}
  BY <1>1, Zenon DEF SpaceInv, SpaceTypes
<1>3. Renamed
  BY <1>2, Zenon DEF Renamed
<1>4. KeepsTmp(call[p], Idle)
  BY OthersTmp, Zenon
<1>5. Goes(p, Idle)
  BY <1>1, <1>3, <1>4, EndsFine, Zenon
<1> QED BY <1>5, Zenon

\* Its unlink of the old name.
LEMMA UnlinkatFine ==
  ASSUME SpaceInv, NamesApart, NEW p \in Procs, Unlinkat(p)
  PROVE  \E e : Goes(p, e)
<1>1. SpaceTypes /\ CallKinds(call[p]) /\ HasBoth(call[p], dir, file)
  BY SpaceOf, Zenon DEF CallOk
<1>2. call[p].pc = "unlink" /\ dir' = [dir EXCEPT ![call[p].name] = None] /\ Return(p)
      /\ UNCHANGED <<file, clock>>
  BY Zenon DEF Unlinkat
<1>3. call[p].kind = "rename" /\ call[p].name \in Names /\ call[p].pc # "dead"
      /\ call[p].kind # "tmpfile"
  BY <1>1, <1>2, Zenon DEF CallKinds, HasBoth
<1>4. /\ dir' = [m \in Names \cup TmpNames |-> dir'[m]]
      /\ \A m \in Names \cup TmpNames : dir'[m] = IF m = call[p].name THEN None ELSE dir[m]
  BY <1>1, <1>2, Zenon DEF SpaceTypes
<1>5. \A m \in TmpNames : dir'[m] = dir[m]
  BY <1>3, <1>4, Zenon DEF NamesApart
<1>6. \A m \in Names : dir'[m] = None \/ \E n \in Names : dir'[m] = dir[n]
  BY <1>4, Zenon
<1> QED BY <1>2, <1>3, <1>4, <1>5, <1>6, NamesFine, Zenon

\* A plain rename by another process.
LEMMA RenameatFine ==
  ASSUME SpaceInv, NamesApart, NEW p \in Procs, NEW n \in Names, NEW to \in Names, Renameat(p, n, to)
  PROVE  \E e : Goes(p, e)
<1>1. SpaceTypes
  BY SpaceOf, Zenon
<1>2. /\ call[p] = Idle /\ dir' = [dir EXCEPT ![to] = dir[n], ![n] = None]
      /\ Return(p) /\ UNCHANGED <<file, clock>>
  BY Zenon DEF Renameat
<1>3. call[p].pc # "dead" /\ call[p].kind # "tmpfile"
  BY <1>2, NoCall, Zenon
<1>4. /\ dir' = [m \in Names \cup TmpNames |-> dir'[m]]
      /\ \A m \in Names \cup TmpNames :
           dir'[m] = IF m = n THEN None ELSE IF m = to THEN dir[n] ELSE dir[m]
  BY <1>1, <1>2, Zenon DEF SpaceTypes
<1>5. \A m \in TmpNames : dir'[m] = dir[m]
  BY <1>4, Zenon DEF NamesApart
<1>6. \A m \in Names : dir'[m] = None \/ \E k \in Names : dir'[m] = dir[k]
  BY <1>4, Zenon
<1> QED BY <1>2, <1>3, <1>4, <1>5, <1>6, NamesFine, Zenon

\* An unlink by another process.
LEMMA UnlinkFine ==
  ASSUME SpaceInv, NamesApart, NEW p \in Procs, NEW n \in Names, Unlink(p, n)
  PROVE  \E e : Goes(p, e)
<1>1. SpaceTypes
  BY SpaceOf, Zenon
<1>2. call[p] = Idle /\ dir' = [dir EXCEPT ![n] = None] /\ Return(p) /\ UNCHANGED <<file, clock>>
  BY Zenon DEF Unlink
<1>3. call[p].pc # "dead" /\ call[p].kind # "tmpfile"
  BY <1>2, NoCall, Zenon
<1>4. /\ dir' = [m \in Names \cup TmpNames |-> dir'[m]]
      /\ \A m \in Names \cup TmpNames : dir'[m] = IF m = n THEN None ELSE dir[m]
  BY <1>1, <1>2, Zenon DEF SpaceTypes
<1>5. \A m \in TmpNames : dir'[m] = dir[m]
  BY <1>4, Zenon DEF NamesApart
<1>6. \A m \in Names : dir'[m] = None \/ \E k \in Names : dir'[m] = dir[k]
  BY <1>4, Zenon
<1> QED BY <1>2, <1>3, <1>4, <1>5, <1>6, NamesFine, Zenon

\* statx reads the times of the file its path or fd leads to (statx.c).
LEMMA StatxFine ==
  ASSUME SpaceInv, NamesApart, NEW p \in Procs, NEW n \in Names, NEW by \in {"path", "fd"},
         Statx(p, n, by)
  PROVE  \E e : Goes(p, e)
<1> DEFINE f == dir[n]
           t == stx_ts_min(file[f].mtime, file[f].ctime)
           e == [Idle EXCEPT !.pc = "getxattr", !.kind = by, !.name = n, !.f = f, !.ts = t]
<1>1. SpaceTypes
  BY SpaceOf, Zenon
<1>2. call[p] = Idle /\ dir[n] # None /\ UNCHANGED <<dir, file, clock>> /\ Goto(p, e)
  BY Zenon DEF Statx
<1>3. call[p].pc # "dead" /\ call[p].kind # "tmpfile"
  BY <1>2, NoCall, Zenon
<1>4. f \in Made /\ f \in Int /\ file[f] \in FileRec
  BY <1>1, <1>2, MadeInts, Zenon DEF SpaceTypes
<1>5. FileOk(file[f], clock)
  BY <1>4, Zenon DEF SpaceInv
<1>6. t \in Nat /\ file[f].low <= t /\ t <= file[f].ctime
  BY <1>4, <1>5, SMTT(30) DEF stx_ts_min, FileRec, FileOk
<1> HIDE DEF t
<1>7. e \in SpaceCall
  BY <1>4, <1>6, IdleOk, Zenon DEF SpaceCall, SpacePcs
<1>8. e.pc = "getxattr" /\ e.kind = by /\ e.name = n /\ e.f = f /\ e.ts = t
  BY SMTT(30) DEF Idle
<1> HIDE DEF e
<1>9. SameFile(call[p], e)
  BY <1>8, Zenon DEF SameFile, Dating
<1>10. KeepsTmp(call[p], e)
  BY <1>2, <1>3, OthersTmp, Zenon
<1>11. AsksOne(e, dir, file)
  BY <1>4, <1>6, <1>8, Zenon DEF AsksOne, Made
<1>12. CallOk(e, dir, file, clock)
  BY <1>8, <1>11, Zenon DEF CallOk, CallKinds, DatesNew, HidesTmp, HasBoth, Dating
<1>13. Goes(p, e)
  BY <1>2, <1>7, <1>9, <1>10, <1>12, MovesSame, Zenon
<1> QED BY <1>13, Zenon

\* statx returns.
LEMMA StatxReturnFine ==
  ASSUME SpaceInv, NEW p \in Procs, NEW ok \in BOOLEAN, StatxReturn(p, ok)
  PROVE  \E e : Goes(p, e)
<1>1. call[p].pc = "getxattr" /\ UNCHANGED <<dir, file, clock>> /\ Return(p)
  BY Zenon DEF StatxReturn
<1>2. call[p].kind # "tmpfile" /\ call[p].pc # "dead"
  BY <1>1, SpaceOf, Zenon DEF CallOk, HidesTmp, Dating
<1>3. KeepsTmp(call[p], Idle)
  BY <1>1, <1>2, OthersTmp, Zenon
<1>4. Goes(p, Idle)
  BY <1>1, <1>3, ReturnsSame, Zenon
<1> QED BY <1>4, Zenon

\* A write or utimes, and a birth time given by hand.
LEMMA FileFine ==
  ASSUME SpaceInv, NEW p \in Procs, NEW f \in Files,
         SetByHand(p, f) \/ \E t \in 0..MaxTime : Touch(p, f, t)
  PROVE  \E e : Goes(p, e)
<1>1. SpaceTypes
  BY SpaceOf, Zenon
<1>2. call[p] = Idle /\ f \in Made /\ UNCHANGED <<dir, clock, call>>
  BY Zenon DEF Touch, SetByHand
<1>3. call[p].pc # "dead" /\ call[p].kind # "tmpfile"
  BY <1>2, NoCall, Zenon
<1> DEFINE y == file[f]
<1>4. y \in FileRec /\ clock \in Nat /\ file \in Seq(FileRec)
  BY <1>1, <1>2, MadeInts, Zenon DEF SpaceTypes
<1>5. FileOk(y, clock)
  BY <1>2, Zenon DEF SpaceInv
<1>6. Grown(call[p]) /\ DOMAIN file' = Made
  <2>1. ASSUME NEW t \in 0..MaxTime, Touch(p, f, t) PROVE Grown(call[p]) /\ DOMAIN file' = Made
    <3> DEFINE m == IF t < y.low THEN t ELSE y.low
               x == [y EXCEPT !.mtime = t, !.ctime = clock, !.low = m]
    <3>1. file' = [file EXCEPT ![f] = x]
      BY <1>2, <1>4, <2>1, Zenon DEF Touch, Made, FileRec
    <3>2. t \in Nat /\ y.low \in Nat /\ y.born \in Nat /\ y.ctime \in Nat
      BY <1>4, SMTT(30) DEF FileRec
    <3>3. m \in Nat /\ m <= t /\ m <= y.low
      BY <3>2, SMTT(30)
    <3> HIDE DEF m
    <3>4. x \in FileRec
      BY <1>4, <3>2, <3>3, Zenon DEF FileRec
    <3>5. /\ x.born = y.born /\ x.ready = y.ready /\ x.hand = y.hand /\ x.btime = y.btime
          /\ x.mtime = t /\ x.ctime = clock /\ x.low = m
      BY <1>4, SMTT(30) DEF FileRec
    <3> HIDE DEF x
    <3>6. y.low <= y.born /\ y.born <= y.ctime /\ y.ctime <= clock
      BY <1>5, Zenon DEF FileOk
    <3>7. m <= y.born /\ y.born <= clock /\ y.ctime <= clock /\ clock <= clock
      BY <1>4, <3>2, <3>3, <3>6, SMTT(30)
    <3>8. FileOk(x, clock) /\ y.ctime <= x.ctime
      BY <1>5, <3>3, <3>5, <3>7, Zenon DEF FileOk
    <3> QED BY <1>2, <3>1, <3>3, <3>4, <3>5, <3>8, Updated, Zenon
  <2>2. CASE SetByHand(p, f)
    <3> DEFINE x == [y EXCEPT !.btime = 0, !.hand = 0]
    <3>1. file' = [file EXCEPT ![f] = x]
      BY <1>2, <1>4, <2>2, Zenon DEF SetByHand, Made
    <3>2. x \in FileRec
      <4>1. 0 \in Nat
        BY SMTT(30)
      <4> QED BY <1>4, <4>1, Zenon DEF FileRec
    <3>3. /\ x.born = y.born /\ x.ready = y.ready /\ x.hand = 0 /\ x.btime = 0
          /\ x.mtime = y.mtime /\ x.ctime = y.ctime /\ x.low = y.low
      BY <1>4, SMTT(30) DEF FileRec
    <3> HIDE DEF x
    <3>4. FileOk(x, clock) /\ y.ctime <= x.ctime /\ x.low <= y.low
      BY <1>4, <1>5, <3>3, SMTT(30) DEF FileOk, FileRec, None
    <3> QED BY <1>2, <3>1, <3>2, <3>3, <3>4, Updated, Zenon
  <2> QED BY <2>1, <2>2, Zenon
<1>7. /\ call' \in [Procs -> SpaceCall] /\ call'[p] = Idle
      /\ \A q \in Procs : q # p => Noted(call[q], call'[q])
  BY <1>1, <1>2, SpaceStays, Zenon
<1>8. Renamed
  BY <1>2, <1>6, DirSame, Zenon
<1>9. KeepsTmp(call[p], Idle)
  BY <1>2, <1>3, OthersTmp, Zenon
<1>10. Idle \in SpaceCall /\ CallOk(Idle, dir', file', clock) /\ Idle.f = None
  BY IdleOk, Zenon
<1>11. SameFile(call[p], Idle)
  BY <1>10, Zenon DEF SameFile
<1> QED BY <1>2, <1>6, <1>7, <1>8, <1>9, <1>10, <1>11, Zenon DEF Goes

\* A process is killed in the middle of a call: the names it made stay.
LEMMA KillFine ==
  ASSUME SpaceInv, NEW p \in Procs, Kill(p)
  PROVE  \E e : Goes(p, e)
<1>1. call[p].pc # "dead" /\ UNCHANGED <<dir, file, clock>> /\ Goto(p, Dead)
  BY Zenon DEF Kill
<1>2. Dead \in SpaceCall /\ CallOk(Dead, dir, file, clock) /\ Dead.f = None /\ Dead.pc = "dead"
  BY IdleOk, Zenon
<1>3. SameFile(call[p], Dead) /\ KeepsTmp(call[p], Dead)
  BY <1>1, <1>2, Zenon DEF SameFile, KeepsTmp, Owns
<1>4. Goes(p, Dead)
  BY <1>1, <1>2, <1>3, MovesSame, Zenon
<1> QED BY <1>4, Zenon

\* Time passes.
LEMMA TickFine ==
  ASSUME SpaceInv, Tick
  PROVE  SpaceInv'
<1>1. clock' = clock + 1 /\ dir' = dir /\ file' = file /\ call' = call /\ clock \in Nat
  BY Zenon DEF Tick, SpaceInv, SpaceTypes
<1>2. ASSUME NEW f \in Made PROVE FileOk(file[f], clock + 1)
  <2>1. file[f] \in FileRec /\ FileOk(file[f], clock)
    BY MadeInts, Zenon DEF SpaceInv
  <2> QED BY <1>1, <2>1, SMTT(30) DEF FileOk, FileRec
<1>3. ASSUME NEW p \in Procs PROVE CallOk(call[p], dir, file, clock + 1)
  <2>1. call[p] \in SpaceCall /\ CallOk(call[p], dir, file, clock)
    BY SpaceOf, Zenon
  <2>2. call[p].ts <= clock => call[p].ts <= clock + 1
    BY <1>1, <2>1, SMTT(30) DEF SpaceCall
  <2>3. DatesNew(call[p], file, clock + 1)
    BY <2>1, <2>2, Zenon DEF CallOk, DatesNew
  <2> QED BY <2>1, <2>3, Zenon DEF CallOk
<1>4. clock' \in Nat
  BY <1>1, SMTT(30)
<1>5. SpaceTypes'
  BY <1>1, <1>4, Zenon DEF SpaceInv, SpaceTypes, Made
<1> QED BY <1>1, <1>2, <1>3, <1>5, Zenon DEF SpaceInv, Made

\* Every step of a process.
LEMMA SpaceMoves ==
  ASSUME SpaceInv, NamesApart, NEW p \in Procs, Calls(p) \/ World(p)
  PROVE  \E e : Goes(p, e)
<1>1. CASE Calls(p)
  <2>1. CASE \E n \in Names, excl \in BOOLEAN : Open(p, n, excl)
    BY <2>1, OpenFine, Zenon
  <2>2. CASE \E n \in TmpNames : Tmpfile(p, n)
    BY <2>2, TmpfileFine, Zenon
  <2>3. CASE \E n, to \in Names : Link(p, n, to) \/ Renameat(p, n, to)
    BY <2>3, LinkFine, RenameatFine, Zenon
  <2>4. CASE \E n \in Names, by \in {"path", "fd"} : Statx(p, n, by)
    BY <2>4, StatxFine, Zenon
  <2>5. CASE OpenPlain(p) \/ GetTime(p) \/ SetXattr(p)
    BY <2>5, OpenPlainFine, GetTimeFine, SetXattrFine, Zenon
  <2>6. CASE UnlinkTmp(p) \/ CloseTmp(p)
    BY <2>6, UnlinkTmpFine, CloseTmpFine, Zenon
  <2>7. CASE Unlinkat(p) \/ \E ok \in BOOLEAN : StatxReturn(p, ok)
    BY <2>7, UnlinkatFine, StatxReturnFine, Zenon
  <2> QED BY <1>1, <2>1, <2>2, <2>3, <2>4, <2>5, <2>6, <2>7, Zenon DEF Calls
<1>2. CASE World(p)
  <2>1. CASE \E n \in Names : Unlink(p, n)
    BY <2>1, UnlinkFine, Zenon
  <2>2. CASE \E f \in Files : SetByHand(p, f) \/ \E t \in 0..MaxTime : Touch(p, f, t)
    BY <2>2, FileFine, Zenon
  <2>3. CASE Kill(p)
    BY <2>3, KillFine, Zenon
  <2> QED BY <1>2, <2>1, <2>2, <2>3, Zenon DEF World
<1> QED BY <1>1, <1>2, Zenon

\* Every step keeps the invariant.
LEMMA SpaceStep ==
  ASSUME SpaceInv, NamesApart, [Next]_vars
  PROVE  SpaceInv'
<1>1. CASE UNCHANGED vars
  <2>1. dir' = dir /\ file' = file /\ clock' = clock /\ call' = call
    BY <1>1, Zenon DEF vars
  <2> QED BY <2>1, Zenon DEF SpaceInv, SpaceTypes, Made
<1>2. CASE Tick
  BY <1>2, TickFine, Zenon
<1>3. ASSUME NEW p \in Procs, Calls(p) \/ World(p) PROVE SpaceInv'
  BY <1>3, SpaceMoves, SpaceGoes, Zenon
<1> QED BY <1>1, <1>2, <1>3, Zenon DEF Next

\* It holds at first.
LEMMA SpaceInit ==
  ASSUME Init, NamesApart
  PROVE  SpaceInv
<1>1. /\ dir = [n \in Names \cup TmpNames |-> None] /\ file = <<>> /\ clock = 0
      /\ call = [p \in Procs |-> Idle]
  BY Zenon DEF Init
<1>2. file \in Seq(FileRec) /\ Made = {} /\ clock \in Nat
  BY <1>1, SMTT(30) DEF Made
<1>3. \A p \in Procs : call[p] = Idle
  BY <1>1, Zenon
<1>4. Idle \in SpaceCall /\ CallOk(Idle, dir, file, clock) /\ Idle.kind = "none" /\ Idle.pc = "idle"
  BY IdleOk, Zenon
<1>5. Apart(Idle, Idle)
  BY <1>4, Zenon DEF Apart, Dating
<1>6. SpaceTypes
  BY <1>1, <1>2, <1>4, Zenon DEF SpaceTypes
<1>7. \A n \in TmpNames : dir[n] = None
  BY <1>1, Zenon
<1> QED BY <1>2, <1>3, <1>4, <1>5, <1>6, <1>7, Zenon DEF SpaceInv

\* It says that temporary files are private and birth times true.
LEMMA SpaceSafe ==
  ASSUME SpaceInv, NamesApart
  PROVE  TmpfilePrivate /\ BirthRecorded
<1>1. \A p, q \in Procs : p # q /\ call[p].kind = "tmpfile" => call[p].f # call[q].f
  BY Zenon DEF SpaceInv, Apart
<1>2. \A p \in Procs : call[p].pc = "tmp" => NamesOf(call[p].f) = {}
  <2> SUFFICES ASSUME NEW p \in Procs, call[p].pc = "tmp" PROVE NamesOf(call[p].f) = {}
    OBVIOUS
  <2>1. CallKinds(call[p]) /\ HidesTmp(call[p], dir, file)
    BY SpaceOf, Zenon DEF CallOk
  <2>2. \A m \in DOMAIN dir : dir[m] # call[p].f
    BY <2>1, Zenon DEF CallKinds, HidesTmp
  <2> QED BY <2>2, Zenon DEF NamesOf
<1>3. \A n \in TmpNames : dir[n] # None =>
       \/ \E p \in Procs : call[p].pc = "dead"
       \/ \E p \in Procs : call[p].kind = "tmpfile" /\ call[p].name = n /\ call[p].f = dir[n]
  BY Zenon DEF SpaceInv, Owns
<1>4. TmpfilePrivate
  BY <1>1, <1>2, <1>3, Zenon DEF TmpfilePrivate
<1>5. BirthRecorded
  BY Zenon DEF SpaceInv, BirthRecorded, FileOk
<1> QED BY <1>4, <1>5, Zenon

\* The second half of a rename is its only step that touches a name.
LEMMA RenameEnds ==
  ASSUME SpaceInv, NEW p \in Procs, call[p].kind = "rename", Calls(p) \/ World(p)
  PROVE  Unlinkat(p) \/ dir' = dir
<1>1. call[p].pc = "unlink"
  BY SpaceOf, Zenon DEF CallOk, HasBoth
<1>2. call[p] # Idle
  BY IdleOk, Zenon
<1>3. CASE Calls(p)
  BY <1>1, <1>2, <1>3, Zenon
     DEF Calls, Open, Tmpfile, Link, Renameat, Statx, OpenPlain, GetTime, SetXattr, UnlinkTmp, CloseTmp,
         StatxReturn
<1>4. CASE World(p)
  BY <1>1, <1>2, <1>4, Zenon DEF World, Unlink, Touch, SetByHand, Kill
<1> QED BY <1>3, <1>4, Zenon

\* The step that ends a renameat2 leaves every file a name that had one,
\* unless another process has rebound one of its two names.
LEMMA LastNameStep ==
  ASSUME SpaceInv, NamesApart, Next
  PROVE  LastNameKept
<1> SUFFICES ASSUME NEW p \in Procs, call[p].kind = "rename", call'[p].kind # "rename",
                    ~call[p].rebound,
                    NEW f \in Made, NamesOf(f) # {}
             PROVE  NamesOf(f)' # {}
  BY Zenon DEF LastNameKept
<1>1. SpaceTypes /\ HasBoth(call[p], dir, file)
  BY SpaceOf, Zenon DEF CallOk
<1>2. /\ call[p].name \in Names /\ call[p].to \in Names /\ call[p].name # call[p].to
      /\ dir[call[p].name] = call[p].f /\ dir[call[p].to] = call[p].f
  BY <1>1, Zenon DEF HasBoth
<1>3. Unlinkat(p) \/ dir' = dir
  <2>1. CASE Tick
    BY <2>1, Zenon DEF Tick
  <2>2. ASSUME NEW q \in Procs, Calls(q) \/ World(q) PROVE Unlinkat(p) \/ dir' = dir
    <3>1. PICK e : Goes(q, e)
      BY <2>2, SpaceMoves, Zenon
    <3>2. q = p
      BY <3>1, Zenon DEF Goes, Noted
    <3> QED BY <2>2, <3>2, RenameEnds, Zenon
  <2> QED BY <2>1, <2>2, Zenon DEF Next
<1>4. PICK n \in DOMAIN dir : dir[n] = f
  BY Zenon DEF NamesOf
<1>5. CASE dir' = dir
  BY <1>4, <1>5, Zenon DEF NamesOf
<1>6. CASE Unlinkat(p)
  <2>1. dir' = [dir EXCEPT ![call[p].name] = None] /\ DOMAIN dir = Names \cup TmpNames
    BY <1>1, <1>6, Zenon DEF Unlinkat, SpaceTypes
  <2>2. DOMAIN dir' = DOMAIN dir /\ \A m \in DOMAIN dir : m # call[p].name => dir'[m] = dir[m]
    BY <2>1, Zenon
  <2>3. CASE n = call[p].name
    BY <1>2, <1>4, <2>1, <2>2, <2>3, Zenon DEF NamesOf
  <2>4. CASE n # call[p].name
    BY <1>4, <2>2, <2>4, Zenon DEF NamesOf
  <2> QED BY <2>3, <2>4, Zenon
<1> QED BY <1>3, <1>5, <1>6, Zenon

\* What statx returns as a birth time belongs to one file.
LEMMA StatxStep ==
  ASSUME SpaceInv, NamesApart
  PROVE  StatxOneFile
<1> SUFFICES ASSUME NEW p \in Procs, NEW ok \in BOOLEAN, call[p].pc = "getxattr",
                    call[p].kind = "fd" \/ ~call[p].rebound
             PROVE  LET r == file[call[p].f] IN
                    IF ok /\ r.btime # None THEN StatxBtime(p, ok) = r.btime
                    ELSE r.low <= StatxBtime(p, ok) /\ StatxBtime(p, ok) <= r.ctime
  BY Zenon DEF StatxOneFile
<1>1. SpaceTypes /\ AsksOne(call[p], dir, file)
  BY SpaceOf, Zenon DEF CallOk
<1>2. /\ call[p].f \in Made /\ (~call[p].rebound => dir[call[p].name] = call[p].f)
      /\ file[call[p].f].low <= call[p].ts /\ call[p].ts <= file[call[p].f].ctime
  BY <1>1, Zenon DEF AsksOne, Made
<1>3. call[p].f # None
  BY <1>1, <1>2, MadeInts, Zenon
<1>4. read_btime_xattr(p, ok) = IF ok THEN file[call[p].f].btime ELSE None
  BY <1>2, <1>3, Zenon DEF read_btime_xattr
<1> QED BY <1>2, <1>4, Zenon DEF StatxBtime

\* A file opened with O_TMPFILE is no other call's, and has no name once open
\* returns (handle_tmpfile_at); a birth time that is recorded was given by
\* hand or lies between the making of the file and the end of the open that
\* made it (record_btime_now). For any number of processes, names and files,
\* with kills at every step.
THEOREM NamesServed == NamesApart => (Spec => [](TmpfilePrivate /\ BirthRecorded))
<1> SUFFICES ASSUME NamesApart PROVE Spec => [](TmpfilePrivate /\ BirthRecorded)
  OBVIOUS
<1>1. Init => SpaceInv
  BY SpaceInit, Zenon
<1>2. SpaceInv /\ [Next]_vars => SpaceInv'
  BY SpaceStep, Zenon
<1>3. SpaceInv => TmpfilePrivate /\ BirthRecorded
  BY SpaceSafe, Zenon
<1> QED BY <1>1, <1>2, <1>3, PTL DEF Spec

\* The end of a renameat2 with RENAME_NOREPLACE takes the last name from no
\* file (rename.c: linkat, then unlinkat), unless another process changed one
\* of the two names in between.
THEOREM RenameKeepsNames == NamesApart => (Spec => [][LastNameKept]_vars)
<1> SUFFICES ASSUME NamesApart PROVE Spec => [][LastNameKept]_vars
  OBVIOUS
<1>1. Init => SpaceInv
  BY SpaceInit, Zenon
<1>2. SpaceInv /\ [Next]_vars => SpaceInv'
  BY SpaceStep, Zenon
<1>3. SpaceInv /\ [Next]_vars => [LastNameKept]_vars
  BY LastNameStep, Zenon
<1> QED BY <1>1, <1>2, <1>3, PTL DEF Spec

\* The birth time statx returns is the recorded one of the file asked about; or,
\* when none is recorded or getxattr is refused, the kernel's heuristic for that
\* same file (statx.c, stx_ts_min): no later than its last change and no earlier
\* than its making, or than the earliest mtime utimes gave it.  Asked by name,
\* unless the name was bound to another file in between.
THEOREM StatxAnswers == NamesApart => (Spec => []StatxOneFile)
<1> SUFFICES ASSUME NamesApart PROVE Spec => []StatxOneFile
  OBVIOUS
<1>1. Init => SpaceInv
  BY SpaceInit, Zenon
<1>2. SpaceInv /\ [Next]_vars => SpaceInv'
  BY SpaceStep, Zenon
<1>3. SpaceInv => StatxOneFile
  BY StatxStep, Zenon
<1> QED BY <1>1, <1>2, <1>3, PTL DEF Spec

-----------------------------------------------------------------------------
CONSTANTS Handles, Askers
VARIABLES lock, probe, where, type, answer, held, lapsed, seen

Locks == INSTANCE FcntlLock WITH pc <- where

\* Where a call may be.
LockPcs == {"idle", "flock", "ex", "sh", "close"}

\* The types of the variables.
LockTypes ==
  /\ lock \in [Handles -> Locks!Locks] /\ probe \in [Handles -> Locks!Locks]
  /\ where \in [Handles -> LockPcs]
  /\ type \in [Handles -> Locks!Types] /\ answer \in [Handles -> Locks!Types]
  /\ held \in [Handles -> Locks!Types]
  /\ seen \in [Handles -> SUBSET Locks!Locks]

\* A description that is not in a call, and whose lock no refused conversion has
\* dropped, has the lock it was promised.
Promised == \A h \in Handles : h \notin lapsed /\ where[h] # "flock" => lock[h] = Locks!Translate(held[h])

\* A description that has a lock was promised it, and no refusal has dropped it.
Kept == \A h \in Handles : lock[h] # "UN" => h \notin lapsed /\ lock[h] = Locks!Translate(held[h])

\* Only an F_GETLK about to close has locked the description it opened.
Probing ==
  \A h \in Handles : /\ where[h] \in {"ex", "sh", "close"} => h \in Askers
                     /\ where[h] # "close" => probe[h] = "UN"

\* The kernel grants no two conflicting locks.
Excluded == \A g, h \in Handles : g # h => ~(lock[g] = "EX" /\ lock[h] # "UN")

\* What an F_GETLK has met: it asks for a lock; until its last step its own
\* description has none; the others' strongest lock now is among those seen, and
\* one that was refused the exclusive lock has seen a lock or is its caller's own.
Asked ==
  \A h \in Handles :
    /\ where[h] \in {"ex", "sh", "close"} => h \in Askers /\ type[h] # "F_UNLCK"
    /\ where[h] # "close" => probe[h] = "UN"
    /\ where[h] \in {"ex", "sh"} => Locks!Strongest(Locks!Rivals(h)) \in seen[h]
    /\ where[h] = "sh" => lock[h] # "UN" \/ \E l \in seen[h] : l # "UN"

\* The inductive invariant behind LocksExclude.
LockInv == LockTypes /\ Promised /\ Kept /\ Probing /\ Excluded

\* The inductive invariant of F_GETLK.
AskInv  == LockTypes /\ Asked /\ Locks!GetlkTrue

\* F_GETLK is called on one description at most.
OneAsker == \A g, h \in Askers : g = h

\* The lock that Translate takes.
LEMMA LockTranslated ==
  /\ \A t \in Locks!Types : Locks!Translate(t) \in Locks!Locks /\ (Locks!Translate(t) = "UN" <=> t = "F_UNLCK")
  /\ Locks!Translate("F_WRLCK") = "EX" /\ Locks!Translate("F_RDLCK") = "SH"
  /\ Locks!Translate("F_UNLCK") = "UN"
BY SMTT(30) DEF Locks!Types, Locks!Translate, Locks!Locks

\* The strongest of some locks.
LEMMA StrongestOf ==
  ASSUME NEW L \in SUBSET Locks!Locks, L # {}
  PROVE  /\ Locks!Strongest(L) \in L
         /\ "EX" \in L => Locks!Strongest(L) = "EX"
         /\ Locks!Strongest(L) = "UN" => \A m \in L : m = "UN"
<1> DEFINE Top(l) == \A m \in L : m # l => l = "EX" \/ (l = "SH" /\ m = "UN")
<1>1. \E l \in L : Top(l)
  <2>0. \A m \in L : m = "EX" \/ m = "SH" \/ m = "UN"
    BY Zenon DEF Locks!Locks
  <2>1. CASE "EX" \in L
    BY <2>1, Zenon
  <2>2. CASE "EX" \notin L /\ "SH" \in L
    BY <2>0, <2>2, Zenon
  <2>3. CASE "EX" \notin L /\ "SH" \notin L
    BY <2>0, <2>3, Zenon
  <2> QED BY <2>1, <2>2, <2>3, Zenon
<1>2. Locks!Strongest(L) \in L /\ Top(Locks!Strongest(L))
  BY <1>1, Zenon DEF Locks!Strongest
<1> QED BY <1>2, SMTT(30) DEF Locks!Locks

\* What a change of one lock does.
LEMMA LockEffect ==
  ASSUME LockTypes, NEW h \in Handles, NEW l \in Locks!Locks, Locks!Lock(h, l)
  PROVE  /\ lock' \in [Handles -> Locks!Locks] /\ seen' \in [Handles -> SUBSET Locks!Locks]
         /\ lock'[h] = l /\ \A g \in Handles : g # h => lock'[g] = lock[g]
         /\ \A g \in Handles : IF where[g] \in {"ex", "sh"}
              THEN seen'[g] = seen[g] \cup {Locks!Strongest(Locks!Rivals(g)')} ELSE seen'[g] = seen[g]
<1>1. lock' = [lock EXCEPT ![h] = l]
  BY Zenon DEF Locks!Lock
<1>2. lock' \in [Handles -> Locks!Locks] /\ lock'[h] = l /\ \A g \in Handles : g # h => lock'[g] = lock[g]
  BY <1>1, Zenon DEF LockTypes
<1>3. ASSUME NEW g \in Handles PROVE Locks!Strongest(Locks!Rivals(g)') \in Locks!Locks
  <2>1. Locks!Rivals(g)' \in SUBSET Locks!Locks /\ Locks!Rivals(g)' # {}
    BY <1>2, SMTT(30) DEF Locks!Rivals, Locks!Locks
  <2> QED BY <2>1, StrongestOf, Zenon
<1>4. seen' = [g \in Handles |-> IF where[g] \in {"ex", "sh"}
                 THEN seen[g] \cup {Locks!Strongest(Locks!Rivals(g)')} ELSE seen[g]]
  BY Zenon DEF Locks!Lock
<1>5. \A g \in Handles : seen[g] \in SUBSET Locks!Locks
  BY Zenon DEF LockTypes
<1> HIDE DEF Locks!Strongest, Locks!Rivals
<1>6. \A g \in Handles : IF where[g] \in {"ex", "sh"}
        THEN seen'[g] = seen[g] \cup {Locks!Strongest(Locks!Rivals(g)')} ELSE seen'[g] = seen[g]
  BY <1>4, Zenon
<1>7. \A g \in Handles : seen'[g] \in SUBSET Locks!Locks
  BY <1>3, <1>5, <1>6, Zenon
<1>8. seen' \in [Handles -> SUBSET Locks!Locks]
  BY <1>4, <1>7, Zenon
<1> QED BY <1>2, <1>6, <1>8, Zenon

\* What one description does.
LockSteps(h) ==
  \/ \E t \in Locks!Types : Locks!SetLk(h, t)
  \/ Locks!Granted(h) \/ Locks!Refused(h)
  \/ \E t \in Locks!Types : Locks!GetLk(h, t)
  \/ Locks!QueryEx(h) \/ Locks!QuerySh(h) \/ Locks!QueryClose(h)

\* Every step keeps the types.
LEMMA LockTypesStep ==
  ASSUME LockTypes, NEW h \in Handles, LockSteps(h)
  PROVE  LockTypes'
<1> USE DEF LockTypes
<1>1. ASSUME NEW t \in Locks!Types, Locks!SetLk(h, t) PROVE LockTypes'
  <2>1. (IF lock[h] = Locks!Translate(t) THEN lock[h] ELSE "UN") \in Locks!Locks
    BY Zenon DEF Locks!Locks
  <2>2. lock' \in [Handles -> Locks!Locks] /\ seen' \in [Handles -> SUBSET Locks!Locks]
    BY <1>1, <2>1, LockEffect, Zenon DEF Locks!SetLk
  <2>3. where' \in [Handles -> LockPcs] /\ type' \in [Handles -> Locks!Types]
    BY <1>1, SMTT(30) DEF Locks!SetLk, Locks!Goto, LockPcs
  <2> QED BY <1>1, <2>2, <2>3, Zenon DEF Locks!SetLk
<1>2. CASE Locks!Granted(h)
  <2>1. Locks!Translate(type[h]) \in Locks!Locks /\ type[h] \in Locks!Types
    BY LockTranslated, Zenon
  <2>2. lock' \in [Handles -> Locks!Locks] /\ seen' \in [Handles -> SUBSET Locks!Locks]
    BY <1>2, <2>1, LockEffect, Zenon DEF Locks!Granted
  <2>3. where' \in [Handles -> LockPcs] /\ held' \in [Handles -> Locks!Types]
    BY <1>2, <2>1, SMTT(30) DEF Locks!Granted, Locks!Goto, LockPcs
  <2> QED BY <1>2, <2>2, <2>3, Zenon DEF Locks!Granted
<1>3. CASE Locks!Refused(h)
  <2>1. where' \in [Handles -> LockPcs]
    BY <1>3, SMTT(30) DEF Locks!Refused, Locks!Goto, LockPcs
  <2> QED BY <1>3, <2>1, Zenon DEF Locks!Refused
<1>4. ASSUME NEW t \in Locks!Types, Locks!GetLk(h, t) PROVE LockTypes'
  <2>1. Locks!Rivals(h) \in SUBSET Locks!Locks /\ Locks!Rivals(h) # {}
    BY SMTT(30) DEF Locks!Rivals, Locks!Locks
  <2>2. Locks!Strongest(Locks!Rivals(h)) \in Locks!Locks
    BY <2>1, StrongestOf, Zenon
  <2>3. where' \in [Handles -> LockPcs] /\ type' \in [Handles -> Locks!Types]
        /\ seen' \in [Handles -> SUBSET Locks!Locks]
    BY <1>4, <2>2, SMTT(30) DEF Locks!GetLk, Locks!Goto, LockPcs
  <2> QED BY <1>4, <2>3, Zenon DEF Locks!GetLk
<1>5. CASE Locks!QueryEx(h)
  <2>1. where' \in [Handles -> LockPcs] /\ probe' \in [Handles -> Locks!Locks]
        /\ answer' \in [Handles -> Locks!Types]
    BY <1>5, SMTT(30) DEF Locks!QueryEx, Locks!Goto, LockPcs, Locks!Locks, Locks!Types
  <2> QED BY <1>5, <2>1, Zenon DEF Locks!QueryEx
<1>6. CASE Locks!QuerySh(h)
  <2>1. where' \in [Handles -> LockPcs] /\ probe' \in [Handles -> Locks!Locks]
        /\ answer' \in [Handles -> Locks!Types]
    BY <1>6, SMTT(30) DEF Locks!QuerySh, Locks!Goto, LockPcs, Locks!Locks, Locks!Types
  <2> QED BY <1>6, <2>1, Zenon DEF Locks!QuerySh
<1>7. CASE Locks!QueryClose(h)
  <2>1. where' \in [Handles -> LockPcs] /\ probe' \in [Handles -> Locks!Locks]
        /\ seen' \in [Handles -> SUBSET Locks!Locks]
    BY <1>7, SMTT(30) DEF Locks!QueryClose, Locks!Goto, LockPcs, Locks!Locks
  <2> QED BY <1>7, <2>1, Zenon DEF Locks!QueryClose
<1> QED BY <1>1, <1>2, <1>3, <1>4, <1>5, <1>6, <1>7, Zenon DEF LockSteps

\* A step of one description moves only that one on.
LEMMA OthersWait ==
  ASSUME LockTypes, NEW h \in Handles, LockSteps(h)
  PROVE  /\ \A g \in Handles : g # h => /\ where'[g] = where[g] /\ lock'[g] = lock[g] /\ held'[g] = held[g]
                                       /\ type'[g] = type[g] /\ answer'[g] = answer[g]
                                       /\ probe'[g] = probe[g]
         /\ \A g \in Handles : g # h => (g \in lapsed' <=> g \in lapsed)
BY SMTT(30)
   DEF LockTypes, LockSteps, Locks!SetLk, Locks!Granted, Locks!Refused, Locks!GetLk, Locks!QueryEx,
       Locks!QuerySh, Locks!QueryClose, Locks!Goto, Locks!Lock

\* Record locks stay promised and apart.
LEMMA LockInvStep ==
  ASSUME LockInv, NEW h \in Handles, LockSteps(h)
  PROVE  LockInv'
<1>0. LockTypes /\ Promised /\ Kept /\ Probing /\ Excluded /\ LockTypes'
  BY LockTypesStep, Zenon DEF LockInv
<1>1. \A g \in Handles : lock[g] \in Locks!Locks /\ held[g] \in Locks!Types /\ type[g] \in Locks!Types
  BY <1>0, Zenon DEF LockTypes
<1>6. Probing'
  <2>1. /\ where'[h] \in {"ex", "sh", "close"} => h \in Askers
        /\ where'[h] # "close" => probe'[h] = "UN"
    BY <1>0, SMTT(30)
       DEF Probing, LockTypes, LockPcs, LockSteps, Locks!SetLk, Locks!Granted, Locks!Refused, Locks!GetLk,
           Locks!QueryEx, Locks!QuerySh, Locks!QueryClose, Locks!Goto
  <2> QED BY <1>0, <2>1, OthersWait, Zenon DEF Probing
<1>2. CASE lock' = lock /\ held' = held /\ ~Locks!Granted(h) /\ ~\E t \in Locks!Types : Locks!SetLk(h, t)
  <2>1. where'[h] # "flock" /\ h \notin lapsed' => lock[h] = Locks!Translate(held[h])
    <3>1. CASE Locks!Refused(h)
      BY <3>1, Zenon DEF Locks!Refused
    <3>2. CASE ~Locks!Refused(h)
      <4>1. lapsed' = lapsed /\ where[h] # "flock"
        BY <1>2, <3>2, SMTT(30)
           DEF LockSteps, Locks!GetLk, Locks!QueryEx, Locks!QuerySh, Locks!QueryClose
      <4> QED BY <1>0, <4>1, Zenon DEF Promised
    <3> QED BY <3>1, <3>2, Zenon
  <2>2. Promised'
    BY <1>0, <1>2, <2>1, OthersWait, Zenon DEF Promised
  <2>3. Excluded'
    BY <1>0, <1>2, Zenon DEF Excluded
  <2>4. lock[h] # "UN" => h \notin lapsed'
    <3>1. CASE Locks!Refused(h)
      BY <1>0, <3>1, Zenon DEF Locks!Refused, Kept
    <3>2. CASE ~Locks!Refused(h)
      <4>1. lapsed' = lapsed
        BY <1>2, <3>2, SMTT(30)
           DEF LockSteps, Locks!GetLk, Locks!QueryEx, Locks!QuerySh, Locks!QueryClose
      <4> QED BY <1>0, <4>1, Zenon DEF Kept
    <3> QED BY <3>1, <3>2, Zenon
  <2>5. Kept'
    BY <1>0, <1>2, <2>4, OthersWait, Zenon DEF Kept
  <2> QED BY <1>0, <1>6, <2>2, <2>3, <2>5, Zenon DEF LockInv
<1>3. ASSUME NEW t \in Locks!Types, Locks!SetLk(h, t) PROVE LockInv'
  <2>1. (IF lock[h] = Locks!Translate(t) THEN lock[h] ELSE "UN") \in Locks!Locks
    BY <1>1, Zenon DEF Locks!Locks
  <2>2. (lock'[h] = lock[h] \/ lock'[h] = "UN") /\ \A g \in Handles : g # h => lock'[g] = lock[g]
    BY <1>0, <1>3, <2>1, LockEffect, Zenon DEF Locks!SetLk
  <2>3. Excluded'
    BY <1>0, <2>2, Zenon DEF Excluded
  <2>4. where'[h] = "flock"
    BY <1>0, <1>3, Zenon DEF Locks!SetLk, Locks!Goto, LockTypes
  <2>5. Promised'
    BY <1>0, <2>4, OthersWait, Zenon DEF Promised
  <2>6. held' = held /\ lapsed' = lapsed
    BY <1>3, Zenon DEF Locks!SetLk
  <2>7. Kept'
    BY <1>0, <2>2, <2>6, Zenon DEF Kept
  <2> QED BY <1>0, <1>6, <2>3, <2>5, <2>7, Zenon DEF LockInv
<1>4. CASE Locks!Granted(h)
  <2>1. Locks!Translate(type[h]) \in Locks!Locks
    BY <1>1, LockTranslated, Zenon
  <2>2. lock'[h] = Locks!Translate(type[h]) /\ \A g \in Handles : g # h => lock'[g] = lock[g]
    BY <1>0, <1>4, <2>1, LockEffect, Zenon DEF Locks!Granted
  <2>3. ASSUME NEW g \in Handles, g # h
        PROVE  ~("EX" \in {lock'[h], lock[g]} /\ "UN" \notin {lock'[h], lock[g]})
    BY <1>4, <2>2, <2>3, Zenon DEF Locks!Granted, Locks!Conflict, Locks!Others
  <2>4. Excluded'
    BY <1>0, <2>2, <2>3, SMTT(30) DEF Excluded
  <2>5. held'[h] = type[h]
    BY <1>0, <1>4, Zenon DEF Locks!Granted, LockTypes
  <2>6. Promised'
    BY <1>0, <2>2, <2>5, OthersWait, Zenon DEF Promised
  <2>7. h \notin lapsed'
    BY <1>4, Zenon DEF Locks!Granted
  <2>8. Kept'
    BY <1>0, <2>2, <2>5, <2>7, OthersWait, Zenon DEF Kept
  <2> QED BY <1>0, <1>6, <2>4, <2>6, <2>8, Zenon DEF LockInv
<1>5. ~Locks!Granted(h) /\ ~(\E t \in Locks!Types : Locks!SetLk(h, t)) => lock' = lock /\ held' = held
  BY Zenon DEF LockSteps, Locks!Refused, Locks!GetLk, Locks!QueryEx, Locks!QuerySh, Locks!QueryClose
<1> QED BY <1>2, <1>3, <1>4, <1>5, Zenon

\* What a lock of another description says of the strongest one.
LEMMA StrongestRival ==
  ASSUME LockTypes, NEW h \in Handles
  PROVE  /\ Locks!Strongest(Locks!Rivals(h)) \in Locks!Locks
         /\ Locks!Strongest(Locks!Rivals(h)) = "EX" <=> \E g \in Handles \ {h} : lock[g] = "EX"
         /\ Locks!Strongest(Locks!Rivals(h)) = "UN" <=> \A g \in Handles \ {h} : lock[g] = "UN"
<1>1. Locks!Rivals(h) \in SUBSET Locks!Locks /\ Locks!Rivals(h) # {}
  BY SMTT(30) DEF Locks!Rivals, LockTypes, Locks!Locks
<1>2. /\ Locks!Strongest(Locks!Rivals(h)) \in Locks!Rivals(h)
      /\ "EX" \in Locks!Rivals(h) => Locks!Strongest(Locks!Rivals(h)) = "EX"
      /\ Locks!Strongest(Locks!Rivals(h)) = "UN" => \A m \in Locks!Rivals(h) : m = "UN"
  BY <1>1, StrongestOf, Zenon
<1>3. \A m : m \in Locks!Rivals(h) <=> m = "UN" \/ \E g \in Handles \ {h} : m = lock[g]
  BY Zenon DEF Locks!Rivals
<1> DEFINE x == Locks!Strongest(Locks!Rivals(h))
<1> HIDE DEF x
<1>4. x = "EX" => \E g \in Handles \ {h} : lock[g] = "EX"
  BY <1>2, <1>3, Zenon DEF x
<1>5. (\E g \in Handles \ {h} : lock[g] = "EX") => x = "EX"
  BY <1>2, <1>3, Zenon DEF x
<1>6. x = "UN" <=> \A g \in Handles \ {h} : lock[g] = "UN"
  BY <1>2, <1>3, Zenon DEF x
<1> QED BY <1>1, <1>2, <1>4, <1>5, <1>6, Zenon DEF x

\* The probe of the only F_GETLK meets the locks of the others, and its caller's.
LEMMA MeetsApps ==
  ASSUME OneAsker, LockTypes, Asked, NEW h \in Handles, where[h] \in {"ex", "sh"}
  PROVE  /\ Locks!Conflict("EX", Locks!AllBut(h)) <=>
              lock[h] # "UN" \/ Locks!Strongest(Locks!Rivals(h)) # "UN"
         /\ Locks!Conflict("SH", Locks!AllBut(h)) <=>
              lock[h] = "EX" \/ Locks!Strongest(Locks!Rivals(h)) = "EX"
<1>1. ASSUME NEW g \in Handles, g # h PROVE probe[g] = "UN"
  <2>1. h \in Askers
    BY Zenon DEF Asked
  <2>2. where[g] # "close"
    BY <1>1, <2>1, Zenon DEF Asked, OneAsker
  <2> QED BY <2>2, Zenon DEF Asked
<1>2. \A o \in Locks!AllBut(h) : o = "UN" \/ \E g \in Handles : o = lock[g]
  BY <1>1, Zenon DEF Locks!AllBut, Locks!Applications
<1>3. \A g \in Handles : lock[g] \in Locks!AllBut(h) /\ lock[g] \in {"UN", "SH", "EX"}
  BY Zenon DEF Locks!AllBut, Locks!Applications, LockTypes, Locks!Locks
<1>4. Locks!Conflict("EX", Locks!AllBut(h)) <=> \E g \in Handles : lock[g] # "UN"
  BY <1>2, <1>3, SMTT(30) DEF Locks!Conflict
<1>5. Locks!Conflict("SH", Locks!AllBut(h)) <=> \E g \in Handles : lock[g] = "EX"
  BY <1>2, <1>3, SMTT(30) DEF Locks!Conflict
<1> QED BY <1>4, <1>5, StrongestRival, Zenon

\* What an F_GETLK that answers has seen, and what it says.
TrueAt(h) ==
  IF lock[h] = "UN"
    THEN /\ \E l \in seen[h] : answer[h] # "F_UNLCK" <=> Locks!Conflict(Locks!Translate(type[h]), {l})
         /\ \A l \in seen[h] : seen[h] = {l} => answer[h] = Locks!Expected(type[h], l)
    ELSE answer[h] = "F_UNLCK" => \E l \in seen[h] : ~Locks!Conflict(Locks!Translate(type[h]), {l})

\* The lock a proposed one meets.
LEMMA Meets ==
  ASSUME NEW t \in Locks!Types, t # "F_UNLCK", NEW l \in Locks!Locks
  PROVE  Locks!Conflict(Locks!Translate(t), {l}) <=> l = "EX" \/ (l = "SH" /\ t = "F_WRLCK")
<1>1. t = "F_WRLCK" \/ t = "F_RDLCK"
  BY Zenon DEF Locks!Types
<1>2. l = "EX" \/ l = "SH" \/ l = "UN"
  BY Zenon DEF Locks!Locks
<1>3. CASE t = "F_WRLCK"
  <2>1. Locks!Translate(t) = "EX"
    BY <1>3, LockTranslated, Zenon
  <2> QED BY <1>2, <1>3, <2>1, SMTT(30) DEF Locks!Conflict
<1>4. CASE t = "F_RDLCK"
  <2>1. Locks!Translate(t) = "SH"
    BY <1>4, LockTranslated, Zenon
  <2> QED BY <1>2, <1>4, <2>1, SMTT(30) DEF Locks!Conflict
<1> QED BY <1>1, <1>3, <1>4, Zenon

\* An answer that agrees with some lock seen, and with the last one if it is the
\* only one, is true.
LEMMA Truthful ==
  ASSUME NEW h \in Handles, NEW S \in SUBSET Locks!Locks, seen'[h] = S, NEW t \in Locks!Types,
         t # "F_UNLCK",
         type'[h] = t, NEW c \in S, NEW l \in S,
         answer'[h] # "F_UNLCK" <=> l = "EX" \/ (l = "SH" /\ t = "F_WRLCK"),
         S = {c} => answer'[h] = Locks!Expected(t, c)
  PROVE  TrueAt(h)'
<1>1. l \in Locks!Locks /\ (Locks!Conflict(Locks!Translate(t), {l}) <=> l = "EX" \/ (l = "SH" /\ t = "F_WRLCK"))
  BY Meets, Zenon
<1>2. answer'[h] # "F_UNLCK" <=> Locks!Conflict(Locks!Translate(type'[h]), {l})
  BY <1>1, Zenon
<1>3. \A k \in S : S = {k} => k = c
  BY Zenon
<1>4. \A k \in seen'[h] : seen'[h] = {k} => answer'[h] = Locks!Expected(type'[h], k)
  BY <1>3, Zenon
<1> QED BY <1>2, <1>4, Zenon DEF TrueAt

\* To a caller that has a lock itself, an answer of no conflict is true.
LEMMA TruthfulHolder ==
  ASSUME NEW h \in Handles, NEW S \in SUBSET Locks!Locks, seen'[h] = S, NEW t \in Locks!Types,
         t # "F_UNLCK", type'[h] = t, NEW c \in S, lock'[h] # "UN",
         answer'[h] = "F_UNLCK" => ~(c = "EX" \/ (c = "SH" /\ t = "F_WRLCK"))
  PROVE  TrueAt(h)'
<1>1. Locks!Conflict(Locks!Translate(t), {c}) <=> c = "EX" \/ (c = "SH" /\ t = "F_WRLCK")
  BY Meets, Zenon
<1> QED BY <1>1, Zenon DEF TrueAt

\* The F_GETLK of description h has met what it should, and says the truth.
AskedAt(h) ==
  /\ where[h] \in {"ex", "sh", "close"} => h \in Askers /\ type[h] # "F_UNLCK"
  /\ where[h] # "close" => probe[h] = "UN"
  /\ where[h] \in {"ex", "sh"} => Locks!Strongest(Locks!Rivals(h)) \in seen[h]
  /\ where[h] = "sh" => lock[h] # "UN" \/ \E l \in seen[h] : l # "UN"
  /\ where[h] = "close" => TrueAt(h)

\* A description that does not move sees the locks change.
LEMMA AskedWaits ==
  ASSUME AskInv, NEW h \in Handles, LockSteps(h), NEW g \in Handles, g # h
  PROVE  AskedAt(g)'
<1>1. LockTypes /\ AskedAt(g)
  BY Zenon DEF AskInv, Asked, Locks!GetlkTrue, AskedAt, TrueAt
<1>2. /\ where'[g] = where[g] /\ type'[g] = type[g] /\ answer'[g] = answer[g] /\ probe'[g] = probe[g]
      /\ lock'[g] = lock[g]
  BY <1>1, OthersWait, Zenon
<1>3. \/ lock' = lock /\ seen'[g] = seen[g]
      \/ \E l \in Locks!Locks : Locks!Lock(h, l)
  <2>1. ASSUME NEW t \in Locks!Types, Locks!SetLk(h, t) PROVE \E l \in Locks!Locks : Locks!Lock(h, l)
    <3>1. (IF lock[h] = Locks!Translate(t) THEN lock[h] ELSE "UN") \in Locks!Locks
      BY <1>1, Zenon DEF Locks!Locks, LockTypes
    <3> QED BY <2>1, <3>1, Zenon DEF Locks!SetLk
  <2>2. CASE Locks!Granted(h)
    BY <1>1, <2>2, LockTranslated, Zenon DEF Locks!Granted, LockTypes
  <2>3. CASE Locks!Refused(h) \/ Locks!QueryEx(h) \/ Locks!QuerySh(h)
    BY <2>3, Zenon DEF Locks!Refused, Locks!QueryEx, Locks!QuerySh
  <2>4. CASE Locks!QueryClose(h) \/ \E t \in Locks!Types : Locks!GetLk(h, t)
    BY <1>1, <2>4, Zenon DEF Locks!QueryClose, Locks!GetLk, LockTypes
  <2> QED BY <2>1, <2>2, <2>3, <2>4, Zenon DEF LockSteps
<1>4. CASE lock' = lock /\ seen'[g] = seen[g]
  <2>1. Locks!Rivals(g)' = Locks!Rivals(g)
    BY <1>4, Zenon DEF Locks!Rivals
  <2> QED BY <1>1, <1>2, <1>4, <2>1, Zenon DEF AskedAt, TrueAt
<1>5. ASSUME NEW l \in Locks!Locks, Locks!Lock(h, l) PROVE AskedAt(g)'
  <2>1. IF where[g] \in {"ex", "sh"}
          THEN seen'[g] = seen[g] \cup {Locks!Strongest(Locks!Rivals(g)')} ELSE seen'[g] = seen[g]
    BY <1>1, <1>5, LockEffect, Zenon
  <2>2. CASE where[g] \in {"ex", "sh"}
    <3>1. Locks!Strongest(Locks!Rivals(g)') \in seen'[g] /\ seen[g] \subseteq seen'[g]
      BY <2>1, <2>2, Zenon
    <3> QED BY <1>1, <1>2, <2>2, <3>1, Zenon DEF AskedAt
  <2>3. CASE where[g] \notin {"ex", "sh"}
    <3>1. seen'[g] = seen[g] /\ where'[g] # "sh"
      BY <1>2, <2>1, <2>3, Zenon
    <3> QED BY <1>1, <1>2, <2>3, <3>1, Zenon DEF AskedAt, TrueAt
  <2> QED BY <2>2, <2>3, Zenon
<1> QED BY <1>3, <1>4, <1>5, Zenon

\* F_GETLK keeps to the truth, step by step.
LEMMA AskedMoves ==
  ASSUME OneAsker, AskInv, NEW h \in Handles, LockSteps(h)
  PROVE  AskedAt(h)'
<1>1. LockTypes /\ AskedAt(h) /\ Asked /\ LockTypes'
  BY LockTypesStep, Zenon DEF AskInv, Asked, Locks!GetlkTrue, AskedAt, TrueAt
<1>2. /\ type[h] \in Locks!Types /\ seen[h] \in SUBSET Locks!Locks
      /\ where[h] \in LockPcs
  BY <1>1, Zenon DEF LockTypes
<1>3. CASE Locks!Granted(h) \/ Locks!Refused(h) \/ \E t \in Locks!Types : Locks!SetLk(h, t)
  <2>1. where[h] \in {"idle", "flock"} /\ where'[h] \in {"idle", "flock"} /\ probe' = probe
    BY <1>1, <1>3, Zenon DEF Locks!Granted, Locks!Refused, Locks!SetLk, Locks!Goto, LockTypes
  <2> QED BY <1>1, <2>1, SMTT(30) DEF AskedAt
<1>4. ASSUME NEW t \in Locks!Types, Locks!GetLk(h, t) PROVE AskedAt(h)'
  <2>1. /\ where[h] = "idle" /\ where'[h] = "ex" /\ probe' = probe /\ lock' = lock /\ h \in Askers
        /\ type'[h] = t /\ t # "F_UNLCK" /\ seen'[h] = {Locks!Strongest(Locks!Rivals(h))}
    BY <1>1, <1>4, Zenon DEF Locks!GetLk, Locks!Goto, LockTypes
  <2>2. Locks!Rivals(h)' = Locks!Rivals(h)
    BY <2>1, Zenon DEF Locks!Rivals
  <2> QED BY <1>1, <2>1, <2>2, Zenon DEF AskedAt
<1>5. CASE Locks!QueryEx(h)
  <2>0. /\ where[h] = "ex" /\ lock' = lock /\ seen' = seen /\ type' = type
    BY <1>5, Zenon DEF Locks!QueryEx
  <2>1. /\ Locks!Conflict("EX", Locks!AllBut(h)) <=>
             lock[h] # "UN" \/ Locks!Strongest(Locks!Rivals(h)) # "UN"
        /\ h \in Askers /\ type[h] # "F_UNLCK" /\ Locks!Strongest(Locks!Rivals(h)) \in seen[h]
        /\ probe[h] = "UN"
    BY <1>1, <2>0, MeetsApps, Zenon DEF AskedAt
  <2>2. Locks!Rivals(h)' = Locks!Rivals(h)
    BY <2>0, Zenon DEF Locks!Rivals
  <2>3. CASE Locks!Conflict("EX", Locks!AllBut(h))
    <3>1. where'[h] = "sh" /\ probe' = probe
      BY <1>1, <1>5, <2>3, Zenon DEF Locks!QueryEx, Locks!Goto, LockTypes
    <3> QED BY <2>0, <2>1, <2>2, <2>3, <3>1, Zenon DEF AskedAt
  <2>4. CASE ~Locks!Conflict("EX", Locks!AllBut(h))
    <3>1. where'[h] = "close" /\ answer'[h] = "F_UNLCK"
      BY <1>1, <1>5, <2>4, Zenon DEF Locks!QueryEx, Locks!Goto, LockTypes
    <3>2. "UN" \in seen[h]
      BY <2>1, <2>4, Zenon
    <3>3. Locks!Expected(type[h], "UN") = "F_UNLCK"
      BY Zenon DEF Locks!Expected
    <3>4. TrueAt(h)'
      <4>1. seen'[h] = seen[h] /\ type'[h] = type[h]
        BY <2>0, Zenon
      <4> QED BY <1>2, <2>1, <3>1, <3>2, <3>3, <4>1, Truthful, SMTT(30)
    <3> QED BY <2>0, <2>1, <3>1, <3>4, SMTT(30) DEF AskedAt
  <2> QED BY <2>3, <2>4, Zenon
<1>6. CASE Locks!QuerySh(h)
  <2>0. /\ where[h] = "sh" /\ lock' = lock /\ seen' = seen /\ type' = type /\ where'[h] = "close"
    BY <1>1, <1>6, Zenon DEF Locks!QuerySh, Locks!Goto, LockTypes
  <2> DEFINE c == Locks!Strongest(Locks!Rivals(h))
  <2>1. /\ Locks!Conflict("SH", Locks!AllBut(h)) <=> lock[h] = "EX" \/ c = "EX"
        /\ h \in Askers /\ type[h] # "F_UNLCK" /\ c \in seen[h]
    BY <1>1, <2>0, MeetsApps, Zenon DEF AskedAt
  <2>2. answer'[h] = IF lock[h] = "EX" \/ c = "EX" THEN "F_WRLCK"
                     ELSE IF type[h] = "F_WRLCK" THEN "F_RDLCK" ELSE "F_UNLCK"
    BY <1>1, <1>6, <2>1, Zenon DEF Locks!QuerySh, LockTypes
  <2> HIDE DEF c
  <2>3. seen'[h] = seen[h] /\ type'[h] = type[h] /\ lock'[h] = lock[h]
    BY <2>0, Zenon
  <2>4. c \in {"UN", "SH", "EX"} /\ type[h] \in {"F_RDLCK", "F_WRLCK"}
    BY <1>2, <2>1, Zenon DEF Locks!Locks, Locks!Types
  <2>5. CASE lock[h] # "UN"
    <3>1. answer'[h] = "F_UNLCK" => ~(c = "EX" \/ (c = "SH" /\ type[h] = "F_WRLCK"))
      BY <2>2, <2>4, SMTT(30)
    <3>2. TrueAt(h)'
      BY <1>2, <2>1, <2>3, <2>5, <3>1, TruthfulHolder, Zenon
    <3> QED BY <2>0, <2>1, <3>2, SMTT(30) DEF AskedAt
  <2>6. CASE lock[h] = "UN"
    <3>1. PICK m \in seen[h] : m # "UN"
      BY <1>1, <2>0, <2>6, Zenon DEF AskedAt
    <3>2. m \in {"SH", "EX"}
      BY <1>2, <3>1, Zenon DEF Locks!Locks
    <3>3. seen[h] = {c} => c = m
      BY <3>1, Zenon
    <3>4. seen[h] = {c} => answer'[h] = Locks!Expected(type[h], c)
      BY <2>2, <2>4, <2>6, <3>2, <3>3, SMTT(30) DEF Locks!Expected
    <3>5. \E l \in seen[h] : answer'[h] # "F_UNLCK" <=> l = "EX" \/ (l = "SH" /\ type[h] = "F_WRLCK")
      <4>1. CASE c = "EX"
        BY <2>1, <2>2, <4>1, SMTT(30)
      <4>2. CASE c # "EX" /\ type[h] = "F_WRLCK"
        BY <2>2, <2>6, <3>1, <3>2, <4>2, SMTT(30)
      <4>3. CASE c # "EX" /\ type[h] # "F_WRLCK"
        BY <2>1, <2>2, <2>6, <4>3, SMTT(30)
      <4> QED BY <4>1, <4>2, <4>3, Zenon
    <3>6. PICK l \in seen[h] : answer'[h] # "F_UNLCK" <=> l = "EX" \/ (l = "SH" /\ type[h] = "F_WRLCK")
      BY <3>5, Zenon
    <3>7. TrueAt(h)'
      BY <1>2, <2>1, <2>3, <3>4, <3>6, Truthful, SMTT(30)
    <3> QED BY <2>0, <2>1, <3>7, SMTT(30) DEF AskedAt
  <2> QED BY <2>5, <2>6, Zenon
<1>7. CASE Locks!QueryClose(h)
  <2>1. where'[h] = "idle" /\ probe'[h] = "UN"
    BY <1>1, <1>7, Zenon DEF Locks!QueryClose, Locks!Goto, LockTypes
  <2> QED BY <2>1, SMTT(30) DEF AskedAt
<1> QED BY <1>3, <1>4, <1>5, <1>6, <1>7, Zenon DEF LockSteps

\* The kernel's locks start free.
LEMMA LocksInit == Locks!Init => LockInv /\ AskInv
<1> SUFFICES ASSUME Locks!Init PROVE LockInv /\ AskInv
  BY Zenon
<1>1. LockTypes
  BY SMTT(30) DEF Locks!Init, LockTypes, Locks!Locks, Locks!Types, LockPcs
<1>2. Promised /\ Kept /\ Probing /\ Excluded
  BY LockTranslated, SMTT(30) DEF Locks!Init, Promised, Kept, Probing, Excluded
<1>3. Asked /\ Locks!GetlkTrue
  BY SMTT(30) DEF Locks!Init, Asked, Locks!GetlkTrue
<1> QED BY <1>1, <1>2, <1>3, Zenon DEF LockInv, AskInv

\* Nothing changes in a step of the rest of the system.
LEMMA LocksStutter ==
  ASSUME UNCHANGED Locks!vars
  PROVE  (LockInv => LockInv') /\ (AskInv => AskInv')
<1>1. /\ lock' = lock /\ probe' = probe /\ where' = where /\ type' = type /\ answer' = answer
      /\ held' = held /\ lapsed' = lapsed /\ seen' = seen
  BY Zenon DEF Locks!vars
<1>2. (LockTypes => LockTypes') /\ (Promised => Promised') /\ (Excluded => Excluded')
      /\ (Kept => Kept') /\ (Probing => Probing')
  BY <1>1, Zenon DEF LockTypes, Promised, Excluded, Kept, Probing
<1>3. \A h : Locks!Rivals(h)' = Locks!Rivals(h)
  BY <1>1, Zenon DEF Locks!Rivals
<1>4. (Asked => Asked') /\ (Locks!GetlkTrue => Locks!GetlkTrue')
  BY <1>1, <1>3, Zenon DEF Asked, Locks!GetlkTrue
<1> QED BY <1>2, <1>4, Zenon DEF LockInv, AskInv

\* A description promised a lock has it, and the kernel keeps them apart.
LEMMA LockInvExcludes == LockInv => Locks!Exclusion
<1> SUFFICES ASSUME LockInv, NEW g \in Handles \ lapsed, NEW h \in Handles \ lapsed, g # h,
                    where[g] = "idle", where[h] = "idle", held[g] = "F_WRLCK", held[h] # "F_UNLCK"
             PROVE  FALSE
  BY Zenon DEF Locks!Exclusion
<1>1. lock[g] = Locks!Translate(held[g]) /\ lock[h] = Locks!Translate(held[h])
      /\ held[h] \in Locks!Types
  BY SMTT(30) DEF LockInv, Promised, LockTypes
<1>2. lock[g] = "EX" /\ lock[h] # "UN"
  BY <1>1, LockTranslated, Zenon
<1> QED BY <1>2, Zenon DEF LockInv, Excluded

\* What keeps a description from its lock was promised to another, or is a probe.
LEMMA LockInvRefuses == LockInv => Locks!RefusedForCause
<1> SUFFICES ASSUME LockInv, NEW h \in Handles, where[h] = "flock",
                    Locks!Conflict(Locks!Translate(type[h]), Locks!Others(h)),
                    \A g \in Askers : where[g] # "close"
             PROVE  Locks!Conflict(Locks!Translate(type[h]),
                                   {Locks!Translate(held[g]) : g \in Handles \ ({h} \cup lapsed)})
  BY Zenon DEF Locks!RefusedForCause
<1>1. \A g \in Handles : probe[g] = "UN"
  BY Zenon DEF LockInv, Probing
<1>2. PICK o \in Locks!Others(h) : /\ "EX" \in {Locks!Translate(type[h]), o}
                                  /\ "UN" \notin {Locks!Translate(type[h]), o}
  BY Zenon DEF Locks!Conflict
<1>3. PICK g \in Handles \ {h} : o = lock[g]
  BY <1>1, <1>2, Zenon DEF Locks!Others
<1>4. g \notin lapsed /\ o = Locks!Translate(held[g])
  BY <1>2, <1>3, Zenon DEF LockInv, Kept
<1> QED BY <1>2, <1>3, <1>4, Zenon DEF Locks!Conflict

\* No two processes that were promised a lock hold conflicting ones, and a lock is
\* refused only for one that another was promised and still has, or for the probe
\* of an F_GETLK; for every number of open file descriptions and of F_GETLK calls,
\* unless a refused conversion dropped one of them (fcntl_lock_shim).
THEOREM LocksExclude == Locks!Spec => [](Locks!Exclusion /\ Locks!RefusedForCause)
<1>1. Locks!Init => LockInv
  BY LocksInit, Zenon
<1>2. LockInv /\ [Locks!Next]_Locks!vars => LockInv'
  BY LockInvStep, LocksStutter, Zenon DEF Locks!Next, LockSteps
<1> QED BY <1>1, <1>2, LockInvExcludes, LockInvRefuses, PTL DEF Locks!Spec

\* As long as no two F_GETLK calls are made at once, F_GETLK also tells the truth
\* of the other descriptions' locks (flock_status_query): it answers by what it
\* saw, exactly so if the strongest lock stayed the same; to a caller that has a
\* lock itself, an answer of no conflict is true.
THEOREM LocksServed == OneAsker => (Locks!Spec => []Locks!LocksAsLinux)
<1> SUFFICES ASSUME OneAsker PROVE Locks!Spec => []Locks!LocksAsLinux
  OBVIOUS
<1>1. Locks!Init => LockInv /\ AskInv
  BY LocksInit, Zenon
<1>2. LockInv /\ AskInv /\ [Locks!Next]_Locks!vars => LockInv' /\ AskInv'
  <2>1. ASSUME LockInv, AskInv, NEW h \in Handles, LockSteps(h) PROVE LockInv' /\ AskInv'
    <3>1. LockTypes'
      BY <2>1, LockTypesStep, Zenon DEF AskInv
    <3>2. \A g \in Handles : AskedAt(g)'
      BY <2>1, AskedWaits, AskedMoves, Zenon
    <3>3. Asked' /\ Locks!GetlkTrue'
      BY <3>2, Zenon DEF AskedAt, TrueAt, Asked, Locks!GetlkTrue
    <3> QED BY <2>1, <3>1, <3>3, LockInvStep, Zenon DEF AskInv
  <2> QED BY <2>1, LocksStutter, Zenon DEF Locks!Next, LockSteps
<1>3. LockInv /\ AskInv => Locks!LocksAsLinux
  BY LockInvExcludes, LockInvRefuses, Zenon DEF Locks!LocksAsLinux, AskInv
<1> QED BY <1>1, <1>2, <1>3, PTL DEF Locks!Spec

-----------------------------------------------------------------------------
CONSTANTS Threads, Size, OffMax, Counts, Offsets
VARIABLES kind, pos, pc, arg, from, take, start, raced

Proc == INSTANCE ProcFile

\* Where a thread may be.
ProcPcs == {"idle", "addr", "mem", "compare", "clamp", "copy", "advance", "seek", "store", "crashed"}

\* The argument of a call: a count, or an offset and where it counts from.
ProcArg == [whence : {"set", "cur", "end"}, n : Int]

\* The values of an off_t.
OffTs   == -(OffMax + 1)..OffMax

\* What the constants are: the file, and the counts and offsets asked for, are
\* within off_t.
OffsetsFit ==
  /\ OffMax \in Nat /\ Size \in 0..OffMax /\ Counts \subseteq 0..OffMax /\ Offsets \subseteq OffTs

\* The types of the variables; take is unsigned and may exceed off_t.
ProcTypes ==
  /\ kind \in {"none", "addr", "mem"} /\ pos \in OffTs
  /\ pc \in [Threads -> ProcPcs] /\ arg \in [Threads -> ProcArg]
  /\ from \in [Threads -> Int] /\ take \in [Threads -> 0..2 * OffMax + 1] /\ start \in [Threads -> Int]
  /\ raced \in [Threads -> BOOLEAN]

\* Where a thread is that no other thread's call overlaps.
Reading(t) ==
  /\ pc[t] \in {"addr", "compare", "clamp", "copy"} => kind = "addr"
  /\ pc[t] = "mem" => kind = "mem"
  /\ pc[t] \in {"compare", "clamp", "copy"} => start[t] < Size
  /\ pc[t] = "clamp" => take[t] = arg[t].n /\ arg[t].n > Size - start[t]
  /\ pc[t] = "copy" => take[t] = Proc!Smaller(arg[t].n, Size - start[t])
  /\ pc[t] = "advance" =>
       /\ from[t] = start[t] /\ start[t] + take[t] <= OffMax
       /\ take[t] > 0 => start[t] + take[t] <= Size
       /\ kind = "addr" => take[t] = Proc!Smaller(arg[t].n, Size - start[t])
  /\ pc[t] = "store" => from[t] = Proc!NewPos(arg[t].whence, start[t], arg[t].n)

\* What holds of thread t: counts and offsets of calls, and the above.
ProcAt(t) ==
  /\ pc[t] # "idle" => kind # "none"
  /\ pc[t] \notin {"idle", "seek", "store"} => arg[t].n \in 0..OffMax
  /\ pc[t] = "seek" => arg[t].n \in OffTs
  /\ pc[t] = "store" => arg[t].n \in OffTs /\ from[t] \in 0..OffMax
  /\ pc[t] # "idle" /\ ~raced[t] =>
       /\ \A v \in Threads \ {t} : pc[v] = "idle"
       /\ pos = start[t]
       /\ start[t] >= 0 => Reading(t)

\* The inductive invariant.
ProcInv == ProcTypes /\ \A t \in Threads : ProcAt(t)

\* The part of a step that is the thread's own: it leaves the others where they are.
ProcOthers(t) ==
  \A u \in Threads \ {t} :
    pc'[u] = pc[u] /\ arg'[u] = arg[u] /\ from'[u] = from[u] /\ take'[u] = take[u] /\ start'[u] = start[u]

\* Another thread stays as it is, and if it is busy, it has been overlapped or t is idle.
LEMMA ProcOthersFine ==
  ASSUME ProcInv, NEW t \in Threads, pc[t] # "idle", ProcTypes', ProcOthers(t), kind' = kind,
         \A u \in Threads \ {t} : raced'[u] = raced[u], ProcAt(t)'
  PROVE  ProcInv'
<1>1. ASSUME NEW u \in Threads \ {t} PROVE ProcAt(u)'
  <2>1. ProcAt(u)
    BY <1>1, Zenon DEF ProcInv
  <2>2. pc'[u] = pc[u] /\ arg'[u] = arg[u] /\ from'[u] = from[u] /\ take'[u] = take[u]
        /\ start'[u] = start[u]
        /\ (raced'[u] <=> raced[u])
    BY <1>1, Zenon DEF ProcOthers
  <2>3. pc[u] # "idle" => raced[u]
    BY <2>1, Zenon DEF ProcAt
  <2> QED BY <2>1, <2>2, <2>3, Zenon DEF ProcAt
<1> QED BY <1>1, Zenon DEF ProcInv

\* A call that returns and leaves an off_t in e->pos keeps the invariant.
LEMMA ProcReturns ==
  ASSUME OffsetsFit, ProcInv, NEW t \in Threads, pc[t] # "idle", Proc!Return(t), kind' = kind,
         pos' \in OffTs
  PROVE  ProcInv'
<1>1. ProcTypes
  BY Zenon DEF ProcInv
<1>2. Proc!NoArg \in ProcArg /\ 0 \in Int /\ 0 \in 0..2 * OffMax + 1 /\ "idle" \in ProcPcs
      /\ FALSE \in BOOLEAN
  BY SMTT(30) DEF Proc!NoArg, ProcArg, ProcPcs, OffsetsFit
<1>3. ProcTypes'
  BY <1>1, <1>2, Zenon DEF ProcTypes, Proc!Return, Proc!Goto
<1>4. ProcOthers(t) /\ \A u \in Threads \ {t} : raced'[u] = raced[u]
  BY <1>1, Zenon DEF ProcTypes, Proc!Return, Proc!Goto, ProcOthers
<1>5. pc'[t] = "idle"
  BY <1>1, Zenon DEF ProcTypes, Proc!Return, Proc!Goto
<1>6. ProcAt(t)'
  BY <1>5, Zenon DEF ProcAt
<1> QED BY <1>3, <1>4, <1>6, ProcOthersFine, Zenon

\* A step of t's call that does not touch the offset.
Moves(t, p) ==
  /\ p \in ProcPcs \ {"idle"} /\ pc[t] # "idle" /\ Proc!Goto(t, p)
  /\ arg' = arg /\ start' = start /\ raced' = raced /\ kind' = kind /\ pos' = pos
  /\ from' \in [Threads -> Int] /\ take' \in [Threads -> 0..2 * OffMax + 1]
  /\ \A u \in Threads \ {t} : from'[u] = from[u] /\ take'[u] = take[u]

\* So does one that goes on to p with what is to be known there.
LEMMA ProcMoves ==
  ASSUME OffsetsFit, ProcInv, NEW t \in Threads, NEW p, Moves(t, p),
         p \notin {"seek", "store"} => arg[t].n \in 0..OffMax,
         p = "seek" => arg[t].n \in OffTs,
         p = "store" => arg[t].n \in OffTs /\ from'[t] \in 0..OffMax,
         ~raced[t] /\ start[t] >= 0 => Reading(t)'
  PROVE  ProcInv'
<1>1. ProcTypes /\ ProcAt(t)
  BY Zenon DEF ProcInv
<1>2. pc'[t] = p /\ pc' \in [Threads -> ProcPcs] /\ \A u \in Threads \ {t} : pc'[u] = pc[u]
  BY <1>1, Zenon DEF Moves, Proc!Goto, ProcTypes
<1>3. ProcTypes'
  BY <1>1, <1>2, Zenon DEF ProcTypes, Moves
<1>4. ProcOthers(t) /\ kind' = kind /\ pc[t] # "idle" /\ \A u \in Threads \ {t} : raced'[u] = raced[u]
  BY <1>2, Zenon DEF ProcOthers, Moves
<1>5. /\ arg' = arg /\ start' = start /\ raced' = raced /\ pos' = pos
  BY Zenon DEF Moves
<1>6. (~raced[t] => (\A v \in Threads \ {t} : pc[v] = "idle") /\ pos = start[t]) /\ kind # "none"
  BY <1>1, <1>4, Zenon DEF ProcAt
<1>7. ~raced'[t] => (\A v \in Threads \ {t} : pc'[v] = "idle") /\ pos' = start'[t]
  BY <1>2, <1>5, <1>6, Zenon
<1>8. ~raced'[t] /\ start'[t] >= 0 => Reading(t)'
  BY <1>5, Zenon
<1>10. /\ pc'[t] \notin {"idle", "seek", "store"} => arg'[t].n \in 0..OffMax
       /\ pc'[t] = "seek" => arg'[t].n \in OffTs
       /\ pc'[t] = "store" => arg'[t].n \in OffTs /\ from'[t] \in 0..OffMax
  BY <1>2, <1>5, Zenon
<1>11. pc'[t] # "idle" => kind' # "none"
  BY <1>4, <1>6, Zenon
<1>9. ProcAt(t)'
  BY <1>7, <1>8, <1>10, <1>11, Zenon DEF ProcAt
<1> QED BY <1>3, <1>4, <1>9, ProcOthersFine, Zenon

\* The first step of a read, write or seek: threads that are in a call are
\* marked as overlapped.
LEMMA BeginFine ==
  ASSUME OffsetsFit, ProcInv, NEW t \in Threads, NEW a \in ProcArg, NEW p, Proc!Begin(t, a, p),
         \/ p = kind /\ a.n \in 0..OffMax
         \/ p = "seek" /\ a.n \in OffTs
  PROVE  ProcInv'
<1>1. ProcTypes
  BY Zenon DEF ProcInv
<1>2. /\ kind # "none" /\ pc[t] = "idle" /\ kind' = kind /\ pos' = pos /\ from' = from /\ take' = take
      /\ Proc!Goto(t, p)
  BY Zenon DEF Proc!Begin, Proc!Busy
<1>3. /\ arg' = [arg EXCEPT ![t] = a] /\ start' = [start EXCEPT ![t] = pos]
      /\ raced' = [u \in Threads |-> IF u = t THEN \E v \in Threads \ {t} : Proc!Busy(v) ELSE raced[u] \/ Proc!Busy(u)]
  BY Zenon DEF Proc!Begin
<1>4. p \in {"addr", "mem", "seek"} /\ pos \in Int
  BY <1>1, <1>2, SMTT(30) DEF ProcTypes, OffTs, OffsetsFit
<1>5. pc'[t] = p /\ pc' \in [Threads -> ProcPcs] /\ \A u \in Threads \ {t} : pc'[u] = pc[u]
  BY <1>1, <1>2, <1>4, Zenon DEF Proc!Goto, ProcTypes, ProcPcs
<1>6. arg' \in [Threads -> ProcArg] /\ start' \in [Threads -> Int]
  BY <1>1, <1>3, <1>4, Zenon DEF ProcTypes
<1>7. raced' \in [Threads -> BOOLEAN]
  BY <1>3, Zenon
<1>8. ProcTypes'
  BY <1>1, <1>2, <1>5, <1>6, <1>7, Zenon DEF ProcTypes
<1>9. /\ arg'[t] = a /\ start'[t] = pos /\ (raced'[t] <=> \E v \in Threads \ {t} : Proc!Busy(v))
      /\ \A u \in Threads \ {t} : arg'[u] = arg[u] /\ start'[u] = start[u] /\ (raced'[u] <=> raced[u] \/ Proc!Busy(u))
  BY <1>1, <1>3, Zenon DEF ProcTypes
<1>10. ProcAt(t)'
  <2>1. ~raced'[t] => \A v \in Threads \ {t} : pc'[v] = "idle"
    BY <1>5, <1>9, Zenon DEF Proc!Busy
  <2>2. Reading(t)'
    BY <1>2, <1>4, <1>5, Zenon DEF Reading
  <2>3. arg'[t].n = a.n
    BY <1>9, Zenon
  <2>4. pc'[t] \notin {"idle", "seek", "store"} => arg'[t].n \in 0..OffMax
    BY <1>5, <2>3, Zenon
  <2>5. pc'[t] = "seek" => arg'[t].n \in OffTs
    <3>1. pc'[t] = "seek" => p # kind
      BY <1>1, <1>5, Zenon DEF ProcTypes
    <3> QED BY <1>5, <2>3, <3>1, Zenon
  <2> QED BY <1>2, <1>4, <1>5, <1>9, <2>1, <2>2, <2>4, <2>5, Zenon DEF ProcAt
<1>11. ASSUME NEW u \in Threads \ {t} PROVE ProcAt(u)'
  <2>1. ProcAt(u)
    BY <1>11, Zenon DEF ProcInv
  <2>2. pc'[u] = pc[u] /\ arg'[u] = arg[u] /\ from'[u] = from[u]
    BY <1>2, <1>5, <1>9, <1>11, Zenon
  <2>3. pc'[u] # "idle" => raced'[u]
    BY <1>9, <1>11, <2>2, Zenon DEF Proc!Busy
  <2> QED BY <1>2, <2>1, <2>2, <2>3, Zenon DEF ProcAt
<1> QED BY <1>8, <1>10, <1>11, Zenon DEF ProcInv

\* What is known of a thread inside its call.
LEMMA ProcOf ==
  ASSUME OffsetsFit, ProcInv, NEW t \in Threads
  PROVE  /\ pos \in OffTs /\ pos \in Int /\ start[t] \in Int /\ from[t] \in Int /\ take[t] \in 0..2 * OffMax + 1
         /\ take[t] \in Nat /\ arg[t].n \in Int /\ OffMax \in Nat /\ Size \in Nat /\ Size <= OffMax
         /\ pc[t] # "idle" /\ ~raced[t] => pos = start[t] /\ (start[t] >= 0 => Reading(t))
<1>1. ProcTypes /\ ProcAt(t)
  BY Zenon DEF ProcInv
<1>2. OffMax \in Nat /\ Size \in Nat /\ Size <= OffMax
  BY SMTT(30) DEF OffsetsFit
<1>3. pos \in OffTs /\ start[t] \in Int /\ from[t] \in Int /\ take[t] \in 0..2 * OffMax + 1
      /\ arg[t] \in ProcArg
  BY <1>1, Zenon DEF ProcTypes
<1>4. pos \in Int /\ take[t] \in Nat /\ arg[t].n \in Int
  BY <1>2, <1>3, SMTT(30) DEF OffTs, ProcArg
<1> QED BY <1>1, <1>2, <1>3, <1>4, Zenon DEF ProcAt

\* The test against the end of the file, which may return 0.
LEMMA CheckEndFine ==
  ASSUME OffsetsFit, ProcInv, NEW t \in Threads, Proc!CheckEnd(t)
  PROVE  ProcInv'
<1>1. pc[t] = "addr" /\ kind' = kind /\ pos' = pos
  BY Zenon DEF Proc!CheckEnd
<1>2. CASE pos >= Size
  <2>1. Proc!Return(t)
    BY <1>2, Zenon DEF Proc!CheckEnd
  <2>2. pos' \in OffTs
    BY <1>1, ProcOf, Zenon
  <2> QED BY <1>1, <2>1, <2>2, ProcReturns, Zenon
<1>3. CASE ~(pos >= Size)
  <2>1. Proc!Goto(t, "compare") /\ UNCHANGED <<arg, from, take, start, raced>>
    BY <1>3, Zenon DEF Proc!CheckEnd, Proc!local
  <2>2. Moves(t, "compare")
    BY <1>1, <2>1, Zenon DEF Moves, ProcPcs, ProcInv, ProcTypes
  <2>3. arg[t].n \in 0..OffMax
    BY <1>1, Zenon DEF ProcInv, ProcAt
  <2>4. pc'[t] = "compare"
    BY <2>1, Zenon DEF Proc!Goto, ProcInv, ProcTypes
  <2>5. ASSUME ~raced[t], start[t] >= 0 PROVE Reading(t)'
    <3>1. pos = start[t] /\ Reading(t)
      BY <1>1, <2>5, ProcOf, Zenon
    <3>2. start[t] < Size /\ kind = "addr"
      <4>1. pos < Size
        BY <1>3, ProcOf, SMTT(30)
      <4> QED BY <1>1, <3>1, <4>1, Zenon DEF Reading
    <3> QED BY <1>1, <2>1, <2>4, <3>2, Zenon DEF Reading
  <2> QED BY <2>2, <2>3, <2>5, ProcMoves, Zenon
<1> QED BY <1>2, <1>3, Zenon

\* The comparison of the count with what is left.
LEMMA CompareFine ==
  ASSUME OffsetsFit, ProcInv, NEW t \in Threads, Proc!Compare(t)
  PROVE  ProcInv'
<1> DEFINE p == IF pos <= Size /\ arg[t].n > Size - pos THEN "clamp" ELSE "copy"
<1>1. /\ pc[t] = "compare" /\ take' = [take EXCEPT ![t] = arg[t].n] /\ Proc!Goto(t, p)
      /\ kind' = kind /\ pos' = pos /\ arg' = arg /\ from' = from /\ start' = start /\ raced' = raced
  BY Zenon DEF Proc!Compare
<1>2. arg[t].n \in 0..OffMax
  BY <1>1, Zenon DEF ProcInv, ProcAt
<1>3. arg[t].n \in 0..2 * OffMax + 1
  BY <1>2, SMTT(30) DEF OffsetsFit
<1>4. Moves(t, p)
  BY <1>1, <1>3, Zenon DEF Moves, ProcPcs, ProcInv, ProcTypes
<1>5. pc'[t] = p /\ take'[t] = arg[t].n
  BY <1>1, Zenon DEF Proc!Goto, ProcInv, ProcTypes
<1>6. ASSUME ~raced[t], start[t] >= 0 PROVE Reading(t)'
  <2>1. pos = start[t] /\ start[t] < Size /\ kind = "addr"
    BY <1>1, <1>6, ProcOf, Zenon DEF Reading
  <2>2. start[t] \in Int /\ Size \in Int /\ arg[t].n \in Int
    BY ProcOf, SMTT(30)
  <2>3. /\ p = "clamp" => arg[t].n > Size - start[t]
        /\ p # "clamp" => p = "copy" /\ arg[t].n = Proc!Smaller(arg[t].n, Size - start[t])
    BY <2>1, <2>2, SMTT(30) DEF Proc!Smaller
  <2> HIDE DEF p
  <2>4. p \in {"clamp", "copy"}
    BY Zenon DEF p
  <2> QED BY <1>1, <1>5, <2>1, <2>3, <2>4, Zenon DEF Reading
<1>7. p \in {"clamp", "copy"}
  BY Zenon
<1> HIDE DEF p
<1> QED BY <1>2, <1>4, <1>6, <1>7, ProcMoves, Zenon

\* The second load of the offset, to clamp the count.
LEMMA ClampFine ==
  ASSUME OffsetsFit, ProcInv, NEW t \in Threads, Proc!Clamp(t)
  PROVE  ProcInv'
<1>1. /\ pc[t] = "clamp" /\ kind' = kind /\ pos' = pos /\ arg' = arg /\ from' = from /\ start' = start
      /\ raced' = raced
  BY Zenon DEF Proc!Clamp
<1>2. arg[t].n \in 0..OffMax
  BY <1>1, Zenon DEF ProcInv, ProcAt
<1>3. ~raced[t] /\ start[t] >= 0 => pos = start[t] /\ start[t] < Size /\ kind = "addr" /\ arg[t].n > Size - start[t]
  BY <1>1, ProcOf, Zenon DEF Reading
<1>4. CASE pos <= Size
  <2>1. take' = [take EXCEPT ![t] = Size - pos] /\ Proc!Goto(t, "copy")
    BY <1>4, Zenon DEF Proc!Clamp
  <2>2. pos \in OffTs /\ OffMax \in Nat /\ Size \in Nat /\ Size <= OffMax
    BY ProcOf
  <2>3. Size - pos \in 0..2 * OffMax + 1
    BY <1>4, <2>2, SMTT(30) DEF OffTs
  <2>4. Moves(t, "copy")
    BY <1>1, <2>1, <2>3, Zenon DEF Moves, ProcPcs, ProcInv, ProcTypes
  <2>5. pc'[t] = "copy" /\ take'[t] = Size - pos
    BY <2>1, Zenon DEF Proc!Goto, ProcInv, ProcTypes
  <2>6. ASSUME ~raced[t], start[t] >= 0 PROVE Reading(t)'
    <3>1. start[t] \in Int /\ Size \in Int /\ arg[t].n \in Int
      BY ProcOf, SMTT(30)
    <3>2. Size - pos = Proc!Smaller(arg[t].n, Size - start[t])
      BY <1>3, <2>6, <3>1, SMTT(30) DEF Proc!Smaller
    <3> QED BY <1>1, <1>3, <2>5, <2>6, <3>2, Zenon DEF Reading
  <2> QED BY <1>2, <2>4, <2>6, ProcMoves, Zenon
<1>5. CASE ~(pos <= Size)
  <2>1. Proc!Goto(t, "crashed") /\ take' = take
    BY <1>5, Zenon DEF Proc!Clamp
  <2>2. Moves(t, "crashed")
    BY <1>1, <2>1, Zenon DEF Moves, ProcPcs, ProcInv, ProcTypes
  <2>3. pc'[t] = "crashed"
    BY <2>1, Zenon DEF Proc!Goto, ProcInv, ProcTypes
  <2>4. Reading(t)'
    BY <2>3, Zenon DEF Reading
  <2> QED BY <1>2, <2>2, <2>4, ProcMoves, Zenon
<1> QED BY <1>4, <1>5, Zenon

\* The copy, from where the offset is then.
LEMMA CopyFine ==
  ASSUME OffsetsFit, ProcInv, NEW t \in Threads, Proc!Copy(t)
  PROVE  ProcInv'
<1>1. /\ pc[t] = "copy" /\ kind' = kind /\ pos' = pos /\ arg' = arg /\ take' = take /\ start' = start
      /\ raced' = raced
      /\ from' = [from EXCEPT ![t] = pos] /\ Proc!Goto(t, "advance")
  BY Zenon DEF Proc!Copy
<1>2. arg[t].n \in 0..OffMax
  BY <1>1, Zenon DEF ProcInv, ProcAt
<1>3. pos \in Int
  BY ProcOf
<1>4. Moves(t, "advance")
  BY <1>1, <1>3, Zenon DEF Moves, ProcPcs, ProcInv, ProcTypes
<1>5. pc'[t] = "advance" /\ from'[t] = pos
  BY <1>1, Zenon DEF Proc!Goto, ProcInv, ProcTypes
<1>6. ASSUME ~raced[t], start[t] >= 0 PROVE Reading(t)'
  <2>1. pos = start[t] /\ start[t] < Size /\ kind = "addr"
        /\ take[t] = Proc!Smaller(arg[t].n, Size - start[t])
    BY <1>1, <1>6, ProcOf, Zenon DEF Reading
  <2>2. start[t] \in Int /\ Size \in Int /\ arg[t].n \in Int /\ take[t] \in Int /\ OffMax \in Int
        /\ Size <= OffMax
    BY ProcOf, SMTT(30)
  <2>3. start[t] + take[t] <= Size /\ start[t] + take[t] <= OffMax
    BY <2>1, <2>2, SMTT(30) DEF Proc!Smaller
  <2> QED BY <1>1, <1>5, <2>1, <2>3, Zenon DEF Reading
<1> QED BY <1>2, <1>4, <1>6, ProcMoves, Zenon

\* process_vm_readv or process_vm_writev, on /proc/pid/mem.
LEMMA VmFine ==
  ASSUME OffsetsFit, ProcInv, NEW t \in Threads, Proc!Vm(t)
  PROVE  ProcInv'
<1>1. /\ pc[t] = "mem" /\ kind' = kind /\ pos' = pos /\ arg' = arg /\ start' = start /\ raced' = raced
      /\ from' = [from EXCEPT ![t] = pos] /\ Proc!Goto(t, "advance")
  BY Zenon DEF Proc!Vm
<1>2. arg[t].n \in 0..OffMax
  BY <1>1, Zenon DEF ProcInv, ProcAt
<1>3. PICK n \in 0..arg[t].n : (n > 0 => pos + n <= Size) /\ take' = [take EXCEPT ![t] = n]
  BY Zenon DEF Proc!Vm
<1>4. pos \in Int /\ pos \in OffTs /\ OffMax \in Nat /\ Size \in Nat /\ Size <= OffMax
  BY ProcOf
<1>5. n \in 0..2 * OffMax + 1 /\ n \in Nat
  BY <1>2, <1>4, SMTT(30)
<1>6. Moves(t, "advance")
  BY <1>1, <1>3, <1>4, <1>5, Zenon DEF Moves, ProcPcs, ProcInv, ProcTypes
<1>7. pc'[t] = "advance" /\ from'[t] = pos /\ take'[t] = n
  BY <1>1, <1>3, Zenon DEF Proc!Goto, ProcInv, ProcTypes
<1>8. pos + n <= OffMax
  BY <1>3, <1>4, <1>5, SMTT(30) DEF OffTs
<1>9. ASSUME ~raced[t], start[t] >= 0 PROVE Reading(t)'
  <2>1. pos = start[t] /\ kind = "mem"
    BY <1>1, <1>9, ProcOf, Zenon DEF Reading
  <2>2. start'[t] + take'[t] = pos + n /\ from'[t] = start'[t] /\ kind' = "mem"
    BY <1>1, <1>7, <2>1, Zenon
  <2> QED BY <1>3, <1>7, <1>8, <2>2, Zenon DEF Reading
<1> QED BY <1>2, <1>6, <1>9, ProcMoves, Zenon

\* The update of the offset.
LEMMA AdvanceFine ==
  ASSUME OffsetsFit, ProcInv, NEW t \in Threads, Proc!Advance(t)
  PROVE  ProcInv'
<1>1. pc[t] = "advance" /\ pos' = Proc!OffT(pos + take[t]) /\ Proc!Return(t) /\ kind' = kind
  BY Zenon DEF Proc!Advance
<1>2. pos \in OffTs /\ take[t] \in 0..2 * OffMax + 1 /\ OffMax \in Nat
  BY ProcOf
<1>3. pos' \in OffTs
  BY <1>1, <1>2, SMTT(30) DEF Proc!OffT, OffTs
<1> QED BY <1>1, <1>3, ProcReturns, Zenon

\* The load and the store of lseek.
LEMMA SeekFine ==
  ASSUME OffsetsFit, ProcInv, NEW t \in Threads, Proc!SeekLoad(t) \/ Proc!SeekStore(t)
  PROVE  ProcInv'
<1>0. pos \in OffTs /\ OffMax \in Nat
  BY ProcOf
<1>1. CASE Proc!SeekStore(t)
  <2>1. pc[t] = "store" /\ pos' = from[t] /\ Proc!Return(t) /\ kind' = kind
    BY <1>1, Zenon DEF Proc!SeekStore
  <2>2. from[t] \in 0..OffMax
    BY <2>1, Zenon DEF ProcInv, ProcAt
  <2>3. pos' \in OffTs
    BY <1>0, <2>1, <2>2, SMTT(30) DEF OffTs
  <2> QED BY <2>1, <2>3, ProcReturns, Zenon
<1>2. CASE Proc!SeekLoad(t)
  <2> DEFINE to == Proc!NewPos(arg[t].whence, pos, arg[t].n)
  <2>1. pc[t] = "seek" /\ kind' = kind /\ pos' = pos
    BY <1>2, Zenon DEF Proc!SeekLoad
  <2>2. CASE to < 0
    <3>1. Proc!Return(t)
      BY <1>2, <2>2, Zenon DEF Proc!SeekLoad
    <3> QED BY <1>0, <2>1, <3>1, ProcReturns, Zenon
  <2>3. CASE ~(to < 0)
    <3>1. from' = [from EXCEPT ![t] = to] /\ Proc!Goto(t, "store") /\ arg' = arg /\ take' = take
          /\ start' = start
          /\ raced' = raced
      BY <1>2, <2>3, Zenon DEF Proc!SeekLoad
    <3>2. arg[t].n \in OffTs /\ arg[t].whence \in {"set", "cur", "end"}
      <4>1. arg[t] \in ProcArg /\ arg[t].n \in OffTs
        BY <2>1, Zenon DEF ProcInv, ProcTypes, ProcAt
      <4> QED BY <4>1, SMTT(30) DEF ProcArg
    <3>3. to \in 0..OffMax
      BY <1>0, <2>3, <3>2, SMTT(30) DEF Proc!NewPos, OffTs
    <3> HIDE DEF to
    <3>4. to \in Int
      BY <3>3, SMTT(30)
    <3>5. Moves(t, "store")
      BY <2>1, <3>1, <3>4, Zenon DEF Moves, ProcPcs, ProcInv, ProcTypes
    <3>6. pc'[t] = "store" /\ from'[t] = to
      BY <3>1, Zenon DEF Proc!Goto, ProcInv, ProcTypes
    <3>7. ASSUME ~raced[t], start[t] >= 0 PROVE Reading(t)'
      <4>1. pos = start[t]
        BY <2>1, <3>7, ProcOf, Zenon
      <4>2. from'[t] = Proc!NewPos(arg[t].whence, start[t], arg[t].n)'
        BY <2>1, <3>1, <3>6, <4>1, Zenon DEF Proc!NewPos, to
      <4> QED BY <3>6, <4>2, Zenon DEF Reading
    <3> QED BY <3>2, <3>3, <3>5, <3>6, <3>7, ProcMoves, Zenon
  <2> QED BY <2>2, <2>3, Zenon
<1> QED BY <1>1, <1>2, Zenon

\* Every step keeps the invariant.
LEMMA ProcStep ==
  ASSUME OffsetsFit, ProcInv, [Proc!Next]_Proc!vars
  PROVE  ProcInv'
<1>1. CASE UNCHANGED Proc!vars
  <2>1. /\ kind' = kind /\ pos' = pos /\ pc' = pc /\ arg' = arg /\ from' = from /\ take' = take
        /\ start' = start
        /\ raced' = raced
    BY <1>1, Zenon DEF Proc!vars, Proc!local
  <2>2. ProcTypes'
    BY <2>1, Zenon DEF ProcInv, ProcTypes
  <2>3. ASSUME NEW t \in Threads PROVE ProcAt(t)'
    <3>1. ProcAt(t)
      BY <2>3, Zenon DEF ProcInv
    <3>2. Reading(t) => Reading(t)'
      BY <2>1, Zenon DEF Reading, Proc!NewPos
    <3> QED BY <2>1, <3>1, <3>2, Zenon DEF ProcAt
  <2> QED BY <2>2, <2>3, Zenon DEF ProcInv
<1>2. ASSUME Proc!Open \/ Proc!Close PROVE ProcInv'
  <2>1. /\ pc' = pc /\ arg' = arg /\ from' = from /\ take' = take /\ start' = start /\ raced' = raced
    BY <1>2, Zenon DEF Proc!Open, Proc!Close, Proc!local
  <2>2. \A t \in Threads : pc[t] = "idle"
    BY <1>2, Zenon DEF Proc!Open, Proc!Close, ProcInv, ProcAt
  <2>3. kind' \in {"none", "addr", "mem"}
    BY <1>2, Zenon DEF Proc!Open, Proc!Close, Proc!dispatch
  <2>4. pos' \in OffTs
    <3>1. 0 \in OffTs
      BY SMTT(30) DEF OffTs, OffsetsFit
    <3> QED BY <1>2, <3>1, Zenon DEF Proc!Open, Proc!Close, ProcInv, ProcTypes
  <2> QED BY <2>1, <2>2, <2>3, <2>4, Zenon DEF ProcInv, ProcTypes, ProcAt
<1>3. ASSUME NEW t \in Threads, NEW n \in Counts, Proc!Read(t, n) PROVE ProcInv'
  <2>1. n \in 0..OffMax
    BY Zenon DEF OffsetsFit
  <2>2. n \in Int
    BY <2>1, SMTT(30) DEF OffsetsFit
  <2>3. [whence |-> "set", n |-> n] \in ProcArg /\ [whence |-> "set", n |-> n].n = n
    BY <2>2, SMTT(30) DEF ProcArg
  <2> DEFINE a == [whence |-> "set", n |-> n]
  <2>4. Proc!Begin(t, a, kind)
    BY <1>3, Zenon DEF Proc!Read
  <2>5. a \in ProcArg /\ a.n \in 0..OffMax
    BY <2>1, <2>3, Zenon
  <2> HIDE DEF a
  <2> QED BY <2>4, <2>5, BeginFine, Zenon
<1>4. ASSUME NEW t \in Threads, NEW w \in {"set", "cur", "end"}, NEW n \in Offsets,
             Proc!Lseek(t, w, n) PROVE ProcInv'
  <2>1. n \in OffTs
    BY Zenon DEF OffsetsFit
  <2>2. n \in Int
    BY <2>1, SMTT(30) DEF OffsetsFit, OffTs
  <2>3. [whence |-> w, n |-> n] \in ProcArg /\ [whence |-> w, n |-> n].n = n
    BY <2>2, SMTT(30) DEF ProcArg
  <2> DEFINE a == [whence |-> w, n |-> n]
  <2>4. Proc!Begin(t, a, "seek")
    BY <1>4, Zenon DEF Proc!Lseek
  <2>5. a \in ProcArg /\ a.n \in OffTs
    BY <2>1, <2>3, Zenon
  <2> HIDE DEF a
  <2> QED BY <2>4, <2>5, BeginFine, Zenon
<1> QED
  BY <1>1, <1>2, <1>3, <1>4, CheckEndFine, CompareFine, ClampFine, CopyFine, VmFine, AdvanceFine,
     SeekFine, Zenon
  DEF Proc!Next, Proc!Step

\* It holds at first.
LEMMA ProcInit ==
  ASSUME OffsetsFit, Proc!Init
  PROVE  ProcInv
<1>1. Proc!NoArg \in ProcArg /\ 0 \in Int /\ 0 \in 0..2 * OffMax + 1 /\ "idle" \in ProcPcs
      /\ FALSE \in BOOLEAN /\ 0 \in OffTs
  BY SMTT(30) DEF Proc!NoArg, ProcArg, ProcPcs, OffsetsFit, OffTs
<1>2. ProcTypes
  BY <1>1, Zenon DEF Proc!Init, ProcTypes
<1>3. \A t \in Threads : pc[t] = "idle"
  BY Zenon DEF Proc!Init
<1> QED BY <1>2, <1>3, Zenon DEF ProcInv, ProcAt

\* A read or write that nobody overlaps ends where ReadsNext says.
LEMMA ReadsNextStep ==
  ASSUME OffsetsFit, ProcInv, [Proc!Next]_Proc!vars
  PROVE  Proc!ReadsNext
<1> SUFFICES ASSUME NEW t \in Threads, pc[t] = "advance", pc'[t] = "idle", ~raced[t], start[t] >= 0
             PROVE  /\ from[t] = start[t] /\ pos' = start[t] + take[t]
                    /\ take[t] > 0 => pos' <= Size
                    /\ kind = "addr" => take[t] = Proc!Smaller(arg[t].n, Size - start[t])
  BY Zenon DEF Proc!ReadsNext
<1>1. Proc!Advance(t)
  <2>1. pc' # pc
    BY Zenon
  <2>2. PICK u \in Threads : Proc!Step(u)
    BY <2>1, Zenon DEF Proc!Next, Proc!vars, Proc!Open, Proc!Close
  <2>3. u = t
    <3>1. PICK p \in ProcPcs : pc' = [pc EXCEPT ![u] = p]
      BY <2>2, Zenon
         DEF Proc!Step, Proc!Read, Proc!Lseek, Proc!Begin, Proc!CheckEnd, Proc!Compare, Proc!Clamp,
             Proc!Copy, Proc!Vm, Proc!Advance, Proc!SeekLoad, Proc!SeekStore,
        Proc!Return, Proc!Goto, ProcPcs, ProcInv, ProcTypes
    <3> QED BY <3>1, Zenon DEF ProcInv, ProcTypes
  <2> QED
    BY <2>2, <2>3, Zenon
       DEF Proc!Step, Proc!Read, Proc!Lseek, Proc!Begin, Proc!Busy, Proc!CheckEnd, Proc!Compare,
           Proc!Clamp, Proc!Copy, Proc!Vm, Proc!SeekLoad, Proc!SeekStore
<1>2. pos = start[t] /\ Reading(t)
  BY ProcOf, Zenon
<1>3. /\ from[t] = start[t] /\ start[t] + take[t] <= OffMax
      /\ take[t] > 0 => start[t] + take[t] <= Size
      /\ kind = "addr" => take[t] = Proc!Smaller(arg[t].n, Size - start[t])
  BY <1>2, Zenon DEF Reading
<1>4. pos' = Proc!OffT(start[t] + take[t])
  BY <1>1, <1>2, Zenon DEF Proc!Advance
<1>5. start[t] \in Int /\ take[t] \in Nat /\ OffMax \in Nat
  BY ProcOf
<1>6. Proc!OffT(start[t] + take[t]) = start[t] + take[t]
  BY <1>3, <1>5, SMTT(30) DEF Proc!OffT
<1> QED BY <1>3, <1>4, <1>6, Zenon

\* A seek that nobody overlaps ends where SeeksThere says.
LEMMA SeeksThereStep ==
  ASSUME OffsetsFit, ProcInv, [Proc!Next]_Proc!vars
  PROVE  Proc!SeeksThere
<1> SUFFICES ASSUME NEW t \in Threads, pc[t] \in {"seek", "store"}, pc'[t] = "idle", ~raced[t],
                    start[t] >= 0
             PROVE  LET a == arg[t]
                        to == IF a.whence = "cur" THEN start[t] + a.n ELSE a.n
                        ok == to \in 0..OffMax /\ (kind = "mem" => a.whence # "end")
                    IN pos' = IF ok THEN to ELSE start[t]
  BY Zenon DEF Proc!SeeksThere
<1>1. Proc!SeekLoad(t) \/ Proc!SeekStore(t)
  <2>1. pc' # pc
    BY Zenon
  <2>2. PICK u \in Threads : Proc!Step(u)
    BY <2>1, Zenon DEF Proc!Next, Proc!vars, Proc!Open, Proc!Close
  <2>3. u = t
    <3>1. PICK p \in ProcPcs : pc' = [pc EXCEPT ![u] = p]
      BY <2>2, Zenon
         DEF Proc!Step, Proc!Read, Proc!Lseek, Proc!Begin, Proc!CheckEnd, Proc!Compare, Proc!Clamp,
             Proc!Copy, Proc!Vm, Proc!Advance, Proc!SeekLoad, Proc!SeekStore,
        Proc!Return, Proc!Goto, ProcPcs, ProcInv, ProcTypes
    <3> QED BY <3>1, Zenon DEF ProcInv, ProcTypes
  <2> QED
    BY <2>2, <2>3, Zenon
       DEF Proc!Step, Proc!Read, Proc!Lseek, Proc!Begin, Proc!Busy, Proc!CheckEnd, Proc!Compare,
           Proc!Clamp, Proc!Copy, Proc!Vm, Proc!Advance
<1>2. pos = start[t] /\ Reading(t)
  BY ProcOf, Zenon
<1> DEFINE to == Proc!NewPos(arg[t].whence, start[t], arg[t].n)
<1>3. pos' = IF to < 0 THEN start[t] ELSE to
  <2>1. CASE Proc!SeekLoad(t)
    <3>1. pos' = pos /\ (to < 0 \/ Proc!Goto(t, "store"))
      BY <1>2, <2>1, Zenon DEF Proc!SeekLoad
    <3>2. ~Proc!Goto(t, "store")
      BY Zenon DEF Proc!Goto, ProcInv, ProcTypes
    <3> HIDE DEF to
    <3> QED BY <1>2, <3>1, <3>2, Zenon
  <2>2. CASE Proc!SeekStore(t)
    <3>1. pos' = from[t] /\ pc[t] = "store"
      BY <2>2, Zenon DEF Proc!SeekStore
    <3>2. from[t] = to /\ from[t] \in 0..OffMax
      BY <1>2, <3>1, Zenon DEF Reading, ProcInv, ProcAt
    <3>3. ~(from[t] < 0)
      BY <3>2, ProcOf, SMTT(30)
    <3> HIDE DEF to
    <3> QED BY <3>1, <3>2, <3>3, Zenon
  <2> QED BY <1>1, <2>1, <2>2, Zenon
<1>4. arg[t].n \in OffTs /\ arg[t].whence \in {"set", "cur", "end"} /\ kind \in {"addr", "mem"}
  <2>1. arg[t] \in ProcArg /\ arg[t].n \in OffTs /\ kind \in {"none", "addr", "mem"} /\ kind # "none"
    BY Zenon DEF ProcInv, ProcTypes, ProcAt
  <2> QED BY <2>1, SMTT(30) DEF ProcArg
<1>5. start[t] \in Int /\ OffMax \in Nat
  BY ProcOf
<1>6. \A w \in {"set", "cur", "end"}, n \in OffTs, s \in Nat :
        LET there == IF w = "cur" THEN s + n ELSE n
            ok == there \in 0..OffMax /\ (kind = "mem" => w # "end")
        IN (IF Proc!NewPos(w, s, n) < 0 THEN s ELSE Proc!NewPos(w, s, n)) = IF ok THEN there ELSE s
  BY <1>4, <1>5, SMTT(30) DEF Proc!NewPos, OffTs
<1>7. start[t] \in Nat
  BY <1>5, SMTT(30)
<1> QED BY <1>3, <1>4, <1>6, <1>7, Zenon

\* A read of a made-up /proc file that no other call on it overlaps starts
\* where the last call left the offset, stays within the file and moves the
\* offset by what it took; lseek goes exactly where it was told, or leaves the
\* offset alone (mmap_min_addr_read, proc_pid_mem_read and their lseek). For
\* every file size and width of off_t.
THEOREM ReadsThrough == OffsetsFit => (Proc!Spec => [][Proc!ReadsInOrder]_Proc!vars)
<1> SUFFICES ASSUME OffsetsFit PROVE Proc!Spec => [][Proc!ReadsInOrder]_Proc!vars
  OBVIOUS
<1>1. Proc!Init => ProcInv
  BY ProcInit
<1>2. ProcInv /\ [Proc!Next]_Proc!vars => ProcInv'
  BY ProcStep
<1>3. ProcInv /\ [Proc!Next]_Proc!vars => [Proc!ReadsInOrder]_Proc!vars
  BY ReadsNextStep, SeeksThereStep, Zenon DEF Proc!ReadsInOrder
<1> QED BY <1>1, <1>2, <1>3, PTL DEF Proc!Spec
=============================================================================
