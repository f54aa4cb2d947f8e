------------------------------ MODULE Tunables -----------------------------
(***************************************************************************)
(* tunables.c and the per-callsite cache of tunables.h: the user's         *)
(* attributes on the executable, the table made from them, the list scan,  *)
(* and the decision whether a shim passes its calls through.               *)
(*                                                                         *)
(* One callsite of wslcompat_passthru is used by several threads.  The two *)
(* cached words are plain statics: each load and store is an action, and   *)
(* the two stores of one thread happen in either order.  (gcc -O2, the     *)
(* build of GNUmakefile, stores __cached_name first in mmap, mincore,      *)
(* rename and open.)                                                       *)
(***************************************************************************)
EXTENDS Integers, Sequences, SequencesExt

CONSTANTS
  Threads,
  KeyBuf, ValBuf, MaxOptions,   \* the sizes of struct opt and of the table
  ListBuf, Prefix,              \* of the list of names, and of kPrefix
  Tables,                       \* the attribute lists an executable may have
  Name, Disabled, Enabled       \* the feature, and the two keys, as characters

Nul == "0"

VARIABLES
  attrs,         \* the executable's attributes: key and value; ours: user.wslcompat.<key>
  disable,       \* __WSLCOMPAT_DISABLE is in the environment
  options,       \* the table; loaded: the constructor has run
  loaded,
  unread,        \* history: the constructor could not read the executable
  cached_name, cached_result,
  at, value,     \* where each thread is in the macro, and what it computed
  torn,          \* history: it saw the name while another had still to store the result
  early          \* history: the callsite was used before the constructor ran

vars == <<attrs, disable, options, loaded, unread, cached_name, cached_result, at, value, torn, early>>

Init ==
  /\ attrs \in Tables /\ disable \in BOOLEAN
  /\ options = <<>> /\ loaded = FALSE /\ unread = FALSE
  /\ cached_name = FALSE /\ cached_result = FALSE
  /\ at = [t \in Threads |-> "idle"] /\ value = [t \in Threads |-> FALSE]
  /\ torn = [t \in Threads |-> FALSE] /\ early = FALSE

-----------------------------------------------------------------------------
Has(opts, key)   == \E i \in DOMAIN opts : opts[i].key = key
Index(opts, key) == CHOOSE i \in DOMAIN opts : opts[i].key = key

\* What flistxattr returns: the names, each with its zero.
ListSize(as) == FoldLeft(LAMBDA n, a : n + (IF a.ours THEN Prefix ELSE 0) + Len(a.key) + 1, 0, as)

\* fgetxattr does not return a value that does not fit (ERANGE); snprintf cuts the
\* key; lsearch keeps the first of two equal keys; a full table ends the loop.
tunables_add_option(opts, a) ==
  LET key == SubSeq(a.key, 1, KeyBuf - 1) IN
  IF ~a.ours \/ Len(a.val) >= ValBuf \/ Len(opts) >= MaxOptions \/ Has(opts, key) THEN opts
  ELSE Append(opts, [key |-> key, val |-> a.val])

\* The bytes of the table: each option is its key and its value, padded with zeros.
Byte(opts, k) ==
  LET width == KeyBuf + ValBuf
      i == k \div width + 1
      j == k % width
      Char(s, n) == IF n < Len(s) THEN s[n + 1] ELSE Nul IN
  IF i \notin DOMAIN opts THEN Nul
  ELSE IF j < KeyBuf THEN Char(opts[i].key, j) ELSE Char(opts[i].val, j - KeyBuf)

strchrnul(opts, s) ==
  CHOOSE p \in s..(s + ValBuf) :
    Byte(opts, p) \in {",", Nul} /\ \A q \in s..(p - 1) : Byte(opts, q) \notin {",", Nul}

\* Mutant: strncmp decides alone.
SamePrefix(opts, s, p, contains) ==
  \A q \in s..(p - 1) : q - s < Len(contains) => Byte(opts, q) = contains[q - s + 1]

\* The entry from s up to p is the name: the lengths and then the characters.
SameEntry(opts, s, p, contains) ==
  /\ p - s = Len(contains)
  /\ \A q \in s..(p - 1) : Byte(opts, q) = contains[q - s + 1]

\* The loop steps over the character that ended an entry, a comma or the zero.
wslcompat_tunable_list(opts, key, contains) ==
  LET end == Len(opts) * (KeyBuf + ValBuf)
      Scan[s \in 0..(end + 1)] ==
        IF Byte(opts, s) = Nul THEN FALSE
        ELSE LET p == strchrnul(opts, s) IN SameEntry(opts, s, p, contains) \/ Scan[p + 1] IN
  Has(opts, key) /\ Scan[(Index(opts, key) - 1) * (KeyBuf + ValBuf) + KeyBuf]

wslcompat_enabled ==
  /\ ~disable
  /\ ~wslcompat_tunable_list(options, Disabled, Name)
  /\ Has(options, Enabled) => wslcompat_tunable_list(options, Enabled, Name)

-----------------------------------------------------------------------------
\* The constructor of tunables.c.  It loads nothing when /proc/self/exe cannot be
\* opened, and when the names of all attributes do not fit its list (ERANGE).
Load ==
  /\ ~loaded /\ loaded' = TRUE
  /\ \E ok \in BOOLEAN :
       /\ unread' = ~ok
       /\ options' = IF ok /\ ListSize(attrs) < ListBuf
                       THEN FoldLeft(tunables_add_option, <<>>, attrs) ELSE <<>>
  /\ UNCHANGED <<attrs, disable, cached_name, cached_result, at, value, torn, early>>

Goto(t, p) == at' = [at EXCEPT ![t] = p]

\* if (__cached_name != __name)
Check(t) ==
  /\ at[t] = "idle"
  /\ Goto(t, IF cached_name THEN "answer" ELSE "eval")
  /\ torn' = [torn EXCEPT ![t] = cached_name /\ \E u \in Threads : at[u] = "result"]
  /\ early' = (early \/ ~loaded)
  /\ UNCHANGED <<attrs, disable, options, loaded, unread, cached_name, cached_result, value>>

Eval(t) ==
  /\ at[t] = "eval" /\ Goto(t, "stores")
  /\ value' = [value EXCEPT ![t] = ~wslcompat_enabled]
  /\ UNCHANGED <<attrs, disable, options, loaded, unread, cached_name, cached_result, torn, early>>

\* Mutant: a result that is already there is kept.
StoreResultOnce(t) ==
  /\ \/ at[t] = "stores" /\ Goto(t, "name")
     \/ at[t] = "result" /\ Goto(t, "answer")
  /\ cached_result' = (cached_result /\ value[t])
  /\ UNCHANGED <<attrs, disable, options, loaded, unread, cached_name, value, torn, early>>

StoreResult(t) ==
  /\ \/ at[t] = "stores" /\ Goto(t, "name")
     \/ at[t] = "result" /\ Goto(t, "answer")
  /\ cached_result' = value[t]
  /\ UNCHANGED <<attrs, disable, options, loaded, unread, cached_name, value, torn, early>>

StoreName(t) ==
  /\ \/ at[t] = "stores" /\ Goto(t, "result")
     \/ at[t] = "name" /\ Goto(t, "answer")
  /\ cached_name' = TRUE
  /\ UNCHANGED <<attrs, disable, options, loaded, unread, cached_result, value, torn, early>>

Answer(t) ==
  /\ at[t] = "answer" /\ Goto(t, "idle")
  /\ UNCHANGED <<attrs, disable, options, loaded, unread, cached_name, cached_result, value, torn, early>>

Next ==
  \/ Load
  \/ \E t \in Threads : Check(t) \/ Eval(t) \/ StoreResult(t) \/ StoreName(t) \/ Answer(t)

-----------------------------------------------------------------------------
\* What TUNABLES.md says of the attributes: entries are what is between commas.
Entry(val, name) ==
  \E i \in 1..(Len(val) + 1) : LET j == i + Len(name) - 1 IN
    /\ j <= Len(val) /\ SubSeq(val, i, j) = name
    /\ i = 1 \/ val[i - 1] = ","
    /\ j = Len(val) \/ val[j + 1] = ","
Says(as, key, name) == \E i \in DOMAIN as : as[i].key = key /\ Entry(as[i].val, name)
Wants(as) ==
  /\ ~disable /\ ~Says(as, Disabled, Name)
  /\ Has(as, Enabled) => Says(as, Enabled, Name)

Ours == SelectSeq(attrs, LAMBDA a : a.ours)

\* The shim is to run.  Where the executable cannot be read, or the names of its
\* attributes, of others' too, fill the list, it counts as having none, and the
\* environment alone decides: a shim the user has disabled then runs.
Wanted == IF unread \/ ListSize(attrs) >= ListBuf THEN Wants(<<>>) ELSE Wants(Ours)

\* The attributes fit: not too many, none too long.  A value of ValBuf - 1
\* characters is loaded, but the scan goes on into the next option's key.
Fits ==
  /\ Len(Ours) <= MaxOptions
  /\ \A i \in DOMAIN Ours : Len(Ours[i].key) < KeyBuf /\ Len(Ours[i].val) < ValBuf - 1

\* Every thread that asks whether the shim passes through gets the answer the
\* user's attributes and environment give, however the first uses of the callsite
\* overlap.  Exceptions: an executable the constructor cannot read or whose names
\* are too many (Wanted); attributes that do not fit; a first use before the
\* constructor has run; a thread that sees the name before the result.
DecidesAsConfigured ==
  \A t \in Threads : at[t] = "answer" /\ Fits /\ ~early /\ ~torn[t] => cached_result = ~Wanted

\* tunables.h:12-14 on the cache: "By using a macro, each shim gets its own
\* private cache, avoiding contention between different functions and providing
\* thread-safety (via benign races) without TLS": no thread gets a wrong answer.
RacesAreBenign ==
  \A t \in Threads : at[t] = "answer" /\ Fits /\ ~early => cached_result = ~Wanted
=============================================================================
