-------------------------- MODULE SessionNamesProofs --------------------------
(***************************************************************************)
(* Proof that the names in the browsers converge (SessionNames), and that  *)
(* json-store.ts implements the store they are kept in (JsonStore), for    *)
(* any browsers, keys, names, renames, faults and retries, and for any     *)
(* callers, values and updates.                                            *)
(***************************************************************************)
EXTENDS SessionNames, JsonStore, SequenceTheorems, TLAPS

-----------------------------------------------------------------------------
(* The invariant.                                                          *)

\* The store has the requests that have arrived, each once; one whose change
\* has landed is told before the next change does.
StoreInv ==
    /\ \A i \in DOMAIN put : told[i] # "idle" <=> put[i].at = "served"
    /\ \A i \in Put : told[i] # "idle" => i \in DOMAIN put
    /\ \A x \in DOMAIN queue :
          /\ queue[x].by \in DOMAIN put
          /\ told[queue[x].by] = "waiting"
          /\ queue[x].op = Asked(queue[x].by)
    /\ \A x, y \in DOMAIN queue : queue[x].by = queue[y].by => x = y
    /\ \A i, j \in Untold : i = j
    /\ \A i \in Untold : told[i] = "ok" => value[put[i].key] = put[i].name

Newest(i) == \A j \in DOMAIN put : put[j].key = put[i].key => j <= i

\* As long as the renames of a key do not overlap and do not fail, the newest
\* is the only one under way, and in the end its name is the value.
AloneInv ==
    \A i \in DOMAIN put : ~contested[put[i].key] =>
        /\ ~Newest(i) => put[i].at = "done"
        /\ Newest(i) /\ put[i].at \in {"ok", "done"} => value[put[i].key] = put[i].name

\* A change of k has landed and is about to be told.
Telling(k) == \E i \in Untold : told[i] = "ok" /\ put[i].key = k

\* The last event of a key has the value.
EventInv ==
    \A b \in Browser :
        /\ ~link[b] => events[b] = <<>>
        /\ \A x \in DOMAIN events[b] :
              \/ Telling(events[b][x].key)
              \/ \E y \in DOMAIN events[b] : y > x /\ events[b][y].key = events[b][x].key
              \/ events[b][x].name = value[events[b][x].key]

\* Nothing that changes k is on its way to b; its own renames have been
\* answered, and are not among the exceptions of Converges.
Quiet(b, k) == ~Telling(k) /\ \A x \in DOMAIN events[b] : events[b][x].key # k
Free(b, k) ==
    /\ \A i \in DOMAIN put : put[i].by = b /\ put[i].key = k => put[i].at = "done"
    /\ ~(contested[k] /\ Renamed(b, k))
Right(b, k) == Quiet(b, k) /\ Free(b, k) => names[b][k] = value[k]

\* A change marks the GETs under way: an older one has every mark of a newer.
MarkInv ==
    \A b \in Browser : \A i, j \in DOMAIN loads[b] :
        i < j => loads[b][j].changed \subseteq loads[b][i].changed

\* A GET that was sent after the events socket opened: what it has read and may
\* still show is the value, and so is what it will not show.
Good(b, l) ==
    \A k \in Key :
        /\ Quiet(b, k) /\ l.snap # NoAnswer /\ k \notin l.changed => l.snap[k] = value[k]
        /\ k \in l.changed => Right(b, k)

\* The first n GETs of b were sent before its socket opened.  One that came
\* later will be taken; or one has been, and none of the first n will be.
Ahead(b, n) == chain[b] = "wait" \/ \E j \in DOMAIN loads[b] : j > n /\ ~loads[b][j].stale
Opened(b, n) ==
    /\ \A j \in DOMAIN loads[b] : j > n => Good(b, loads[b][j])
    /\ \/ Ahead(b, n)
       \/ /\ \A j \in DOMAIN loads[b] : j <= n => loads[b][j].stale
          /\ \A k \in Key : Right(b, k)
View(b) == link[b] /\ ~missed[b] => \E n \in Nat : Opened(b, n)
ViewInv == \A b \in Browser : View(b)

IInv == TypeOK /\ StoreInv /\ AloneInv /\ EventInv /\ MarkInv /\ ViewInv
-----------------------------------------------------------------------------
(* Sequences.                                                              *)

LEMMA AppendIs ==
    ASSUME NEW X, NEW s \in Seq(X), NEW m \in X
    PROVE  /\ Append(s, m) \in Seq(X) /\ Len(s) \in Nat
           /\ Len(Append(s, m)) = Len(s) + 1
           /\ DOMAIN s = 1 .. Len(s) /\ DOMAIN Append(s, m) = DOMAIN s \cup {Len(s) + 1}
           /\ \A i \in DOMAIN s : i \in Nat /\ i <= Len(s) /\ Append(s, m)[i] = s[i]
           /\ Append(s, m)[Len(s) + 1] = m
<1>1. /\ Len(s) \in Nat /\ DOMAIN s = 1 .. Len(s) /\ Append(s, m) \in Seq(X)
      /\ Len(Append(s, m)) = Len(s) + 1
      /\ DOMAIN Append(s, m) = 1 .. Len(Append(s, m))
  BY LenProperties, AppendProperties
<1>2. 1 .. Len(s) + 1 = (1 .. Len(s)) \cup {Len(s) + 1}
  BY <1>1
<1> QED BY <1>1, <1>2, AppendProperties

LEMMA OneIs ==
    ASSUME NEW X, NEW l \in X
    PROVE  <<l>> \in Seq(X) /\ DOMAIN <<l>> = {1} /\ <<l>>[1] = l
<1> DEFINE s == <<l>>
<1>1. s \in Seq(X) /\ Len(s) = 1 /\ s[1] = l
  OBVIOUS
<1> HIDE DEF s
<1>2. DOMAIN s = 1 .. 1
  BY <1>1, LenProperties
<1>3. s \in Seq(X) /\ DOMAIN s = {1} /\ s[1] = l
  BY <1>1, <1>2
<1> QED BY <1>3 DEF s

LEMMA TailIs ==
    ASSUME NEW X, NEW s \in Seq(X), s # <<>>
    PROVE  /\ Tail(s) \in Seq(X) /\ Head(s) \in X /\ Head(s) = s[1]
           /\ 1 \in DOMAIN s
           /\ \A x \in DOMAIN Tail(s) :
                 x \in Nat /\ x + 1 # 1 /\ x + 1 \in DOMAIN s /\ Tail(s)[x] = s[x + 1]
           /\ \A y \in DOMAIN s : y \in Nat /\ (y = 1 \/ (y - 1 \in DOMAIN Tail(s) /\ s[y] = Tail(s)[y - 1]))
<1>1. /\ Len(s) \in Nat \ {0} /\ DOMAIN s = 1 .. Len(s)
  BY LenProperties, EmptySeq
<1>2. /\ Tail(s) \in Seq(X) /\ Head(s) \in X /\ Head(s) = s[1] /\ Len(Tail(s)) = Len(s) - 1
      /\ \A i \in 1 .. Len(Tail(s)) : Tail(s)[i] = s[i + 1]
  BY <1>1, HeadTailProperties
<1>3. DOMAIN Tail(s) = 1 .. Len(s) - 1
  BY <1>2, LenProperties
<1>4. \A y \in 2 .. Len(s) : y - 1 \in 1 .. Len(s) - 1 /\ (y - 1) + 1 = y
  BY <1>1
<1>5. \A y \in 1 .. Len(s) : y = 1 \/ y \in 2 .. Len(s)
  BY <1>1
<1>6. \A x \in 1 .. Len(s) - 1 : x \in Nat /\ x + 1 # 1 /\ x + 1 \in 1 .. Len(s)
  BY <1>1
<1>7. 1 \in 1 .. Len(s) /\ \A y \in 1 .. Len(s) : y \in Nat
  BY <1>1
<1>8. \A y \in 2 .. Len(s) : y - 1 \in DOMAIN Tail(s) /\ s[y] = Tail(s)[y - 1]
  BY <1>2, <1>3, <1>4
<1> QED BY <1>1, <1>2, <1>3, <1>5, <1>6, <1>7, <1>8

LEMMA RemoveAtIs ==
    ASSUME NEW X, NEW s \in Seq(X), NEW j \in DOMAIN s
    PROVE  /\ RemoveAt(s, j) \in Seq(X) /\ j \in Nat
           /\ \A i \in DOMAIN RemoveAt(s, j) :
                 /\ i \in Nat
                 /\ i < j => i \in DOMAIN s /\ RemoveAt(s, j)[i] = s[i]
                 /\ i >= j => i + 1 \in DOMAIN s /\ RemoveAt(s, j)[i] = s[i + 1]
           /\ \A i \in DOMAIN s :
                 /\ i \in Nat
                 /\ i < j => i \in DOMAIN RemoveAt(s, j)
                 /\ i > j => i - 1 \in DOMAIN RemoveAt(s, j) /\ RemoveAt(s, j)[i - 1] = s[i]
<1> DEFINE n == Len(s)
           a == SubSeq(s, 1, j - 1)
           c == SubSeq(s, j + 1, n)
<1>1. n \in Nat /\ DOMAIN s = 1 .. n /\ j \in 1 .. n
  BY LenProperties
<1>2. a \in Seq(X) /\ Len(a) = j - 1 /\ \A i \in 1 .. j - 1 : a[i] = s[i]
  <2>1. 1 \in Int /\ j - 1 \in Int /\ \A i \in 1 .. j - 1 : s[i] \in X /\ 1 + i - 1 = i
    BY <1>1
  <2>2. a = [i \in 1 .. j - 1 |-> s[i]]
    BY <1>1, <2>1
  <2>3. a \in Seq(X) /\ Len(a) = j - 1
    BY <1>1, <2>1, <2>2
  <2>4. \A i \in 1 .. j - 1 : a[i] = s[i]
    BY <2>2
  <2> QED BY <2>3, <2>4
<1>3. c \in Seq(X) /\ Len(c) = n - j /\ \A i \in 1 .. n - j : c[i] = s[j + i]
  <2>1. \A i \in 1 .. n - j : j + i \in 1 .. n /\ s[j + i] \in X
    BY <1>1
  <2>2. c = [i \in 1 .. n - j |-> s[j + i]]
    <3>1. c = [i \in 1 .. n - (j + 1) + 1 |-> s[(j + 1) + i - 1]]
      BY <1>1
    <3>2. n - (j + 1) + 1 = n - j /\ \A i \in 1 .. n - j : (j + 1) + i - 1 = j + i
      BY <1>1
    <3> QED BY <3>1, <3>2
  <2>3. c \in Seq(X) /\ Len(c) = n - j
    BY <1>1, <2>1, <2>2
  <2>4. \A i \in 1 .. n - j : c[i] = s[j + i]
    BY <2>2
  <2> QED BY <2>3, <2>4
<1> DEFINE r == a \o c
<1>4. RemoveAt(s, j) = r
  BY DEF RemoveAt
<1> HIDE DEF a, c, n
<1>5. /\ r \in Seq(X) /\ Len(r) = n - 1
      /\ \A i \in 1 .. n - 1 : r[i] = IF i <= j - 1 THEN a[i] ELSE c[i - (j - 1)]
  <2>1. Len(a) + Len(c) = n - 1
    BY <1>1, <1>2, <1>3
  <2>2. /\ r \in Seq(X) /\ Len(r) = Len(a) + Len(c)
        /\ \A i \in 1 .. Len(a) + Len(c) : r[i] = IF i <= Len(a) THEN a[i] ELSE c[i - Len(a)]
    BY <1>2, <1>3, ConcatProperties
  <2> QED BY <1>2, <2>1, <2>2
<1>6. DOMAIN r = 1 .. n - 1
  BY <1>5, LenProperties
<1> HIDE DEF r
<1>7. \A i \in 1 .. n - 1 :
         /\ i \in Nat
         /\ i < j => i \in 1 .. n /\ r[i] = s[i]
         /\ i >= j => i + 1 \in 1 .. n /\ r[i] = s[i + 1]
  <2> SUFFICES ASSUME NEW i \in 1 .. n - 1
               PROVE /\ i \in Nat
                     /\ i < j => i \in 1 .. n /\ r[i] = s[i]
                     /\ i >= j => i + 1 \in 1 .. n /\ r[i] = s[i + 1]
    OBVIOUS
  <2>1. CASE i < j
    <3>1. i <= j - 1 /\ i \in 1 .. j - 1 /\ i \in 1 .. n
      BY <1>1, <2>1
    <3> QED BY <1>2, <1>5, <2>1, <3>1
  <2>2. CASE i >= j
    <3>1. ~(i <= j - 1) /\ i - (j - 1) \in 1 .. n - j /\ j + (i - (j - 1)) = i + 1 /\ i + 1 \in 1 .. n
      BY <1>1, <2>2
    <3>2. r[i] = c[i - (j - 1)]
      BY <1>5, <3>1
    <3>3. c[i - (j - 1)] = s[j + (i - (j - 1))]
      BY <1>3, <3>1
    <3> QED BY <1>1, <2>2, <3>1, <3>2, <3>3
  <2> QED BY <1>1, <2>1, <2>2
<1>8. \A i \in 1 .. n :
         /\ i < j => i \in 1 .. n - 1
         /\ i > j => i - 1 \in 1 .. n - 1 /\ r[i - 1] = s[i]
  <2> SUFFICES ASSUME NEW i \in 1 .. n
               PROVE /\ i < j => i \in 1 .. n - 1
                     /\ i > j => i - 1 \in 1 .. n - 1 /\ r[i - 1] = s[i]
    OBVIOUS
  <2>1. i < j => i \in 1 .. n - 1
    BY <1>1
  <2>2. ASSUME i > j PROVE i - 1 \in 1 .. n - 1 /\ i - 1 >= j /\ (i - 1) + 1 = i
    BY <1>1, <2>2
  <2>3. ASSUME i > j PROVE r[i - 1] = s[i]
    BY <1>7, <2>2, <2>3
  <2> QED BY <2>1, <2>2, <2>3
<1> QED BY <1>1, <1>4, <1>5, <1>6, <1>7, <1>8

\* A sequence changed element by element.
LEMMA MappedIs ==
    ASSUME NEW X, NEW s \in Seq(X), NEW f, DOMAIN f = DOMAIN s, f = [i \in DOMAIN s |-> f[i]],
           \A i \in DOMAIN s : f[i] \in X
    PROVE  f \in Seq(X) /\ Len(f) = Len(s)
<1>1. Len(s) \in Nat /\ DOMAIN s = 1 .. Len(s)
  BY LenProperties
<1>2. f \in [1 .. Len(s) -> X]
  BY <1>1
<1> QED BY <1>1, <1>2
-----------------------------------------------------------------------------
(* What the actions do to the sequences of the state.                      *)

LEMMA PutFacts ==
    ASSUME TypeOK
    PROVE  /\ DOMAIN put = 1 .. Len(put) /\ Len(put) \in Nat
           /\ \A i \in DOMAIN put :
                 /\ put[i] \in Renaming /\ i \in Put /\ i \in Nat
                 /\ Asked(i) \in Change /\ Asked(i).key = put[i].key /\ Asked(i).name = put[i].name
<1>1. put \in Seq(Renaming) /\ Len(put) <= MaxRenames
  BY DEF TypeOK
<1>2. DOMAIN put = 1 .. Len(put) /\ Len(put) \in Nat
  BY <1>1, LenProperties
<1>3. ASSUME NEW i \in DOMAIN put
      PROVE  /\ put[i] \in Renaming /\ i \in Put /\ i \in Nat
             /\ Asked(i) \in Change /\ Asked(i).key = put[i].key /\ Asked(i).name = put[i].name
  <2>1. put[i] \in Renaming
    BY <1>1, <1>2
  <2>2. i \in Put /\ i \in Nat
    BY <1>1, <1>2, SessionNamesAssumption DEF Put
  <2> QED BY <2>1, <2>2 DEF Asked, Change, Renaming
<1> QED BY <1>2, <1>3

LEMMA RenamingFacts ==
    ASSUME NEW r \in Renaming
    PROVE  /\ r.by \in Browser /\ r.key \in Key /\ r.name \in NameOrNone
           /\ r.prev \in NameOrNone /\ r.at \in PutPhase
  BY DEF Renaming

SamePuts ==
    /\ DOMAIN put' = DOMAIN put
    /\ \A i \in DOMAIN put :
          put'[i].by = put[i].by /\ put'[i].key = put[i].key /\ put'[i].name = put[i].name

\* A rename goes on.
LEMMA PutGoesOn ==
    ASSUME TypeOK, NEW i \in DOMAIN put, NEW a \in PutPhase, put' = [put EXCEPT ![i].at = a]
    PROVE  /\ put' \in Seq(Renaming) /\ Len(put') = Len(put) /\ SamePuts
           /\ \A j \in DOMAIN put : put'[j].at = IF j = i THEN a ELSE put[j].at
<1>1. put \in Seq(Renaming) /\ DOMAIN put = 1 .. Len(put) /\ put[i] \in Renaming
  BY PutFacts DEF TypeOK
<1> DEFINE r == [put[i] EXCEPT !.at = a]
<1>2. /\ r \in Renaming /\ r.by = put[i].by /\ r.key = put[i].key /\ r.name = put[i].name
      /\ r.at = a
  BY <1>1 DEF Renaming
<1>3. put' = [put EXCEPT ![i] = r]
  OBVIOUS
<1> HIDE DEF r
<1>4. /\ put' \in Seq(Renaming) /\ Len(put') = Len(put)
      /\ \A j \in DOMAIN put : put'[j] = IF j = i THEN r ELSE put[j]
  BY <1>1, <1>2, <1>3, ExceptSeq
<1>5. DOMAIN put' = DOMAIN put
  BY <1>1, <1>4, LenProperties
<1> QED BY <1>2, <1>4, <1>5 DEF SamePuts

LEMMA MarkIs ==
    ASSUME NEW ls \in Seq(Load), NEW k \in Key
    PROVE  /\ MarkChanged(ls, k) \in Seq(Load) /\ DOMAIN MarkChanged(ls, k) = DOMAIN ls
           /\ \A j \in DOMAIN ls :
                 /\ MarkChanged(ls, k)[j].chain = ls[j].chain
                 /\ MarkChanged(ls, k)[j].snap = ls[j].snap
                 /\ MarkChanged(ls, k)[j].stale = ls[j].stale
                 /\ MarkChanged(ls, k)[j].changed = ls[j].changed \cup {k}
<1> DEFINE m == MarkChanged(ls, k)
<1>1. ASSUME NEW j \in DOMAIN ls
      PROVE /\ m[j] \in Load /\ m[j].chain = ls[j].chain /\ m[j].snap = ls[j].snap
            /\ m[j].stale = ls[j].stale /\ m[j].changed = ls[j].changed \cup {k}
  <2>1. ls[j] \in Load
    BY LenProperties
  <2>2. m[j] = [ls[j] EXCEPT !.changed = @ \cup {k}]
    BY DEF MarkChanged
  <2> QED BY <2>1, <2>2 DEF Load
<1>2. m = [j \in DOMAIN ls |-> m[j]] /\ DOMAIN m = DOMAIN ls
  BY DEF MarkChanged
<1> HIDE DEF m
<1>3. m \in Seq(Load)
  BY <1>1, <1>2, MappedIs
<1> QED BY <1>1, <1>2, <1>3 DEF m

LEMMA OutdatedIs ==
    ASSUME NEW ls \in Seq(Load), NEW j \in DOMAIN ls
    PROVE  /\ Outdated(ls, j) \in Seq(Load) /\ DOMAIN Outdated(ls, j) = DOMAIN ls
           /\ \A i \in DOMAIN ls :
                 /\ Outdated(ls, j)[i].chain = ls[i].chain
                 /\ Outdated(ls, j)[i].snap = ls[i].snap
                 /\ Outdated(ls, j)[i].stale <=> (ls[i].stale \/ i < j)
                 /\ Outdated(ls, j)[i].changed = ls[i].changed
<1> DEFINE m == Outdated(ls, j)
<1>1. ASSUME NEW i \in DOMAIN ls
      PROVE /\ m[i] \in Load /\ m[i].chain = ls[i].chain /\ m[i].snap = ls[i].snap
            /\ m[i].stale <=> (ls[i].stale \/ i < j)
            /\ m[i].changed = ls[i].changed
  <2>1. ls[i] \in Load
    BY LenProperties
  <2>2. m[i] = IF i < j THEN [ls[i] EXCEPT !.stale = TRUE] ELSE ls[i]
    BY DEF Outdated
  <2>3. CASE i < j
    BY <2>1, <2>2, <2>3 DEF Load
  <2>4. CASE ~(i < j)
    BY <2>1, <2>2, <2>4 DEF Load
  <2> QED BY <2>3, <2>4
<1>2. m = [i \in DOMAIN ls |-> m[i]] /\ DOMAIN m = DOMAIN ls
  BY DEF Outdated
<1> HIDE DEF m
<1>3. m \in Seq(Load)
  BY <1>1, <1>2, MappedIs
<1> QED BY <1>1, <1>2, <1>3 DEF m

LEMMA NewLoadIs ==
    ASSUME NEW c \in BOOLEAN
    PROVE  /\ NewLoad(c) \in Load /\ NewLoad(c).chain = c /\ NewLoad(c).snap = NoAnswer
           /\ NewLoad(c).changed = {} /\ NewLoad(c).stale = FALSE
  BY DEF NewLoad, Load

\* A name changes in a browser.
LEMMA ShowIs ==
    ASSUME TypeOK, NEW b \in Browser, NEW k \in Key, NEW n \in NameOrNone, Show(b, k, n)
    PROVE  /\ names' \in [Browser -> Names] /\ loads' \in [Browser -> Seq(Load)]
           /\ names'[b][k] = n /\ \A c \in Key \ {k} : names'[b][c] = names[b][c]
           /\ \A c \in Browser \ {b} : names'[c] = names[c] /\ loads'[c] = loads[c]
           /\ loads'[b] = MarkChanged(loads[b], k)
           /\ \A c \in Browser : DOMAIN loads'[c] = DOMAIN loads[c]
           /\ \A c \in Browser : \A j \in DOMAIN loads[c] : loads'[c][j].chain = loads[c][j].chain
<1>1. /\ names' = [names EXCEPT ![b][k] = n]
      /\ loads' = [loads EXCEPT ![b] = MarkChanged(loads[b], k)]
      /\ names \in [Browser -> Names] /\ loads \in [Browser -> Seq(Load)]
  BY DEF Show, TypeOK
<1>2. /\ names' \in [Browser -> Names]
      /\ names'[b][k] = n /\ \A c \in Key \ {k} : names'[b][c] = names[b][c]
      /\ \A c \in Browser \ {b} : names'[c] = names[c]
  BY <1>1 DEF Names
<1>3. /\ MarkChanged(loads[b], k) \in Seq(Load)
      /\ DOMAIN MarkChanged(loads[b], k) = DOMAIN loads[b]
      /\ \A j \in DOMAIN loads[b] : MarkChanged(loads[b], k)[j].chain = loads[b][j].chain
  BY <1>1, MarkIs
<1>4. /\ loads' \in [Browser -> Seq(Load)] /\ loads'[b] = MarkChanged(loads[b], k)
      /\ \A c \in Browser \ {b} : loads'[c] = loads[c]
  BY <1>1, <1>3
<1> QED BY <1>2, <1>3, <1>4
-----------------------------------------------------------------------------
(* Types.                                                                  *)

Told == {"idle", "waiting", "ok", "failed"}

LEMMA StoreTypes ==
    ASSUME TypeOK, UNCHANGED <<names, loads, chain, failed, link, missed, contested>>,
           value' \in Names, queue' \in Seq([by : Put, op : Change]), told' \in [Put -> Told],
           put' \in Seq(Renaming), Len(put') <= MaxRenames, events' \in [Browser -> Seq(Change)]
    PROVE  TypeOK'
  BY DEF TypeOK, Told

LEMMA BrowserTypes ==
    ASSUME TypeOK, UNCHANGED store,
           put' \in Seq(Renaming), Len(put') <= MaxRenames,
           names' \in [Browser -> Names], loads' \in [Browser -> Seq(Load)],
           link' \in [Browser -> BOOLEAN], events' \in [Browser -> Seq(Change)],
           missed' \in [Browser -> BOOLEAN], contested' \in [Key -> BOOLEAN],
           chain' \in [Browser -> {"none", "get", "wait"}],
           failed' \in [Browser -> 0 .. Tries - 1],
           \A b \in Browser :
              \/ /\ chain'[b] = chain[b] /\ DOMAIN loads'[b] = DOMAIN loads[b]
                 /\ \A j \in DOMAIN loads[b] : loads'[b][j].chain = loads[b][j].chain
              \/ /\ chain'[b] = "get" <=> \E j \in DOMAIN loads'[b] : loads'[b][j].chain
                 /\ \A i, j \in DOMAIN loads'[b] : loads'[b][i].chain /\ loads'[b][j].chain => i = j
    PROVE  TypeOK'
<1>1. \A b \in Browser :
          /\ chain'[b] = "get" <=> \E j \in DOMAIN loads'[b] : loads'[b][j].chain
          /\ \A i, j \in DOMAIN loads'[b] : loads'[b][i].chain /\ loads'[b][j].chain => i = j
  BY DEF TypeOK
<1>2. /\ value' \in Names /\ queue' \in Seq([by : Put, op : Change])
      /\ told' \in [Put -> {"idle", "waiting", "ok", "failed"}]
  BY DEF TypeOK, store
<1> QED BY <1>1, <1>2 DEF TypeOK

LEMMA PutArrivesTypes == ASSUME TypeOK, NEW i \in DOMAIN put, PutArrives(i) PROVE TypeOK'
<1>1. /\ put' = [put EXCEPT ![i].at = "served"]
      /\ queue' = Append(queue, [by |-> i, op |-> Asked(i)])
      /\ told' = [told EXCEPT ![i] = "waiting"] /\ value' = value
      /\ UNCHANGED <<names, loads, chain, failed, link, events, missed, contested>>
  BY DEF PutArrives, S!Call
<1>2. put' \in Seq(Renaming) /\ Len(put') <= MaxRenames
  BY <1>1, PutGoesOn DEF PutPhase, TypeOK
<1>3. [by |-> i, op |-> Asked(i)] \in [by : Put, op : Change]
  BY PutFacts
<1>4. queue' \in Seq([by : Put, op : Change])
  BY <1>1, <1>3, AppendIs DEF TypeOK
<1>5. told' \in [Put -> Told]
  BY <1>1 DEF TypeOK, Told
<1>6. value' \in Names /\ events' \in [Browser -> Seq(Change)]
  BY <1>1 DEF TypeOK
<1> QED BY <1>1, <1>2, <1>4, <1>5, <1>6, StoreTypes

LEMMA SettleFacts ==
    ASSUME TypeOK, NEW end \in {"ok", "failed"}, S!Settle(end)
    PROVE  /\ queue # <<>> /\ 1 \in DOMAIN queue /\ Head(queue) = queue[1]
           /\ Head(queue).by \in Put /\ Head(queue).op \in Change
           /\ queue' = Tail(queue) /\ queue' \in Seq([by : Put, op : Change])
           /\ told' \in [Put -> Told]
           /\ \A i \in Put : told'[i] = IF i = Head(queue).by THEN end ELSE told[i]
<1>1. /\ queue # <<>> /\ queue' = Tail(queue) /\ queue \in Seq([by : Put, op : Change])
      /\ told' = [told EXCEPT ![Head(queue).by] = end] /\ told \in [Put -> Told]
  BY DEF S!Settle, TypeOK, Told
<1>2. Head(queue) \in [by : Put, op : Change] /\ 1 \in DOMAIN queue /\ Head(queue) = queue[1]
      /\ Tail(queue) \in Seq([by : Put, op : Change])
  BY <1>1, TailIs
<1>3. Head(queue).by \in Put /\ Head(queue).op \in Change
  BY <1>2
<1>4. end \in Told
  BY DEF Told
<1> QED BY <1>1, <1>2, <1>3, <1>4

\* The value of one key changes.
LEMMA LandFacts ==
    ASSUME TypeOK, StoreLands
    PROVE  /\ S!Settle("ok") /\ Untold = {} /\ value' \in Names
           /\ value'[Head(queue).op.key] = Head(queue).op.name
           /\ \A k \in Key \ {Head(queue).op.key} : value'[k] = value[k]
           /\ UNCHANGED <<browsers, missed, contested, faults>>
<1>1. /\ S!Settle("ok") /\ Untold = {}
      /\ value' = [value EXCEPT ![Head(queue).op.key] = Head(queue).op.name]
      /\ UNCHANGED <<browsers, missed, contested, faults>>
  BY DEF StoreLands, S!Land, SetName
<1>2. Head(queue).op \in Change
  BY <1>1, SettleFacts
<1>3. Head(queue).op.key \in Key /\ Head(queue).op.name \in NameOrNone
  BY <1>2 DEF Change
<1>4. value \in [Key -> NameOrNone]
  BY DEF TypeOK, Names
<1> QED BY <1>1, <1>3, <1>4 DEF Names

LEMMA StoreTurnTypes == ASSUME TypeOK, StoreLands \/ StoreFails PROVE TypeOK'
<1>1. CASE StoreLands
  <2>1. /\ value' \in Names /\ S!Settle("ok")
        /\ UNCHANGED <<put, names, loads, chain, failed, link, events, missed, contested>>
    BY <1>1, LandFacts DEF browsers
  <2>2. put' \in Seq(Renaming) /\ Len(put') <= MaxRenames /\ events' \in [Browser -> Seq(Change)]
    BY <2>1 DEF TypeOK
  <2> QED BY <2>1, <2>2, SettleFacts, StoreTypes
<1>2. CASE StoreFails
  <2>1. /\ value' = value /\ S!Settle("failed")
        /\ UNCHANGED <<put, names, loads, chain, failed, link, events, missed, contested>>
    BY <1>2 DEF StoreFails, S!Fail, browsers
  <2>2. put' \in Seq(Renaming) /\ Len(put') <= MaxRenames /\ events' \in [Browser -> Seq(Change)]
        /\ value' \in Names
    BY <2>1 DEF TypeOK
  <2> QED BY <2>1, <2>2, SettleFacts, StoreTypes
<1> QED BY <1>1, <1>2

LEMMA AnswerFacts ==
    ASSUME TypeOK, NEW i \in DOMAIN put, Answer(i)
    PROVE  /\ told[i] \in {"ok", "failed"} /\ told' \in [Put -> Told]
           /\ \A j \in Put : told'[j] = IF j = i THEN "idle" ELSE told[j]
           /\ put' = [put EXCEPT ![i].at = told[i]]
           /\ events' \in [Browser -> Seq(Change)]
           /\ \A b \in Browser : events'[b] = IF told[i] = "ok" /\ link[b]
                                              THEN Append(events[b], Asked(i)) ELSE events[b]
           /\ UNCHANGED <<value, queue, names, loads, chain, failed, link, missed, contested, faults>>
<1>1. /\ told[i] \in {"ok", "failed"} /\ told' = [told EXCEPT ![i] = "idle"]
      /\ put' = [put EXCEPT ![i].at = told[i]]
      /\ events' = [b \in Browser |-> IF told[i] = "ok" /\ link[b]
                                      THEN Append(events[b], Asked(i)) ELSE events[b]]
      /\ UNCHANGED <<value, queue, names, loads, chain, failed, link, missed, contested, faults>>
  BY DEF Answer, S!Take, S!Ended
<1>2. told' \in [Put -> Told] /\ \A j \in Put : told'[j] = IF j = i THEN "idle" ELSE told[j]
  BY <1>1, PutFacts DEF TypeOK, Told
<1>3. ASSUME NEW b \in Browser
      PROVE  Append(events[b], Asked(i)) \in Seq(Change) /\ events[b] \in Seq(Change)
  BY PutFacts, AppendIs DEF TypeOK
<1> QED BY <1>1, <1>2, <1>3

LEMMA AnswerTypes == ASSUME TypeOK, NEW i \in DOMAIN put, Answer(i) PROVE TypeOK'
<1> DEFINE a == told[i]
<1>0. a \in PutPhase /\ put' = [put EXCEPT ![i].at = a]
  BY AnswerFacts DEF PutPhase
<1> HIDE DEF a
<1>1. put' \in Seq(Renaming) /\ Len(put') <= MaxRenames
  BY <1>0, PutGoesOn DEF TypeOK
<1>2. value' \in Names /\ queue' \in Seq([by : Put, op : Change])
  BY AnswerFacts DEF TypeOK
<1> QED BY <1>1, <1>2, AnswerFacts, StoreTypes

\* Requests that the server had have failed.
LEMMA CrashFacts ==
    ASSUME TypeOK, Crash
    PROVE  /\ queue' = <<>> /\ value' = value /\ told' = [i \in Put |-> "idle"]
           /\ put' \in Seq(Renaming) /\ Len(put') = Len(put) /\ SamePuts
           /\ \A i \in DOMAIN put :
                 put'[i].at = IF put[i].at = "served" THEN "failed" ELSE put[i].at
           /\ link' = [b \in Browser |-> FALSE] /\ events' = [b \in Browser |-> <<>>]
           /\ UNCHANGED <<names, loads, chain, failed, missed, contested>>
<1>1. /\ queue' = <<>> /\ value' = value /\ told' = [i \in Put |-> "idle"]
      /\ put' = [i \in DOMAIN put |-> [put[i] EXCEPT !.at = IF @ = "served" THEN "failed" ELSE @]]
      /\ link' = [b \in Browser |-> FALSE] /\ events' = [b \in Browser |-> <<>>]
      /\ UNCHANGED <<names, loads, chain, failed, missed, contested>>
  BY DEF Crash, S!Crash
<1>2. ASSUME NEW i \in DOMAIN put
      PROVE  /\ put'[i] \in Renaming /\ put'[i].by = put[i].by /\ put'[i].key = put[i].key
             /\ put'[i].name = put[i].name
             /\ put'[i].at = IF put[i].at = "served" THEN "failed" ELSE put[i].at
  <2>1. put[i] \in Renaming
    BY PutFacts
  <2>2. put'[i] = [put[i] EXCEPT !.at = IF @ = "served" THEN "failed" ELSE @]
    BY <1>1
  <2> QED BY <2>1, <2>2 DEF Renaming, PutPhase
<1>3. DOMAIN put' = DOMAIN put /\ put' = [i \in DOMAIN put |-> put'[i]]
  BY <1>1
<1>4. put \in Seq(Renaming)
  BY DEF TypeOK
<1>5. put' \in Seq(Renaming) /\ Len(put') = Len(put)
  BY <1>2, <1>3, <1>4, MappedIs
<1> QED BY <1>1, <1>2, <1>3, <1>5 DEF SamePuts

LEMMA CrashTypes == ASSUME TypeOK, Crash PROVE TypeOK'
<1>1. value' \in Names /\ put' \in Seq(Renaming) /\ Len(put') <= MaxRenames
  BY CrashFacts DEF TypeOK
<1>2. queue' \in Seq([by : Put, op : Change])
  BY CrashFacts, EmptySeq
<1>3. told' \in [Put -> {"idle", "waiting", "ok", "failed"}]
  BY CrashFacts
<1>4. link' \in [Browser -> BOOLEAN] /\ events' \in [Browser -> Seq(Change)]
  BY CrashFacts, EmptySeq
<1>5. UNCHANGED <<names, loads, chain, failed, missed, contested>>
  BY CrashFacts
<1> QED BY <1>1, <1>2, <1>3, <1>4, <1>5 DEF TypeOK

\* A browser asks for a name.
LEMMA RenameFacts ==
    ASSUME TypeOK, NEW b \in Browser, NEW k \in Key, NEW n \in NameOrNone, Rename(b, k, n)
    PROVE  LET i == Len(put) + 1 IN
           /\ put' \in Seq(Renaming) /\ Len(put') = i /\ i \in Put /\ i \notin DOMAIN put
           /\ DOMAIN put' = DOMAIN put \cup {i} /\ \A j \in DOMAIN put : put'[j] = put[j] /\ j < i
           /\ put'[i].by = b /\ put'[i].key = k /\ put'[i].name = n /\ put'[i].at = "sent"
           /\ Show(b, k, n) /\ contested' = [contested EXCEPT ![k] = @ \/ Overlaps(k)]
           /\ UNCHANGED <<store, chain, failed, link, events, missed, faults>>
<1> DEFINE r == [by |-> b, key |-> k, name |-> n, prev |-> names[b][k], at |-> "sent"]
<1>1. /\ put' = Append(put, r) /\ Len(put) < MaxRenames /\ put \in Seq(Renaming)
      /\ names[b][k] \in NameOrNone
      /\ Show(b, k, n) /\ contested' = [contested EXCEPT ![k] = @ \/ Overlaps(k)]
      /\ UNCHANGED <<store, chain, failed, link, events, missed, faults>>
  BY DEF Rename, TypeOK, Names
<1>2. r \in Renaming /\ r.by = b /\ r.key = k /\ r.name = n /\ r.at = "sent"
  BY <1>1 DEF Renaming, PutPhase
<1> HIDE DEF r
<1>3. Len(put) \in Nat /\ Len(put) + 1 \in Put /\ Len(put) + 1 \notin DOMAIN put
      /\ \A j \in DOMAIN put : j < Len(put) + 1
  BY <1>1, PutFacts, SessionNamesAssumption DEF Put
<1> QED BY <1>1, <1>2, <1>3, AppendIs

LEMMA RenameTypes ==
    ASSUME TypeOK, NEW b \in Browser, NEW k \in Key, NEW n \in NameOrNone, Rename(b, k, n)
    PROVE  TypeOK'
<1>1. /\ put' \in Seq(Renaming) /\ Len(put') \in Put /\ Show(b, k, n)
      /\ contested' = [contested EXCEPT ![k] = @ \/ Overlaps(k)]
      /\ UNCHANGED <<store, chain, failed, link, events, missed, faults>>
  BY RenameFacts
<1>2. Len(put') <= MaxRenames
  BY <1>1, SessionNamesAssumption DEF Put
<1>3. contested' \in [Key -> BOOLEAN]
  BY <1>1 DEF TypeOK, Overlaps
<1>4. /\ names' \in [Browser -> Names] /\ loads' \in [Browser -> Seq(Load)]
      /\ \A c \in Browser :
            /\ chain'[c] = chain[c] /\ DOMAIN loads'[c] = DOMAIN loads[c]
            /\ \A j \in DOMAIN loads[c] : loads'[c][j].chain = loads[c][j].chain
  BY <1>1, ShowIs
<1>5. /\ link' \in [Browser -> BOOLEAN] /\ events' \in [Browser -> Seq(Change)]
      /\ missed' \in [Browser -> BOOLEAN] /\ chain' \in [Browser -> {"none", "get", "wait"}]
      /\ failed' \in [Browser -> 0 .. Tries - 1]
  BY <1>1 DEF TypeOK
<1> QED BY <1>1, <1>2, <1>3, <1>4, <1>5, BrowserTypes

\* A browser takes the answer to a PUT, or learns that it is lost.
LEMMA PutReturnsFacts ==
    ASSUME TypeOK, NEW i \in DOMAIN put, PutReturns(i)
    PROVE  LET b == put[i].by
               k == put[i].key
               n == IF put[i].at = "ok" THEN put[i].name ELSE put[i].prev IN
           /\ b \in Browser /\ k \in Key /\ n \in NameOrNone /\ put[i].at \in {"ok", "failed"}
           /\ put' = [put EXCEPT ![i].at = "done"] /\ "done" \in PutPhase
           /\ IF IsLatest(i) THEN Show(b, k, n) ELSE UNCHANGED <<names, loads>>
           /\ contested' = [contested EXCEPT ![k] = @ \/ put[i].at = "failed"]
           /\ UNCHANGED <<store, chain, failed, link, events, missed, faults>>
<1>1. put[i] \in Renaming
  BY PutFacts
<1> QED BY <1>1, RenamingFacts DEF PutReturns, PutPhase

LEMMA PutReturnsTypes == ASSUME TypeOK, NEW i \in DOMAIN put, PutReturns(i) PROVE TypeOK'
<1> DEFINE b == put[i].by
           k == put[i].key
           n == IF put[i].at = "ok" THEN put[i].name ELSE put[i].prev
<1>1. /\ b \in Browser /\ k \in Key /\ n \in NameOrNone
      /\ put' = [put EXCEPT ![i].at = "done"] /\ "done" \in PutPhase
      /\ IF IsLatest(i) THEN Show(b, k, n) ELSE UNCHANGED <<names, loads>>
      /\ contested' = [contested EXCEPT ![k] = @ \/ put[i].at = "failed"]
      /\ UNCHANGED <<store, chain, failed, link, events, missed, faults>>
  BY PutReturnsFacts
<1> HIDE DEF b, k, n
<1>2. put' \in Seq(Renaming) /\ Len(put') <= MaxRenames
  BY <1>1, PutGoesOn DEF TypeOK
<1>3. contested' \in [Key -> BOOLEAN]
  BY <1>1 DEF TypeOK
<1>4. /\ names' \in [Browser -> Names] /\ loads' \in [Browser -> Seq(Load)]
      /\ \A c \in Browser :
            /\ chain'[c] = chain[c] /\ DOMAIN loads'[c] = DOMAIN loads[c]
            /\ \A j \in DOMAIN loads[c] : loads'[c][j].chain = loads[c][j].chain
  <2>1. CASE Show(b, k, n)
    BY <1>1, <2>1, ShowIs
  <2>2. CASE UNCHANGED <<names, loads>>
    BY <1>1, <2>2 DEF TypeOK
  <2> QED BY <1>1, <2>1, <2>2
<1>5. /\ link' \in [Browser -> BOOLEAN] /\ events' \in [Browser -> Seq(Change)]
      /\ missed' \in [Browser -> BOOLEAN] /\ chain' \in [Browser -> {"none", "get", "wait"}]
      /\ failed' \in [Browser -> 0 .. Tries - 1]
  BY <1>1 DEF TypeOK
<1> QED BY <1>1, <1>2, <1>3, <1>4, <1>5, BrowserTypes

LEMMA PutLostTypes == ASSUME TypeOK, NEW i \in DOMAIN put, PutLost(i) PROVE TypeOK'
<1>1. /\ put' = [put EXCEPT ![i].at = "failed"] /\ "failed" \in PutPhase
      /\ UNCHANGED <<store, names, loads, chain, failed, link, events, missed, contested>>
  BY DEF PutLost, PutPhase
<1>2. put' \in Seq(Renaming) /\ Len(put') <= MaxRenames
  BY <1>1, PutGoesOn DEF TypeOK
<1> QED BY <1>1, <1>2 DEF TypeOK, store

\* An event arrives.
LEMMA EventFacts ==
    ASSUME TypeOK, NEW b \in Browser, EventArrives(b)
    PROVE  LET e == events[b][1] IN
           /\ events[b] # <<>> /\ events[b] \in Seq(Change) /\ e.key \in Key /\ e.name \in NameOrNone
           /\ events' \in [Browser -> Seq(Change)] /\ events'[b] = Tail(events[b])
           /\ \A c \in Browser \ {b} : events'[c] = events[c]
           /\ Show(b, e.key, e.name)
           /\ UNCHANGED <<store, put, chain, failed, link, missed, contested, faults>>
<1>1. /\ events[b] # <<>> /\ events' = [events EXCEPT ![b] = Tail(events[b])]
      /\ Show(b, Head(events[b]).key, Head(events[b]).name)
      /\ UNCHANGED <<store, put, chain, failed, link, missed, contested, faults>>
  BY DEF EventArrives
<1>2. events \in [Browser -> Seq(Change)] /\ events[b] \in Seq(Change)
  BY DEF TypeOK
<1>3. Head(events[b]) = events[b][1] /\ Head(events[b]) \in Change /\ Tail(events[b]) \in Seq(Change)
  BY <1>1, <1>2, TailIs
<1>4. events[b][1].key \in Key /\ events[b][1].name \in NameOrNone
  BY <1>3 DEF Change
<1> QED BY <1>1, <1>2, <1>3, <1>4

LEMMA EventArrivesTypes == ASSUME TypeOK, NEW b \in Browser, EventArrives(b) PROVE TypeOK'
<1> DEFINE e == events[b][1]
<1>1. /\ e.key \in Key /\ e.name \in NameOrNone /\ events' \in [Browser -> Seq(Change)]
      /\ Show(b, e.key, e.name)
      /\ UNCHANGED <<store, put, chain, failed, link, missed, contested, faults>>
  BY EventFacts
<1> HIDE DEF e
<1>2. /\ names' \in [Browser -> Names] /\ loads' \in [Browser -> Seq(Load)]
      /\ \A c \in Browser :
            /\ chain'[c] = chain[c] /\ DOMAIN loads'[c] = DOMAIN loads[c]
            /\ \A j \in DOMAIN loads[c] : loads'[c][j].chain = loads[c][j].chain
  BY <1>1, ShowIs
<1>3. /\ link' \in [Browser -> BOOLEAN] /\ contested' \in [Key -> BOOLEAN]
      /\ missed' \in [Browser -> BOOLEAN] /\ chain' \in [Browser -> {"none", "get", "wait"}]
      /\ failed' \in [Browser -> 0 .. Tries - 1] /\ put' \in Seq(Renaming) /\ Len(put') <= MaxRenames
  BY <1>1 DEF TypeOK
<1> QED BY <1>1, <1>2, <1>3, BrowserTypes

LEMMA OpenFacts ==
    ASSUME TypeOK, NEW b \in Browser, Open(b)
    PROVE  /\ loads' \in [Browser -> Seq(Load)] /\ ~link[b]
           /\ loads'[b] = Append(loads[b], NewLoad(FALSE))
           /\ \A c \in Browser \ {b} : loads'[c] = loads[c] /\ link'[c] = link[c] /\ missed'[c] = missed[c]
           /\ link' \in [Browser -> BOOLEAN] /\ link'[b] = TRUE
           /\ missed' \in [Browser -> BOOLEAN] /\ missed'[b] = FALSE
           /\ UNCHANGED <<store, put, names, chain, failed, events, contested, faults>>
<1>1. Append(loads[b], NewLoad(FALSE)) \in Seq(Load)
  BY NewLoadIs, AppendIs DEF TypeOK
<1> QED BY <1>1 DEF Open, TypeOK

LEMMA RetryFacts ==
    ASSUME TypeOK, NEW b \in Browser, Retry(b)
    PROVE  /\ loads' \in [Browser -> Seq(Load)]
           /\ loads'[b] = Append(loads[b], NewLoad(TRUE))
           /\ \A c \in Browser \ {b} : loads'[c] = loads[c] /\ chain'[c] = chain[c]
           /\ chain' \in [Browser -> {"none", "get", "wait"}]
           /\ chain[b] = "wait" /\ chain'[b] = "get"
           /\ UNCHANGED <<store, put, names, failed, link, events, missed, contested, faults>>
<1>1. Append(loads[b], NewLoad(TRUE)) \in Seq(Load)
  BY NewLoadIs, AppendIs DEF TypeOK
<1> QED BY <1>1 DEF Retry, TypeOK

\* A GET more, of the chain or not.
LEMMA OneMore ==
    ASSUME NEW ls \in Seq(Load), NEW c \in BOOLEAN
    PROVE  LET r == Append(ls, NewLoad(c)) IN
           /\ (\E j \in DOMAIN r : r[j].chain) <=> c \/ \E j \in DOMAIN ls : ls[j].chain
           /\ (c => \A j \in DOMAIN ls : ~ls[j].chain)
                /\ (\A i, j \in DOMAIN ls : ls[i].chain /\ ls[j].chain => i = j)
                => \A i, j \in DOMAIN r : r[i].chain /\ r[j].chain => i = j
<1> DEFINE r == Append(ls, NewLoad(c))
           n == Len(ls) + 1
<1>1. /\ DOMAIN r = DOMAIN ls \cup {n} /\ \A i \in DOMAIN ls : r[i] = ls[i]
      /\ r[n].chain = c
  <2>1. NewLoad(c) \in Load /\ NewLoad(c).chain = c
    BY NewLoadIs
  <2> QED BY <2>1, AppendIs
<1> HIDE DEF r, n
<1>2. /\ (\E j \in DOMAIN r : r[j].chain) <=> c \/ \E j \in DOMAIN ls : ls[j].chain
      /\ (c => \A j \in DOMAIN ls : ~ls[j].chain)
           /\ (\A i, j \in DOMAIN ls : ls[i].chain /\ ls[j].chain => i = j)
           => \A i, j \in DOMAIN r : r[i].chain /\ r[j].chain => i = j
  BY <1>1
<1> QED BY <1>2 DEF r

LEMMA OpenTypes == ASSUME TypeOK, NEW b \in Browser, Open(b) PROVE TypeOK'
<1>1. /\ put' \in Seq(Renaming) /\ Len(put') <= MaxRenames /\ names' \in [Browser -> Names]
      /\ events' \in [Browser -> Seq(Change)] /\ contested' \in [Key -> BOOLEAN]
      /\ chain' \in [Browser -> {"none", "get", "wait"}]
      /\ failed' \in [Browser -> 0 .. Tries - 1]
  BY OpenFacts DEF TypeOK
<1>2. /\ chain'[b] = "get" <=> \E j \in DOMAIN loads'[b] : loads'[b][j].chain
      /\ \A i, j \in DOMAIN loads'[b] : loads'[b][i].chain /\ loads'[b][j].chain => i = j
  <2>1. loads[b] \in Seq(Load)
    BY DEF TypeOK
  <2>2. loads'[b] = Append(loads[b], NewLoad(FALSE)) /\ chain' = chain
    BY OpenFacts
  <2> QED BY <2>1, <2>2, OneMore DEF TypeOK
<1>3. \A c \in Browser \ {b} : loads'[c] = loads[c] /\ chain'[c] = chain[c]
  BY OpenFacts
<1> QED BY <1>1, <1>2, <1>3, OpenFacts, BrowserTypes

LEMMA RetryTypes == ASSUME TypeOK, NEW b \in Browser, Retry(b) PROVE TypeOK'
<1>1. /\ put' \in Seq(Renaming) /\ Len(put') <= MaxRenames /\ names' \in [Browser -> Names]
      /\ events' \in [Browser -> Seq(Change)] /\ contested' \in [Key -> BOOLEAN]
      /\ link' \in [Browser -> BOOLEAN] /\ missed' \in [Browser -> BOOLEAN]
      /\ failed' \in [Browser -> 0 .. Tries - 1]
  BY RetryFacts DEF TypeOK
<1>2. /\ chain'[b] = "get" <=> \E j \in DOMAIN loads'[b] : loads'[b][j].chain
      /\ \A i, j \in DOMAIN loads'[b] : loads'[b][i].chain /\ loads'[b][j].chain => i = j
  <2>1. loads[b] \in Seq(Load) /\ \A j \in DOMAIN loads[b] : ~loads[b][j].chain
    BY RetryFacts DEF TypeOK
  <2>2. loads'[b] = Append(loads[b], NewLoad(TRUE)) /\ chain'[b] = "get"
    BY RetryFacts
  <2> QED BY <2>1, <2>2, OneMore
<1>3. \A c \in Browser \ {b} : loads'[c] = loads[c] /\ chain'[c] = chain[c]
  BY RetryFacts
<1> QED BY <1>1, <1>2, <1>3, RetryFacts, BrowserTypes

LEMMA DropTypes == ASSUME TypeOK, NEW b \in Browser, Drop(b) PROVE TypeOK'
<1>1. /\ link' \in [Browser -> BOOLEAN]
      /\ UNCHANGED <<store, put, names, loads, chain, failed, missed, contested>>
  BY DEF Drop, TypeOK
<1>2. events' \in [Browser -> Seq(Change)]
  BY EmptySeq DEF Drop, TypeOK
<1> QED BY <1>1, <1>2 DEF TypeOK, store

\* A GET reads the file.
LEMMA GetFacts ==
    ASSUME TypeOK, NEW b \in Browser, NEW j \in DOMAIN loads[b], GetReads(b, j)
    PROVE  /\ loads' \in [Browser -> Seq(Load)]
           /\ \A c \in Browser \ {b} : loads'[c] = loads[c]
           /\ DOMAIN loads'[b] = DOMAIN loads[b]
           /\ \A i \in DOMAIN loads[b] :
                 /\ loads'[b][i].chain = loads[b][i].chain
                 /\ loads'[b][i].changed = loads[b][i].changed
                 /\ loads'[b][i].stale = loads[b][i].stale
                 /\ loads'[b][i].snap = IF i = j THEN value ELSE loads[b][i].snap
           /\ UNCHANGED <<store, put, names, chain, failed, link, events, missed, contested, faults>>
<1> DEFINE l == [loads[b][j] EXCEPT !.snap = value]
           r == [loads[b] EXCEPT ![j] = l]
<1>1. /\ loads' = [loads EXCEPT ![b] = r] /\ value \in Names
      /\ loads \in [Browser -> Seq(Load)] /\ loads[b] \in Seq(Load)
      /\ UNCHANGED <<store, put, names, chain, failed, link, events, missed, contested, faults>>
  BY DEF GetReads, TypeOK
<1>2. DOMAIN loads[b] = 1 .. Len(loads[b]) /\ loads[b][j] \in Load
  BY <1>1, LenProperties
<1>3. /\ l \in Load /\ l.snap = value /\ l.chain = loads[b][j].chain
      /\ l.changed = loads[b][j].changed /\ l.stale = loads[b][j].stale
  BY <1>1, <1>2 DEF Load
<1> HIDE DEF l
<1>4. /\ r \in Seq(Load) /\ Len(r) = Len(loads[b])
      /\ \A i \in DOMAIN loads[b] : r[i] = IF i = j THEN l ELSE loads[b][i]
  BY <1>1, <1>2, <1>3, ExceptSeq
<1>5. DOMAIN r = DOMAIN loads[b]
  BY <1>2, <1>4, LenProperties
<1> HIDE DEF r
<1>6. loads' \in [Browser -> Seq(Load)] /\ loads'[b] = r /\ \A c \in Browser \ {b} : loads'[c] = loads[c]
  BY <1>1, <1>4
<1> QED BY <1>1, <1>3, <1>4, <1>5, <1>6

LEMMA GetTypes ==
    ASSUME TypeOK, NEW b \in Browser, NEW j \in DOMAIN loads[b], GetReads(b, j)
    PROVE  TypeOK'
<1>1. /\ put' \in Seq(Renaming) /\ Len(put') <= MaxRenames /\ names' \in [Browser -> Names]
      /\ events' \in [Browser -> Seq(Change)] /\ contested' \in [Key -> BOOLEAN]
      /\ link' \in [Browser -> BOOLEAN] /\ missed' \in [Browser -> BOOLEAN]
      /\ chain' \in [Browser -> {"none", "get", "wait"}] /\ failed' \in [Browser -> 0 .. Tries - 1]
  BY GetFacts DEF TypeOK
<1>2. \A c \in Browser :
         /\ chain'[c] = chain[c] /\ DOMAIN loads'[c] = DOMAIN loads[c]
         /\ \A i \in DOMAIN loads[c] : loads'[c][i].chain = loads[c][i].chain
  BY GetFacts
<1> QED BY <1>1, <1>2, GetFacts, BrowserTypes

\* The place that the i-th of what is left had before the j-th was removed, and
\* the place that another one has now.
Before(j, i) == IF i < j THEN i ELSE i + 1
After(j, i) == IF i < j THEN i ELSE i - 1

LEMMA GoneIs ==
    ASSUME NEW X, NEW s \in Seq(X), NEW j \in DOMAIN s
    PROVE  /\ RemoveAt(s, j) \in Seq(X) /\ j \in Nat /\ \A i \in DOMAIN s : i \in Nat
           /\ \A i \in DOMAIN RemoveAt(s, j) :
                 /\ i \in Nat /\ Before(j, i) \in DOMAIN s /\ Before(j, i) # j
                 /\ RemoveAt(s, j)[i] = s[Before(j, i)]
           /\ \A i \in DOMAIN s :
                 i # j => After(j, i) \in DOMAIN RemoveAt(s, j) /\ Before(j, After(j, i)) = i
<1>1. /\ RemoveAt(s, j) \in Seq(X) /\ j \in Nat
      /\ \A i \in DOMAIN RemoveAt(s, j) :
            /\ i \in Nat
            /\ i < j => i \in DOMAIN s /\ RemoveAt(s, j)[i] = s[i]
            /\ i >= j => i + 1 \in DOMAIN s /\ RemoveAt(s, j)[i] = s[i + 1]
      /\ \A i \in DOMAIN s :
            /\ i \in Nat
            /\ i < j => i \in DOMAIN RemoveAt(s, j)
            /\ i > j => i - 1 \in DOMAIN RemoveAt(s, j)
  BY RemoveAtIs
<1> DEFINE r == RemoveAt(s, j)
<1> HIDE DEF r
<1>2. ASSUME NEW i \in DOMAIN r
      PROVE  i \in Nat /\ Before(j, i) \in DOMAIN s /\ Before(j, i) # j /\ r[i] = s[Before(j, i)]
  <2>1. CASE i < j
    BY <1>1, <2>1 DEF Before, r
  <2>2. CASE i >= j
    BY <1>1, <2>2 DEF Before, r
  <2> QED BY <1>1, <2>1, <2>2 DEF r
<1>3. ASSUME NEW i \in DOMAIN s, i # j
      PROVE  After(j, i) \in DOMAIN r /\ Before(j, After(j, i)) = i
  <2>1. CASE i < j
    BY <1>1, <2>1 DEF Before, After, r
  <2>2. CASE i > j
    BY <1>1, <2>2 DEF Before, After, r
  <2> QED BY <1>1, <1>3, <2>1, <2>2
<1> QED BY <1>1, <1>2, <1>3 DEF r

\* What has been taken is gone, and what was sent before it is out of date.
LEMMA LoadReturnsFacts ==
    ASSUME TypeOK, NEW b \in Browser, NEW j \in DOMAIN loads[b], LoadReturns(b, j)
    PROVE  LET l == loads[b][j] IN
           /\ l \in Load /\ l.snap \in Names /\ l.snap # NoAnswer /\ j \in Nat
           /\ loads' \in [Browser -> Seq(Load)] /\ \A c \in Browser \ {b} : loads'[c] = loads[c]
           /\ \A i \in DOMAIN loads[b] :
                 i \in Nat /\ (i # j => After(j, i) \in DOMAIN loads'[b] /\ Before(j, After(j, i)) = i)
           /\ \A i \in DOMAIN loads'[b] :
                 /\ i \in Nat /\ Before(j, i) \in DOMAIN loads[b] /\ Before(j, i) # j
                 /\ loads'[b][i].chain = loads[b][Before(j, i)].chain
                 /\ loads'[b][i].snap = loads[b][Before(j, i)].snap
                 /\ loads'[b][i].changed = loads[b][Before(j, i)].changed
                 /\ loads'[b][i].stale <=> (loads[b][Before(j, i)].stale \/ (~l.stale /\ Before(j, i) < j))
           /\ names' \in [Browser -> Names] /\ \A c \in Browser \ {b} : names'[c] = names[c]
           /\ \A k \in Key : names'[b][k] = IF l.stale \/ k \in l.changed THEN names[b][k] ELSE l.snap[k]
           /\ chain' = IF l.chain THEN [chain EXCEPT ![b] = "none"] ELSE chain
           /\ UNCHANGED <<store, put, failed, link, events, missed, contested, faults>>
<1> DEFINE l == loads[b][j]
           ls == IF l.stale THEN loads[b] ELSE Outdated(loads[b], j)
           r == RemoveAt(ls, j)
<1>1. /\ l.snap # NoAnswer /\ loads' = [loads EXCEPT ![b] = r]
      /\ names' = IF l.stale THEN names
                  ELSE [names EXCEPT ![b] = [k \in Key |-> IF k \in l.changed THEN @[k] ELSE l.snap[k]]]
      /\ chain' = IF l.chain THEN [chain EXCEPT ![b] = "none"] ELSE chain
      /\ UNCHANGED <<store, put, failed, link, events, missed, contested, faults>>
  BY DEF LoadReturns
<1>2. loads \in [Browser -> Seq(Load)] /\ loads[b] \in Seq(Load) /\ names \in [Browser -> Names]
  BY DEF TypeOK
<1>3. l \in Load /\ l.stale \in BOOLEAN /\ l.snap \in Names
  <2>1. l \in Load
    BY <1>2, LenProperties
  <2> QED BY <1>1, <2>1 DEF Load
<1>4. /\ ls \in Seq(Load) /\ DOMAIN ls = DOMAIN loads[b]
      /\ \A i \in DOMAIN loads[b] :
            /\ ls[i].chain = loads[b][i].chain /\ ls[i].snap = loads[b][i].snap
            /\ ls[i].changed = loads[b][i].changed
            /\ ls[i].stale <=> (loads[b][i].stale \/ (~l.stale /\ i < j))
  <2>1. CASE l.stale
    <3>1. \A i \in DOMAIN loads[b] : loads[b][i].stale \in BOOLEAN
      <4>1. \A i \in DOMAIN loads[b] : loads[b][i] \in Load
        BY <1>2, LenProperties
      <4> QED BY <4>1 DEF Load
    <3> QED BY <1>2, <2>1, <3>1
  <2>2. CASE ~l.stale
    <3>1. ls = Outdated(loads[b], j)
      BY <2>2
    <3> QED BY <1>2, <2>2, <3>1, OutdatedIs
  <2> QED BY <2>1, <2>2
<1> HIDE DEF ls
<1>5. /\ r \in Seq(Load) /\ j \in Nat /\ \A i \in DOMAIN ls : i \in Nat
      /\ \A i \in DOMAIN r :
            i \in Nat /\ Before(j, i) \in DOMAIN ls /\ Before(j, i) # j /\ r[i] = ls[Before(j, i)]
      /\ \A i \in DOMAIN ls : i # j => After(j, i) \in DOMAIN r /\ Before(j, After(j, i)) = i
  BY <1>4, GoneIs
<1> HIDE DEF r
<1>6. /\ loads' \in [Browser -> Seq(Load)] /\ loads'[b] = r /\ \A c \in Browser \ {b} : loads'[c] = loads[c]
  BY <1>1, <1>2, <1>5
<1>7. /\ names' \in [Browser -> Names] /\ \A c \in Browser \ {b} : names'[c] = names[c]
      /\ \A k \in Key : names'[b][k] = IF l.stale \/ k \in l.changed THEN names[b][k] ELSE l.snap[k]
  <2>1. CASE l.stale
    BY <1>1, <1>2, <2>1
  <2>2. CASE ~l.stale
    <3> DEFINE m == [k \in Key |-> IF k \in l.changed THEN names[b][k] ELSE l.snap[k]]
    <3>1. names' = [names EXCEPT ![b] = m]
      BY <1>1, <2>2
    <3>2. m \in Names
      BY <1>2, <1>3 DEF Names
    <3>3. \A k \in Key : m[k] = IF k \in l.changed THEN names[b][k] ELSE l.snap[k]
      OBVIOUS
    <3> HIDE DEF m
    <3> QED BY <1>2, <2>2, <3>1, <3>2, <3>3
  <2> QED BY <2>1, <2>2
<1>8. \A i \in DOMAIN r :
         /\ i \in Nat /\ Before(j, i) \in DOMAIN loads[b] /\ Before(j, i) # j
         /\ r[i].chain = loads[b][Before(j, i)].chain /\ r[i].snap = loads[b][Before(j, i)].snap
         /\ r[i].changed = loads[b][Before(j, i)].changed
         /\ r[i].stale <=> (loads[b][Before(j, i)].stale \/ (~l.stale /\ Before(j, i) < j))
  BY <1>4, <1>5
<1> HIDE DEF l
<1> QED BY <1>1, <1>3, <1>4, <1>5, <1>6, <1>7, <1>8 DEF l

LEMMA LoadReturnsTypes ==
    ASSUME TypeOK, NEW b \in Browser, NEW j \in DOMAIN loads[b], LoadReturns(b, j)
    PROVE  TypeOK'
<1> DEFINE l == loads[b][j]
<1>1. /\ names' \in [Browser -> Names] /\ loads' \in [Browser -> Seq(Load)] /\ l \in Load
      /\ chain' = IF l.chain THEN [chain EXCEPT ![b] = "none"] ELSE chain
      /\ \A c \in Browser \ {b} : loads'[c] = loads[c]
      /\ UNCHANGED <<store, put, failed, link, events, missed, contested, faults>>
  BY LoadReturnsFacts
<1>2. /\ put' \in Seq(Renaming) /\ Len(put') <= MaxRenames
      /\ events' \in [Browser -> Seq(Change)] /\ contested' \in [Key -> BOOLEAN]
      /\ link' \in [Browser -> BOOLEAN] /\ missed' \in [Browser -> BOOLEAN]
      /\ failed' \in [Browser -> 0 .. Tries - 1]
  BY <1>1 DEF TypeOK
<1>3. /\ chain' \in [Browser -> {"none", "get", "wait"}]
      /\ \A c \in Browser \ {b} : chain'[c] = chain[c]
      /\ chain'[b] = IF l.chain THEN "none" ELSE chain[b]
  BY <1>1 DEF TypeOK
<1>4. /\ \A i \in DOMAIN loads'[b] :
            /\ Before(j, i) \in DOMAIN loads[b] /\ Before(j, i) # j
            /\ i = After(j, Before(j, i)) /\ loads'[b][i].chain = loads[b][Before(j, i)].chain
      /\ \A i \in DOMAIN loads[b] :
            i # j => After(j, i) \in DOMAIN loads'[b] /\ Before(j, After(j, i)) = i
  <2>1. \A i \in DOMAIN loads'[b] : i \in Nat /\ j \in Nat
    BY LoadReturnsFacts
  <2>2. \A i \in DOMAIN loads'[b] : i = After(j, Before(j, i))
    BY <2>1 DEF After, Before
  <2> QED BY <2>2, LoadReturnsFacts
<1>5. /\ chain[b] = "get" <=> \E i \in DOMAIN loads[b] : loads[b][i].chain
      /\ \A i, o \in DOMAIN loads[b] : loads[b][i].chain /\ loads[b][o].chain => i = o
  BY DEF TypeOK
<1>6. /\ chain'[b] = "get" <=> \E i \in DOMAIN loads'[b] : loads'[b][i].chain
      /\ \A i, o \in DOMAIN loads'[b] : loads'[b][i].chain /\ loads'[b][o].chain => i = o
  BY <1>3, <1>4, <1>5
<1> QED BY <1>1, <1>2, <1>3, <1>6, BrowserTypes

\* A GET has failed: the chain waits, or gives up; or there is a chain now, or
\* there was one.
LEMMA LoadFailsFacts ==
    ASSUME TypeOK, NEW b \in Browser, NEW j \in DOMAIN loads[b], LoadFails(b, j)
    PROVE  LET r == RemoveAt(loads[b], j) IN
           /\ loads' \in [Browser -> Seq(Load)] /\ \A c \in Browser \ {b} : loads'[c] = loads[c]
           /\ chain' \in [Browser -> {"none", "get", "wait"}]
           /\ \A c \in Browser \ {b} : chain'[c] = chain[c] /\ missed'[c] = missed[c]
           /\ failed' \in [Browser -> 0 .. Tries - 1] /\ missed' \in [Browser -> BOOLEAN]
           /\ UNCHANGED <<store, put, names, link, events, contested>>
           /\ \/ loads[b][j].chain /\ loads'[b] = r /\ chain'[b] = "wait"
              \/ loads[b][j].chain /\ loads'[b] = r /\ chain'[b] = "none" /\ missed'[b]
              \/ /\ ~loads[b][j].chain /\ chain[b] = "none"
                 /\ loads'[b] = Append(r, NewLoad(TRUE)) /\ chain'[b] = "get"
              \/ /\ ~loads[b][j].chain /\ loads'[b] = r /\ chain'[b] = chain[b]
                 /\ chain[b] # "wait" => missed'[b]
           /\ ~missed'[b] => ~missed[b]
<1> DEFINE r == RemoveAt(loads[b], j)
<1>1. r \in Seq(Load) /\ Append(r, NewLoad(TRUE)) \in Seq(Load)
  <2>1. loads[b] \in Seq(Load)
    BY DEF TypeOK
  <2>2. r \in Seq(Load)
    BY <2>1, RemoveAtIs
  <2> HIDE DEF r
  <2>3. NewLoad(TRUE) \in Load
    BY NewLoadIs
  <2> QED BY <2>2, <2>3, AppendIs
<1>2. /\ loads \in [Browser -> Seq(Load)] /\ chain \in [Browser -> {"none", "get", "wait"}]
      /\ failed \in [Browser -> 0 .. Tries - 1] /\ missed \in [Browser -> BOOLEAN]
      /\ Tries \in Nat \ {0}
  BY SessionNamesAssumption DEF TypeOK
<1>3. UNCHANGED <<store, put, names, link, events, contested>>
  BY DEF LoadFails
<1> HIDE DEF r
<1>4. CASE ChainFails(b, j)
  <2>1. loads[b][j].chain /\ loads' = [loads EXCEPT ![b] = r]
    BY <1>4 DEF ChainFails, r
  <2>2. CASE failed[b] < Tries - 1
    <3>1. /\ chain' = [chain EXCEPT ![b] = "wait"]
          /\ failed' = [failed EXCEPT ![b] = @ + 1] /\ missed' = missed
      BY <1>4, <2>2 DEF ChainFails
    <3>2. failed[b] + 1 \in 0 .. Tries - 1
      BY <1>2, <2>2
    <3> QED BY <1>1, <1>2, <1>3, <2>1, <3>1, <3>2 DEF r
  <2>3. CASE ~(failed[b] < Tries - 1)
    <3>1. /\ chain' = [chain EXCEPT ![b] = "none"]
          /\ missed' = [missed EXCEPT ![b] = TRUE] /\ failed' = failed
      BY <1>4, <2>3 DEF ChainFails
    <3> QED BY <1>1, <1>2, <1>3, <2>1, <3>1 DEF r
  <2> QED BY <2>2, <2>3
<1>5. CASE ResyncFails(b, j)
  <2>1. ~loads[b][j].chain
    BY <1>5 DEF ResyncFails
  <2>2. CASE chain[b] = "none"
    <3>1. /\ loads' = [loads EXCEPT ![b] = Append(r, NewLoad(TRUE))]
          /\ chain' = [chain EXCEPT ![b] = "get"]
          /\ failed' = [failed EXCEPT ![b] = 0] /\ missed' = missed
      BY <1>5, <2>2 DEF ResyncFails, Joins, r
    <3>2. 0 \in 0 .. Tries - 1
      BY <1>2
    <3> QED BY <1>1, <1>2, <1>3, <2>1, <2>2, <3>1, <3>2 DEF r
  <2>3. CASE chain[b] # "none"
    <3>1. /\ loads' = [loads EXCEPT ![b] = r]
          /\ missed' = [missed EXCEPT ![b] = @ \/ chain[b] = "get"]
          /\ UNCHANGED <<chain, failed>>
      BY <1>5, <2>3 DEF ResyncFails, Joins, r
    <3>2. /\ missed' \in [Browser -> BOOLEAN] /\ \A c \in Browser \ {b} : missed'[c] = missed[c]
          /\ missed'[b] <=> (missed[b] \/ chain[b] = "get")
      BY <1>2, <3>1
    <3>3. chain[b] # "wait" => missed'[b]
      BY <1>2, <2>3, <3>2
    <3> QED BY <1>1, <1>2, <1>3, <2>1, <3>1, <3>2, <3>3 DEF r
  <2> QED BY <2>2, <2>3
<1> QED BY <1>4, <1>5 DEF LoadFails

LEMMA LoadFailsTypes ==
    ASSUME TypeOK, NEW b \in Browser, NEW j \in DOMAIN loads[b], LoadFails(b, j)
    PROVE  TypeOK'
<1> DEFINE r == RemoveAt(loads[b], j)
<1>1. /\ loads' \in [Browser -> Seq(Load)] /\ \A c \in Browser \ {b} : loads'[c] = loads[c]
      /\ chain' \in [Browser -> {"none", "get", "wait"}]
      /\ \A c \in Browser \ {b} : chain'[c] = chain[c]
      /\ failed' \in [Browser -> 0 .. Tries - 1] /\ missed' \in [Browser -> BOOLEAN]
      /\ UNCHANGED <<store, put, names, link, events, contested>>
      /\ \/ loads[b][j].chain /\ loads'[b] = r /\ chain'[b] = "wait"
         \/ loads[b][j].chain /\ loads'[b] = r /\ chain'[b] = "none"
         \/ /\ ~loads[b][j].chain /\ chain[b] = "none"
            /\ loads'[b] = Append(r, NewLoad(TRUE)) /\ chain'[b] = "get"
         \/ ~loads[b][j].chain /\ loads'[b] = r /\ chain'[b] = chain[b]
  BY LoadFailsFacts
<1>2. /\ loads[b] \in Seq(Load)
      /\ chain[b] = "get" <=> \E i \in DOMAIN loads[b] : loads[b][i].chain
      /\ \A i, o \in DOMAIN loads[b] : loads[b][i].chain /\ loads[b][o].chain => i = o
  BY DEF TypeOK
<1>3. /\ r \in Seq(Load) /\ j \in Nat
      /\ \A i \in DOMAIN r :
            i \in Nat /\ Before(j, i) \in DOMAIN loads[b] /\ Before(j, i) # j /\ r[i] = loads[b][Before(j, i)]
      /\ \A i \in DOMAIN loads[b] : i # j => After(j, i) \in DOMAIN r /\ Before(j, After(j, i)) = i
  BY <1>2, GoneIs
<1> HIDE DEF r
<1>4. \A i \in DOMAIN r : i = After(j, Before(j, i))
  BY <1>3 DEF After, Before
<1>5. /\ (\E i \in DOMAIN r : r[i].chain) <=> \E i \in DOMAIN loads[b] : i # j /\ loads[b][i].chain
      /\ \A i, o \in DOMAIN r : r[i].chain /\ r[o].chain => i = o
  BY <1>2, <1>3, <1>4
<1>6. /\ chain'[b] = "get" <=> \E i \in DOMAIN loads'[b] : loads'[b][i].chain
      /\ \A i, o \in DOMAIN loads'[b] : loads'[b][i].chain /\ loads'[b][o].chain => i = o
  <2>1. CASE loads[b][j].chain /\ loads'[b] = r /\ chain'[b] \in {"wait", "none"}
    BY <1>2, <1>5, <2>1
  <2>2. CASE /\ ~loads[b][j].chain /\ chain[b] = "none"
             /\ loads'[b] = Append(r, NewLoad(TRUE)) /\ chain'[b] = "get"
    <3>1. \A i \in DOMAIN r : ~r[i].chain
      BY <1>2, <1>5, <2>2
    <3> QED BY <1>3, <2>2, <3>1, OneMore
  <2>3. CASE ~loads[b][j].chain /\ loads'[b] = r /\ chain'[b] = chain[b]
    BY <1>2, <1>5, <2>3
  <2> QED BY <1>1, <2>1, <2>2, <2>3
<1>7. /\ put' \in Seq(Renaming) /\ Len(put') <= MaxRenames /\ names' \in [Browser -> Names]
      /\ events' \in [Browser -> Seq(Change)] /\ contested' \in [Key -> BOOLEAN]
      /\ link' \in [Browser -> BOOLEAN]
  BY <1>1 DEF TypeOK
<1> QED BY <1>1, <1>6, <1>7, BrowserTypes

LEMMA InitTypes == ASSUME Init PROVE TypeOK
<1>1. /\ value \in Names /\ queue = <<>> /\ told = [i \in Put |-> "idle"] /\ put = <<>>
      /\ names = [b \in Browser |-> IF b \in Fresh THEN NoNames ELSE value]
      /\ loads = [b \in Browser |-> IF b \in Fresh THEN <<NewLoad(TRUE)>> ELSE <<>>]
      /\ chain = [b \in Browser |-> IF b \in Fresh THEN "get" ELSE "none"]
      /\ failed = [b \in Browser |-> 0] /\ link = [b \in Browser |-> b \notin Fresh]
      /\ events = [b \in Browser |-> <<>>] /\ missed = [b \in Browser |-> FALSE]
      /\ contested = [k \in Key |-> FALSE]
  BY DEF Init, S!Init
<1>2. queue \in Seq([by : Put, op : Change]) /\ put \in Seq(Renaming) /\ Len(put) <= MaxRenames
  BY <1>1, EmptySeq, SessionNamesAssumption
<1>3. NoNames \in Names
  BY DEF NoNames, Names, NameOrNone
<1>4. names \in [Browser -> Names] /\ told \in [Put -> {"idle", "waiting", "ok", "failed"}]
  BY <1>1, <1>3
<1> DEFINE l == NewLoad(TRUE)
           one == <<l>>
<1>5. l \in Load /\ l.chain
  BY NewLoadIs
<1> HIDE DEF l
<1>6. one \in Seq(Load) /\ DOMAIN one = {1} /\ one[1].chain
  BY <1>5, OneIs
<1> HIDE DEF one
<1>7. loads \in [Browser -> Seq(Load)] /\ events \in [Browser -> Seq(Change)]
  BY <1>1, <1>6, EmptySeq DEF one, l
<1>8. ASSUME NEW b \in Browser
      PROVE  /\ chain[b] = "get" <=> \E j \in DOMAIN loads[b] : loads[b][j].chain
             /\ \A i, j \in DOMAIN loads[b] : loads[b][i].chain /\ loads[b][j].chain => i = j
  <2>1. CASE b \in Fresh
    BY <1>1, <1>6, <2>1 DEF one, l
  <2>2. CASE b \notin Fresh
    <3>1. loads[b] = <<>> /\ chain[b] = "none" /\ DOMAIN <<>> = {}
      BY <1>1, <2>2
    <3> QED BY <3>1
  <2> QED BY <2>1, <2>2
<1>9. 0 \in 0 .. Tries - 1
  BY SessionNamesAssumption
<1> QED BY <1>1, <1>2, <1>4, <1>7, <1>8, <1>9 DEF TypeOK

LEMMA NextTypes == ASSUME TypeOK, [Next]_vars PROVE TypeOK'
<1>1. CASE UNCHANGED vars
  BY <1>1 DEF vars, store, browsers, TypeOK
<1> QED BY <1>1, PutArrivesTypes, AnswerTypes, PutLostTypes, PutReturnsTypes, StoreTurnTypes,
           CrashTypes, RenameTypes, EventArrivesTypes, OpenTypes, DropTypes, RetryTypes,
           GetTypes, LoadReturnsTypes, LoadFailsTypes DEF Next
-----------------------------------------------------------------------------
(* The store and the requests.                                             *)

\* What the PUT of a renaming asks for.
Wanted(r) == [key |-> r.key, name |-> r.name]

\* What the store is doing is the same, and nobody but a request it does not
\* have has gone on.
LEMMA StoreKept ==
    ASSUME TypeOK, StoreInv, UNCHANGED store, SamePuts,
           \A i \in DOMAIN put : put'[i].at = "served" <=> put[i].at = "served"
    PROVE  StoreInv'
<1>1. value' = value /\ queue' = queue /\ told' = told /\ Untold' = Untold
  BY DEF store, Untold
<1>2. \A i \in DOMAIN put : Wanted(put'[i]) = Asked(i)
  BY DEF SamePuts, Wanted, Asked
<1>3. Untold \subseteq DOMAIN put
  BY DEF StoreInv, Untold
<1> QED BY <1>1, <1>2, <1>3 DEF StoreInv, SamePuts, Asked, Wanted

LEMMA PutArrivesStore == ASSUME TypeOK, StoreInv, NEW i \in DOMAIN put, PutArrives(i) PROVE StoreInv'
<1> DEFINE m == [by |-> i, op |-> Asked(i)]
           n == Len(queue) + 1
<1>1. /\ put' = [put EXCEPT ![i].at = "served"] /\ put[i].at = "sent" /\ told[i] = "idle"
      /\ queue' = Append(queue, m) /\ told' = [told EXCEPT ![i] = "waiting"] /\ value' = value
  BY DEF PutArrives, S!Call
<1>2. /\ SamePuts /\ \A j \in DOMAIN put : put'[j].at = IF j = i THEN "served" ELSE put[j].at
  BY <1>1, PutGoesOn DEF PutPhase
<1>3. \A j \in Put : told'[j] = IF j = i THEN "waiting" ELSE told[j]
  BY <1>1 DEF TypeOK
<1>4. m \in [by : Put, op : Change] /\ m.by = i /\ m.op = Asked(i)
  BY PutFacts
<1>5. /\ DOMAIN queue' = DOMAIN queue \cup {n} /\ queue'[n] = m
      /\ \A x \in DOMAIN queue : queue'[x] = queue[x]
  BY <1>1, <1>4, AppendIs DEF TypeOK
<1> HIDE DEF m, n
<1>6. \A j \in DOMAIN put : Wanted(put'[j]) = Asked(j)
  BY <1>2 DEF SamePuts, Wanted, Asked
<1>7. Untold' = Untold /\ Untold \subseteq DOMAIN put /\ i \in Put /\ DOMAIN put \subseteq Put
  BY <1>1, <1>3, PutFacts DEF StoreInv, Untold
<1>8. /\ \A j \in DOMAIN put' : told'[j] # "idle" <=> put'[j].at = "served"
      /\ \A j \in Put : told'[j] # "idle" => j \in DOMAIN put'
  BY <1>2, <1>3, <1>7 DEF StoreInv, SamePuts
<1>9. /\ \A x \in DOMAIN queue' :
            /\ queue'[x].by \in DOMAIN put'
            /\ told'[queue'[x].by] = "waiting"
            /\ queue'[x].op = Wanted(put'[queue'[x].by])
      /\ \A x, y \in DOMAIN queue' : queue'[x].by = queue'[y].by => x = y
  <2>1. \A x \in DOMAIN queue : queue[x].by # i
    BY <1>1 DEF StoreInv
  <2>2. ASSUME NEW x \in DOMAIN queue
        PROVE  /\ queue'[x].by \in DOMAIN put' /\ told'[queue'[x].by] = "waiting"
               /\ queue'[x].op = Wanted(put'[queue'[x].by])
    BY <1>2, <1>3, <1>5, <1>6, <1>7 DEF StoreInv, SamePuts
  <2>3. queue'[n].by \in DOMAIN put' /\ told'[queue'[n].by] = "waiting"
        /\ queue'[n].op = Wanted(put'[queue'[n].by])
    BY <1>2, <1>3, <1>4, <1>5, <1>6, <1>7 DEF SamePuts
  <2>4. \A x, y \in DOMAIN queue' : queue'[x].by = queue'[y].by => x = y
    BY <1>4, <1>5, <2>1 DEF StoreInv
  <2> QED BY <1>5, <2>2, <2>3, <2>4
<1>10. \A j \in Untold : told'[j] = "ok" => value'[put'[j].key] = put'[j].name
  BY <1>1, <1>2, <1>3, <1>7 DEF StoreInv, SamePuts
<1> QED BY <1>7, <1>8, <1>9, <1>10 DEF StoreInv, Asked, Wanted

\* The first call of the queue settles.
LEMMA SettleStore ==
    ASSUME TypeOK, StoreInv, NEW end \in {"ok", "failed"}, S!Settle(end), Untold = {}, put' = put,
           end = "ok" => value'[Head(queue).op.key] = Head(queue).op.name
    PROVE  StoreInv'
<1> DEFINE q == Head(queue).by
<1>1. /\ 1 \in DOMAIN queue /\ Head(queue) = queue[1] /\ queue' = Tail(queue) /\ queue # <<>>
      /\ \A i \in Put : told'[i] = IF i = q THEN end ELSE told[i]
  BY SettleFacts
<1>2. \A x \in DOMAIN queue' :
         x \in Nat /\ x + 1 # 1 /\ x + 1 \in DOMAIN queue /\ queue'[x] = queue[x + 1]
  BY <1>1, TailIs DEF TypeOK
<1>3. /\ q \in DOMAIN put /\ q \in Put /\ told[q] = "waiting" /\ Head(queue).op = Asked(q)
      /\ Asked(q).key = put[q].key /\ Asked(q).name = put[q].name
  BY <1>1, PutFacts DEF StoreInv
<1>4. \A x \in DOMAIN queue' : queue'[x].by # q
  <2> SUFFICES ASSUME NEW x \in DOMAIN queue' PROVE queue'[x].by # q
    OBVIOUS
  <2>1. x + 1 # 1 /\ x + 1 \in DOMAIN queue /\ queue'[x] = queue[x + 1]
    BY <1>2
  <2> QED BY <1>1, <2>1 DEF StoreInv
<1> HIDE DEF q
<1>5. Untold' = {q}
  BY <1>1, <1>3 DEF Untold
<1>6. \A i \in DOMAIN put : Wanted(put'[i]) = Asked(i) /\ i \in Put
  BY PutFacts DEF Wanted, Asked
<1>7. /\ \A i \in DOMAIN put' : told'[i] # "idle" <=> put'[i].at = "served"
      /\ \A i \in Put : told'[i] # "idle" => i \in DOMAIN put'
  BY <1>1, <1>3, <1>6 DEF StoreInv
<1>8. \A x \in DOMAIN queue' :
         /\ queue'[x].by \in DOMAIN put'
         /\ told'[queue'[x].by] = "waiting"
         /\ queue'[x].op = Wanted(put'[queue'[x].by])
  BY <1>1, <1>2, <1>4, <1>6 DEF StoreInv
<1>9. \A x, y \in DOMAIN queue' : queue'[x].by = queue'[y].by => x = y
  <2> SUFFICES ASSUME NEW x \in DOMAIN queue', NEW y \in DOMAIN queue', queue'[x].by = queue'[y].by
               PROVE  x = y
    OBVIOUS
  <2>1. x + 1 = y + 1 /\ x \in Nat /\ y \in Nat
    BY <1>2 DEF StoreInv
  <2> QED BY <2>1
<1>10. told'[q] = "ok" => value'[put'[q].key] = put'[q].name
  BY <1>1, <1>3
<1> QED BY <1>5, <1>7, <1>8, <1>9, <1>10 DEF StoreInv, Asked, Wanted

LEMMA AnswerStore == ASSUME TypeOK, StoreInv, NEW i \in DOMAIN put, Answer(i) PROVE StoreInv'
<1> DEFINE a == told[i]
<1>1. /\ a \in {"ok", "failed"} /\ UNCHANGED <<value, queue>> /\ a \in PutPhase
      /\ \A j \in Put : told'[j] = IF j = i THEN "idle" ELSE told[j]
      /\ put' = [put EXCEPT ![i].at = a]
  BY AnswerFacts DEF PutPhase
<1> HIDE DEF a
<1>2. SamePuts /\ \A j \in DOMAIN put : put'[j].at = IF j = i THEN a ELSE put[j].at
  BY <1>1, PutGoesOn
<1>3. \A j \in DOMAIN put : Wanted(put'[j]) = Asked(j) /\ j \in Put
  BY <1>2, PutFacts DEF SamePuts, Wanted, Asked
<1>4. Untold' = {}
  <2>1. Untold = {i}
    BY <1>1, <1>3 DEF StoreInv, Untold, a
  <2> QED BY <1>1, <2>1 DEF Untold
<1>5. \A x \in DOMAIN queue : queue[x].by # i
  BY <1>1 DEF StoreInv, a
<1>6. /\ \A j \in DOMAIN put' : told'[j] # "idle" <=> put'[j].at = "served"
      /\ \A j \in Put : told'[j] # "idle" => j \in DOMAIN put'
  BY <1>1, <1>2, <1>3 DEF StoreInv, SamePuts
<1>7. /\ \A x \in DOMAIN queue' :
            /\ queue'[x].by \in DOMAIN put'
            /\ told'[queue'[x].by] = "waiting"
            /\ queue'[x].op = Wanted(put'[queue'[x].by])
      /\ \A x, y \in DOMAIN queue' : queue'[x].by = queue'[y].by => x = y
  BY <1>1, <1>2, <1>3, <1>5 DEF StoreInv, SamePuts
<1> QED BY <1>4, <1>6, <1>7 DEF StoreInv, Asked, Wanted

LEMMA CrashStore == ASSUME TypeOK, StoreInv, Crash PROVE StoreInv'
<1>1. /\ queue' = <<>> /\ DOMAIN <<>> = {} /\ told' = [i \in Put |-> "idle"] /\ SamePuts
      /\ \A i \in DOMAIN put : put'[i].at = IF put[i].at = "served" THEN "failed" ELSE put[i].at
  BY CrashFacts
<1>2. Untold' = {}
  BY <1>1 DEF Untold
<1>3. \A i \in DOMAIN put : i \in Put
  BY PutFacts
<1> QED BY <1>1, <1>2, <1>3 DEF StoreInv, SamePuts

LEMMA RenameStore ==
    ASSUME TypeOK, StoreInv, NEW b \in Browser, NEW k \in Key, NEW n \in NameOrNone, Rename(b, k, n)
    PROVE  StoreInv'
<1> DEFINE i == Len(put) + 1
<1>1. /\ i \in Put /\ i \notin DOMAIN put /\ DOMAIN put' = DOMAIN put \cup {i} /\ put'[i].at = "sent"
      /\ \A j \in DOMAIN put : put'[j] = put[j]
      /\ value' = value /\ queue' = queue /\ told' = told
  BY RenameFacts DEF store
<1> HIDE DEF i
<1>2. \A j \in DOMAIN put : Wanted(put'[j]) = Asked(j)
  BY <1>1 DEF Wanted, Asked
<1>3. Untold' = Untold /\ Untold \subseteq DOMAIN put
  BY <1>1 DEF Untold, StoreInv
<1>4. told[i] = "idle"
  BY <1>1 DEF StoreInv
<1> QED BY <1>1, <1>2, <1>3, <1>4 DEF StoreInv, Asked, Wanted

LEMMA NextStore == ASSUME TypeOK, StoreInv, [Next]_vars PROVE StoreInv'
<1>1. CASE StoreLands
  BY <1>1, LandFacts, SettleStore DEF browsers
<1>2. CASE StoreFails
  BY <1>2, SettleStore DEF StoreFails, S!Fail, browsers
<1>3. ASSUME NEW i \in DOMAIN put, PutLost(i) \/ PutReturns(i) PROVE StoreInv'
  <2>1. PICK a \in {"failed", "done"} :
          put' = [put EXCEPT ![i].at = a] /\ put[i].at # "served" /\ UNCHANGED store
    BY <1>3 DEF PutLost, PutReturns
  <2>2. SamePuts /\ \A j \in DOMAIN put : put'[j].at = IF j = i THEN a ELSE put[j].at
    BY <2>1, PutGoesOn DEF PutPhase
  <2> QED BY <2>1, <2>2, StoreKept
<1>4. CASE UNCHANGED <<store, put>>
  <2>1. SamePuts
    BY <1>4 DEF SamePuts
  <2> QED BY <1>4, <2>1, StoreKept
<1>5. ASSUME NEW b \in Browser, EventArrives(b) \/ Open(b) \/ Drop(b) \/ Retry(b) PROVE StoreInv'
  BY <1>4, <1>5 DEF EventArrives, Open, Drop, Retry
<1>6. ASSUME NEW b \in Browser, NEW j \in DOMAIN loads[b],
             GetReads(b, j) \/ LoadReturns(b, j) \/ LoadFails(b, j)
      PROVE  StoreInv'
  BY <1>4, <1>6 DEF GetReads, LoadReturns, LoadFails
<1>7. CASE UNCHANGED vars
  BY <1>4, <1>7 DEF vars, browsers
<1> QED BY <1>1, <1>2, <1>3, <1>5, <1>6, <1>7, PutArrivesStore, AnswerStore, CrashStore, RenameStore
        DEF Next
-----------------------------------------------------------------------------
(* Renames that do not overlap.                                            *)

\* No name changes on the server, and a rename goes on only if it was under way.
LEMMA AloneGoesOn ==
    ASSUME TypeOK, AloneInv, SamePuts, value' = value,
           \A k \in Key : contested[k] => contested'[k],
           \A i \in DOMAIN put :
              \/ put'[i].at = put[i].at
              \/ /\ put[i].at # "done"
                 /\ put'[i].at \in {"ok", "done"} /\ ~contested'[put[i].key]
                       => value[put[i].key] = put[i].name
    PROVE  AloneInv'
<1> DEFINE Top(i) == \A j \in DOMAIN put : put[j].key = put[i].key => j <= i
<1>1. \A i \in DOMAIN put : Newest(i)' <=> Top(i)
  BY DEF Newest, SamePuts
<1>2. \A i \in DOMAIN put : Newest(i) <=> Top(i)
  BY DEF Newest
<1> HIDE DEF Top
<1>3. ASSUME NEW i \in DOMAIN put, ~contested'[put[i].key]
      PROVE  /\ ~Top(i) => put'[i].at = "done"
             /\ Top(i) /\ put'[i].at \in {"ok", "done"} => value[put[i].key] = put[i].name
  <2>1. put[i].key \in Key /\ ~contested[put[i].key]
    BY <1>3, PutFacts, RenamingFacts
  <2> QED BY <1>2, <1>3, <2>1 DEF AloneInv
<1>4. DOMAIN put' = DOMAIN put
      /\ \A i \in DOMAIN put : put'[i].key = put[i].key /\ put'[i].name = put[i].name
  BY DEF SamePuts
<1> QED BY <1>1, <1>3, <1>4 DEF AloneInv

LEMMA LandAlone == ASSUME TypeOK, StoreInv, AloneInv, StoreLands PROVE AloneInv'
<1> DEFINE q == Head(queue).by
<1>1. /\ 1 \in DOMAIN queue /\ Head(queue) = queue[1] /\ put' = put /\ contested' = contested
      /\ value'[Head(queue).op.key] = Head(queue).op.name
      /\ \A k \in Key \ {Head(queue).op.key} : value'[k] = value[k]
  BY LandFacts, SettleFacts DEF browsers
<1>2. /\ q \in DOMAIN put /\ put[q].at = "served" /\ Head(queue).op.key = put[q].key /\ q \in Nat
  BY <1>1, PutFacts DEF StoreInv
<1>3. ASSUME NEW i \in DOMAIN put, ~contested[put[i].key], Newest(i), put[i].at \in {"ok", "done"}
      PROVE  value'[put[i].key] = put[i].name
  <2>1. value[put[i].key] = put[i].name /\ put[i].key \in Key /\ i \in Nat
    BY <1>3, PutFacts, RenamingFacts DEF AloneInv
  <2>2. CASE put[i].key = put[q].key
    <3>1. Newest(q)
      BY <1>2, <1>3, <2>2 DEF AloneInv
    <3>2. q <= i /\ i <= q
      BY <1>2, <1>3, <2>2, <3>1 DEF Newest
    <3>3. q = i
      BY <1>2, <2>1, <3>2
    <3> QED BY <1>2, <1>3, <3>3
  <2> QED BY <1>1, <1>2, <2>1, <2>2
<1>4. \A i : Newest(i)' <=> Newest(i)
  BY <1>1 DEF Newest
<1> QED BY <1>1, <1>3, <1>4 DEF AloneInv

LEMMA RenameAlone ==
    ASSUME TypeOK, AloneInv, NEW b \in Browser, NEW k \in Key, NEW n \in NameOrNone, Rename(b, k, n)
    PROVE  AloneInv'
<1> PICK i : i = Len(put) + 1
  OBVIOUS
<1>1. /\ DOMAIN put' = DOMAIN put \cup {i} /\ \A j \in DOMAIN put : put'[j] = put[j] /\ j < i
      /\ put'[i].key = k /\ put'[i].at = "sent"
      /\ contested' = [contested EXCEPT ![k] = @ \/ Overlaps(k)] /\ value' = value
  BY RenameFacts DEF store
<1>2. Len(put) \in Nat /\ \A j \in DOMAIN put : j \in Nat /\ put[j].key \in Key
  BY PutFacts, RenamingFacts
<1>3. /\ contested'[k] <=> (contested[k] \/ Overlaps(k))
      /\ \A c \in Key \ {k} : contested'[c] = contested[c]
  <2>1. contested \in [Key -> BOOLEAN]
    BY DEF TypeOK
  <2> QED BY <1>1, <2>1
<1>4. i <= i /\ \A j \in DOMAIN put : ~(i <= j) /\ j <= i
  BY <1>1, <1>2
<1>5. Newest(i)' /\ \A j \in DOMAIN put : Newest(j)' => put[j].key # k /\ Newest(j)
  <2>1. Newest(i)'
    BY <1>1, <1>4 DEF Newest
  <2>2. ASSUME NEW j \in DOMAIN put, Newest(j)' PROVE put[j].key # k /\ Newest(j)
    <3>1. \A x \in DOMAIN put' : put'[x].key = put'[j].key => x <= j
      BY <2>2 DEF Newest
    <3>2. put[j].key # k
      BY <1>1, <1>4, <3>1
    <3>3. \A x \in DOMAIN put : put[x].key = put[j].key => x <= j
      BY <1>1, <3>1
    <3> QED BY <3>2, <3>3 DEF Newest
  <2> QED BY <2>1, <2>2
<1>6. ASSUME NEW j \in DOMAIN put, Newest(j), put[j].key # k PROVE Newest(j)'
  BY <1>1, <1>6 DEF Newest
<1>7. ASSUME NEW j \in DOMAIN put, ~contested'[put[j].key]
      PROVE  /\ ~Newest(j)' => put[j].at = "done"
             /\ Newest(j)' /\ put[j].at \in {"ok", "done"} => value[put[j].key] = put[j].name
  <2>1. CASE put[j].key = k
    <3>1. put[j].at = "done"
      BY <1>3, <1>7, <2>1 DEF Overlaps
    <3> QED BY <1>5, <2>1, <3>1
  <2>2. CASE put[j].key # k
    <3>1. ~contested[put[j].key]
      BY <1>2, <1>3, <1>7, <2>2
    <3> QED BY <1>5, <1>6, <2>2, <3>1 DEF AloneInv
  <2> QED BY <2>1, <2>2
<1>8. DOMAIN put' = DOMAIN put \cup {i} /\ Newest(i)' /\ put'[i].at \notin {"ok", "done"}
      /\ \A j \in DOMAIN put : put'[j] = put[j] /\ value' = value
  BY <1>1, <1>5
<1> QED BY <1>7, <1>8 DEF AloneInv

LEMMA NextAlone == ASSUME TypeOK, StoreInv, AloneInv, [Next]_vars PROVE AloneInv'
<1>1. CASE UNCHANGED <<value, put, contested>>
  BY <1>1, AloneGoesOn DEF SamePuts
<1>2. ASSUME NEW i \in DOMAIN put, PutArrives(i) PROVE AloneInv'
  <2>1. put' = [put EXCEPT ![i].at = "served"] /\ put[i].at = "sent" /\ UNCHANGED <<value, contested>>
    BY <1>2 DEF PutArrives, S!Call
  <2>2. SamePuts /\ \A j \in DOMAIN put : put'[j].at = IF j = i THEN "served" ELSE put[j].at
    BY <2>1, PutGoesOn DEF PutPhase
  <2> QED BY <2>1, <2>2, AloneGoesOn
<1>3. ASSUME NEW i \in DOMAIN put, PutLost(i) PROVE AloneInv'
  <2>1. put' = [put EXCEPT ![i].at = "failed"] /\ put[i].at = "sent" /\ UNCHANGED <<value, contested>>
    BY <1>3 DEF PutLost, store
  <2>2. SamePuts /\ \A j \in DOMAIN put : put'[j].at = IF j = i THEN "failed" ELSE put[j].at
    BY <2>1, PutGoesOn DEF PutPhase
  <2> QED BY <2>1, <2>2, AloneGoesOn
<1>4. ASSUME NEW i \in DOMAIN put, Answer(i) PROVE AloneInv'
  <2> DEFINE a == told[i]
  <2>1. /\ put' = [put EXCEPT ![i].at = a] /\ a \in {"ok", "failed"} /\ UNCHANGED <<value, contested>>
    BY <1>4, AnswerFacts
  <2>2. put[i].at # "done" /\ (a = "ok" => value[put[i].key] = put[i].name)
    BY <2>1, PutFacts DEF StoreInv, Untold
  <2> HIDE DEF a
  <2>3. SamePuts /\ \A j \in DOMAIN put : put'[j].at = IF j = i THEN a ELSE put[j].at
    BY <2>1, PutGoesOn DEF PutPhase
  <2> QED BY <2>1, <2>2, <2>3, AloneGoesOn
<1>5. ASSUME NEW i \in DOMAIN put, PutReturns(i) PROVE AloneInv'
  <2>1. /\ put' = [put EXCEPT ![i].at = "done"] /\ "done" \in PutPhase /\ value' = value
        /\ put[i].at \in {"ok", "failed"} /\ put[i].key \in Key
        /\ contested' = [contested EXCEPT ![put[i].key] = @ \/ put[i].at = "failed"]
    BY <1>5, PutReturnsFacts DEF store
  <2>2. SamePuts /\ \A j \in DOMAIN put : put'[j].at = IF j = i THEN "done" ELSE put[j].at
    BY <2>1, PutGoesOn
  <2>3. /\ \A k \in Key : contested[k] => contested'[k]
        /\ put[i].at = "failed" => contested'[put[i].key]
    BY <2>1 DEF TypeOK
  <2>4. ~contested'[put[i].key] => value[put[i].key] = put[i].name
    BY <2>1, <2>3 DEF AloneInv
  <2> QED BY <2>1, <2>2, <2>3, <2>4, AloneGoesOn
<1>6. CASE Crash
  <2>1. UNCHANGED <<value, contested>>
    BY <1>6, CrashFacts
  <2> QED BY <1>6, <2>1, CrashFacts, AloneGoesOn
<1>7. CASE StoreFails
  BY <1>1, <1>7 DEF StoreFails, S!Fail, browsers
<1>8. ASSUME NEW b \in Browser, EventArrives(b) \/ Open(b) \/ Drop(b) \/ Retry(b) PROVE AloneInv'
  BY <1>1, <1>8 DEF EventArrives, Open, Drop, Retry, store
<1>9. ASSUME NEW b \in Browser, NEW j \in DOMAIN loads[b],
             GetReads(b, j) \/ LoadReturns(b, j) \/ LoadFails(b, j)
      PROVE  AloneInv'
  BY <1>1, <1>9 DEF GetReads, LoadReturns, LoadFails, store
<1>10. CASE UNCHANGED vars
  BY <1>1, <1>10 DEF vars, browsers, store
<1> QED BY <1>2, <1>3, <1>4, <1>5, <1>6, <1>7, <1>8, <1>9, <1>10, LandAlone, RenameAlone DEF Next
-----------------------------------------------------------------------------
(* The events.                                                             *)

LEMMA TellingKept ==
    ASSUME StoreInv, told' = told, DOMAIN put \subseteq DOMAIN put',
           \A i \in DOMAIN put : put'[i].key = put[i].key
    PROVE  \A k : Telling(k)' <=> Telling(k)
<1>1. Untold' = Untold /\ Untold \subseteq DOMAIN put
  BY DEF Untold, StoreInv
<1> QED BY <1>1 DEF Telling

\* The events and the value are the same, and what was being told still is.
LEMMA EventsStay ==
    ASSUME EventInv, UNCHANGED <<value, events>>, \A k : Telling(k) => Telling(k)',
           \A b \in Browser : link[b] => link'[b]
    PROVE  EventInv'
  BY DEF EventInv

LEMMA LandEvents == ASSUME TypeOK, StoreInv, EventInv, StoreLands PROVE EventInv'
<1> PICK q : q = Head(queue).by
  OBVIOUS
<1>1. /\ 1 \in DOMAIN queue /\ Head(queue) = queue[1] /\ UNCHANGED <<put, events, link>>
      /\ \A i \in Put : told'[i] = IF i = q THEN "ok" ELSE told[i]
      /\ \A k \in Key \ {Head(queue).op.key} : value'[k] = value[k]
      /\ Untold = {}
  BY LandFacts, SettleFacts DEF browsers
<1>2. /\ q \in DOMAIN put /\ q \in Put /\ Head(queue).op.key = put[q].key
  BY <1>1, PutFacts DEF StoreInv
<1>3. \A k : ~Telling(k)
  BY <1>1 DEF Telling
<1>4. \A k : k = put[q].key => Telling(k)'
  BY <1>1, <1>2 DEF Telling, Untold
<1>5. ASSUME NEW b \in Browser, NEW x \in DOMAIN events[b]
      PROVE  \/ Telling(events[b][x].key)'
             \/ \E y \in DOMAIN events[b] : y > x /\ events[b][y].key = events[b][x].key
             \/ events[b][x].name = value'[events[b][x].key]
  <2>1. events[b][x].key \in Key
    <3>1. events[b] \in Seq(Change)
      BY DEF TypeOK
    <3>2. events[b][x] \in Change
      BY <3>1, LenProperties
    <3> QED BY <3>2 DEF Change
  <2>2. CASE events[b][x].key = put[q].key
    BY <1>1, <1>4, <2>2
  <2>3. CASE events[b][x].key # put[q].key
    BY <1>1, <1>2, <1>3, <2>1, <2>3 DEF EventInv
  <2> QED BY <2>2, <2>3
<1> QED BY <1>1, <1>5 DEF EventInv

LEMMA AnswerEvents ==
    ASSUME TypeOK, StoreInv, EventInv, NEW i \in DOMAIN put, Answer(i)
    PROVE  EventInv'
<1>1. /\ told[i] \in {"ok", "failed"} /\ UNCHANGED <<value, link>>
      /\ \A b \in Browser : events'[b] = IF told[i] = "ok" /\ link[b]
                                         THEN Append(events[b], Asked(i)) ELSE events[b]
  BY AnswerFacts
<1>2. /\ i \in Put /\ Asked(i) \in Change /\ Asked(i).key = put[i].key /\ Asked(i).name = put[i].name
  BY PutFacts
<1>3. Untold = {i} /\ (told[i] = "ok" => value[put[i].key] = put[i].name)
  BY <1>1, <1>2 DEF StoreInv, Untold
<1>4. \A k : Telling(k) <=> told[i] = "ok" /\ put[i].key = k
  BY <1>3 DEF Telling
<1>5. ASSUME NEW b \in Browser, ~link[b] PROVE events'[b] = <<>>
  BY <1>1, <1>5 DEF EventInv
<1>6. ASSUME NEW b \in Browser, NEW x \in DOMAIN events'[b]
      PROVE  \/ \E y \in DOMAIN events'[b] : y > x /\ events'[b][y].key = events'[b][x].key
             \/ events'[b][x].name = value[events'[b][x].key]
  <2>1. CASE told[i] = "ok" /\ link[b]
    <3> DEFINE n == Len(events[b]) + 1
    <3>1. /\ n \in Nat /\ DOMAIN events'[b] = DOMAIN events[b] \cup {n}
          /\ events'[b][n] = Asked(i)
          /\ \A y \in DOMAIN events[b] : y \in Nat /\ n > y /\ events'[b][y] = events[b][y]
      <4>1. events[b] \in Seq(Change)
        BY DEF TypeOK
      <4>2. /\ Len(events[b]) \in Nat /\ \A y \in DOMAIN events[b] : y \in Nat /\ y <= Len(events[b])
        BY <4>1, <1>2, AppendIs
      <4>3. n \in Nat /\ \A y \in DOMAIN events[b] : n > y
        BY <4>2
      <4>4. /\ DOMAIN events'[b] = DOMAIN events[b] \cup {n} /\ events'[b][n] = Asked(i)
            /\ \A y \in DOMAIN events[b] : events'[b][y] = events[b][y]
        <5>1. events'[b] = Append(events[b], Asked(i))
          BY <1>1, <2>1
        <5> QED BY <1>2, <4>1, <5>1, AppendIs
      <4> QED BY <4>2, <4>3, <4>4
    <3> HIDE DEF n
    <3>2. CASE x = n
      BY <1>2, <1>3, <2>1, <3>1, <3>2
    <3>3. CASE x \in DOMAIN events[b] /\ events[b][x].key = put[i].key
      BY <1>2, <3>1, <3>3
    <3>4. CASE x \in DOMAIN events[b] /\ events[b][x].key # put[i].key
      BY <1>4, <3>1, <3>4 DEF EventInv
    <3> QED BY <3>1, <3>2, <3>3, <3>4
  <2>2. CASE told[i] = "ok" /\ ~link[b]
    BY <1>5, <2>2, <1>6
  <2>3. CASE told[i] = "failed"
    BY <1>1, <1>4, <1>6, <2>3 DEF EventInv
  <2> QED BY <1>1, <2>1, <2>2, <2>3
<1> QED BY <1>1, <1>5, <1>6 DEF EventInv

LEMMA ArrivalEvents ==
    ASSUME TypeOK, StoreInv, EventInv, NEW b \in Browser, EventArrives(b)
    PROVE  EventInv'
<1>1. /\ events[b] # <<>> /\ events[b] \in Seq(Change) /\ events'[b] = Tail(events[b])
      /\ \A c \in Browser \ {b} : events'[c] = events[c]
      /\ UNCHANGED <<store, put, link>>
  BY EventFacts
<1>2. value' = value /\ \A k : Telling(k)' <=> Telling(k)
  BY <1>1, TellingKept DEF store
<1>3. link[b]
  BY <1>1 DEF EventInv
<1>4. ASSUME NEW x \in DOMAIN events'[b]
      PROVE  \/ Telling(events'[b][x].key)
             \/ \E y \in DOMAIN events'[b] : y > x /\ events'[b][y].key = events'[b][x].key
             \/ events'[b][x].name = value[events'[b][x].key]
  <2>1. x \in Nat /\ x + 1 \in DOMAIN events[b] /\ events'[b][x] = events[b][x + 1]
    BY <1>1, <1>4, TailIs
  <2>2. ASSUME NEW y \in DOMAIN events[b], y > x + 1, events[b][y].key = events[b][x + 1].key
        PROVE  \E z \in DOMAIN events'[b] : z > x /\ events'[b][z].key = events'[b][x].key
    <3>1. y \in Nat /\ (y = 1 \/ (y - 1 \in DOMAIN events'[b] /\ events[b][y] = events'[b][y - 1]))
      BY <1>1, TailIs
    <3>2. y # 1 /\ y - 1 > x
      BY <2>1, <2>2, <3>1
    <3> QED BY <2>1, <2>2, <3>1, <3>2
  <2> QED BY <2>1, <2>2 DEF EventInv
<1>5. ASSUME NEW c \in Browser \ {b}
      PROVE  /\ ~link'[c] => events'[c] = <<>>
             /\ \A x \in DOMAIN events'[c] :
                   \/ Telling(events'[c][x].key)
                   \/ \E y \in DOMAIN events'[c] : y > x /\ events'[c][y].key = events'[c][x].key
                   \/ events'[c][x].name = value[events'[c][x].key]
  BY <1>1 DEF EventInv
<1>6. link'[b]
  BY <1>1, <1>3
<1> QED BY <1>2, <1>4, <1>5, <1>6 DEF EventInv

LEMMA NextEvents == ASSUME TypeOK, StoreInv, EventInv, [Next]_vars PROVE EventInv'
<1>1. CASE UNCHANGED <<store, put, events, link>>
  <2>1. UNCHANGED <<value, events, link>> /\ \A k : Telling(k) => Telling(k)'
    BY <1>1, TellingKept DEF store
  <2> QED BY <2>1, EventsStay
<1>2. ASSUME NEW i \in DOMAIN put, PutArrives(i) PROVE EventInv'
  <2>1. /\ put' = [put EXCEPT ![i].at = "served"] /\ told[i] = "idle" /\ UNCHANGED <<value, events, link>>
        /\ told' = [told EXCEPT ![i] = "waiting"] /\ told \in [Put -> Told]
    BY <1>2 DEF PutArrives, S!Call, TypeOK, Told
  <2>2. SamePuts
    BY <2>1, PutGoesOn DEF PutPhase
  <2>3. \A j \in Untold : told'[j] = told[j] /\ j \in Untold' /\ j \in DOMAIN put
    BY <2>1 DEF Untold, StoreInv
  <2>4. \A k : Telling(k) => Telling(k)'
    BY <2>2, <2>3 DEF Telling, SamePuts
  <2> QED BY <2>1, <2>4, EventsStay
<1>3. ASSUME NEW i \in DOMAIN put, PutLost(i) \/ PutReturns(i) PROVE EventInv'
  <2>1. PICK a \in {"failed", "done"} :
          put' = [put EXCEPT ![i].at = a] /\ UNCHANGED <<store, events, link>>
    BY <1>3 DEF PutLost, PutReturns
  <2>2. SamePuts
    BY <2>1, PutGoesOn DEF PutPhase
  <2>3. \A k : Telling(k) => Telling(k)'
    BY <2>1, <2>2, TellingKept DEF SamePuts, store
  <2> QED BY <2>1, <2>3, EventsStay DEF store
<1>4. CASE StoreFails
  <2>1. UNCHANGED <<value, events, link>> /\ Untold = {}
    BY <1>4 DEF StoreFails, S!Fail, browsers
  <2> QED BY <2>1, EventsStay DEF Telling
<1>5. CASE Crash
  <2>1. link' = [b \in Browser |-> FALSE] /\ events' = [b \in Browser |-> <<>>] /\ DOMAIN <<>> = {}
    BY <1>5, CrashFacts
  <2> QED BY <2>1 DEF EventInv
<1>6. ASSUME NEW b \in Browser, NEW k \in Key, NEW n \in NameOrNone, Rename(b, k, n) PROVE EventInv'
  <2>1. /\ DOMAIN put \subseteq DOMAIN put' /\ \A j \in DOMAIN put : put'[j].key = put[j].key
        /\ UNCHANGED <<value, told, events, link>>
    BY <1>6, RenameFacts DEF store
  <2> QED BY <2>1, TellingKept, EventsStay
<1>7. ASSUME NEW b \in Browser, Open(b) PROVE EventInv'
  <2>1. /\ UNCHANGED <<store, put, events>> /\ \A c \in Browser : link[c] => link'[c]
    BY <1>7, OpenFacts
  <2>2. UNCHANGED <<value, events>> /\ \A k : Telling(k) => Telling(k)'
    BY <2>1, TellingKept DEF store
  <2> QED BY <2>1, <2>2, EventsStay
<1>8. ASSUME NEW b \in Browser, Drop(b) PROVE EventInv'
  <2>1. /\ UNCHANGED <<value, told, put>> /\ link' = [link EXCEPT ![b] = FALSE]
        /\ events' = [events EXCEPT ![b] = <<>>] /\ DOMAIN <<>> = {}
        /\ DOMAIN link = Browser /\ DOMAIN events = Browser
    BY <1>8 DEF Drop, store, TypeOK
  <2>2. \A k : Telling(k)' <=> Telling(k)
    BY <2>1, TellingKept
  <2>3. ASSUME NEW c \in Browser
        PROVE  /\ ~link'[c] => events'[c] = <<>>
               /\ \A x \in DOMAIN events'[c] :
                     \/ Telling(events'[c][x].key)
                     \/ \E y \in DOMAIN events'[c] : y > x /\ events'[c][y].key = events'[c][x].key
                     \/ events'[c][x].name = value[events'[c][x].key]
    <3>1. CASE c = b
      BY <2>1, <3>1
    <3>2. CASE c # b
      <4>1. events'[c] = events[c] /\ link'[c] = link[c]
        BY <2>1, <3>2
      <4> QED BY <4>1 DEF EventInv
    <3> QED BY <3>1, <3>2
  <2> QED BY <2>1, <2>2, <2>3 DEF EventInv
<1>9. ASSUME NEW b \in Browser, Retry(b) PROVE EventInv'
  BY <1>1, <1>9 DEF Retry
<1>10. ASSUME NEW b \in Browser, NEW j \in DOMAIN loads[b],
              GetReads(b, j) \/ LoadReturns(b, j) \/ LoadFails(b, j)
       PROVE  EventInv'
  BY <1>1, <1>10 DEF GetReads, LoadReturns, LoadFails
<1>11. CASE UNCHANGED vars
  BY <1>1, <1>11 DEF vars, browsers
<1> QED BY <1>2, <1>3, <1>4, <1>5, <1>6, <1>7, <1>8, <1>9, <1>10, <1>11, LandEvents, AnswerEvents,
           ArrivalEvents DEF Next
-----------------------------------------------------------------------------
(* The marks of the GETs under way.                                        *)

Marked(ls) == \A i, j \in DOMAIN ls : i < j => ls[j].changed \subseteq ls[i].changed

LEMMA MarkInvIs == MarkInv <=> \A b \in Browser : Marked(loads[b])
  BY DEF MarkInv, Marked

LEMMA NewIsMarked ==
    ASSUME NEW ls \in Seq(Load), NEW c \in BOOLEAN, Marked(ls)
    PROVE  Marked(Append(ls, NewLoad(c)))
<1> DEFINE r == Append(ls, NewLoad(c))
           n == Len(ls) + 1
<1>1. /\ NewLoad(c).changed = {} /\ NewLoad(c) \in Load
  BY NewLoadIs
<1>2. /\ DOMAIN r = DOMAIN ls \cup {n} /\ r[n] = NewLoad(c)
      /\ \A i \in DOMAIN ls : i \in Nat /\ i <= Len(ls) /\ r[i] = ls[i]
      /\ Len(ls) \in Nat
  BY <1>1, AppendIs
<1>3. \A i \in DOMAIN ls : ~(n < i)
  BY <1>2
<1> HIDE DEF r
<1>4. ~(n < n)
  BY <1>2
<1> HIDE DEF n
<1> QED BY <1>1, <1>2, <1>3, <1>4 DEF Marked, r

LEMMA RestIsMarked ==
    ASSUME NEW ls \in Seq(Load), NEW j \in DOMAIN ls, NEW r, Marked(ls),
           \A i \in DOMAIN r :
              i \in Nat /\ Before(j, i) \in DOMAIN ls /\ r[i].changed = ls[Before(j, i)].changed
    PROVE  Marked(r)
<1>1. j \in Nat
  BY GoneIs
<1>2. \A i, o \in Nat : i < o => Before(j, i) < Before(j, o)
  BY <1>1 DEF Before
<1> QED BY <1>2 DEF Marked

LEMMA ShowMarks ==
    ASSUME TypeOK, MarkInv, NEW b \in Browser, NEW k \in Key, NEW n \in NameOrNone, Show(b, k, n)
    PROVE  MarkInv'
<1>1. /\ loads[b] \in Seq(Load) /\ loads'[b] = MarkChanged(loads[b], k)
      /\ \A c \in Browser \ {b} : loads'[c] = loads[c]
  BY ShowIs DEF TypeOK
<1> DEFINE ls == loads[b]
           m == MarkChanged(ls, k)
<1>2. Marked(ls)
  BY MarkInvIs
<1>3. DOMAIN m = DOMAIN ls /\ \A j \in DOMAIN ls : m[j].changed = ls[j].changed \cup {k}
  BY <1>1, MarkIs
<1> HIDE DEF m, ls
<1>4. Marked(m)
  BY <1>2, <1>3 DEF Marked
<1>5. \A c \in Browser : Marked(loads'[c])
  BY <1>1, <1>4, MarkInvIs DEF m, ls
<1> QED BY <1>5 DEF MarkInv, Marked

LEMMA NextMarks == ASSUME TypeOK, MarkInv, [Next]_vars PROVE MarkInv'
<1>1. CASE loads' = loads
  BY <1>1 DEF MarkInv
<1>2. ASSUME NEW i \in DOMAIN put, PutReturns(i) PROVE MarkInv'
  BY <1>1, <1>2, PutReturnsFacts, ShowMarks
<1>3. ASSUME NEW b \in Browser, NEW k \in Key, NEW n \in NameOrNone, Rename(b, k, n) PROVE MarkInv'
  BY <1>3, RenameFacts, ShowMarks
<1>4. ASSUME NEW b \in Browser, EventArrives(b) PROVE MarkInv'
  BY <1>4, EventFacts, ShowMarks
<1>5. ASSUME NEW b \in Browser, Marked(loads'[b]), \A c \in Browser \ {b} : loads'[c] = loads[c]
      PROVE  MarkInv'
  <2>1. \A c \in Browser : Marked(loads'[c])
    BY <1>5, MarkInvIs
  <2> QED BY <2>1 DEF MarkInv, Marked
<1>6. ASSUME NEW b \in Browser, Open(b) \/ Retry(b) PROVE MarkInv'
  <2>1. loads[b] \in Seq(Load) /\ Marked(loads[b])
    BY MarkInvIs DEF TypeOK
  <2>2. PICK c \in BOOLEAN : loads'[b] = Append(loads[b], NewLoad(c))
    BY <1>6, OpenFacts, RetryFacts
  <2>3. \A d \in Browser \ {b} : loads'[d] = loads[d]
    BY <1>6, OpenFacts, RetryFacts
  <2> QED BY <1>5, <2>1, <2>2, <2>3, NewIsMarked
<1>7. ASSUME NEW b \in Browser, NEW j \in DOMAIN loads[b], GetReads(b, j) PROVE MarkInv'
  <2>1. Marked(loads'[b])
    BY <1>7, GetFacts DEF Marked, MarkInv
  <2> QED BY <1>5, <1>7, <2>1, GetFacts
<1>8. ASSUME NEW b \in Browser, NEW j \in DOMAIN loads[b], LoadReturns(b, j) PROVE MarkInv'
  <2>1. loads[b] \in Seq(Load) /\ Marked(loads[b])
    BY MarkInvIs DEF TypeOK
  <2>2. /\ \A i \in DOMAIN loads'[b] :
             /\ i \in Nat /\ Before(j, i) \in DOMAIN loads[b]
             /\ loads'[b][i].changed = loads[b][Before(j, i)].changed
        /\ \A c \in Browser \ {b} : loads'[c] = loads[c]
    BY <1>8, LoadReturnsFacts
  <2> QED BY <1>5, <2>1, <2>2, RestIsMarked
<1>9. ASSUME NEW b \in Browser, NEW j \in DOMAIN loads[b], LoadFails(b, j) PROVE MarkInv'
  <2> DEFINE r == RemoveAt(loads[b], j)
  <2>1. loads[b] \in Seq(Load) /\ Marked(loads[b])
    BY MarkInvIs DEF TypeOK
  <2>2. /\ r \in Seq(Load)
        /\ \A i \in DOMAIN r : i \in Nat /\ Before(j, i) \in DOMAIN loads[b] /\ r[i] = loads[b][Before(j, i)]
    BY <2>1, GoneIs
  <2>3. loads'[b] \in {r, Append(r, NewLoad(TRUE))} /\ \A c \in Browser \ {b} : loads'[c] = loads[c]
    BY <1>9, LoadFailsFacts
  <2> HIDE DEF r
  <2>4. Marked(r)
    BY <2>1, <2>2, RestIsMarked
  <2> QED BY <1>5, <2>2, <2>3, <2>4, NewIsMarked
<1> QED BY <1>1, <1>2, <1>3, <1>4, <1>6, <1>7, <1>8, <1>9
        DEF Next, PutArrives, Answer, PutLost, StoreLands, StoreFails, Crash, Drop, vars, browsers
-----------------------------------------------------------------------------
(* What the browsers show.                                                 *)

\* A step leaves the name of k right in b if it was: whatever changes k is
\* still on its way, or the value is the same.
Calm(b, k) ==
    /\ Quiet(b, k)' => Quiet(b, k) /\ value'[k] = value[k]
    /\ Free(b, k)' => Free(b, k)

LEMMA RightKept ==
    ASSUME NEW b, NEW k, Calm(b, k), names'[b][k] = names[b][k], Right(b, k)
    PROVE  Right(b, k)'
  BY DEF Calm, Right

\* A GET that is good stays so, with the marks that the step adds.
LEMMA GoodKept ==
    ASSUME NEW b, NEW l, NEW m, Good(b, l), m.snap = l.snap, l.changed \subseteq m.changed,
           \A k \in Key : k \notin m.changed => (Quiet(b, k)' => Quiet(b, k) /\ value'[k] = value[k]),
           \A k \in Key : k \in m.changed => Right(b, k)'
    PROVE  Good(b, m)'
  BY DEF Good

LEMMA ViewKept ==
    ASSUME NEW b \in Browser, View(b), names'[b] = names[b], loads'[b] = loads[b],
           chain'[b] = chain[b], link'[b] => link[b], missed'[b] <=> missed[b],
           \A k \in Key : Calm(b, k)
    PROVE  View(b)'
<1> SUFFICES ASSUME link'[b] /\ ~missed'[b]
             PROVE  \E n \in Nat : Opened(b, n)'
  BY DEF View
<1>1. PICK n \in Nat : Opened(b, n)
  BY DEF View
<1>2. \A k \in Key : Right(b, k) => Right(b, k)'
  BY DEF Calm, Right
<1>3. ASSUME NEW l, Good(b, l) PROVE Good(b, l)'
  <2>1. \A k \in Key : k \in l.changed => Right(b, k)'
    BY <1>2, <1>3 DEF Good
  <2>2. \A k \in Key : Quiet(b, k)' => Quiet(b, k) /\ value'[k] = value[k]
    BY DEF Calm
  <2> QED BY <1>3, <2>1, <2>2, GoodKept
<1>4. \A j \in DOMAIN loads[b] : j > n => Good(b, loads[b][j])
  BY <1>1 DEF Opened
<1> PICK ls : ls = loads[b]
  OBVIOUS
<1>5. \A j \in DOMAIN ls : j > n => Good(b, ls[j])'
  BY <1>3, <1>4
<1>6. \A j \in DOMAIN loads'[b] : j > n => Good(b, loads[b][j])'
  BY <1>5
<1>7. Ahead(b, n)' <=> Ahead(b, n)
  BY DEF Ahead
<1>8. Opened(b, n)'
  BY <1>1, <1>2, <1>6, <1>7 DEF Opened
<1> QED BY <1>8

\* The name that b shows of k changes.
LEMMA ShowView ==
    ASSUME TypeOK, NEW b \in Browser, NEW k \in Key, NEW n \in NameOrNone, Show(b, k, n), View(b),
           UNCHANGED <<chain, link, missed>>, Right(b, k)', \A c \in Key \ {k} : Calm(b, c)
    PROVE  View(b)'
<1> SUFFICES ASSUME link'[b] /\ ~missed'[b]
             PROVE  \E m \in Nat : Opened(b, m)'
  BY DEF View
<1>1. PICK m \in Nat : Opened(b, m)
  BY DEF View
<1> PICK ls, new : ls = loads[b] /\ new = loads'[b]
  OBVIOUS
<1>2. /\ \A c \in Key \ {k} : names'[b][c] = names[b][c]
      /\ DOMAIN new = DOMAIN ls
      /\ \A j \in DOMAIN ls :
            /\ new[j].snap = ls[j].snap /\ new[j].stale = ls[j].stale
            /\ new[j].changed = ls[j].changed \cup {k}
  <2>1. ls \in Seq(Load) /\ new = MarkChanged(ls, k) /\ \A c \in Key \ {k} : names'[b][c] = names[b][c]
    BY ShowIs DEF TypeOK
  <2> QED BY <2>1, MarkIs
<1>3. \A c \in Key : Right(b, c) => Right(b, c)'
  BY <1>2, RightKept
<1>4. ASSUME NEW j \in DOMAIN new, j > m PROVE Good(b, new[j])'
  <2>1. Good(b, ls[j])
    BY <1>1, <1>2, <1>4 DEF Opened
  <2>2. \A c \in Key : c \in new[j].changed => Right(b, c)'
    BY <1>2, <1>3, <2>1 DEF Good
  <2>3. \A c \in Key : c \notin new[j].changed => (Quiet(b, c)' => Quiet(b, c) /\ value'[c] = value[c])
    BY <1>2 DEF Calm
  <2>4. new[j].snap = ls[j].snap /\ ls[j].changed \subseteq new[j].changed
    BY <1>2
  <2> QED BY <2>1, <2>2, <2>3, <2>4, GoodKept
<1>5. \A j \in DOMAIN loads'[b] : j > m => Good(b, loads[b][j])'
  BY <1>4
<1>6. Ahead(b, m)' <=> Ahead(b, m)
  BY <1>2 DEF Ahead
<1>7. (\A j \in DOMAIN ls : j <= m => ls[j].stale) => \A j \in DOMAIN new : j <= m => new[j].stale
  BY <1>2
<1>8. Opened(b, m)'
  BY <1>1, <1>3, <1>5, <1>6, <1>7 DEF Opened
<1> QED BY <1>8

\* One more GET: it will be taken.
LEMMA NewView ==
    ASSUME NEW b \in Browser, NEW r \in Seq(Load), NEW c \in BOOLEAN, NEW n \in Nat,
           loads'[b] = Append(r, NewLoad(c)), \A j \in DOMAIN r : j > n => Good(b, r[j])'
    PROVE  View(b)'
<1> PICK l : l = NewLoad(c)
  OBVIOUS
<1>1. l \in Load /\ l.snap = NoAnswer /\ l.changed = {} /\ ~l.stale
  BY NewLoadIs
<1> PICK new, z : new = loads'[b] /\ z = Len(r) + 1
  OBVIOUS
<1>2. /\ DOMAIN new = DOMAIN r \cup {z} /\ new[z] = l
      /\ \A j \in DOMAIN r : j \in Nat /\ j <= Len(r) /\ new[j] = r[j]
      /\ Len(r) \in Nat
  BY <1>1, AppendIs
<1> PICK m \in Nat : m < z /\ \A j \in DOMAIN r : j > m => j > n
  <2>1. CASE n <= Len(r)
    BY <1>2, <2>1
  <2>2. CASE n > Len(r)
    <3>1. \A j \in DOMAIN r : ~(j > Len(r))
      BY <1>2
    <3>2. Len(r) < z
      BY <1>2
    <3> QED BY <1>2, <3>1, <3>2
  <2> QED BY <1>2, <2>1, <2>2
<1>3. Good(b, l)'
  BY <1>1 DEF Good
<1>4. \A j \in DOMAIN new : j > m => Good(b, new[j])'
  BY <1>2, <1>3
<1>5. \A j \in DOMAIN loads'[b] : j > m => Good(b, loads[b][j])'
  BY <1>4
<1>6. z > m
  BY <1>2
<1>7. Ahead(b, m)'
  BY <1>1, <1>2, <1>6 DEF Ahead
<1>8. Opened(b, m)'
  BY <1>5, <1>7 DEF Opened
<1> QED BY <1>8 DEF View

\* Where the first n GETs end when the j-th is gone.
Rest(j, n) == IF j <= n THEN n - 1 ELSE n

LEMMA RestIs ==
    ASSUME NEW j \in Nat \ {0}, NEW n \in Nat
    PROVE  Rest(j, n) \in Nat /\ \A i \in Nat : i > Rest(j, n) <=> Before(j, i) > n
  BY DEF Rest, Before

LEMMA GetView ==
    ASSUME TypeOK, ViewInv, NEW b \in Browser, NEW j \in DOMAIN loads[b], GetReads(b, j)
    PROVE  View(b)'
<1> PICK ls, new : ls = loads[b] /\ new = loads'[b]
  OBVIOUS
<1>1. /\ DOMAIN new = DOMAIN ls
      /\ \A i \in DOMAIN ls :
            /\ new[i].changed = ls[i].changed /\ new[i].stale = ls[i].stale
            /\ new[i].snap = IF i = j THEN value ELSE ls[i].snap
      /\ UNCHANGED <<store, put, names, chain, failed, link, events, missed, contested, faults>>
  BY GetFacts
<1>2. /\ UNCHANGED <<value, queue, told, put, names, chain, link, events, missed, contested>>
      /\ UNCHANGED Untold
  BY <1>1 DEF store, Untold
<1>3. \A k : Quiet(b, k)' <=> Quiet(b, k)
  BY <1>2 DEF Quiet, Telling
<1>4. \A k : Free(b, k)' <=> Free(b, k)
  BY <1>2 DEF Free, Renamed
<1>5. \A k : Right(b, k)' <=> Right(b, k)
  BY <1>2, <1>3, <1>4 DEF Right
<1> SUFFICES ASSUME link[b] /\ ~missed[b]
             PROVE  \E n \in Nat : Opened(b, n)'
  BY <1>2 DEF View
<1>6. PICK n \in Nat : Opened(b, n)
  BY DEF ViewInv, View
<1>7. ASSUME NEW i \in DOMAIN new, i > n PROVE Good(b, new[i])'
  <2>1. Good(b, ls[i])
    BY <1>1, <1>6, <1>7 DEF Opened
  <2>2. CASE i = j
    BY <1>1, <1>2, <1>5, <2>1, <2>2 DEF Good
  <2>3. CASE i # j
    BY <1>1, <1>2, <1>3, <1>5, <2>1, <2>3 DEF Good
  <2> QED BY <2>2, <2>3
<1>8. \A i \in DOMAIN loads'[b] : i > n => Good(b, loads[b][i])'
  BY <1>7
<1>9. Ahead(b, n)' <=> Ahead(b, n)
  BY <1>1 DEF Ahead
<1>10. (\A i \in DOMAIN ls : i <= n => ls[i].stale) => \A i \in DOMAIN new : i <= n => new[i].stale
  BY <1>1
<1>11. Opened(b, n)'
  BY <1>5, <1>6, <1>8, <1>9, <1>10 DEF Opened
<1> QED BY <1>11

\* The names are the same, and so is everything on its way.
LEMMA LoadFailsView ==
    ASSUME TypeOK, ViewInv, NEW b \in Browser, NEW j \in DOMAIN loads[b], LoadFails(b, j)
    PROVE  View(b)'
<1> PICK ls, r : ls = loads[b] /\ r = RemoveAt(loads[b], j)
  OBVIOUS
<1>1. /\ UNCHANGED <<store, put, names, link, events, contested>>
      /\ \/ ls[j].chain /\ loads'[b] = r /\ chain'[b] = "wait"
         \/ missed'[b]
         \/ loads'[b] = Append(r, NewLoad(TRUE))
         \/ ~ls[j].chain /\ loads'[b] = r /\ chain'[b] = chain[b] /\ chain[b] = "wait"
      /\ ~missed'[b] => ~missed[b]
  BY LoadFailsFacts
<1>2. /\ UNCHANGED <<value, queue, told, put, names, link, events, contested>>
      /\ UNCHANGED Untold
  BY <1>1 DEF store, Untold
<1>3. ls \in Seq(Load) /\ j \in DOMAIN ls
  BY DEF TypeOK
<1>4. /\ r \in Seq(Load) /\ j \in Nat \ {0}
      /\ \A i \in DOMAIN r : i \in Nat /\ Before(j, i) \in DOMAIN ls /\ r[i] = ls[Before(j, i)]
  <2>1. j \in Nat \ {0}
    BY <1>3, LenProperties
  <2> QED BY <1>3, <2>1, GoneIs
<1>5. \A k : (Quiet(b, k)' <=> Quiet(b, k)) /\ (Free(b, k)' <=> Free(b, k))
  BY <1>2 DEF Quiet, Telling, Free, Renamed
<1>6. \A k : Right(b, k) => Right(b, k)'
  BY <1>2, <1>5 DEF Right
<1>7. \A l : Good(b, l) => Good(b, l)'
  BY <1>2, <1>5, <1>6 DEF Good
<1> SUFFICES ASSUME link'[b] /\ ~missed'[b]
             PROVE  View(b)'
  BY DEF View
<1>8. PICK n \in Nat : Opened(b, n)
  BY <1>1, <1>2 DEF ViewInv, View
<1>9. Rest(j, n) \in Nat /\ \A i \in Nat : i > Rest(j, n) <=> Before(j, i) > n
  BY <1>4, RestIs
<1>10. ASSUME NEW i \in DOMAIN r, i > Rest(j, n) PROVE Good(b, r[i])'
  BY <1>4, <1>7, <1>8, <1>9, <1>10 DEF Opened
<1>11. CASE loads'[b] = Append(r, NewLoad(TRUE))
  BY <1>4, <1>9, <1>10, <1>11, NewView
<1>12. CASE loads'[b] = r /\ chain'[b] = "wait"
  <2>1. \A i \in DOMAIN loads'[b] : i > Rest(j, n) => Good(b, loads[b][i])'
    BY <1>10, <1>12
  <2>2. Ahead(b, Rest(j, n))'
    BY <1>12 DEF Ahead
  <2>3. Opened(b, Rest(j, n))'
    BY <2>1, <2>2 DEF Opened
  <2> QED BY <1>9, <2>3 DEF View
<1> QED BY <1>1, <1>11, <1>12

\* What the GET has read is shown, but not over a change that came later; or it
\* is out of date and nothing happens.
LEMMA LoadReturnsView ==
    ASSUME TypeOK, MarkInv, ViewInv, NEW b \in Browser, NEW j \in DOMAIN loads[b], LoadReturns(b, j)
    PROVE  View(b)'
<1> PICK ls, new, l : ls = loads[b] /\ new = loads'[b] /\ l = loads[b][j]
  OBVIOUS
<1>1. /\ l.snap # NoAnswer /\ j \in Nat
      /\ \A i \in DOMAIN ls :
            i \in Nat /\ (i # j => After(j, i) \in DOMAIN new /\ Before(j, After(j, i)) = i)
      /\ \A i \in DOMAIN new :
            /\ i \in Nat /\ Before(j, i) \in DOMAIN ls /\ Before(j, i) # j
            /\ new[i].snap = ls[Before(j, i)].snap
            /\ new[i].changed = ls[Before(j, i)].changed
            /\ new[i].stale <=> (ls[Before(j, i)].stale \/ (~l.stale /\ Before(j, i) < j))
      /\ \A k \in Key : names'[b][k] = IF l.stale \/ k \in l.changed THEN names[b][k] ELSE l.snap[k]
      /\ chain' = IF l.chain THEN [chain EXCEPT ![b] = "none"] ELSE chain
      /\ UNCHANGED <<store, put, failed, link, events, missed, contested, faults>>
  BY LoadReturnsFacts
<1>2. /\ UNCHANGED <<value, queue, told, put, link, events, missed, contested>>
      /\ UNCHANGED Untold
  BY <1>1 DEF store, Untold
<1>3. \A k : (Quiet(b, k)' <=> Quiet(b, k)) /\ (Free(b, k)' <=> Free(b, k))
  BY <1>2 DEF Quiet, Telling, Free, Renamed
<1>4. /\ j \in Nat \ {0} /\ j \in DOMAIN ls
      /\ l.chain => chain[b] = "get"
      /\ \A i \in DOMAIN ls : i < j => l.changed \subseteq ls[i].changed
      /\ \A i \in DOMAIN ls : j < i => ls[i].changed \subseteq l.changed
  <2>1. ls \in Seq(Load) /\ (l.chain => chain[b] = "get")
    BY DEF TypeOK
  <2>2. j \in Nat \ {0}
    BY <2>1, LenProperties
  <2> QED BY <2>1, <2>2 DEF MarkInv
<1>5. chain[b] = "wait" => chain'[b] = "wait"
  BY <1>1, <1>4
<1> SUFFICES ASSUME link[b] /\ ~missed[b]
             PROVE  \E m \in Nat : Opened(b, m)'
  BY <1>2 DEF View
<1>6. PICK n \in Nat : Opened(b, n)
  BY DEF ViewInv, View
<1> PICK m : m = Rest(j, n)
  OBVIOUS
<1>7. m \in Nat /\ \A i \in Nat : i > m <=> Before(j, i) > n
  BY <1>4, RestIs
<1>8. ASSUME NEW i \in DOMAIN ls, i # j, ~ls[i].stale, i > n, l.stale \/ i > j
      PROVE  Ahead(b, m)'
  <2>1. /\ After(j, i) \in DOMAIN new /\ Before(j, After(j, i)) = i /\ After(j, i) \in Nat
        /\ i \in Nat
    BY <1>1, <1>8
  <2>2. After(j, i) > m /\ ~new[After(j, i)].stale
    BY <1>1, <1>4, <1>7, <1>8, <2>1
  <2> QED BY <2>1, <2>2 DEF Ahead
<1>9. ASSUME \A i \in DOMAIN new : i > m => \A k \in Key : k \in new[i].changed => Right(b, k)'
      PROVE  \A i \in DOMAIN loads'[b] : i > m => Good(b, loads[b][i])'
  <2>1. ASSUME NEW i \in DOMAIN new, i > m PROVE Good(b, new[i])'
    <3>1. Good(b, ls[Before(j, i)])
      BY <1>1, <1>6, <1>7, <2>1 DEF Opened
    <3>2. /\ new[i].snap = ls[Before(j, i)].snap /\ ls[Before(j, i)].changed \subseteq new[i].changed
          /\ \A k \in Key : k \notin new[i].changed => (Quiet(b, k)' => Quiet(b, k) /\ value'[k] = value[k])
          /\ \A k \in Key : k \in new[i].changed => Right(b, k)'
      BY <1>1, <1>2, <1>3, <1>9, <2>1
    <3> QED BY <3>1, <3>2, GoodKept
  <2> QED BY <2>1
<1>10. ASSUME NEW k \in Key, Right(b, k), l.stale \/ k \in l.changed PROVE Right(b, k)'
  BY <1>1, <1>2, <1>3, <1>10 DEF Right
<1>11. ASSUME NEW i \in DOMAIN new, i > m, NEW k \in Key, k \in new[i].changed PROVE Right(b, k)
  <2>1. Before(j, i) \in DOMAIN ls /\ Before(j, i) > n /\ k \in ls[Before(j, i)].changed
    BY <1>1, <1>7, <1>11
  <2> QED BY <1>6, <2>1 DEF Opened, Good
<1>12. CASE l.stale
  <2>1. \A i \in DOMAIN loads'[b] : i > m => Good(b, loads[b][i])'
    BY <1>9, <1>10, <1>11, <1>12
  <2>2. CASE Ahead(b, n)
    <3>1. chain[b] = "wait" \/ \E i \in DOMAIN ls : i > n /\ i # j /\ ~ls[i].stale
      BY <1>12, <2>2 DEF Ahead
    <3>2. Ahead(b, m)'
      BY <1>5, <1>8, <1>12, <3>1 DEF Ahead
    <3> QED BY <1>7, <2>1, <3>2 DEF Opened
  <2>3. CASE ~Ahead(b, n)
    <3>1. (\A i \in DOMAIN ls : i <= n => ls[i].stale) /\ \A k \in Key : Right(b, k)
      BY <1>6, <2>3 DEF Opened
    <3>2. ASSUME NEW i \in DOMAIN new, i <= m PROVE new[i].stale
      <4>1. Before(j, i) <= n /\ Before(j, i) \in DOMAIN ls
        <5>1. i \in Nat /\ Before(j, i) \in Nat
          BY <1>1, <1>4 DEF Before
        <5>2. ~(i > m)
          BY <1>7, <3>2, <5>1
        <5> QED BY <1>1, <1>7, <3>2, <5>1, <5>2
      <4> QED BY <1>1, <3>1, <3>2, <4>1
    <3>3. \A k \in Key : Right(b, k)'
      BY <1>10, <1>12, <3>1
    <3>4. Opened(b, m)'
      BY <2>1, <3>2, <3>3 DEF Opened
    <3> QED BY <1>7, <3>4
  <2> QED BY <2>2, <2>3
<1>13. CASE ~l.stale /\ j > n
  <2>1. Good(b, l)
    BY <1>4, <1>6, <1>13 DEF Opened
  <2>2. ASSUME NEW k \in Key PROVE Right(b, k)'
    <3>1. CASE k \in l.changed
      BY <1>10, <2>1, <3>1 DEF Good
    <3>2. CASE k \notin l.changed
      BY <1>1, <1>2, <1>3, <1>13, <2>1, <3>2 DEF Good, Right
    <3> QED BY <3>1, <3>2
  <2>3. ASSUME NEW i \in DOMAIN new, i <= m PROVE new[i].stale
    <3>1. i \in Nat /\ Before(j, i) \in Nat
      BY <1>1, <1>4 DEF Before
    <3>2. ~(i > m)
      BY <1>7, <2>3, <3>1
    <3>3. Before(j, i) < j
      BY <1>4, <1>7, <1>13, <3>1, <3>2
    <3> QED BY <1>1, <1>13, <2>3, <3>3
  <2>4. \A i \in DOMAIN loads'[b] : i > m => Good(b, loads[b][i])'
    BY <1>9, <2>2
  <2>5. Opened(b, m)'
    BY <2>2, <2>3, <2>4 DEF Opened
  <2> QED BY <1>7, <2>5
<1>14. CASE ~l.stale /\ j <= n
  <2>1. Ahead(b, n)
    BY <1>4, <1>6, <1>14 DEF Opened
  <2>2. \A i \in DOMAIN ls : i > n => i > j /\ i # j
    BY <1>1, <1>4, <1>14
  <2>3. Ahead(b, m)'
    <3>1. CASE chain[b] = "wait"
      BY <1>5, <3>1 DEF Ahead
    <3>2. CASE \E i \in DOMAIN ls : i > n /\ ~ls[i].stale
      BY <1>8, <2>2, <3>2
    <3> QED BY <2>1, <3>1, <3>2 DEF Ahead
  <2>4. ASSUME NEW i \in DOMAIN new, i > m, NEW k \in Key, k \in new[i].changed PROVE Right(b, k)'
    <3>1. Before(j, i) \in DOMAIN ls /\ Before(j, i) > n /\ k \in ls[Before(j, i)].changed
      BY <1>1, <1>7, <2>4
    <3>2. k \in l.changed
      BY <1>4, <2>2, <3>1
    <3> QED BY <1>10, <1>11, <2>4, <3>2
  <2>5. \A i \in DOMAIN loads'[b] : i > m => Good(b, loads[b][i])'
    BY <1>9, <2>4
  <2>6. Opened(b, m)'
    BY <2>3, <2>5 DEF Opened
  <2> QED BY <1>7, <2>6
<1> QED BY <1>4, <1>12, <1>13, <1>14

\* A rename goes on towards its end, and nothing on its way to b is lost.
LEMMA CalmPuts ==
    ASSUME TypeOK, NEW b \in Browser, NEW k \in Key, SamePuts,
           \A c \in Key : contested[c] => contested'[c],
           \A i \in DOMAIN put : put[i].by = b /\ put[i].key = k /\ put[i].at # "done" => put'[i].at # "done",
           Quiet(b, k)' => Quiet(b, k) /\ value'[k] = value[k]
    PROVE  Calm(b, k)
<1>1. Renamed(b, k)' <=> Renamed(b, k)
  BY DEF Renamed, SamePuts
<1>2. Free(b, k)' => Free(b, k)
  BY <1>1 DEF Free, SamePuts
<1> QED BY <1>2 DEF Calm

LEMMA StillQuiet ==
    ASSUME NEW b, events'[b] = events[b], \A k : Telling(k) => Telling(k)'
    PROVE  \A k : Quiet(b, k)' => Quiet(b, k)
  BY DEF Quiet

LEMMA PutArrivesView ==
    ASSUME TypeOK, StoreInv, ViewInv, NEW i \in DOMAIN put, PutArrives(i)
    PROVE  ViewInv'
<1>1. /\ put' = [put EXCEPT ![i].at = "served"] /\ told[i] = "idle" /\ value' = value
      /\ told' = [told EXCEPT ![i] = "waiting"] /\ told \in [Put -> Told]
      /\ UNCHANGED <<names, loads, chain, link, events, missed, contested>>
  BY DEF PutArrives, S!Call, TypeOK, Told
<1>2. SamePuts /\ \A j \in DOMAIN put : put'[j].at = IF j = i THEN "served" ELSE put[j].at
  BY <1>1, PutGoesOn DEF PutPhase
<1>3. \A j \in Untold : told'[j] = told[j] /\ j \in Untold' /\ j \in DOMAIN put
  BY <1>1 DEF Untold, StoreInv
<1>4. \A k : Telling(k) => Telling(k)'
  BY <1>2, <1>3 DEF Telling, SamePuts
<1>5. ASSUME NEW b \in Browser PROVE View(b)'
  <2>1. \A k \in Key : Calm(b, k)
    BY <1>1, <1>2, <1>4, StillQuiet, CalmPuts
  <2> QED BY <1>1, <2>1, ViewKept DEF ViewInv
<1> QED BY <1>5 DEF ViewInv

LEMMA LandView == ASSUME TypeOK, StoreInv, ViewInv, StoreLands PROVE ViewInv'
<1> PICK q : q = Head(queue).by
  OBVIOUS
<1>1. /\ 1 \in DOMAIN queue /\ Head(queue) = queue[1]
      /\ UNCHANGED <<put, names, loads, chain, link, events, missed, contested>>
      /\ \A i \in Put : told'[i] = IF i = q THEN "ok" ELSE told[i]
      /\ \A k \in Key \ {Head(queue).op.key} : value'[k] = value[k]
      /\ Untold = {}
  BY LandFacts, SettleFacts DEF browsers
<1>2. /\ q \in DOMAIN put /\ q \in Put /\ Head(queue).op.key = put[q].key
  BY <1>1, PutFacts DEF StoreInv
<1>3. \A k : ~Telling(k)
  BY <1>1 DEF Telling
<1>4. \A k : k = put[q].key => Telling(k)'
  BY <1>1, <1>2 DEF Telling, Untold
<1>5. ASSUME NEW b \in Browser PROVE View(b)'
  <2>1. ASSUME NEW k \in Key PROVE Calm(b, k)
    <3>1. Quiet(b, k)' => Quiet(b, k) /\ value'[k] = value[k]
      BY <1>1, <1>2, <1>3, <1>4 DEF Quiet
    <3> QED BY <1>1, <3>1 DEF Calm, Free, Renamed
  <2> QED BY <1>1, <2>1, ViewKept DEF ViewInv
<1> QED BY <1>5 DEF ViewInv

LEMMA AnswerView ==
    ASSUME TypeOK, StoreInv, ViewInv, NEW i \in DOMAIN put, Answer(i)
    PROVE  ViewInv'
<1> PICK a, z : a = told[i] /\ z = put[i].key
  OBVIOUS
<1>1. /\ a \in {"ok", "failed"} /\ put' = [put EXCEPT ![i].at = a] /\ a \in PutPhase
      /\ \A b \in Browser : events'[b] = IF a = "ok" /\ link[b]
                                         THEN Append(events[b], Asked(i)) ELSE events[b]
      /\ UNCHANGED <<value, names, loads, chain, link, missed, contested>>
  BY AnswerFacts DEF PutPhase
<1>2. SamePuts /\ \A j \in DOMAIN put : put'[j].at = IF j = i THEN a ELSE put[j].at
  BY <1>1, PutGoesOn
<1>3. i \in Put /\ Asked(i) \in Change /\ Asked(i).key = z
  BY PutFacts
<1>4. \A k : Telling(k) => a = "ok" /\ z = k
  <2>1. Untold = {i}
    BY <1>1, <1>3 DEF StoreInv, Untold
  <2> QED BY <2>1 DEF Telling
<1>5. ASSUME NEW b \in Browser PROVE View(b)'
  <2>1. CASE ~link[b]
    BY <1>1, <2>1 DEF View
  <2>2. CASE link[b]
    <3>1. ASSUME NEW k \in Key PROVE Quiet(b, k)' => Quiet(b, k)
      <4>1. CASE a = "ok"
        <5> PICK es, s : es = events[b] /\ s = events'[b]
          OBVIOUS
        <5>1. es \in Seq(Change) /\ s = Append(es, Asked(i))
          BY <1>1, <2>2, <4>1 DEF TypeOK
        <5>2. /\ DOMAIN s = DOMAIN es \cup {Len(es) + 1} /\ s[Len(es) + 1].key = z
              /\ \A x \in DOMAIN es : s[x] = es[x]
          BY <1>3, <5>1, AppendIs
        <5>3. ASSUME \A x \in DOMAIN s : s[x].key # k PROVE Quiet(b, k)
          BY <1>4, <5>2, <5>3 DEF Quiet
        <5> QED BY <5>3 DEF Quiet
      <4>2. CASE a # "ok"
        BY <1>1, <1>4, <4>2 DEF Quiet
      <4> QED BY <4>1, <4>2
    <3>2. \A k \in Key : Calm(b, k)
      BY <1>1, <1>2, <3>1, CalmPuts
    <3> QED BY <1>1, <3>2, ViewKept DEF ViewInv
  <2> QED BY <2>1, <2>2
<1> QED BY <1>5 DEF ViewInv

LEMMA PutLostView ==
    ASSUME TypeOK, StoreInv, ViewInv, NEW i \in DOMAIN put, PutLost(i)
    PROVE  ViewInv'
<1>1. /\ put' = [put EXCEPT ![i].at = "failed"]
      /\ UNCHANGED <<value, told, names, loads, chain, link, events, missed, contested>>
  BY DEF PutLost, store
<1>2. SamePuts /\ \A j \in DOMAIN put : put'[j].at = IF j = i THEN "failed" ELSE put[j].at
  BY <1>1, PutGoesOn DEF PutPhase
<1>3. \A k : Telling(k) => Telling(k)'
  BY <1>1, <1>2, TellingKept DEF SamePuts
<1>4. ASSUME NEW b \in Browser PROVE View(b)'
  <2>1. \A k \in Key : Calm(b, k)
    BY <1>1, <1>2, <1>3, StillQuiet, CalmPuts
  <2> QED BY <1>1, <2>1, ViewKept DEF ViewInv
<1> QED BY <1>4 DEF ViewInv

\* A name that is asked for shows at once: until the answer it is not free.
LEMMA RenameView ==
    ASSUME TypeOK, StoreInv, ViewInv,
           NEW b \in Browser, NEW k \in Key, NEW n \in NameOrNone, Rename(b, k, n)
    PROVE  ViewInv'
<1> PICK i : i = Len(put) + 1
  OBVIOUS
<1>1. /\ DOMAIN put' = DOMAIN put \cup {i} /\ \A j \in DOMAIN put : put'[j] = put[j]
      /\ put'[i].by = b /\ put'[i].key = k /\ put'[i].at = "sent"
      /\ Show(b, k, n) /\ contested' = [contested EXCEPT ![k] = @ \/ Overlaps(k)]
      /\ UNCHANGED <<store, chain, failed, link, events, missed, faults>>
  BY RenameFacts
<1>2. \A c \in Key : contested[c] => contested'[c]
  <2>1. contested \in [Key -> BOOLEAN]
    BY DEF TypeOK
  <2> QED BY <1>1, <2>1
<1>3. value' = value /\ \A c : Telling(c) => Telling(c)'
  BY <1>1, TellingKept DEF store
<1>4. ASSUME NEW d \in Browser, NEW c \in Key, d # b \/ c # k PROVE Calm(d, c)
  <2>1. Quiet(d, c)' => Quiet(d, c)
    BY <1>1, <1>3, StillQuiet
  <2>2. Renamed(d, c)' <=> Renamed(d, c)
    BY <1>1, <1>4 DEF Renamed
  <2>3. Free(d, c)' => Free(d, c)
    BY <1>1, <1>2, <2>2 DEF Free
  <2> QED BY <1>3, <2>1, <2>3 DEF Calm
<1>5. Right(b, k)'
  BY <1>1 DEF Right, Free
<1>6. View(b)'
  BY <1>1, <1>4, <1>5, ShowView DEF ViewInv
<1>7. ASSUME NEW d \in Browser \ {b} PROVE View(d)'
  <2>1. names'[d] = names[d] /\ loads'[d] = loads[d]
    BY <1>1, ShowIs
  <2> QED BY <1>1, <1>4, <2>1, ViewKept DEF ViewInv
<1> QED BY <1>6, <1>7 DEF ViewInv

\* The answer to a rename: if no other overlapped, its name is the value.
LEMMA PutReturnsView ==
    ASSUME TypeOK, StoreInv, AloneInv, ViewInv, NEW i \in DOMAIN put, PutReturns(i)
    PROVE  ViewInv'
<1> PICK b, k, a : b = put[i].by /\ k = put[i].key /\ a = put[i].at
  OBVIOUS
<1> PICK n : n = IF put[i].at = "ok" THEN put[i].name ELSE put[i].prev
  OBVIOUS
<1>1. /\ b \in Browser /\ k \in Key /\ n \in NameOrNone /\ a \in {"ok", "failed"}
      /\ put' = [put EXCEPT ![i].at = "done"] /\ "done" \in PutPhase
      /\ IF IsLatest(i) THEN Show(b, k, n) ELSE UNCHANGED <<names, loads>>
      /\ contested' = [contested EXCEPT ![k] = @ \/ a = "failed"]
      /\ UNCHANGED <<store, chain, failed, link, events, missed, faults>>
  BY PutReturnsFacts
<1>2. SamePuts /\ \A j \in DOMAIN put : put'[j].at = IF j = i THEN "done" ELSE put[j].at
  BY <1>1, PutGoesOn
<1>3. /\ \A c \in Key : contested[c] => contested'[c]
      /\ a = "failed" => contested'[k]
  <2>1. contested \in [Key -> BOOLEAN]
    BY DEF TypeOK
  <2> QED BY <1>1, <2>1
<1>4. value' = value /\ \A c : Telling(c) => Telling(c)'
  BY <1>1, <1>2, TellingKept DEF store, SamePuts
<1>5. ASSUME NEW d \in Browser, NEW c \in Key, d # b \/ c # k PROVE Calm(d, c)
  <2>1. Quiet(d, c)' => Quiet(d, c)
    BY <1>1, <1>4, StillQuiet
  <2> QED BY <1>2, <1>3, <1>4, <1>5, <2>1, CalmPuts
<1>6. Renamed(b, k)'
  BY <1>2 DEF Renamed, SamePuts
<1>7. ASSUME NEW d \in Browser \ {b} PROVE View(d)'
  <2>1. names'[d] = names[d] /\ loads'[d] = loads[d]
    BY <1>1, ShowIs
  <2> QED BY <1>1, <1>5, <2>1, ViewKept DEF ViewInv
<1>8. CASE IsLatest(i)
  <2>1. names'[b][k] = n
    BY <1>1, <1>8, ShowIs
  <2>2. ASSUME ~contested'[k] PROVE value[k] = n
    <3>1. a = "ok" /\ ~contested[k]
      BY <1>1, <1>3, <2>2
    <3> QED BY <3>1 DEF AloneInv
  <2>3. Right(b, k)'
    BY <1>4, <1>6, <2>1, <2>2 DEF Right, Free
  <2>4. View(b)'
    BY <1>1, <1>5, <1>8, <2>3, ShowView DEF ViewInv
  <2> QED BY <1>7, <2>4 DEF ViewInv
<1>9. CASE ~IsLatest(i)
  <2>1. ~Newest(i)
    <3>1. PICK j \in DOMAIN put : j > i /\ put[j].key = put[i].key
      BY <1>9 DEF IsLatest
    <3>2. i \in Nat /\ j \in Nat
      BY PutFacts
    <3> QED BY <3>1, <3>2 DEF Newest
  <2>2. contested[k]
    BY <1>1, <2>1 DEF AloneInv
  <2>3. ~Free(b, k)'
    BY <1>1, <1>3, <1>6, <2>2 DEF Free
  <2>4. Calm(b, k)
    BY <1>1, <1>4, <2>3, StillQuiet DEF Calm
  <2>5. \A c \in Key : Calm(b, c)
    BY <1>1, <1>5, <2>4
  <2>6. View(b)'
    BY <1>1, <1>9, <2>5, ViewKept DEF ViewInv
  <2> QED BY <1>7, <2>6 DEF ViewInv
<1> QED BY <1>8, <1>9

\* A browser that the step leaves alone, as it leaves the server and the renames.
LEMMA Elsewhere ==
    ASSUME ViewInv, NEW b \in Browser, UNCHANGED <<store, put, contested>>,
           names'[b] = names[b], loads'[b] = loads[b], chain'[b] = chain[b], link'[b] => link[b],
           link'[b] => events'[b] = events[b], missed'[b] <=> missed[b]
    PROVE  View(b)'
<1>1. CASE ~link'[b]
  BY <1>1 DEF View
<1>2. CASE link'[b]
  <2>1. UNCHANGED <<value, told, Untold>>
    BY DEF store, Untold
  <2>2. \A k \in Key : Calm(b, k)
    BY <1>2, <2>1 DEF Calm, Quiet, Telling, Free, Renamed
  <2> QED BY <2>2, ViewKept DEF ViewInv
<1> QED BY <1>1, <1>2

LEMMA ArrivalView ==
    ASSUME TypeOK, StoreInv, EventInv, ViewInv, NEW b \in Browser, EventArrives(b)
    PROVE  ViewInv'
<1> PICK es, new, k, n : es = events[b] /\ new = events'[b] /\ k = events[b][1].key /\ n = events[b][1].name
  OBVIOUS
<1>1. /\ es # <<>> /\ es \in Seq(Change) /\ new = Tail(es) /\ k \in Key /\ n \in NameOrNone
      /\ \A c \in Browser \ {b} : events'[c] = events[c]
      /\ Show(b, k, n)
      /\ UNCHANGED <<store, put, chain, failed, link, missed, contested, faults>>
  BY EventFacts
<1>2. /\ 1 \in DOMAIN es
      /\ \A y \in DOMAIN es : y \in Nat /\ (y = 1 \/ (y - 1 \in DOMAIN new /\ es[y] = new[y - 1]))
  BY <1>1, TailIs
<1>3. value' = value /\ \A c : Telling(c)' <=> Telling(c)
  BY <1>1, TellingKept DEF store
<1>4. ASSUME NEW c \in Key, Quiet(b, c)'
      PROVE  ~Telling(c) /\ \A y \in DOMAIN es : es[y].key = c => y = 1
  <2>1. \A x \in DOMAIN new : new[x].key # c
    BY <1>4 DEF Quiet
  <2>2. ~Telling(c)
    BY <1>3, <1>4 DEF Quiet
  <2> QED BY <1>2, <2>1, <2>2
<1>5. ASSUME NEW c \in Key \ {k} PROVE Calm(b, c)
  <2>1. Quiet(b, c)' => Quiet(b, c)
    BY <1>4 DEF Quiet
  <2>2. Free(b, c)' <=> Free(b, c)
    BY <1>1 DEF Free, Renamed
  <2> QED BY <1>3, <2>1, <2>2 DEF Calm
<1>6. Quiet(b, k)' => n = value[k]
  <2>1. ASSUME Quiet(b, k)' PROVE n = value[k]
    <3>1. \A y \in DOMAIN es : ~(y > 1 /\ es[y].key = k)
      BY <1>2, <1>4, <1>1, <2>1
    <3> QED BY <1>1, <1>2, <1>4, <2>1, <3>1 DEF EventInv
  <2> QED BY <2>1
<1>7. names'[b][k] = n /\ \A c \in Browser \ {b} : names'[c] = names[c] /\ loads'[c] = loads[c]
  BY <1>1, ShowIs
<1>8. Right(b, k)'
  BY <1>3, <1>6, <1>7 DEF Right
<1>9. View(b)'
  BY <1>1, <1>5, <1>8, ShowView DEF ViewInv
<1>10. ASSUME NEW c \in Browser \ {b} PROVE View(c)'
  BY <1>1, <1>7, Elsewhere
<1> QED BY <1>9, <1>10 DEF ViewInv

\* A GET is sent when the socket has opened, or when the chain goes on.
LEMMA SendView ==
    ASSUME TypeOK, ViewInv, NEW b \in Browser, Open(b) \/ Retry(b)
    PROVE  ViewInv'
<1> PICK ls : ls = loads[b]
  OBVIOUS
<1>1. ls \in Seq(Load) /\ Len(ls) \in Nat /\ \A j \in DOMAIN ls : j \in Nat /\ j <= Len(ls)
  BY LenProperties DEF TypeOK
<1>2. ASSUME NEW c \in Browser \ {b} PROVE View(c)'
  BY <1>2, OpenFacts, RetryFacts, Elsewhere
<1>3. CASE Open(b)
  <2>1. loads'[b] = Append(ls, NewLoad(FALSE))
    BY <1>3, OpenFacts
  <2>2. \A j \in DOMAIN ls : j > Len(ls) => Good(b, ls[j])'
    BY <1>1
  <2>3. View(b)'
    BY <1>1, <2>1, <2>2, NewView
  <2> QED BY <1>2, <2>3 DEF ViewInv
<1>4. CASE Retry(b)
  <2>1. /\ loads'[b] = Append(ls, NewLoad(TRUE))
        /\ UNCHANGED <<store, put, names, failed, link, events, missed, contested, faults>>
    BY <1>4, RetryFacts
  <2>2. UNCHANGED <<value, told, Untold>>
    BY <2>1 DEF store, Untold
  <2>3. \A l : Good(b, l) => Good(b, l)'
    BY <2>1, <2>2 DEF Good, Right, Quiet, Telling, Free, Renamed
  <2>4. ASSUME link'[b], ~missed'[b] PROVE View(b)'
    <3>1. PICK n \in Nat : Opened(b, n)
      BY <2>1, <2>4 DEF ViewInv, View
    <3>2. \A j \in DOMAIN ls : j > n => Good(b, ls[j])'
      BY <2>3, <3>1 DEF Opened
    <3> QED BY <1>1, <2>1, <3>2, NewView
  <2>5. View(b)'
    BY <2>4 DEF View
  <2> QED BY <1>2, <2>5 DEF ViewInv
<1> QED BY <1>3, <1>4

LEMMA NextView == ASSUME TypeOK, StoreInv, AloneInv, EventInv, MarkInv, ViewInv, [Next]_vars PROVE ViewInv'
<1>1. CASE StoreFails
  <2>1. /\ UNCHANGED <<value, browsers, missed, contested>> /\ Untold = {}
    BY <1>1 DEF StoreFails, S!Fail
  <2>2. \A k : ~Telling(k)
    BY <2>1 DEF Telling
  <2>3. ASSUME NEW b \in Browser PROVE View(b)'
    <3>1. \A k \in Key : Calm(b, k)
      BY <2>1, <2>2 DEF Calm, Quiet, Free, Renamed, browsers
    <3> QED BY <2>1, <3>1, ViewKept DEF ViewInv, browsers
  <2> QED BY <2>3 DEF ViewInv
<1>2. CASE Crash
  BY <1>2 DEF Crash, ViewInv, View
<1>3. ASSUME NEW b \in Browser, Drop(b) PROVE ViewInv'
  <2>1. \A c \in Browser : /\ link'[c] => link[c]
                           /\ link'[c] => events'[c] = events[c]
    BY <1>3 DEF Drop, TypeOK
  <2>2. UNCHANGED <<store, put, names, loads, chain, missed, contested>>
    BY <1>3 DEF Drop
  <2>3. \A c \in Browser : View(c)'
    BY <2>1, <2>2, Elsewhere
  <2> QED BY <2>3 DEF ViewInv
<1>4. ASSUME NEW b \in Browser, NEW j \in DOMAIN loads[b], GetReads(b, j) PROVE ViewInv'
  <2>1. ASSUME NEW c \in Browser \ {b} PROVE View(c)'
    BY <1>4, GetFacts, Elsewhere
  <2> QED BY <1>4, <2>1, GetView DEF ViewInv
<1>5. ASSUME NEW b \in Browser, NEW j \in DOMAIN loads[b], LoadReturns(b, j) PROVE ViewInv'
  <2>1. ASSUME NEW c \in Browser \ {b} PROVE View(c)'
    <3>1. /\ loads'[c] = loads[c] /\ names'[c] = names[c]
          /\ chain' = IF loads[b][j].chain THEN [chain EXCEPT ![b] = "none"] ELSE chain
          /\ UNCHANGED <<store, put, failed, link, events, missed, contested, faults>>
      BY <1>5, LoadReturnsFacts
    <3>2. chain'[c] = chain[c]
      BY <3>1 DEF TypeOK
    <3> QED BY <3>1, <3>2, Elsewhere
  <2> QED BY <1>5, <2>1, LoadReturnsView DEF ViewInv
<1>6. ASSUME NEW b \in Browser, NEW j \in DOMAIN loads[b], LoadFails(b, j) PROVE ViewInv'
  <2>1. ASSUME NEW c \in Browser \ {b} PROVE View(c)'
    BY <1>6, LoadFailsFacts, Elsewhere
  <2> QED BY <1>6, <2>1, LoadFailsView DEF ViewInv
<1>7. CASE UNCHANGED vars
  BY <1>7, Elsewhere DEF vars, browsers, ViewInv
<1> QED BY <1>1, <1>2, <1>3, <1>4, <1>5, <1>6, <1>7, PutArrivesView, LandView, AnswerView, PutLostView,
           RenameView, PutReturnsView, ArrivalView, SendView DEF Next
-----------------------------------------------------------------------------
(* The theorems.                                                           *)

LEMMA InitInv == ASSUME Init PROVE IInv
<1>1. TypeOK
  BY InitTypes
<1>2. /\ queue = <<>> /\ put = <<>> /\ DOMAIN <<>> = {} /\ told = [i \in Put |-> "idle"]
      /\ names = [b \in Browser |-> IF b \in Fresh THEN NoNames ELSE value]
      /\ link = [b \in Browser |-> b \notin Fresh]
      /\ loads = [b \in Browser |-> IF b \in Fresh THEN <<NewLoad(TRUE)>> ELSE <<>>]
      /\ events = [b \in Browser |-> <<>>]
  BY DEF Init, S!Init
<1>3. Untold = {}
  BY <1>2 DEF Untold
<1>4. StoreInv /\ AloneInv /\ EventInv
  BY <1>2, <1>3 DEF StoreInv, AloneInv, EventInv
<1>5. MarkInv
  <2>1. \A b \in Browser : \A i, j \in DOMAIN loads[b] : i = j
    <3> PICK l \in Load : l = NewLoad(TRUE)
      BY NewLoadIs
    <3>1. \A i, j \in DOMAIN <<l>> : i = j
      BY OneIs
    <3> QED BY <1>2, <3>1
  <2>2. \A b \in Browser : \A i \in DOMAIN loads[b] : loads[b][i].changed \subseteq loads[b][i].changed
    OBVIOUS
  <2> QED BY <2>1, <2>2 DEF MarkInv
<1>6. ASSUME NEW b \in Browser, link[b] PROVE Opened(b, 0)
  BY <1>2, <1>6 DEF Opened, Right
<1>7. ViewInv
  BY <1>6 DEF ViewInv, View
<1> QED BY <1>1, <1>4, <1>5, <1>7 DEF IInv

\* When nothing is under way, what View says is what Converges says.
LEMMA ViewConverges == ASSUME TypeOK, ViewInv PROVE Converges
<1> SUFFICES ASSUME NEW b \in Browser, NEW k \in Key,
                    Settled, CaughtUp(b), ~missed[b], ~(contested[k] /\ Renamed(b, k))
             PROVE  names[b][k] = value[k]
  BY DEF Converges
<1>1. PICK n \in Nat : Opened(b, n)
  BY DEF ViewInv, View, CaughtUp
<1>2. ~Ahead(b, n)
  BY DEF Ahead, CaughtUp
<1>3. Quiet(b, k)
  BY DEF Quiet, Telling, Settled, CaughtUp
<1>4. Free(b, k)
  BY DEF Free, Settled
<1> QED BY <1>1, <1>2, <1>3, <1>4 DEF Opened, Right

\* IInv in every reachable state.
THEOREM InvariantHolds == Spec => []IInv
<1>1. Init => IInv
  BY InitInv
<1>2. IInv /\ [Next]_vars => IInv'
  BY NextTypes, NextStore, NextAlone, NextEvents, NextMarks, NextView DEF IInv
<1> QED BY <1>1, <1>2, PTL DEF Spec

\* session-names.ts (client) 25-39, 93-160: what the browsers and the store keep
\* has its shape, and a browser has one retry chain with one GET at most.
THEOREM TypeCorrect == Spec => []TypeOK
<1>1. IInv => TypeOK
  BY DEF IInv
<1> QED BY <1>1, InvariantHolds, PTL

\* session-names.ts (client) 11-12, 23-33, 111-113, 140-146: once nothing is under
\* way, every browser shows the names that the server keeps, but for the
\* exceptions that Converges names.
THEOREM NamesConverge == Spec => []Converges
<1>1. IInv => Converges
  BY ViewConverges DEF IInv
<1> QED BY <1>1, InvariantHolds, PTL
-----------------------------------------------------------------------------
(* The store of the names, as SessionNames takes it, is what JsonStore     *)
(* implements: the rename is the step that changes the value, and what it  *)
(* writes is what the callback made of the value it replaces.              *)

\* Unless a read fails, nothing changes the file between the read of a run and
\* its rename.
RunInv ==
    /\ phase # "rest" => calls # <<>>
    /\ phase = "callback" => ReadErrors \/ raw = disk
    /\ phase \in {"write", "rename"} =>
          ReadErrors \/ next = Apply(Head(calls).op, Parsed(disk))

FileInv == JSTypeOK /\ RunInv

LEMMA ParsedIsValue == ASSUME NEW t PROVE Parsed(t) \in Value
  BY JsonStoreAssumption DEF Parsed

LEMMA FileInit == JSInit => FileInv
<1> SUFFICES ASSUME JSInit PROVE FileInv
  OBVIOUS
<1>1. 0 \in 0 .. Attempts - 1 /\ Empty \in Value
  BY JsonStoreAssumption
<1>2. calls \in Seq([by : Caller, op : Op])
  BY DEF JSInit
<1>3. outcome \in [Caller -> {"idle", "waiting", "ok", "failed"}]
  BY DEF JSInit
<1>4. JSTypeOK
  BY <1>1, <1>2, <1>3 DEF JSInit, JSTypeOK, Text, Phase
<1> QED BY <1>4 DEF JSInit, FileInv, RunInv

LEMMA FileSettles ==
  ASSUME FileInv, calls # <<>>, NEW end \in {"ok", "failed"}, Settle(end), disk' \in Text
  PROVE FileInv'
<1>1. Head(calls) \in [by : Caller, op : Op] /\ Tail(calls) \in Seq([by : Caller, op : Op])
  BY TailIs DEF FileInv, JSTypeOK
<1>2. phase' = "rest" /\ raw' = Missing /\ next' = Empty /\ tries' = 0
  BY DEF Settle, AtRest
<1>3. outcome' \in [Caller -> {"idle", "waiting", "ok", "failed"}]
  BY <1>1 DEF FileInv, JSTypeOK, Settle
<1>4. 0 \in 0 .. Attempts - 1 /\ Empty \in Value
  BY JsonStoreAssumption
<1>5. calls' \in Seq([by : Caller, op : Op])
  BY <1>1 DEF Settle
<1>6. JSTypeOK'
  BY <1>2, <1>3, <1>4, <1>5 DEF JSTypeOK, Text, Phase
<1> QED BY <1>2, <1>6 DEF FileInv, RunInv

LEMMA FileStep == FileInv /\ [JSNext]_jsVars => FileInv'
<1> SUFFICES ASSUME FileInv, [JSNext]_jsVars PROVE FileInv'
  OBVIOUS
<1> USE JsonStoreAssumption
<1>1. ASSUME NEW c \in Caller, NEW o \in Op, Call(c, o) PROVE FileInv'
  <2>1. /\ calls' \in Seq([by : Caller, op : Op]) /\ calls' # <<>>
        /\ calls # <<>> => Head(calls') = Head(calls)
    BY <1>1 DEF Call, FileInv, JSTypeOK
  <2> QED BY <1>1, <2>1 DEF Call, FileInv, JSTypeOK, RunInv, running, Phase
<1>2. ASSUME NEW c \in Caller, Take(c) PROVE FileInv'
  BY <1>2 DEF Take, FileInv, JSTypeOK, RunInv, running
<1>3. CASE Read
  <2>1. Head(calls) \in [by : Caller, op : Op]
    BY <1>3, TailIs DEF Read, FileInv, JSTypeOK
  <2> QED BY <1>3, <2>1, ParsedIsValue DEF Read, FileInv, JSTypeOK, RunInv, Phase, Text
<1>4. CASE Callback
  <2>1. Head(calls) \in [by : Caller, op : Op] /\ calls # <<>>
    BY <1>4, TailIs DEF Callback, FileInv, JSTypeOK, RunInv
  <2>2. CASE Settle("ok")
    BY <1>4, <2>1, <2>2, FileSettles DEF Callback, FileInv, JSTypeOK
  <2>3. CASE ~Settle("ok")
    BY <1>4, <2>1, <2>3, ParsedIsValue DEF Callback, FileInv, JSTypeOK, RunInv, Phase
  <2> QED BY <2>2, <2>3
<1>5. CASE CallbackThrows \/ WriteFails \/ Unlink
  BY <1>5, FileSettles DEF CallbackThrows, WriteFails, Unlink, FileInv, JSTypeOK, RunInv
<1>6. CASE RenameTemp
  BY <1>6, FileSettles DEF RenameTemp, FileInv, JSTypeOK, RunInv, Text
<1>7. CASE WriteTemp \/ RenameBusy \/ RenameFails
  <2>1. tries' \in 0 .. Attempts - 1
    BY <1>7 DEF WriteTemp, RenameBusy, RenameFails, FileInv, JSTypeOK
  <2>2. phase' \in {"rename", "unlink"} /\ phase \in {"write", "rename"}
    BY <1>7 DEF WriteTemp, RenameBusy, RenameFails, FileInv, JSTypeOK
  <2>3. UNCHANGED <<disk, calls, outcome, raw, next>>
    BY <1>7 DEF WriteTemp, RenameBusy, RenameFails
  <2>4. JSTypeOK'
    BY <2>1, <2>2, <2>3 DEF FileInv, JSTypeOK, Phase
  <2> QED BY <2>2, <2>3, <2>4 DEF FileInv, RunInv
<1>8. CASE JSCrash
  <2>1. calls' \in Seq([by : Caller, op : Op])
    BY <1>8 DEF JSCrash
  <2>2. outcome' \in [Caller -> {"idle", "waiting", "ok", "failed"}]
    BY <1>8 DEF JSCrash
  <2>3. 0 \in 0 .. Attempts - 1 /\ Empty \in Value
    OBVIOUS
  <2>4. JSTypeOK'
    BY <1>8, <2>1, <2>2, <2>3 DEF JSCrash, AtRest, FileInv, JSTypeOK, Phase, Text
  <2> QED BY <1>8, <2>4 DEF JSCrash, AtRest, FileInv, RunInv
<1>9. CASE UNCHANGED jsVars
  BY <1>9 DEF jsVars, FileInv, JSTypeOK, RunInv
<1> QED
  BY <1>1, <1>2, <1>3, <1>4, <1>5, <1>6, <1>7, <1>8, <1>9 DEF JSNext, Run

\* The chain, the running call and the file are well typed
\* (json-store.ts:26-121).
THEOREM JsonStoreTypeOK == JSSpec => []JSTypeOK
  BY FileInit, FileStep, PTL DEF JSSpec, FileInv

\* Every step of the store is a step of the atomic one, or none.
LEMMA StepIsAtomic ==
  ASSUME ~ReadErrors PROVE FileInv /\ [JSNext]_jsVars => [A!Next]_(A!vars)
<1> SUFFICES ASSUME FileInv, [JSNext]_jsVars PROVE [A!Next]_(A!vars)
  OBVIOUS
<1>1. ASSUME NEW c \in Caller, NEW o \in Op, Call(c, o) PROVE A!Next
  BY <1>1 DEF Call, A!Next, A!Call
<1>2. ASSUME NEW c \in Caller, Take(c) PROVE A!Next
  BY <1>2 DEF Take, A!Next, A!Take, A!Ended
<1>3. CASE Callback
  <2>1. calls # <<>> /\ Parsed(disk) = Parsed(raw)
    BY <1>3 DEF Callback, FileInv, RunInv
  <2>2. CASE Unchanged(Apply(Head(calls).op, Parsed(raw)), raw)
    <3>1. Apply(Head(calls).op, Parsed(disk)) = Parsed(disk)
      <4>1. Head(calls) \in [by : Caller, op : Op]
        BY <2>1, TailIs DEF FileInv, JSTypeOK
      <4>2. Apply(Head(calls).op, Parsed(raw)) \in Value
        BY <4>1, ParsedIsValue, JsonStoreAssumption
      <4> QED BY <2>1, <2>2, <4>2, JsonStoreAssumption DEF Unchanged, Parsed
    <3>2. Settle("ok") /\ disk' = disk
      BY <1>3, <2>2 DEF Callback
    <3> QED BY <2>1, <3>1, <3>2 DEF Settle, A!Next, A!Land, A!Settle
  <2>3. CASE ~Unchanged(Apply(Head(calls).op, Parsed(raw)), raw)
    BY <1>3, <2>3 DEF Callback, A!vars
  <2> QED BY <2>2, <2>3
<1>4. CASE CallbackThrows \/ WriteFails \/ Unlink
  <2>1. calls # <<>> /\ Settle("failed") /\ disk' = disk
    BY <1>4 DEF CallbackThrows, WriteFails, Unlink, FileInv, RunInv
  <2> QED BY <2>1 DEF Settle, A!Next, A!Fail, A!Settle
<1>5. CASE RenameTemp
  <2>1. calls # <<>> /\ Settle("ok") /\ disk' = Apply(Head(calls).op, Parsed(disk))
    BY <1>5 DEF RenameTemp, FileInv, RunInv
  <2>2. disk' \in Value
    BY <1>5 DEF RenameTemp, FileInv, JSTypeOK
  <2> QED BY <2>1, <2>2 DEF Settle, Parsed, A!Next, A!Land, A!Settle
<1>6. CASE Read \/ WriteTemp \/ RenameBusy \/ RenameFails
  BY <1>6 DEF Read, WriteTemp, RenameBusy, RenameFails, A!vars
<1>7. CASE JSCrash
  BY <1>7 DEF JSCrash, A!Next, A!Crash
<1>8. CASE UNCHANGED jsVars
  BY <1>8 DEF jsVars, A!vars
<1> QED
  BY <1>1, <1>2, <1>3, <1>4, <1>5, <1>6, <1>7, <1>8 DEF JSNext, Run

\* The store that the server's files are kept in changes its value atomically,
\* in the order of the calls, and not at all when it reports a failure
\* (json-store.ts:1-20, 95-112), as long as a file that is there can be read.
THEOREM JsonStoreIsAtomic == ASSUME ~ReadErrors PROVE JSSpec => IsAtomic
<1>1. JSInit => A!Init
  BY ParsedIsValue DEF JSInit, A!Init
<1>2. FileInv /\ [JSNext]_jsVars => [A!Next]_(A!vars)
  BY StepIsAtomic
<1> QED
  BY <1>1, <1>2, FileInit, FileStep, PTL DEF JSSpec, IsAtomic, A!Spec
=============================================================================
