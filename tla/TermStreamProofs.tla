--------------------------- MODULE TermStreamProofs ---------------------------
(* Proofs about the way of the output to the pane, for any number of        *)
(* connections, writes, deaths of the daemon and any size of the rings:     *)
(* its types, and that the pane is a Terminal.                             *)
EXTENDS TermStream, SequenceTheorems, WellFoundedInduction, TLAPS

Message == Interval \cup Answer \cup {<<"close">>}

(* A reader that has seen the output up to p reads m, and has seen it up to *)
(* q.  An exit may come only at one of the positions in E.                 *)
Reads(p, m, q, E) ==
  /\ p <= q
  /\ IF IsData(m) THEN m[1] = p + 1 /\ m[1] <= m[2] /\ q = m[2] ELSE q = p
  /\ m = <<"exit">> => p \in E

(* s takes a reader from p to q: f[i] is what it has seen after i messages. *)
Run(s, p, q, E) ==
  \E f \in [0 .. Len(s) -> Nat] :
    /\ f[0] = p /\ f[Len(s)] = q
    /\ \A i, j \in 0 .. Len(s) : i <= j => f[i] <= f[j]
    /\ \A i \in 1 .. Len(s) : Reads(f[i - 1], s[i], f[i], E)
-----------------------------------------------------------------------------
(* Messages *)

LEMMA DataFacts ==
  ASSUME NEW m \in Interval
  PROVE m[1] \in 1 .. MaxPrint /\ m[2] \in 1 .. MaxPrint /\ m = <<m[1], m[2]>>
  BY DEF Interval

LEMMA DataMessage ==
  ASSUME NEW a \in 1 .. MaxPrint, NEW b \in 1 .. MaxPrint
  PROVE <<a, b>> \in Interval /\ <<a, b>>[1] = a /\ <<a, b>>[2] = b
  BY DEF Interval

LEMMA Words ==
  /\ <<"exit">> \notin Interval /\ <<"list">> \notin Interval /\ <<"close">> \notin Interval
  /\ <<"attached">> \notin Interval /\ <<"unknown">> \notin Interval
<1>1. ASSUME NEW w, <<w>> \in Interval PROVE FALSE
  <2>1. PICK a \in 1 .. MaxPrint, b \in 1 .. MaxPrint : <<w>> = <<a, b>>
    BY <1>1 DEF Interval
  <2>2. Len(<<w>>) = 1 /\ Len(<<a, b>>) = 2
    OBVIOUS
  <2> QED BY <2>1, <2>2
<1> QED BY <1>1

LEMMA WordsDiffer ==
  /\ <<"exit">> # <<"list">> /\ <<"exit">> # <<"close">> /\ <<"exit">> # <<"attached">>
  /\ <<"exit">> # <<"unknown">> /\ <<"list">> # <<"unknown">> /\ <<"list">> # <<"attached">>
  /\ <<"attached">> # <<"unknown">> /\ <<"close">> \notin Answer
<1>1. ASSUME NEW v, NEW w, <<v>> = <<w>> PROVE v = w
  <2>1. <<v>>[1] = v /\ <<w>>[1] = w
    OBVIOUS
  <2> QED BY <1>1, <2>1
<1> QED BY <1>1 DEF Answer
-----------------------------------------------------------------------------
(* Runs *)

LEMMA RunEmpty ==
  ASSUME NEW p \in Nat, NEW E
  PROVE Run(<<>>, p, p, E)
<1> DEFINE f == [i \in 0 .. Len(<<>>) |-> p]
<1>1. Len(<<>>) = 0 /\ f \in [0 .. Len(<<>>) -> Nat] /\ f[0] = p
  OBVIOUS
<1> HIDE DEF f
<1> QED BY <1>1 DEF Run

LEMMA RunOfNone ==
  ASSUME NEW p, NEW q, NEW E, Run(<<>>, p, q, E)
  PROVE p = q
  BY DEF Run

LEMMA RunBounds ==
  ASSUME NEW s, Len(s) \in Nat, NEW p, NEW q, NEW E, Run(s, p, q, E)
  PROVE p \in Nat /\ q \in Nat /\ p <= q
  BY DEF Run

LEMMA RunMore ==
  ASSUME NEW s, NEW p, NEW q, NEW E, NEW F, E \subseteq F, Run(s, p, q, E)
  PROVE Run(s, p, q, F)
  BY DEF Run, Reads

LEMMA RunConcat ==
  ASSUME NEW S, NEW s \in Seq(S), NEW t \in Seq(S), NEW p, NEW q, NEW r, NEW E,
         Run(s, p, q, E), Run(t, q, r, E)
  PROVE Run(s \o t, p, r, E)
<1>1. PICK f \in [0 .. Len(s) -> Nat] :
        /\ f[0] = p /\ f[Len(s)] = q
        /\ \A i, j \in 0 .. Len(s) : i <= j => f[i] <= f[j]
        /\ \A i \in 1 .. Len(s) : Reads(f[i - 1], s[i], f[i], E)
  BY DEF Run
<1>2. PICK g \in [0 .. Len(t) -> Nat] :
        /\ g[0] = q /\ g[Len(t)] = r
        /\ \A i, j \in 0 .. Len(t) : i <= j => g[i] <= g[j]
        /\ \A i \in 1 .. Len(t) : Reads(g[i - 1], t[i], g[i], E)
  BY DEF Run
<1> DEFINE m == Len(s)
           n == Len(t)
           u == s \o t
           h == [i \in 0 .. m + n |-> IF i <= m THEN f[i] ELSE g[i - m]]
<1>3. /\ m \in Nat /\ n \in Nat /\ Len(u) = m + n
      /\ \A i \in 1 .. m + n : u[i] = IF i <= m THEN s[i] ELSE t[i - m]
  BY ConcatProperties
<1> HIDE DEF m, n, u
<1>4. \A i \in 0 .. m + n : h[i] = IF i <= m THEN f[i] ELSE g[i - m]
  OBVIOUS
<1>5. h \in [0 .. m + n -> Nat]
  BY <1>3 DEF m, n
<1> HIDE DEF h
<1>a. f[m] = q /\ g[0] = q /\ q \in Nat /\ f[0] = p /\ g[n] = r
  BY <1>1, <1>2, <1>3 DEF m, n
<1>b. \A i \in 0 .. m : h[i] = f[i] /\ f[i] \in Nat /\ f[i] <= q
  <2> SUFFICES ASSUME NEW i \in 0 .. m PROVE h[i] = f[i] /\ f[i] \in Nat /\ f[i] <= q
    OBVIOUS
  <2>1. i \in 0 .. m + n /\ i <= m /\ m \in 0 .. Len(s) /\ i \in 0 .. Len(s)
    BY <1>3 DEF m
  <2> QED BY <1>1, <1>4, <1>a, <2>1
<1>c. \A i \in 0 .. n : h[m + i] = g[i] /\ g[i] \in Nat /\ g[i] >= q
  <2> SUFFICES ASSUME NEW i \in 0 .. n
               PROVE h[m + i] = g[i] /\ g[i] \in Nat /\ g[i] >= q
    OBVIOUS
  <2>1. g[i] \in Nat /\ g[0] <= g[i]
    <3>1. 0 \in 0 .. Len(t) /\ i \in 0 .. Len(t) /\ 0 <= i
      BY <1>3 DEF n
    <3> QED BY <1>2, <3>1
  <2>2. CASE i = 0
    BY <1>3, <1>a, <1>b, <2>1, <2>2
  <2>3. CASE i # 0
    <3>1. m + i \in 0 .. m + n /\ ~(m + i <= m) /\ (m + i) - m = i
      BY <1>3, <2>3
    <3> QED BY <1>4, <1>a, <2>1, <3>1
  <2> QED BY <2>2, <2>3
<1>6. h[0] = p /\ h[m + n] = r
  BY <1>3, <1>a, <1>b, <1>c
<1>7. ASSUME NEW i \in 0 .. m + n, NEW j \in 0 .. m + n, i <= j
      PROVE h[i] <= h[j]
  <2>1. CASE j <= m
    BY <1>1, <1>3, <1>b, <1>7, <2>1 DEF m
  <2>2. CASE i > m
    <3>1. i - m \in 0 .. n /\ j - m \in 0 .. n /\ i - m <= j - m /\ m + (i - m) = i /\ m + (j - m) = j
      BY <1>3, <1>7, <2>2
    <3>2. h[i] = g[i - m] /\ h[j] = g[j - m] /\ g[i - m] <= g[j - m]
      BY <1>2, <1>c, <3>1 DEF n
    <3> QED BY <3>2
  <2>3. CASE i <= m /\ j > m
    <3>1. h[i] \in Nat /\ h[i] <= q
      BY <1>3, <1>b, <2>3
    <3>2. j - m \in 0 .. n /\ m + (j - m) = j
      BY <1>3, <2>3
    <3>3. h[j] \in Nat /\ h[j] >= q
      BY <1>c, <3>2
    <3> QED BY <1>a, <3>1, <3>3
  <2> QED BY <1>3, <2>1, <2>2, <2>3
<1>8. ASSUME NEW i \in 1 .. m + n
      PROVE Reads(h[i - 1], u[i], h[i], E)
  <2>1. CASE i <= m
    <3>1. i \in 1 .. m /\ i \in 0 .. m /\ i - 1 \in 0 .. m
      BY <1>3, <2>1
    <3>2. h[i] = f[i] /\ h[i - 1] = f[i - 1]
      BY <1>b, <3>1
    <3>3. u[i] = s[i]
      BY <1>3, <2>1
    <3>4. Reads(f[i - 1], s[i], f[i], E)
      BY <1>1, <3>1 DEF m
    <3> QED BY <3>2, <3>3, <3>4
  <2>2. CASE i > m
    <3>1. /\ i - m \in 1 .. n /\ (i - m) - 1 \in 0 .. n
          /\ m + (i - m) = i /\ m + ((i - m) - 1) = i - 1
      BY <1>3, <2>2
    <3>2. h[i] = g[i - m] /\ h[i - 1] = g[(i - m) - 1] /\ u[i] = t[i - m]
      BY <1>3, <1>c, <2>2, <3>1
    <3>3. Reads(g[(i - m) - 1], t[i - m], g[i - m], E)
      BY <1>2, <3>1 DEF n
    <3> QED BY <3>2, <3>3
  <2> QED BY <1>3, <2>1, <2>2
<1> QED BY <1>3, <1>5, <1>6, <1>7, <1>8 DEF Run, u

LEMMA RunOfOne ==
  ASSUME NEW m, NEW p \in Nat, NEW q \in Nat, NEW E, Reads(p, m, q, E)
  PROVE Run(<<m>>, p, q, E)
<1> DEFINE f == [i \in 0 .. 1 |-> IF i = 0 THEN p ELSE q]
<1>1. f \in [0 .. 1 -> Nat] /\ f[0] = p /\ f[1] = q
  OBVIOUS
<1> HIDE DEF f
<1>2. Len(<<m>>) = 1 /\ <<m>>[1] = m
  OBVIOUS
<1>3. p <= q
  BY DEF Reads
<1>4. \A i, j \in 0 .. 1 : i <= j => f[i] <= f[j]
  BY <1>1, <1>3
<1>5. \A i \in 1 .. 1 : Reads(f[i - 1], <<m>>[i], f[i], E)
  BY <1>1, <1>2
<1> QED BY <1>1, <1>2, <1>4, <1>5 DEF Run

LEMMA RunAppend ==
  ASSUME NEW S, NEW s \in Seq(S), NEW m \in S, NEW p, NEW q, NEW r \in Nat, NEW E,
         Run(s, p, q, E), Reads(q, m, r, E)
  PROVE Run(Append(s, m), p, r, E)
<1>1. q \in Nat
  BY RunBounds
<1>2. Run(<<m>>, q, r, E)
  BY <1>1, RunOfOne
<1>3. <<m>> \in Seq(S) /\ Append(s, m) = s \o <<m>>
  BY AppendIsConcat
<1> QED BY <1>2, <1>3, RunConcat

(* The end of a sequence is a run from some point of its way.              *)
LEMMA RunSuffix ==
  ASSUME NEW S, NEW s \in Seq(S), NEW k \in 1 .. Len(s), NEW p, NEW q, NEW E,
         Run(s, p, q, E)
  PROVE \E r \in Nat : r >= p /\ Run(SubSeq(s, k, Len(s)), r, q, E)
<1>1. PICK f \in [0 .. Len(s) -> Nat] :
        /\ f[0] = p /\ f[Len(s)] = q
        /\ \A i, j \in 0 .. Len(s) : i <= j => f[i] <= f[j]
        /\ \A i \in 1 .. Len(s) : Reads(f[i - 1], s[i], f[i], E)
  BY DEF Run
<1> DEFINE t == SubSeq(s, k, Len(s))
           n == Len(s) - k + 1
           g == [i \in 0 .. n |-> f[i + k - 1]]
<1>2. Len(s) \in Nat /\ \A i \in 1 .. Len(s) : s[i] \in S
  OBVIOUS
<1>3. n \in Nat /\ Len(t) = n /\ \A i \in 1 .. n : t[i] = s[k + i - 1]
  BY <1>2, SubSeqProperties
<1>4. g \in [0 .. n -> Nat] /\ \A i \in 0 .. n : g[i] = f[i + k - 1]
  BY <1>2
<1> HIDE DEF g, t
<1>5. g[0] = f[k - 1] /\ g[0] >= p /\ g[n] = q
  BY <1>1, <1>2, <1>4
<1>6. ASSUME NEW i \in 0 .. n, NEW j \in 0 .. n, i <= j PROVE g[i] <= g[j]
  <2>1. i + k - 1 \in 0 .. Len(s) /\ j + k - 1 \in 0 .. Len(s) /\ i + k - 1 <= j + k - 1
    BY <1>2, <1>6
  <2> QED BY <1>1, <1>4, <2>1
<1>7. ASSUME NEW i \in 1 .. n PROVE Reads(g[i - 1], t[i], g[i], E)
  <2>1. k + i - 1 \in 1 .. Len(s) /\ g[i - 1] = f[(k + i - 1) - 1] /\ g[i] = f[k + i - 1]
    BY <1>2, <1>4
  <2> QED BY <1>1, <1>3, <2>1
<1>8. Run(t, g[0], q, E)
  BY <1>3, <1>4, <1>5, <1>6, <1>7 DEF Run
<1> QED BY <1>4, <1>3, <1>5, <1>8 DEF t

LEMMA RunHead ==
  ASSUME NEW S, NEW s \in Seq(S), s # <<>>, NEW p, NEW q, NEW E, Run(s, p, q, E)
  PROVE \E r \in Nat : Reads(p, Head(s), r, E) /\ r <= q /\ Run(Tail(s), r, q, E)
<1>1. PICK f \in [0 .. Len(s) -> Nat] :
        /\ f[0] = p /\ f[Len(s)] = q
        /\ \A i, j \in 0 .. Len(s) : i <= j => f[i] <= f[j]
        /\ \A i \in 1 .. Len(s) : Reads(f[i - 1], s[i], f[i], E)
  BY DEF Run
<1> DEFINE t == Tail(s)
           n == Len(s) - 1
           g == [i \in 0 .. n |-> f[i + 1]]
<1>2. Len(s) \in Nat \ {0} /\ Head(s) = s[1]
  BY EmptySeq
<1>3. n \in Nat /\ Len(t) = n /\ \A i \in 1 .. n : t[i] = s[i + 1]
  BY <1>2, HeadTailProperties
<1>4. g \in [0 .. n -> Nat] /\ \A i \in 0 .. n : g[i] = f[i + 1]
  BY <1>2
<1> HIDE DEF g, t
<1>5. g[0] = f[1] /\ g[n] = q /\ Reads(p, Head(s), g[0], E) /\ g[0] <= q
  <2>1. Reads(f[1 - 1], s[1], f[1], E)
    BY <1>1, <1>2
  <2> QED BY <1>1, <1>2, <1>4, <2>1
<1>6. \A i, j \in 0 .. n : i <= j => g[i] <= g[j]
  BY <1>1, <1>2, <1>4
<1>7. ASSUME NEW i \in 1 .. n PROVE Reads(g[i - 1], t[i], g[i], E)
  <2>1. i + 1 \in 1 .. Len(s) /\ g[i - 1] = f[(i + 1) - 1] /\ g[i] = f[i + 1]
    BY <1>2, <1>4
  <2> QED BY <1>1, <1>3, <2>1
<1>8. Run(t, g[0], q, E)
  BY <1>3, <1>4, <1>5, <1>6, <1>7 DEF Run
<1> QED BY <1>3, <1>4, <1>5, <1>8 DEF t

(* What is joined is read like its parts.                                  *)
LEMMA RunJoined ==
  ASSUME NEW s \in Seq(Interval), NEW p, NEW q, NEW E, Run(s, p, q, E)
  PROVE Joined(s) \in Seq(Interval) /\ Run(Joined(s), p, q, E)
<1>1. CASE s = <<>>
  BY <1>1 DEF Joined
<1>2. CASE s # <<>>
  <2>1. PICK f \in [0 .. Len(s) -> Nat] :
          /\ f[0] = p /\ f[Len(s)] = q
          /\ \A i, j \in 0 .. Len(s) : i <= j => f[i] <= f[j]
          /\ \A i \in 1 .. Len(s) : Reads(f[i - 1], s[i], f[i], E)
    BY DEF Run
  <2> DEFINE n == Len(s)
             a == s[1]
             z == s[n]
  <2>2. n \in Nat \ {0} /\ a \in Interval /\ z \in Interval
    BY <1>2, EmptySeq, ElementOfSeq
  <2>3. Reads(f[0], a, f[1], E) /\ Reads(f[n - 1], z, f[n], E) /\ f[1] <= f[n]
    <3>1. Reads(f[1 - 1], a, f[1], E)
      BY <2>1, <2>2
    <3> QED BY <2>1, <2>2, <3>1
  <2> HIDE DEF n, a, z
  <2>4. /\ a[1] = p + 1 /\ a[1] <= a[2] /\ f[1] = a[2] /\ z[2] = q
        /\ a[1] \in 1 .. MaxPrint /\ z[2] \in 1 .. MaxPrint
    BY <2>1, <2>2, <2>3, DataFacts DEF Reads, IsData, n
  <2>5. Joined(s) = <<<<a[1], z[2]>>>>
    BY <1>2 DEF Joined, a, z, n
  <2>6. f[1] \in Nat /\ p \in Nat /\ q \in Nat
    <3>1. 0 \in 0 .. Len(s) /\ 1 \in 0 .. Len(s) /\ Len(s) \in 0 .. Len(s)
      BY <2>2 DEF n
    <3>2. f[0] \in Nat /\ f[1] \in Nat /\ f[Len(s)] \in Nat
      BY <3>1
    <3>3. f[0] = p /\ f[Len(s)] = q
      BY <2>1
    <3> QED BY <3>2, <3>3
  <2>7. a[1] <= z[2] /\ p <= q
    BY <2>1, <2>3, <2>4, <2>6 DEF n
  <2> DEFINE m == <<a[1], z[2]>>
  <2>8. m \in Interval /\ m[1] = a[1] /\ m[2] = z[2]
    BY <2>4, DataMessage
  <2> HIDE DEF m
  <2>9. Reads(p, m, q, E)
    BY <2>4, <2>7, <2>8, Words DEF Reads, IsData
  <2>10. Joined(s) = <<m>> /\ <<m>> \in Seq(Interval)
    BY <2>5, <2>8 DEF m
  <2> QED BY <2>6, <2>9, <2>10, RunOfOne
<1> QED BY <1>1, <1>2

(* A sequence without output and exit does not move a reader.              *)
LEMMA RunIdle ==
  ASSUME NEW s, Len(s) \in Nat, NEW p \in Nat, NEW E,
         \A i \in 1 .. Len(s) : s[i] \notin Interval /\ s[i] # <<"exit">>
  PROVE Run(s, p, p, E)
<1> DEFINE f == [i \in 0 .. Len(s) |-> p]
<1>1. f \in [0 .. Len(s) -> Nat] /\ \A i \in 0 .. Len(s) : f[i] = p
  OBVIOUS
<1> HIDE DEF f
<1>2. \A i \in 1 .. Len(s) : Reads(f[i - 1], s[i], f[i], E)
  <2> SUFFICES ASSUME NEW i \in 1 .. Len(s) PROVE Reads(f[i - 1], s[i], f[i], E)
    OBVIOUS
  <2>1. f[i - 1] = p /\ f[i] = p
    BY <1>1
  <2> QED BY <2>1 DEF Reads, IsData
<1> QED BY <1>1, <1>2 DEF Run
LEMMA RunNoExit ==
  ASSUME NEW s, NEW p, NEW q, Run(s, p, q, {})
  PROVE \A i \in 1 .. Len(s) : s[i] # <<"exit">>
  BY DEF Run, Reads
-----------------------------------------------------------------------------
(* The ring *)

LEMMA TrimmedIs ==
  ASSUME NEW r \in Seq(Interval), r # <<>>
  PROVE \E k \in 1 .. Len(r) :
          /\ Trimmed(r) = SubSeq(r, k, Len(r))
          /\ k = Len(r) \/ Size(SubSeq(r, k, Len(r))) <= Cap
<1> DEFINE fits == {k \in 1 .. Len(r) : k = Len(r) \/ Size(SubSeq(r, k, Len(r))) <= Cap}
           least == CHOOSE k \in fits : \A l \in fits : k <= l
<1>1. Len(r) \in Nat \ {0}
  BY EmptySeq
<1>2. Len(r) \in fits /\ fits \subseteq Nat
  BY <1>1
<1>3. PICK k \in fits : \A l \in fits : ~ (<<l, k>> \in OpToRel(<, Nat))
  BY <1>2, NatLessThanWellFounded, WFMin
<1>4. \A l \in fits : k <= l
  <2> SUFFICES ASSUME NEW l \in fits, l < k PROVE FALSE
    BY <1>2
  <2>1. <<l, k>> \in OpToRel(<, Nat)
    BY <1>2 DEF OpToRel
  <2> QED BY <1>3, <2>1
<1>5. least \in fits
  BY <1>4
<1>6. Trimmed(r) = SubSeq(r, least, Len(r))
  BY DEF Trimmed
<1> HIDE DEF least
<1> QED BY <1>5, <1>6

LEMMA RingFacts ==
  ASSUME NEW r \in Seq(Interval), NEW m \in Interval, NEW p, NEW q, NEW n \in Nat, NEW E,
         Run(r, p, q, E), Reads(q, m, n, E)
  PROVE /\ AppendRing(r, m) \in Seq(Interval)
        /\ Len(AppendRing(r, m)) > 1 => Size(AppendRing(r, m)) <= Cap
        /\ \E o \in Nat : Run(AppendRing(r, m), o, n, E)
<1> DEFINE s == Append(r, m)
<1>1. s \in Seq(Interval) /\ s # <<>> /\ Run(s, p, n, E)
  BY RunAppend, AppendProperties
<1> HIDE DEF s
<1>2. PICK k \in 1 .. Len(s) :
        /\ Trimmed(s) = SubSeq(s, k, Len(s))
        /\ k = Len(s) \/ Size(SubSeq(s, k, Len(s))) <= Cap
  BY <1>1, TrimmedIs
<1>3. AppendRing(r, m) = SubSeq(s, k, Len(s))
  BY <1>2 DEF AppendRing, s
<1>4. Len(s) \in Nat /\ \A i \in k .. Len(s) : s[i] \in Interval
  BY <1>1
<1>5. SubSeq(s, k, Len(s)) \in Seq(Interval) /\ Len(SubSeq(s, k, Len(s))) = Len(s) - k + 1
  BY <1>4, SubSeqProperties
<1>6. \E o \in Nat : Run(SubSeq(s, k, Len(s)), o, n, E)
  BY <1>1, RunSuffix
<1> QED BY <1>2, <1>3, <1>4, <1>5, <1>6
-----------------------------------------------------------------------------
(* The invariant *)

Final == IF holder = "alive" THEN {} ELSE {printed}

(* Where the pane may be told of the end: a pane in doubt, anywhere.        *)
Allowed == IF early THEN Nat ELSE Final

Has(s, m) == \E i \in 1 .. Len(s) : s[i] = m

(* What the daemon keeps and what is on the way to it is a run up to the    *)
(* last write; the exit is the last message of the wire.                   *)
Served(r, w, n, E) == \E p, q \in Nat : Run(r, p, q, E) /\ Run(w, q, n, E)

DaemonInv ==
  /\ entry = "dead" => holder # "alive" /\ wire = <<>>
  /\ up /\ entry = "none" => holder # "alive"
  /\ ~up => wire = <<>>
  /\ \A i \in 1 .. Len(wire) : wire[i] = <<"exit">> => i = Len(wire)
  /\ Serving => Served(ring, wire, printed, Final)
  /\ entry = "later" => up /\ wire = <<>> /\ ring = <<>>

(* The states of a bridge: it attaches once, output comes to it only then,  *)
(* and "unknown" only if that failed.                                      *)
Blank(r) == ~r.sub /\ r.reqs = <<>> /\ r.conn = <<>> /\ r.pending = <<>>
Waiting(r) ==
  /\ r.ws = <<>> /\ r.pending = <<>>
  /\ \A i \in 1 .. Len(r.conn) : r.conn[i] \in {<<"list">>, <<"unknown">>}

Shape(r) ==
  /\ r.at \in {"new", "dial", "over"} => Blank(r)
  /\ r.at \in {"new", "dial"} => r.ws = <<>>
  /\ r.at = "list" => ~r.sub /\ r.reqs \in {<<>>, <<"list">>}
  /\ r.at = "attach" => r.reqs \in {<<>>, <<"list">>, <<"attach">>, <<"list", "attach">>}
  /\ r.at = "live" => r.sub
  /\ r.sub => r.reqs = <<>>
  /\ r.at \in {"list", "attach"} /\ ~r.sub => Waiting(r)
  /\ Has(r.conn, <<"unknown">>) => r.at = "attach" /\ ~r.sub /\ r.reqs = <<>>
  /\ r.at # "over" => ~Has(r.ws, <<"close">>)

BridgeInv ==
  \A b \in Bridge :
    /\ Shape(bridge[b])
    /\ Has(bridge[b].conn, <<"unknown">>) => holder # "alive" \/ early

(* From what the pane shows, through the frames, the buffer and the         *)
(* connection of its bridge, to the wire: one run of the output.           *)
Chain(r, w, n, E, s, e) ==
  \E p, x, y, z \in Nat :
    /\ s # <<>> => p = s[Len(s)]
    /\ e => p \in E
    /\ Run(r.ws, p, x, E) /\ Run(r.pending, x, y, E) /\ Run(r.conn, y, z, E)
    /\ z <= n
    /\ r.sub => Run(w, z, n, E)

Fresh(r, s, e) == r.at # "over" /\ ~r.sub => s = <<>> /\ ~e

(* A bridge that has attached too early: no output comes over it.           *)
Doubtful(r, s) ==
  /\ r.at \in {"attach", "over"} /\ ~r.sub /\ r.reqs = <<>> /\ s = <<>>
  /\ \A i \in 1 .. Len(r.ws) : r.ws[i] \notin Interval

PaneInv ==
  /\ \A b \in Bridge : b # pane => bridge[b].at \in {"new", "over"}
  /\ pane # None => Fresh(bridge[pane], shown, ended)
                    /\ Chain(bridge[pane], wire, printed, Allowed, shown, ended)
                    /\ (early => Doubtful(bridge[pane], shown))

IInv == TypeOK /\ DaemonInv /\ BridgeInv /\ PaneInv
-----------------------------------------------------------------------------
USE DEF daemonVars, paneVars, Serving

LEMMA Empties ==
  /\ <<>> \in Seq({"list", "attach"}) /\ <<>> \in Seq(Interval)
  /\ <<>> \in Seq(Interval \cup Answer) /\ <<>> \in Seq(Interval \cup {<<"exit">>, <<"close">>})
  BY EmptySeq

LEMMA Requests ==
  /\ Append(<<>>, "attach") = <<"attach">>
  /\ Append(<<"list">>, "attach") = <<"list", "attach">>
  /\ Head(<<"list", "attach">>) = "list" /\ Tail(<<"list", "attach">>) = <<"attach">>
  /\ Head(<<"list">>) = "list" /\ Tail(<<"list">>) = <<>>
  /\ Head(<<"attach">>) = "attach" /\ Tail(<<"attach">>) = <<>>
<1> DEFINE S == {"list", "attach"}
<1>1. <<"attach">> \in Seq(S) /\ <<"list">> \in Seq(S) /\ <<"list", "attach">> \in Seq(S)
      /\ <<>> \in Seq(S) /\ "attach" \in S
  OBVIOUS
<1>2. Append(<<>>, "attach") = <<"attach">>
  <2> DEFINE u == Append(<<>>, "attach")
             v == <<"attach">>
  <2>1. u \in Seq(S) /\ v \in Seq(S) /\ Len(u) = 1 /\ Len(v) = 1 /\ u[1] = v[1]
    BY <1>1, AppendProperties
  <2> HIDE DEF u, v, S
  <2>2. \A i \in 1 .. Len(u) : u[i] = v[i]
    BY <2>1
  <2> QED BY <2>1, <2>2, SeqEqual DEF u, v
<1>3. Append(<<"list">>, "attach") = <<"list", "attach">>
  <2> DEFINE u == Append(<<"list">>, "attach")
             v == <<"list", "attach">>
  <2>1. u \in Seq(S) /\ v \in Seq(S) /\ Len(u) = 2 /\ Len(v) = 2
    BY <1>1, AppendProperties
  <2>2. u[1] = "list" /\ u[2] = "attach" /\ v[1] = "list" /\ v[2] = "attach"
    OBVIOUS
  <2> HIDE DEF u, v, S
  <2>3. \A i \in 1 .. Len(u) : u[i] = v[i]
    BY <2>1, <2>2
  <2> QED BY <2>1, <2>3, SeqEqual DEF u, v
<1>4. Tail(<<"list", "attach">>) = <<"attach">>
  <2> DEFINE w == <<"list", "attach">>
             u == Tail(w)
             v == <<"attach">>
  <2>1. w \in Seq(S) /\ w # <<>> /\ Len(w) = 2 /\ w[2] = "attach"
    BY <1>1
  <2>2. u \in Seq(S) /\ v \in Seq(S) /\ Len(u) = 1 /\ Len(v) = 1 /\ v[1] = "attach"
    BY <1>1, <2>1, HeadTailProperties
  <2>3. u[1] = "attach"
    BY <2>1, <2>2
  <2> HIDE DEF u, v, S
  <2>4. \A i \in 1 .. Len(u) : u[i] = v[i]
    BY <2>2, <2>3
  <2> QED BY <2>2, <2>4, SeqEqual DEF u, v
<1>5. ASSUME NEW m \in S PROVE Head(<<m>>) = m /\ Tail(<<m>>) = <<>>
  <2>1. <<m>> \in Seq(S) /\ <<m>> # <<>> /\ Len(<<m>>) = 1
    OBVIOUS
  <2>2. Tail(<<m>>) \in Seq(S) /\ Len(Tail(<<m>>)) = 0
    BY <2>1, HeadTailProperties
  <2> QED BY <2>2, EmptySeq
<1>6. Head(<<"list", "attach">>) = "list"
  OBVIOUS
<1> QED BY <1>2, <1>3, <1>4, <1>5, <1>6

LEMMA StateFacts ==
  ASSUME NEW r \in BridgeState
  PROVE /\ r.at \in {"new", "dial", "list", "attach", "live", "over"} /\ r.sub \in BOOLEAN
        /\ r.reqs \in Seq({"list", "attach"}) /\ r.conn \in Seq(Interval \cup Answer)
        /\ r.pending \in Seq(Interval)
        /\ r.ws \in Seq(Interval \cup {<<"exit">>, <<"close">>})
  BY DEF BridgeState

LEMMA BlankFacts ==
  /\ New \in BridgeState /\ Over \in BridgeState
  /\ New.at = "new" /\ New.ws = <<>> /\ Blank(New)
  /\ Over.at = "over" /\ Over.ws = <<>> /\ Blank(Over)
<1>1. /\ New.at = "new" /\ New.sub = FALSE /\ New.reqs = <<>> /\ New.conn = <<>>
      /\ New.pending = <<>> /\ New.ws = <<>>
  BY DEF New
<1>2. New \in BridgeState
  BY Empties DEF New, BridgeState
<1>3. /\ Over.at = "over" /\ Over.sub = FALSE /\ Over.reqs = <<>> /\ Over.conn = <<>>
      /\ Over.pending = <<>> /\ Over.ws = <<>>
  BY DEF New, Over
<1>4. Over \in BridgeState
  BY <1>2 DEF Over, BridgeState
<1> QED BY <1>1, <1>2, <1>3, <1>4 DEF Blank

LEMMA HungUpFacts ==
  ASSUME NEW r \in BridgeState
  PROVE /\ HungUp(r) \in BridgeState /\ Blank(HungUp(r)) /\ HungUp(r).at = "over"
        /\ HungUp(r).ws = Append(r.ws, <<"close">>)
<1>1. Append(r.ws, <<"close">>) \in Seq(Interval \cup {<<"exit">>, <<"close">>})
  BY StateFacts
<1>2. HungUp(r) \in BridgeState
  BY <1>1, BlankFacts DEF HungUp, BridgeState
<1> QED BY <1>2, BlankFacts DEF HungUp, BridgeState, Blank

LEMMA BlankShape ==
  ASSUME NEW r, r.at = "over", Blank(r)
  PROVE Shape(r) /\ ~Has(r.conn, <<"unknown">>)
  BY DEF Shape, Blank, Has

(* What hangs up shows what is already on its way to the browser.          *)
LEMMA HungUpChain ==
  ASSUME NEW r \in BridgeState, NEW w, NEW n \in Nat, NEW E, NEW s, NEW e,
         Chain(r, w, n, E, s, e)
  PROVE \A w2 : Chain(HungUp(r), w2, n, E, s, e)
<1>1. PICK p, x, y, z \in Nat :
        /\ s # <<>> => p = s[Len(s)]
        /\ e => p \in E
        /\ Run(r.ws, p, x, E) /\ Run(r.pending, x, y, E) /\ Run(r.conn, y, z, E)
        /\ z <= n
  BY DEF Chain
<1>2. x <= y /\ y <= z
  <2>1. Len(r.pending) \in Nat /\ Len(r.conn) \in Nat
    BY StateFacts
  <2> QED BY <1>1, <2>1, RunBounds
<1>3. Reads(x, <<"close">>, x, E)
  BY Words, WordsDiffer DEF Reads, IsData
<1>4. Run(Append(r.ws, <<"close">>), p, x, E)
  <2>1. r.ws \in Seq(Interval \cup {<<"exit">>, <<"close">>})
    BY StateFacts
  <2> QED BY <1>1, <1>3, <2>1, RunAppend
<1>5. Run(<<>>, x, x, E)
  BY RunEmpty
<1>6. x <= n
  BY <1>1, <1>2
<1> SUFFICES ASSUME NEW w2 PROVE Chain(HungUp(r), w2, n, E, s, e)
  OBVIOUS
<1> DEFINE h == HungUp(r)
<1>7. ~h.sub /\ h.conn = <<>> /\ h.pending = <<>> /\ h.ws = Append(r.ws, <<"close">>)
  BY HungUpFacts DEF Blank
<1> HIDE DEF h
<1>8. Run(h.ws, p, x, E) /\ Run(h.pending, x, x, E) /\ Run(h.conn, x, x, E)
  BY <1>4, <1>5, <1>7
<1>9. Chain(h, w2, n, E, s, e)
  BY <1>1, <1>6, <1>7, <1>8 DEF Chain
<1> QED BY <1>9 DEF h
LEMMA HungUpDoubt ==
  ASSUME NEW r \in BridgeState, NEW s, Doubtful(r, s)
  PROVE Doubtful(HungUp(r), s)
<1> DEFINE h == HungUp(r)
<1>1. /\ h.at = "over" /\ ~h.sub /\ h.reqs = <<>> /\ h.ws = Append(r.ws, <<"close">>)
      /\ r.ws \in Seq(Interval \cup {<<"exit">>, <<"close">>})
  BY HungUpFacts, StateFacts DEF Blank
<1> HIDE DEF h
<1>2. \A i \in 1 .. Len(h.ws) : h.ws[i] = <<"close">> \/ (i \in 1 .. Len(r.ws) /\ h.ws[i] = r.ws[i])
  BY <1>1
<1>3. Doubtful(h, s)
  BY <1>1, <1>2, Words DEF Doubtful
<1> QED BY <1>3 DEF h
-----------------------------------------------------------------------------
(* Steps of one bridge *)

LEMMA HasAppend ==
  ASSUME NEW S, NEW s \in Seq(S), NEW m \in S, NEW w, Has(Append(s, m), w)
  PROVE Has(s, w) \/ m = w
  BY DEF Has

LEMMA HasConcat ==
  ASSUME NEW S, NEW s \in Seq(S), NEW t \in Seq(S), NEW w, Has(s \o t, w)
  PROVE Has(s, w) \/ Has(t, w)
<1>1. PICK i \in 1 .. Len(s \o t) : (s \o t)[i] = w
  BY DEF Has
<1>2. /\ Len(s) \in Nat /\ Len(t) \in Nat /\ i \in 1 .. Len(s) + Len(t)
      /\ w = IF i <= Len(s) THEN s[i] ELSE t[i - Len(s)]
  BY <1>1, ConcatProperties
<1>3. CASE i <= Len(s)
  BY <1>2, <1>3 DEF Has
<1>4. CASE i > Len(s)
  <2>1. i - Len(s) \in 1 .. Len(t) /\ t[i - Len(s)] = w
    BY <1>2, <1>4
  <2> QED BY <2>1 DEF Has
<1> QED BY <1>2, <1>3, <1>4

LEMMA NoClose == ASSUME NEW s \in Seq(Interval) PROVE ~Has(s, <<"close">>)
<1>1. \A i \in 1 .. Len(s) : s[i] \in Interval
  BY ElementOfSeq
<1> QED BY <1>1, Words DEF Has

LEMMA TailFacts ==
  ASSUME NEW S, NEW s \in Seq(S), s # <<>>
  PROVE /\ Tail(s) \in Seq(S) /\ Head(s) \in S /\ Head(s) = s[1] /\ 1 \in 1 .. Len(s)
        /\ Len(Tail(s)) = Len(s) - 1
        /\ \A i \in 1 .. Len(Tail(s)) : i + 1 \in 1 .. Len(s) /\ Tail(s)[i] = s[i + 1]
        /\ \A w : Has(Tail(s), w) => Has(s, w)
<1>1. Len(s) \in Nat \ {0}
  BY EmptySeq
<1>2. /\ Tail(s) \in Seq(S) /\ Head(s) \in S /\ Head(s) = s[1] /\ 1 \in 1 .. Len(s)
      /\ Len(Tail(s)) = Len(s) - 1
      /\ \A i \in 1 .. Len(Tail(s)) : i + 1 \in 1 .. Len(s) /\ Tail(s)[i] = s[i + 1]
  BY <1>1
<1> QED BY <1>2 DEF Has

LEMMA BridgeInvStep ==
  ASSUME IInv, NEW b \in Bridge, NEW r \in BridgeState, b = pane,
         bridge' = [bridge EXCEPT ![b] = r],
         UNCHANGED <<printed, holder, daemonVars, pane, shown, ended, closed>>,
         early' \in BOOLEAN, early => early', early' => Doubtful(r, shown),
         r.sub => Serving, Shape(r),
         Has(r.conn, <<"unknown">>) => holder # "alive" \/ early',
         Fresh(r, shown, ended), Chain(r, wire, printed, Allowed', shown, ended)
  PROVE IInv'
<1>2. /\ bridge' \in [Bridge -> BridgeState] /\ bridge'[b] = r
      /\ \A x \in Bridge : x # b => bridge'[x] = bridge[x]
  BY DEF IInv, TypeOK
<1>3. TypeOK'
  BY <1>2 DEF IInv, TypeOK
<1>4. Final' = Final
  BY DEF Final
<1>5. DaemonInv'
  BY <1>4 DEF IInv, DaemonInv
<1>6. BridgeInv'
  BY <1>2 DEF IInv, BridgeInv
<1>7. PaneInv'
  BY <1>2 DEF IInv, PaneInv
<1> QED BY <1>3, <1>5, <1>6, <1>7 DEF IInv

LEMMA ServeInv ==
  ASSUME IInv, NEW b \in Bridge, NEW r \in BridgeState, Serve(b, r), b = pane,
         r.sub => Serving, Shape(r),
         Has(r.conn, <<"unknown">>) => holder # "alive" \/ early,
         Fresh(r, shown, ended), Chain(r, wire, printed, Allowed, shown, ended),
         early => Doubtful(r, shown)
  PROVE IInv'
<1>1. /\ UNCHANGED <<printed, holder, daemonVars, paneVars>>
      /\ bridge' = [bridge EXCEPT ![b] = r]
  BY DEF Serve
<1>2. Allowed' = Allowed /\ early' = early /\ early \in BOOLEAN
  BY <1>1 DEF Allowed, Final, IInv, TypeOK
<1>3. Chain(r, wire, printed, Allowed', shown, ended)
  BY <1>2
<1>4. /\ early' \in BOOLEAN /\ (early => early') /\ (early' => Doubtful(r, shown))
      /\ Has(r.conn, <<"unknown">>) => holder # "alive" \/ early'
  BY <1>2
<1>5. UNCHANGED <<printed, holder, daemonVars, pane, shown, ended, closed>>
  BY <1>1
<1> QED BY <1>1, <1>3, <1>4, <1>5, BridgeInvStep

LEMMA AtWork ==
  ASSUME IInv, NEW b \in Bridge, bridge[b].at \notin {"new", "over"}
  PROVE /\ b = pane /\ bridge[b] \in BridgeState /\ Shape(bridge[b])
        /\ bridge[b].sub => Serving
        /\ Has(bridge[b].conn, <<"unknown">>) => holder # "alive" \/ early
        /\ early => Doubtful(bridge[b], shown)
        /\ ~bridge[b].sub => shown = <<>> /\ ~ended
        /\ Chain(bridge[b], wire, printed, Allowed, shown, ended)
<1>1. b = pane /\ pane # None
  BY TermStreamAssumption DEF IInv, PaneInv
<1> QED BY <1>1 DEF IInv, TypeOK, PaneInv, BridgeInv, Fresh

LEMMA PrintedIsNat == ASSUME TypeOK PROVE printed \in Nat
  BY TermStreamAssumption DEF TypeOK

LEMMA HangUpInv ==
  ASSUME IInv, NEW b \in Bridge, bridge[b].at \notin {"new", "over"},
         Serve(b, HungUp(bridge[b]))
  PROVE IInv'
<1> DEFINE r == HungUp(bridge[b])
<1>1. r \in BridgeState /\ r.at = "over" /\ Blank(r)
  BY AtWork, HungUpFacts
<1>2. Chain(r, wire, printed, Allowed, shown, ended)
  BY AtWork, HungUpChain, PrintedIsNat DEF IInv
<1>3. Serve(b, r)
  OBVIOUS
<1> HIDE DEF r
<1>4. Shape(r) /\ ~Has(r.conn, <<"unknown">>) /\ ~r.sub
  BY <1>1, BlankShape DEF Blank
<1>5. early => Doubtful(r, shown)
  BY AtWork, HungUpDoubt DEF r
<1> QED BY <1>1, <1>2, <1>3, <1>4, <1>5, AtWork, ServeInv DEF Fresh

LEMMA DialInv ==
  ASSUME IInv, NEW b \in Bridge, Dial(b)
  PROVE IInv'
<1> DEFINE q == bridge[b]
           r == [q EXCEPT !.at = "list", !.reqs = <<"list">>]
<1>1. q.at = "dial" /\ Serve(b, r) /\ q \in BridgeState
  BY AtWork DEF Dial
<1>a. <<"list">> \in Seq({"list", "attach"})
  OBVIOUS
<1>2. r \in BridgeState /\ r.at = "list" /\ r.reqs = <<"list">> /\ r.sub = q.sub
      /\ r.conn = q.conn /\ r.pending = q.pending /\ r.ws = q.ws
  BY <1>1, <1>a DEF BridgeState
<1>3. /\ b = pane /\ shown = <<>> /\ ~ended /\ Blank(q) /\ q.ws = <<>> /\ ~early
      /\ Chain(q, wire, printed, Allowed, shown, ended)
  BY <1>1, AtWork DEF Shape, Blank, Doubtful
<1> HIDE DEF q, r
<1>4. Shape(r) /\ ~Has(r.conn, <<"unknown">>) /\ ~r.sub /\ Fresh(r, shown, ended)
  BY <1>2, <1>3 DEF Shape, Waiting, Has, Blank, Fresh
<1>5. Chain(r, wire, printed, Allowed, shown, ended)
  BY <1>2, <1>3 DEF Chain
<1> QED BY <1>1, <1>2, <1>3, <1>4, <1>5, ServeInv

(* list is answered, or given up: the attach is asked for.                 *)
LEMMA ToAttachInv ==
  ASSUME IInv, NEW b \in Bridge, NEW q \in BridgeState, bridge[b].at = "list",
         q.at = "list", ~q.sub, q.reqs = bridge[b].reqs, Waiting(q),
         ~Has(q.conn, <<"unknown">>),
         Chain(q, wire, printed, Allowed, shown, ended), Serve(b, ToAttach(q))
  PROVE IInv'
<1> DEFINE r == ToAttach(q)
<1>1. q.reqs \in {<<>>, <<"list">>}
  BY AtWork DEF Shape
<1>2. Append(q.reqs, "attach") \in {<<"attach">>, <<"list", "attach">>}
  BY <1>1, Requests
<1>3. Append(q.reqs, "attach") \in Seq({"list", "attach"})
  BY StateFacts, AppendProperties
<1>4. r \in BridgeState /\ r.at = "attach" /\ r.reqs = Append(q.reqs, "attach")
      /\ r.sub = q.sub /\ r.conn = q.conn /\ r.pending = q.pending /\ r.ws = q.ws
  BY <1>3 DEF BridgeState, ToAttach
<1>5. Serve(b, r)
  OBVIOUS
<1> HIDE DEF r
<1>6. b = pane /\ Fresh(r, shown, ended) /\ ~early
  <2>1. b = pane /\ Shape(bridge[b]) /\ (~bridge[b].sub => shown = <<>> /\ ~ended)
        /\ ~early
    BY AtWork DEF Doubtful
  <2>2. ~bridge[b].sub
    BY <2>1 DEF Shape
  <2> QED BY <2>1, <2>2 DEF Fresh
<1>7. Shape(r)
  BY <1>2, <1>4 DEF Shape, Waiting, Has
<1>8. Chain(r, wire, printed, Allowed, shown, ended)
  BY <1>4 DEF Chain
<1> QED BY <1>4, <1>5, <1>6, <1>7, <1>8, ServeInv

LEMMA ListTimesOutInv ==
  ASSUME IInv, NEW b \in Bridge, ListTimesOut(b)
  PROVE IInv'
<1>1. bridge[b].at = "list" /\ Serve(b, ToAttach(bridge[b]))
  BY DEF ListTimesOut
<1>2. /\ bridge[b] \in BridgeState /\ ~bridge[b].sub /\ Waiting(bridge[b])
      /\ ~Has(bridge[b].conn, <<"unknown">>)
      /\ Chain(bridge[b], wire, printed, Allowed, shown, ended)
  BY <1>1, AtWork DEF Shape
<1> QED BY <1>1, <1>2, ToAttachInv

LEMMA FlushInv ==
  ASSUME IInv, NEW b \in Bridge, Flush(b)
  PROVE IInv'
<1> DEFINE q == bridge[b]
           r == [q EXCEPT !.ws = @ \o Joined(q.pending), !.pending = <<>>]
<1>1. q.pending # <<>> /\ Serve(b, r)
  BY DEF Flush
<1>2. q.at \notin {"new", "over"}
  BY <1>1 DEF IInv, BridgeInv, Shape, Blank
<1>3. /\ b = pane /\ q \in BridgeState /\ Shape(q) /\ (q.sub => Serving)
      /\ Has(q.conn, <<"unknown">>) => holder # "alive" \/ early
      /\ Chain(q, wire, printed, Allowed, shown, ended)
      /\ early => Doubtful(q, shown)
  BY <1>2, AtWork
<1>4. q.sub /\ ~early /\ q.at \in {"attach", "live"} /\ q.reqs = <<>>
  BY <1>1, <1>2, <1>3, StateFacts DEF Shape, Waiting, Blank, Doubtful
<1>5. PICK p, x, y, z \in Nat :
        /\ shown # <<>> => p = shown[Len(shown)]
        /\ ended => p \in Allowed
        /\ Run(q.ws, p, x, Allowed) /\ Run(q.pending, x, y, Allowed) /\ Run(q.conn, y, z, Allowed)
        /\ z <= printed
        /\ q.sub => Run(wire, z, printed, Allowed)
  BY <1>3 DEF Chain
<1>6. q.pending \in Seq(Interval) /\ q.ws \in Seq(Interval \cup {<<"exit">>, <<"close">>})
  BY <1>3, StateFacts
<1>7. Joined(q.pending) \in Seq(Interval) /\ Run(Joined(q.pending), x, y, Allowed)
  BY <1>5, <1>6, RunJoined
<1>8. Joined(q.pending) \in Seq(Interval \cup {<<"exit">>, <<"close">>})
  BY <1>7, SeqMonotonic
<1>9. /\ q.ws \o Joined(q.pending) \in Seq(Interval \cup {<<"exit">>, <<"close">>})
      /\ Run(q.ws \o Joined(q.pending), p, y, Allowed)
  BY <1>5, <1>6, <1>7, <1>8, RunConcat, ConcatProperties
<1>10. /\ r \in BridgeState /\ r.at = q.at /\ r.reqs = q.reqs /\ r.sub = q.sub
       /\ r.conn = q.conn /\ r.pending = <<>> /\ r.ws = q.ws \o Joined(q.pending)
  BY <1>3, <1>9, Empties DEF BridgeState
<1> HIDE DEF q, r
<1>11. ~Has(r.ws, <<"close">>)
  <2>1. ~Has(Joined(q.pending), <<"close">>)
    BY <1>7, NoClose
  <2>2. ~Has(q.ws, <<"close">>)
    BY <1>3, <1>4 DEF Shape
  <2> QED BY <1>6, <1>8, <1>10, <2>1, <2>2, HasConcat
<1>12. Shape(r)
  BY <1>3, <1>4, <1>10, <1>11 DEF Shape
<1>13. Run(<<>>, y, y, Allowed)
  BY RunEmpty
<1>14. Chain(r, wire, printed, Allowed, shown, ended)
  BY <1>5, <1>9, <1>10, <1>13 DEF Chain
<1>15. Fresh(r, shown, ended) /\ (Has(r.conn, <<"unknown">>) => holder # "alive" \/ early)
  BY <1>3, <1>4, <1>10 DEF Fresh
<1> QED BY <1>1, <1>3, <1>4, <1>10, <1>12, <1>14, <1>15, ServeInv
(* A message of the connection has been read, and is not output or an exit. *)
LEMMA ConnTail ==
  ASSUME NEW q \in BridgeState, q.conn # <<>>, NEW w, NEW n \in Nat, NEW E, NEW s, NEW e,
         Chain(q, w, n, E, s, e)
  PROVE \E p, x, y, v, z \in Nat :
          /\ s # <<>> => p = s[Len(s)]
          /\ e => p \in E
          /\ Run(q.ws, p, x, E) /\ Run(q.pending, x, y, E)
          /\ Reads(y, Head(q.conn), v, E) /\ Run(Tail(q.conn), v, z, E)
          /\ z <= n
          /\ q.sub => Run(w, z, n, E)
<1>1. PICK p, x, y, z \in Nat :
        /\ s # <<>> => p = s[Len(s)]
        /\ e => p \in E
        /\ Run(q.ws, p, x, E) /\ Run(q.pending, x, y, E) /\ Run(q.conn, y, z, E)
        /\ z <= n
        /\ q.sub => Run(w, z, n, E)
  BY DEF Chain
<1>2. q.conn \in Seq(Interval \cup Answer)
  BY StateFacts
<1>3. PICK v \in Nat : Reads(y, Head(q.conn), v, E) /\ Run(Tail(q.conn), v, z, E)
  <2>1. \E v : Reads(y, Head(q.conn), v, E) /\ Run(Tail(q.conn), v, z, E)
    BY <1>1, <1>2, RunHead
  <2>2. Len(Tail(q.conn)) \in Nat
    BY <1>2, TailFacts
  <2> QED BY <2>1, <2>2, RunBounds
<1> QED BY <1>1, <1>3

LEMMA PassOver ==
  ASSUME NEW q \in BridgeState, q.conn # <<>>, NEW w, NEW n \in Nat, NEW E, NEW s, NEW e,
         Chain(q, w, n, E, s, e), Head(q.conn) \notin Interval,
         NEW r, r.ws = q.ws, r.pending = q.pending, r.conn = Tail(q.conn), r.sub = q.sub
  PROVE Chain(r, w, n, E, s, e)
<1>1. PICK p, x, y, v, z \in Nat :
        /\ s # <<>> => p = s[Len(s)]
        /\ e => p \in E
        /\ Run(q.ws, p, x, E) /\ Run(q.pending, x, y, E)
        /\ Reads(y, Head(q.conn), v, E) /\ Run(Tail(q.conn), v, z, E)
        /\ z <= n
        /\ q.sub => Run(w, z, n, E)
  BY ConnTail
<1>2. v = y
  BY <1>1 DEF Reads, IsData
<1> QED BY <1>1, <1>2 DEF Chain

LEMMA DataChain ==
  ASSUME NEW q \in BridgeState, q.conn # <<>>, NEW w, NEW n \in Nat, NEW E, NEW s, NEW e,
         Chain(q, w, n, E, s, e), Head(q.conn) \in Interval,
         NEW r, r.ws = q.ws, r.pending = Append(q.pending, Head(q.conn)),
         r.conn = Tail(q.conn), r.sub = q.sub
  PROVE Chain(r, w, n, E, s, e)
<1>1. PICK p, x, y, v, z \in Nat :
        /\ s # <<>> => p = s[Len(s)]
        /\ e => p \in E
        /\ Run(q.ws, p, x, E) /\ Run(q.pending, x, y, E)
        /\ Reads(y, Head(q.conn), v, E) /\ Run(Tail(q.conn), v, z, E)
        /\ z <= n
        /\ q.sub => Run(w, z, n, E)
  BY ConnTail
<1>2. Run(r.pending, x, v, E)
  <2>1. q.pending \in Seq(Interval)
    BY StateFacts
  <2> QED BY <1>1, <2>1, RunAppend
<1> QED BY <1>1, <1>2 DEF Chain

LEMMA ExitChain ==
  ASSUME NEW q \in BridgeState, q.conn # <<>>, NEW w, NEW n \in Nat, NEW E, NEW s, NEW e,
         Chain(q, w, n, E, s, e), Head(q.conn) = <<"exit">>,
         NEW r, r.ws = Append(q.ws \o Joined(q.pending), <<"exit">>), r.pending = <<>>,
         r.conn = Tail(q.conn), r.sub = q.sub
  PROVE /\ Chain(r, w, n, E, s, e)
        /\ r.ws \in Seq(Interval \cup {<<"exit">>, <<"close">>})
        /\ Has(r.ws, <<"close">>) => Has(q.ws, <<"close">>)
<1> DEFINE W == Interval \cup {<<"exit">>, <<"close">>}
<1>1. PICK p, x, y, v, z \in Nat :
        /\ s # <<>> => p = s[Len(s)]
        /\ e => p \in E
        /\ Run(q.ws, p, x, E) /\ Run(q.pending, x, y, E)
        /\ Reads(y, Head(q.conn), v, E) /\ Run(Tail(q.conn), v, z, E)
        /\ z <= n
        /\ q.sub => Run(w, z, n, E)
  BY ConnTail
<1>2. v = y /\ Reads(y, <<"exit">>, y, E)
  BY <1>1, Words DEF Reads, IsData
<1>3. q.pending \in Seq(Interval) /\ q.ws \in Seq(W)
  BY StateFacts
<1>4. Joined(q.pending) \in Seq(Interval) /\ Run(Joined(q.pending), x, y, E)
  BY <1>1, <1>3, RunJoined
<1>5. Joined(q.pending) \in Seq(W)
  BY <1>4, SeqMonotonic
<1>6. q.ws \o Joined(q.pending) \in Seq(W) /\ Run(q.ws \o Joined(q.pending), p, y, E)
  BY <1>1, <1>3, <1>4, <1>5, RunConcat, ConcatProperties
<1>7. r.ws \in Seq(W) /\ Run(r.ws, p, y, E)
  <2> DEFINE t == q.ws \o Joined(q.pending)
  <2>1. <<"exit">> \in W /\ t \in Seq(W) /\ Run(t, p, y, E) /\ r.ws = Append(t, <<"exit">>)
    BY <1>6
  <2> HIDE DEF W, t
  <2>2. Append(t, <<"exit">>) \in Seq(W)
    BY <2>1, AppendProperties
  <2>3. Run(Append(t, <<"exit">>), p, y, E)
    BY <1>2, <2>1, RunAppend
  <2> QED BY <2>1, <2>2, <2>3
<1>8. Run(<<>>, y, y, E)
  BY RunEmpty
<1>9. Has(r.ws, <<"close">>) => Has(q.ws, <<"close">>)
  <2>1. ~Has(Joined(q.pending), <<"close">>)
    BY <1>4, NoClose
  <2>2. <<"exit">> \in W /\ <<"exit">> # <<"close">>
    BY WordsDiffer
  <2>3. Has(r.ws, <<"close">>) => Has(q.ws \o Joined(q.pending), <<"close">>)
    BY <1>6, <2>2, HasAppend
  <2>4. Has(q.ws \o Joined(q.pending), <<"close">>) => Has(q.ws, <<"close">>)
    BY <1>3, <1>5, <2>1, HasConcat
  <2> QED BY <2>3, <2>4
<1> QED BY <1>1, <1>2, <1>7, <1>8, <1>9 DEF Chain

(* A daemon that does not know the PTY: nothing was shown, and it is over.  *)
LEMMA UnknownInv ==
  ASSUME IInv, NEW b \in Bridge, NEW q \in BridgeState, bridge[b].at = "attach",
         ~bridge[b].sub, holder # "alive" \/ early, q.ws = <<>>,
         Serve(b, HungUp([q EXCEPT !.ws = Append(@, <<"exit">>)]))
  PROVE IInv'
<1> DEFINE W == Interval \cup {<<"exit">>, <<"close">>}
           u == [q EXCEPT !.ws = Append(@, <<"exit">>)]
           r == HungUp(u)
<1>1. Append(<<>>, <<"exit">>) \in Seq(W)
  BY Empties, AppendProperties
<1>2. u \in BridgeState /\ u.ws = Append(<<>>, <<"exit">>)
  BY <1>1 DEF BridgeState
<1>3. r \in BridgeState /\ r.at = "over" /\ Blank(r) /\ r.ws = Append(u.ws, <<"close">>)
  BY <1>2, HungUpFacts
<1>4. Serve(b, r)
  OBVIOUS
<1> HIDE DEF r, u
<1>5. printed \in Nat /\ printed \in Allowed
  BY PrintedIsNat DEF Final, Allowed, IInv
<1>6. Run(<<>>, printed, printed, Allowed)
  BY <1>5, RunEmpty
<1>7. Reads(printed, <<"exit">>, printed, Allowed) /\ Reads(printed, <<"close">>, printed, Allowed)
  BY <1>5, Words, WordsDiffer DEF Reads, IsData
<1>8. Run(u.ws, printed, printed, Allowed)
  BY <1>2, <1>5, <1>6, <1>7, Empties, RunAppend
<1>9. Run(r.ws, printed, printed, Allowed)
  BY <1>1, <1>2, <1>3, <1>5, <1>7, <1>8, RunAppend
<1>10. b = pane /\ shown = <<>> /\ ~ended
  BY AtWork
<1>11. Chain(r, wire, printed, Allowed, shown, ended)
  BY <1>3, <1>5, <1>6, <1>9, <1>10 DEF Chain, Blank
<1>12. Shape(r) /\ ~Has(r.conn, <<"unknown">>) /\ ~r.sub
  BY <1>3, BlankShape DEF Blank
<1>13. Doubtful(r, shown)
  <2>1. Append(<<>>, <<"exit">>) = <<<<"exit">>>>
    BY EmptySeq
  <2>2. \A i \in 1 .. Len(u.ws) : u.ws[i] \notin Interval
    BY <1>2, <2>1, Words
  <2>3. u.ws \in Seq(W)
    BY <1>1, <1>2
  <2>4. \A i \in 1 .. Len(r.ws) : r.ws[i] = <<"close">> \/ (i \in 1 .. Len(u.ws) /\ r.ws[i] = u.ws[i])
    BY <1>3, <2>3
  <2> QED BY <1>3, <1>10, <2>2, <2>4, Words DEF Doubtful, Blank
<1> QED BY <1>3, <1>4, <1>10, <1>11, <1>12, <1>13, ServeInv DEF Fresh

LEMMA ReceiveInv ==
  ASSUME IInv, NEW b \in Bridge, Receive(b)
  PROVE IInv'
<1> DEFINE q == bridge[b]
           m == Head(q.conn)
           r == [q EXCEPT !.conn = Tail(@)]
<1>1. Connected(q) /\ q.conn # <<>>
  BY DEF Receive
<1>2. /\ b = pane /\ q \in BridgeState /\ Shape(q) /\ (q.sub => Serving)
      /\ Has(q.conn, <<"unknown">>) => holder # "alive" \/ early
      /\ early => Doubtful(q, shown)
      /\ ~q.sub => shown = <<>> /\ ~ended
      /\ Chain(q, wire, printed, Allowed, shown, ended)
  BY <1>1, AtWork DEF Connected
<1>3. /\ Tail(q.conn) \in Seq(Interval \cup Answer) /\ m \in Interval \cup Answer
      /\ \A w : Has(Tail(q.conn), w) => Has(q.conn, w)
      /\ Has(q.conn, m)
  BY <1>1, <1>2, StateFacts, TailFacts DEF Has
<1>4. /\ r \in BridgeState /\ r.at = q.at /\ r.reqs = q.reqs /\ r.sub = q.sub
      /\ r.conn = Tail(q.conn) /\ r.pending = q.pending /\ r.ws = q.ws
  BY <1>2, <1>3 DEF BridgeState
<1>5. ~q.sub => m \in {<<"list">>, <<"unknown">>} /\ Waiting(r)
  <2>1. ~q.sub => Waiting(q)
    BY <1>1, <1>2 DEF Shape, Connected
  <2>2. /\ m = q.conn[1] /\ 1 \in 1 .. Len(q.conn)
        /\ \A i \in 1 .. Len(Tail(q.conn)) :
             i + 1 \in 1 .. Len(q.conn) /\ Tail(q.conn)[i] = q.conn[i + 1]
    BY <1>1, <1>2, StateFacts, TailFacts
  <2> HIDE DEF m, q, r
  <2>3. Waiting(q) => m \in {<<"list">>, <<"unknown">>}
    BY <2>2 DEF Waiting
  <2>4. Waiting(q) => Waiting(r)
    BY <2>2, <1>4 DEF Waiting
  <2> QED BY <2>1, <2>3, <2>4
<1>6. Serve(b, CASE IsData(m) -> [r EXCEPT !.pending = Append(@, m)]
                [] m = <<"exit">> -> OnExit(r)
                [] m = <<"list">> /\ r.at = "list" -> ToAttach(r)
                [] m = <<"attached">> /\ r.at = "attach" -> [r EXCEPT !.at = "live"]
                [] m = <<"unknown">> /\ r.at = "attach" ->
                     HungUp([r EXCEPT !.ws = Append(@, <<"exit">>)])
                [] OTHER -> r)
  BY DEF Receive
<1>p. printed \in Nat
  BY PrintedIsNat DEF IInv
<1>w. q.at \in {"list", "attach", "live"}
  BY <1>1 DEF Connected
<1> HIDE DEF q, m, r
<1>7. CASE IsData(m)
  <2> DEFINE t == [r EXCEPT !.pending = Append(@, m)]
  <2>1. Serve(b, t)
    <3>1. m \notin {<<"exit">>, <<"list">>, <<"attached">>, <<"unknown">>}
      BY <1>7, Words DEF IsData
    <3> QED BY <1>6, <1>7, <3>1
  <2>2. q.sub
    BY <1>5, <1>7, Words DEF IsData
  <2>3. Append(q.pending, m) \in Seq(Interval)
    BY <1>2, <1>7, StateFacts, AppendProperties DEF IsData
  <2>4. /\ t \in BridgeState /\ t.at = q.at /\ t.reqs = q.reqs /\ t.sub = q.sub
        /\ t.conn = Tail(q.conn) /\ t.pending = Append(q.pending, m) /\ t.ws = q.ws
    BY <1>4, <2>3 DEF BridgeState
  <2> HIDE DEF t
  <2>5. Chain(t, wire, printed, Allowed, shown, ended)
    BY <1>1, <1>2, <1>7, <1>p, <2>4, DataChain DEF IsData, m
  <2>6. Shape(t)
    BY <1>2, <1>3, <1>w, <2>2, <2>4 DEF Shape
  <2> QED BY <1>2, <1>3, <2>1, <2>2, <2>4, <2>5, <2>6, ServeInv DEF Fresh, Doubtful
<1>8. CASE ~IsData(m) /\ m = <<"exit">>
  <2> DEFINE t == OnExit(r)
  <2>1. Serve(b, t)
    BY <1>6, <1>8
  <2>2. q.sub
    BY <1>5, <1>8, WordsDiffer
  <2>3. /\ t.at = q.at /\ t.reqs = q.reqs /\ t.sub = q.sub
        /\ t.conn = Tail(q.conn) /\ t.pending = <<>>
        /\ t.ws = Append(q.ws \o Joined(q.pending), <<"exit">>)
    BY <1>4 DEF OnExit, BridgeState
  <2>4. /\ Chain(t, wire, printed, Allowed, shown, ended)
        /\ t.ws \in Seq(Interval \cup {<<"exit">>, <<"close">>})
        /\ Has(t.ws, <<"close">>) => Has(q.ws, <<"close">>)
    BY <1>1, <1>2, <1>8, <1>p, <2>3, ExitChain DEF m
  <2>5. t \in BridgeState
    <3>1. t = [r EXCEPT !.ws = Append(q.ws \o Joined(q.pending), <<"exit">>), !.pending = <<>>]
      BY <1>4 DEF OnExit
    <3>2. Append(q.ws \o Joined(q.pending), <<"exit">>) \in Seq(Interval \cup {<<"exit">>, <<"close">>})
      BY <2>3, <2>4
    <3> QED BY <1>4, <3>1, <3>2, Empties DEF BridgeState
  <2> HIDE DEF t
  <2>6. Shape(t)
    BY <1>2, <1>3, <1>w, <2>2, <2>3, <2>4 DEF Shape
  <2> QED BY <1>2, <1>3, <2>1, <2>2, <2>3, <2>4, <2>5, <2>6, ServeInv DEF Fresh, Doubtful
<1>9. ASSUME ~IsData(m), m # <<"exit">>
      PROVE Chain(r, wire, printed, Allowed, shown, ended)
  BY <1>1, <1>2, <1>4, <1>9, <1>p, PassOver DEF IsData, m
<1>10. CASE ~IsData(m) /\ m = <<"list">> /\ r.at = "list"
  <2>1. Serve(b, ToAttach(r))
    BY <1>6, <1>10, WordsDiffer
  <2>2. ~q.sub /\ ~Has(r.conn, <<"unknown">>)
    BY <1>2, <1>3, <1>4, <1>10 DEF Shape
  <2>3. bridge[b].at = "list" /\ r.reqs = bridge[b].reqs
    BY <1>4, <1>10 DEF q
  <2>4. Chain(r, wire, printed, Allowed, shown, ended)
    BY <1>9, <1>10, WordsDiffer
  <2> QED BY <1>4, <1>5, <1>10, <2>1, <2>2, <2>3, <2>4, ToAttachInv
<1>11. CASE ~IsData(m) /\ m = <<"attached">> /\ r.at = "attach"
  <2> DEFINE t == [r EXCEPT !.at = "live"]
  <2>1. Serve(b, t)
    BY <1>6, <1>11, WordsDiffer
  <2>2. q.sub
    BY <1>5, <1>11, WordsDiffer
  <2>3. /\ t \in BridgeState /\ t.at = "live" /\ t.reqs = q.reqs /\ t.sub = q.sub
        /\ t.conn = r.conn /\ t.pending = r.pending /\ t.ws = r.ws
    BY <1>4 DEF BridgeState
  <2> HIDE DEF t
  <2>4. Chain(r, wire, printed, Allowed, shown, ended)
    BY <1>9, <1>11, WordsDiffer
  <2>5. Chain(t, wire, printed, Allowed, shown, ended)
    BY <1>4, <2>3, <2>4 DEF Chain
  <2>6. Shape(t)
    BY <1>2, <1>3, <1>4, <1>w, <2>2, <2>3 DEF Shape
  <2> QED BY <1>2, <1>3, <1>4, <2>1, <2>2, <2>3, <2>5, <2>6, ServeInv DEF Fresh, Doubtful
<1>12. CASE ~IsData(m) /\ m = <<"unknown">> /\ r.at = "attach"
  <2>1. Serve(b, HungUp([r EXCEPT !.ws = Append(@, <<"exit">>)]))
    BY <1>6, <1>12, WordsDiffer
  <2>2. ~q.sub /\ (holder # "alive" \/ early)
    BY <1>2, <1>3, <1>12 DEF Shape
  <2>3. r.ws = <<>>
    BY <1>5, <2>2 DEF Waiting
  <2>4. bridge[b].at = "attach" /\ ~bridge[b].sub
    BY <1>4, <1>12, <2>2 DEF q
  <2> QED BY <1>4, <2>1, <2>2, <2>3, <2>4, UnknownInv
<1>13. CASE /\ ~IsData(m) /\ m # <<"exit">> /\ ~(m = <<"list">> /\ r.at = "list")
            /\ ~(m = <<"attached">> /\ r.at = "attach")
            /\ ~(m = <<"unknown">> /\ r.at = "attach")
  <2>1. Serve(b, r)
    BY <1>6, <1>13
  <2>2. Shape(r)
    BY <1>2, <1>3, <1>4, <1>5, <1>w DEF Shape
  <2>3. early => Doubtful(r, shown)
    BY <1>2, <1>4 DEF Doubtful
  <2> QED BY <1>2, <1>3, <1>4, <1>9, <1>13, <2>1, <2>2, <2>3, ServeInv DEF Fresh
<1> QED BY <1>7, <1>8, <1>10, <1>11, <1>12, <1>13
(* An answer that is neither output nor an exit is added at the end.        *)
LEMMA AnswerChain ==
  ASSUME NEW q \in BridgeState, NEW w, NEW n \in Nat, NEW E, NEW s, NEW e,
         Chain(q, w, n, E, s, e), NEW m \in Answer, m # <<"exit">>, m \notin Interval,
         NEW r, r.ws = q.ws, r.pending = q.pending, r.conn = Append(q.conn, m), r.sub = q.sub
  PROVE Chain(r, w, n, E, s, e)
<1>1. PICK p, x, y, z \in Nat :
        /\ s # <<>> => p = s[Len(s)]
        /\ e => p \in E
        /\ Run(q.ws, p, x, E) /\ Run(q.pending, x, y, E) /\ Run(q.conn, y, z, E)
        /\ z <= n
        /\ q.sub => Run(w, z, n, E)
  BY DEF Chain
<1>2. Reads(z, m, z, E)
  BY DEF Reads, IsData
<1>3. q.conn \in Seq(Interval \cup Answer) /\ m \in Interval \cup Answer
  BY StateFacts
<1>4. Run(r.conn, y, z, E)
  BY <1>1, <1>2, <1>3, RunAppend
<1> QED BY <1>1, <1>4 DEF Chain

LEMMA ChainMore ==
  ASSUME NEW q, NEW w, NEW n, NEW E, NEW F, NEW s, NEW e, Chain(q, w, n, E, s, e), E \subseteq F
  PROVE Chain(q, w, n, F, s, e)
<1>1. PICK p, x, y, z \in Nat :
        /\ s # <<>> => p = s[Len(s)]
        /\ e => p \in E
        /\ Run(q.ws, p, x, E) /\ Run(q.pending, x, y, E) /\ Run(q.conn, y, z, E)
        /\ z <= n
        /\ q.sub => Run(w, z, n, E)
  BY DEF Chain
<1>2. /\ Run(q.ws, p, x, F) /\ Run(q.pending, x, y, F) /\ Run(q.conn, y, z, F)
      /\ q.sub => Run(w, z, n, F)
  BY <1>1, RunMore
<1> QED BY <1>1, <1>2 DEF Chain

LEMMA AnswerInv ==
  ASSUME IInv, NEW b \in Bridge, NEW m \in {<<"list">>, <<"unknown">>},
         bridge[b].reqs # <<>>,
         m = <<"list">> <=> Head(bridge[b].reqs) = "list",
         m = <<"unknown">> => holder # "alive" \/ early',
         early' \in BOOLEAN, early => early', early' /\ ~early => m = <<"unknown">>,
         bridge' = [bridge EXCEPT ![b] = [bridge[b] EXCEPT !.reqs = Tail(bridge[b].reqs),
                                            !.conn = Append(bridge[b].conn, m)]],
         UNCHANGED <<printed, holder, daemonVars, pane, shown, ended, closed>>
  PROVE IInv'
<1> DEFINE q == bridge[b]
           r == [q EXCEPT !.reqs = Tail(q.reqs), !.conn = Append(q.conn, m)]
<1>1. bridge' = [bridge EXCEPT ![b] = r]
  OBVIOUS
<1>2. q.at \in {"list", "attach"} /\ ~q.sub
  BY StateFacts DEF IInv, TypeOK, BridgeInv, Shape, Blank
<1>3. /\ b = pane /\ q \in BridgeState /\ Shape(q)
      /\ shown = <<>> /\ ~ended
      /\ Chain(q, wire, printed, Allowed', shown, ended) /\ ~early
  <2>1. /\ b = pane /\ q \in BridgeState /\ Shape(q)
        /\ shown = <<>> /\ ~ended
        /\ Chain(q, wire, printed, Allowed, shown, ended) /\ ~early
    BY <1>2, AtWork DEF Doubtful
  <2>2. Allowed \subseteq Allowed' /\ Final = Final'
    BY <2>1, PrintedIsNat DEF Allowed, Final, IInv
  <2>3. Chain(q, wire, printed, Allowed', shown, ended)
    BY <2>1, <2>2, ChainMore
  <2> QED BY <2>1, <2>3
<1>4. m \in Answer /\ m # <<"exit">> /\ m \notin Interval
  BY Words, WordsDiffer DEF Answer
<1>5. /\ Append(q.conn, m) \in Seq(Interval \cup Answer)
      /\ \A w : Has(Append(q.conn, m), w) => Has(q.conn, w) \/ m = w
  BY <1>3, <1>4, StateFacts, AppendProperties, HasAppend
<1>6. Tail(q.reqs) \in Seq({"list", "attach"})
  BY <1>3, StateFacts, TailFacts
<1>7. /\ r \in BridgeState /\ r.at = q.at /\ r.reqs = Tail(q.reqs) /\ r.sub = q.sub
      /\ r.conn = Append(q.conn, m) /\ r.pending = q.pending /\ r.ws = q.ws
  BY <1>3, <1>5, <1>6 DEF BridgeState
<1>8. q.reqs # <<>> /\ (m = <<"list">> <=> Head(q.reqs) = "list")
  OBVIOUS
<1> HIDE DEF q, r
<1>9. Chain(r, wire, printed, Allowed', shown, ended)
  BY <1>3, <1>4, <1>7, AnswerChain, PrintedIsNat DEF IInv
<1>10. ~Has(q.conn, <<"unknown">>)
  BY <1>3, <1>8 DEF Shape
<1>11. Waiting(r)
  <2>1. Waiting(q) /\ q.conn \in Seq(Interval \cup Answer)
    BY <1>2, <1>3, StateFacts DEF Shape
  <2>2. \A i \in 1 .. Len(r.conn) : r.conn[i] = m \/ (i \in 1 .. Len(q.conn) /\ r.conn[i] = q.conn[i])
    BY <1>7, <2>1, <1>4, AppendProperties
  <2> QED BY <1>7, <2>1, <2>2 DEF Waiting
<1>12. CASE m = <<"list">>
  <2>1. Head(q.reqs) = "list"
    BY <1>8, <1>12
  <2>2. ~Has(r.conn, <<"unknown">>)
    BY <1>5, <1>7, <1>10, <1>12, WordsDiffer
  <2>3. q.at = "list" => r.reqs = <<>>
    BY <1>3, <1>7, <1>8, Requests DEF Shape
  <2>4. q.at = "attach" => r.reqs \in {<<>>, <<"attach">>}
    BY <1>3, <1>7, <1>8, <2>1, Requests DEF Shape
  <2>5. Shape(r)
    BY <1>2, <1>3, <1>7, <1>11, <2>2, <2>3, <2>4 DEF Shape
  <2>6. ~early'
    BY <1>3, <1>12, WordsDiffer
  <2> QED BY <1>1, <1>2, <1>3, <1>7, <1>9, <2>2, <2>5, <2>6, BridgeInvStep DEF Fresh
<1>13. CASE m = <<"unknown">>
  <2>1. Head(q.reqs) # "list" /\ (holder # "alive" \/ early')
    BY <1>8, <1>13, WordsDiffer
  <2>2. q.at = "attach" /\ r.reqs = <<>>
    BY <1>2, <1>3, <1>7, <1>8, <2>1, Requests DEF Shape
  <2>3. Shape(r)
    BY <1>2, <1>3, <1>7, <1>11, <2>2 DEF Shape
  <2>4. Doubtful(r, shown)
    <3>1. r.ws = <<>>
      BY <1>11 DEF Waiting
    <3>2. r.at = "attach" /\ ~r.sub /\ r.reqs = <<>> /\ shown = <<>> /\ Len(r.ws) = 0
      BY <1>2, <1>3, <1>7, <2>2, <3>1
    <3> QED BY <3>2 DEF Doubtful
  <2> QED BY <1>1, <1>2, <1>3, <1>7, <1>9, <2>1, <2>3, <2>4, BridgeInvStep DEF Fresh
<1> QED BY <1>12, <1>13

(* attach: what the snapshot ends with is what the wire goes on with.       *)
LEMMA AttachInv ==
  ASSUME IInv, NEW b \in Bridge, NEW replay \in BOOLEAN, Serving,
         bridge[b].reqs # <<>>, Head(bridge[b].reqs) # "list", 
         Serve(b, [bridge[b] EXCEPT !.reqs = Tail(bridge[b].reqs),
                     !.sub = TRUE,
                     !.conn = bridge[b].conn \o (IF replay THEN Joined(ring) ELSE <<>>)
                                             \o DeadInfo \o <<<<"attached">>>>])
  PROVE IInv'
<1> DEFINE C == Interval \cup Answer
           q == bridge[b]
           J == IF replay THEN Joined(ring) ELSE <<>>
           c == q.conn \o J \o DeadInfo \o <<<<"attached">>>>
           r == [q EXCEPT !.reqs = Tail(q.reqs), !.sub = TRUE, !.conn = c]
<1>1. Serve(b, r)
  OBVIOUS
<1>2. q.at \in {"list", "attach"} /\ ~q.sub
  BY StateFacts DEF IInv, TypeOK, BridgeInv, Shape, Blank
<1>3. /\ b = pane /\ q \in BridgeState /\ Shape(q) /\ Waiting(q)
      /\ shown = <<>> /\ ~ended /\ ~early /\ Allowed = Final
      /\ Chain(q, wire, printed, Allowed, shown, ended)
  <2>1. /\ b = pane /\ q \in BridgeState /\ Shape(q) /\ shown = <<>> /\ ~ended /\ ~early
        /\ Chain(q, wire, printed, Allowed, shown, ended)
    BY <1>2, AtWork DEF Doubtful
  <2> QED BY <1>2, <2>1 DEF Shape, Allowed
<1>4. q.at = "attach" /\ Tail(q.reqs) = <<>> /\ ~Has(q.conn, <<"unknown">>)
  BY <1>2, <1>3, Requests DEF Shape
<1>5. PICK p, o \in Nat : Run(ring, p, o, Final) /\ Run(wire, o, printed, Final)
  BY DEF IInv, DaemonInv, Served
<1> DEFINE a == IF replay THEN p ELSE o
<1>6. a \in Nat /\ J \in Seq(Interval) /\ Run(J, a, o, Final)
  <2>1. ring \in Seq(Interval)
    BY DEF IInv, TypeOK
  <2> QED BY <1>5, <2>1, RunJoined, RunEmpty, EmptySeq
<1>7. DeadInfo \in Seq(C) /\ Run(DeadInfo, o, o, Final) /\ ~Has(DeadInfo, <<"unknown">>)
  <2>1. CASE entry = "dead"
    <3>1. wire = <<>> /\ o = printed /\ o \in Final
      BY <1>5, <2>1, RunOfNone DEF IInv, DaemonInv, Final
    <3>2. Reads(o, <<"exit">>, o, Final)
      BY <3>1, Words, <1>5 DEF Reads, IsData
    <3>3. DeadInfo = <<<<"exit">>>> /\ <<"exit">> \in C
      BY <2>1 DEF DeadInfo, Answer
    <3>4. ~Has(<<<<"exit">>>>, <<"unknown">>)
      BY WordsDiffer DEF Has
    <3> QED BY <1>5, <3>2, <3>3, <3>4, RunOfOne
  <2>2. CASE entry # "dead"
    BY <1>5, <2>2, RunEmpty, EmptySeq DEF DeadInfo, Has
  <2> QED BY <2>1, <2>2
<1>8. /\ <<<<"attached">>>> \in Seq(C) /\ Run(<<<<"attached">>>>, o, o, Final)
      /\ ~Has(<<<<"attached">>>>, <<"unknown">>)
  <2>1. Reads(o, <<"attached">>, o, Final)
    BY Words, WordsDiffer, <1>5 DEF Reads, IsData
  <2>2. <<"attached">> \in C
    BY DEF Answer
  <2>3. ~Has(<<<<"attached">>>>, <<"unknown">>)
    BY WordsDiffer DEF Has
  <2> QED BY <1>5, <2>1, <2>2, <2>3, RunOfOne
<1>9. q.conn \in Seq(C) /\ Run(q.conn, a, a, Final)
  <2>1. q.conn \in Seq(C) /\ Len(q.conn) \in Nat
    BY <1>3, StateFacts
  <2>2. \A i \in 1 .. Len(q.conn) : q.conn[i] \notin Interval /\ q.conn[i] # <<"exit">>
    BY <1>3, Words, WordsDiffer DEF Waiting
  <2> QED BY <1>6, <2>1, <2>2, RunIdle
<1>10. J \in Seq(C) /\ ~Has(J, <<"unknown">>)
  <2>1. \A i \in 1 .. Len(J) : J[i] \in Interval
    BY <1>6, ElementOfSeq
  <2> QED BY <1>6, <2>1, Words, SeqMonotonic DEF Has
<1>11. /\ q.conn \o J \in Seq(C) /\ Run(q.conn \o J, a, o, Final)
       /\ ~Has(q.conn \o J, <<"unknown">>)
  BY <1>4, <1>6, <1>9, <1>10, RunConcat, ConcatProperties, HasConcat
<1>12. /\ q.conn \o J \o DeadInfo \in Seq(C) /\ Run(q.conn \o J \o DeadInfo, a, o, Final)
       /\ ~Has(q.conn \o J \o DeadInfo, <<"unknown">>)
  <2> DEFINE u == q.conn \o J
  <2>1. u \in Seq(C) /\ Run(u, a, o, Final) /\ ~Has(u, <<"unknown">>)
    BY <1>11
  <2> HIDE DEF u, a, J, C, q
  <2>2. u \o DeadInfo \in Seq(C) /\ Run(u \o DeadInfo, a, o, Final) /\ ~Has(u \o DeadInfo, <<"unknown">>)
    BY <1>7, <2>1, RunConcat, ConcatProperties, HasConcat
  <2> QED BY <2>2 DEF u
<1>13. c \in Seq(C) /\ Run(c, a, o, Final) /\ ~Has(c, <<"unknown">>)
  <2> DEFINE u == q.conn \o J \o DeadInfo
             t == <<<<"attached">>>>
  <2>1. u \in Seq(C) /\ Run(u, a, o, Final) /\ ~Has(u, <<"unknown">>)
    BY <1>12
  <2>2. t \in Seq(C) /\ Run(t, o, o, Final) /\ ~Has(t, <<"unknown">>)
    BY <1>8
  <2> HIDE DEF u, t, a, J, C, q
  <2>3. u \o t \in Seq(C) /\ Run(u \o t, a, o, Final) /\ ~Has(u \o t, <<"unknown">>)
    BY <2>1, <2>2, RunConcat, ConcatProperties, HasConcat
  <2> QED BY <2>3 DEF u, t
<1> HIDE DEF a, c, J
<1>14. /\ r \in BridgeState /\ r.at = "attach" /\ r.reqs = <<>> /\ r.sub = TRUE
       /\ r.conn = c /\ r.pending = <<>> /\ r.ws = <<>>
  BY <1>3, <1>4, <1>13, Empties DEF BridgeState, Waiting
<1> HIDE DEF q, r
<1>15. Run(<<>>, a, a, Final) /\ a \in Nat /\ o \in Nat /\ o <= printed
  <2>1. wire \in Seq(Interval \cup {<<"exit">>})
    BY DEF IInv, TypeOK
  <2>2. Len(wire) \in Nat
    BY <2>1
  <2> QED BY <1>5, <1>6, <2>2, RunEmpty, RunBounds
<1>16. Chain(r, wire, printed, Allowed, shown, ended)
  BY <1>3, <1>5, <1>13, <1>14, <1>15 DEF Chain
<1>17. Shape(r) /\ ~Has(r.conn, <<"unknown">>)
  BY <1>13, <1>14 DEF Shape, Has
<1> QED BY <1>1, <1>3, <1>14, <1>16, <1>17, ServeInv DEF Fresh

LEMMA HandleInv ==
  ASSUME IInv, NEW b \in Bridge, Handle(b)
  PROVE IInv'
<1> DEFINE q == bridge[b]
           answer == [q EXCEPT !.reqs = Tail(q.reqs)]
<1>1. PICK replay \in BOOLEAN :
        /\ up /\ q.reqs # <<>>
        /\ bridge' = [bridge EXCEPT ![b] =
             CASE Head(q.reqs) = "list" ->
                    [answer EXCEPT !.conn = Append(q.conn, <<"list">>)]
               [] Head(q.reqs) = "attach" /\ entry \in {"later", "none"} ->
                    [answer EXCEPT !.conn = Append(q.conn, <<"unknown">>)]
               [] OTHER ->
                    [answer EXCEPT
                       !.sub = TRUE,
                       !.conn = q.conn \o (IF replay THEN Joined(ring) ELSE <<>>)
                                      \o DeadInfo \o <<<<"attached">>>>]]
        /\ UNCHANGED <<printed, holder, daemonVars, pane, shown, ended, closed>>
        /\ early' = (early \/ (b = pane /\ Head(q.reqs) = "attach" /\ entry = "later"))
  BY DEF Handle
<1>2. Head(q.reqs) \in {"list", "attach"}
  <2>1. q \in BridgeState
    BY DEF IInv, TypeOK
  <2> QED BY <1>1, <2>1, StateFacts, TailFacts
<1>3. CASE Head(q.reqs) = "list"
  <2>1. bridge' = [bridge EXCEPT ![b] = [q EXCEPT !.reqs = Tail(q.reqs), !.conn = Append(q.conn, <<"list">>)]]
    BY <1>1, <1>3
  <2>2. early' = early /\ early \in BOOLEAN
    BY <1>1, <1>3 DEF IInv, TypeOK
  <2> QED BY <1>1, <1>3, <2>1, <2>2, AnswerInv, WordsDiffer
<1>4. CASE Head(q.reqs) = "attach" /\ entry \in {"later", "none"}
  <2>1. bridge' = [bridge EXCEPT ![b] = [q EXCEPT !.reqs = Tail(q.reqs), !.conn = Append(q.conn, <<"unknown">>)]]
    BY <1>1, <1>4
  <2>p. b = pane
    BY <1>1, AtWork DEF IInv, BridgeInv, Shape, Blank
  <2>2. early' \in BOOLEAN /\ (early => early') /\ (holder # "alive" \/ early')
    BY <1>1, <1>4, <2>p DEF IInv, DaemonInv, TypeOK
  <2> QED BY <1>1, <1>4, <2>1, <2>2, AnswerInv, WordsDiffer
<1>5. CASE Head(q.reqs) = "attach" /\ entry \notin {"later", "none"}
  <2>1. Serve(b, [q EXCEPT !.reqs = Tail(q.reqs),
                    !.sub = TRUE,
                    !.conn = q.conn \o (IF replay THEN Joined(ring) ELSE <<>>)
                                   \o DeadInfo \o <<<<"attached">>>>])
    <3>1. early' = early
      BY <1>1, <1>5 DEF IInv, TypeOK
    <3> QED BY <1>1, <1>5, <3>1 DEF Serve
  <2> QED BY <1>1, <1>5, <2>1, AttachInv
<1> QED BY <1>2, <1>3, <1>4, <1>5

LEMMA BridgeStep ==
  ASSUME IInv, NEW b \in Bridge, BridgeNext(b)
  PROVE IInv' /\ (T!Ask \/ UNCHANGED T!vars)
<1>1. CASE Handle(b)
  <2>1. early' = early => UNCHANGED T!vars
    BY <1>1 DEF Handle, T!vars
  <2>2. early' # early => T!Ask
    <3> SUFFICES ASSUME early' # early PROVE T!Ask
      OBVIOUS
    <3>1. entry = "later" /\ early' = TRUE /\ bridge[b].reqs # <<>>
          /\ UNCHANGED <<printed, holder, entry, shown, ended>>
      BY <1>1 DEF Handle, IInv, TypeOK
    <3>2. bridge[b].at \in {"list", "attach"} /\ ~bridge[b].sub
      BY <3>1, StateFacts DEF IInv, TypeOK, BridgeInv, Shape, Blank
    <3>3. shown = <<>> /\ ~ended
      BY <3>2, AtWork
    <3> QED BY <3>1, <3>3 DEF T!Ask
  <2> QED BY <1>1, <2>1, <2>2, HandleInv
<1>2. CASE Dial(b)
  BY <1>2, DialInv DEF Dial, Serve, T!vars
<1>3. CASE DialFails(b)
  BY <1>3, HangUpInv DEF DialFails, Serve, T!vars
<1>4. CASE Receive(b)
  BY <1>4, ReceiveInv DEF Receive, Serve, T!vars
<1>5. CASE Flush(b)
  BY <1>5, FlushInv DEF Flush, Serve, T!vars
<1>6. CASE ListTimesOut(b)
  BY <1>6, ListTimesOutInv DEF ListTimesOut, Serve, T!vars
<1>7. CASE AttachTimesOut(b)
  BY <1>7, HangUpInv DEF AttachTimesOut, Serve, T!vars
<1> QED BY <1>1, <1>2, <1>3, <1>4, <1>5, <1>6, <1>7 DEF BridgeNext
-----------------------------------------------------------------------------
(* Steps of the holder *)

(* More output, or the end, goes to the wire of a daemon that serves.       *)
LEMMA WireGrows ==
  ASSUME IInv, holder = "alive", NEW m \in Interval \cup {<<"exit">>},
         wire' = IF Serving THEN Append(wire, m) ELSE wire,
         UNCHANGED <<up, entry, ring, deaths, bridge, paneVars>>,
         printed' \in 0 .. MaxPrint, printed' >= printed,
         holder' \in {"alive", "dead", "gone"},
         Reads(printed, m, printed', Final')
  PROVE IInv'
<1>1. /\ Final = {} /\ Final \subseteq Final'
      /\ printed \in Nat /\ printed' \in Nat
      /\ wire \in Seq(Interval \cup {<<"exit">>})
  BY PrintedIsNat, TermStreamAssumption DEF IInv, TypeOK, Final
<1>2. TypeOK'
  BY <1>1, AppendProperties DEF IInv, TypeOK
<1>3. Serving => entry # "dead" /\ entry # "none"
  BY DEF IInv, DaemonInv
<1>4. entry # "dead"
  BY DEF IInv, DaemonInv
<1>5. ASSUME Serving, NEW q \in Nat, Run(wire, q, printed, Final)
      PROVE Run(wire', q, printed', Final')
  <2>1. Run(wire, q, printed, Final')
    BY <1>1, <1>5, RunMore
  <2>2. Run(Append(wire, m), q, printed', Final')
    BY <1>1, <2>1, RunAppend
  <2> QED BY <1>5, <2>2
<1>6. Serving => Served(ring, wire', printed', Final')
  <2> SUFFICES ASSUME Serving PROVE Served(ring, wire', printed', Final')
    OBVIOUS
  <2>1. PICK p, q \in Nat : Run(ring, p, q, Final) /\ Run(wire, q, printed, Final)
    BY DEF IInv, DaemonInv, Served
  <2>2. Run(ring, p, q, Final')
    BY <1>1, <2>1, RunMore
  <2> QED BY <1>5, <2>1, <2>2 DEF Served
<1>7. \A i \in 1 .. Len(wire') : wire'[i] = <<"exit">> => i = Len(wire')
  <2>1. CASE Serving
    <3>1. PICK p, q \in Nat : Run(wire, q, printed, {})
      BY <1>1, <2>1 DEF IInv, DaemonInv, Served
    <3>2. \A i \in 1 .. Len(wire) : wire[i] # <<"exit">>
      BY <3>1, RunNoExit
    <3>3. /\ Len(wire') = Len(wire) + 1 /\ Len(wire) \in Nat
          /\ \A i \in 1 .. Len(wire) : wire'[i] = wire[i]
      BY <1>1, <2>1, AppendProperties
    <3> QED BY <3>2, <3>3
  <2>2. CASE ~Serving
    BY <2>2 DEF IInv, DaemonInv
  <2> QED BY <2>1, <2>2
<1>8. DaemonInv'
  BY <1>3, <1>4, <1>6, <1>7 DEF IInv, DaemonInv
<1>9. BridgeInv'
  BY DEF IInv, BridgeInv
<1>10. PaneInv'
  <2> SUFFICES ASSUME pane # None
               PROVE Chain(bridge[pane], wire', printed', Allowed', shown, ended)
    BY DEF IInv, PaneInv
  <2> DEFINE r == bridge[pane]
  <2>1. Chain(r, wire, printed, Allowed, shown, ended)
    BY DEF IInv, PaneInv
  <2>2. r.sub => Serving
    BY DEF IInv, TypeOK
  <2> HIDE DEF r
  <2>3. PICK p, x, y, z \in Nat :
          /\ shown # <<>> => p = shown[Len(shown)]
          /\ ended => p \in Allowed
          /\ Run(r.ws, p, x, Allowed) /\ Run(r.pending, x, y, Allowed) /\ Run(r.conn, y, z, Allowed)
          /\ z <= printed
          /\ r.sub => Run(wire, z, printed, Allowed)
    BY <2>1 DEF Chain
  <2>a. Allowed \subseteq Allowed'
    BY <1>1 DEF Allowed
  <2>4. Run(r.ws, p, x, Allowed') /\ Run(r.pending, x, y, Allowed') /\ Run(r.conn, y, z, Allowed')
    BY <2>3, <2>a, RunMore
  <2>5. z <= printed' /\ (r.sub => Run(wire', z, printed', Allowed'))
    <3>1. z <= printed'
      BY <1>1, <2>3
    <3>2. r.sub => Run(wire', z, printed', Allowed')
      <4> SUFFICES ASSUME r.sub PROVE Run(wire', z, printed', Allowed')
        OBVIOUS
      <4>1. Run(Append(wire, m), z, printed', Allowed')
        <5>1. Run(wire, z, printed, Allowed')
          BY <2>3, <2>a, RunMore
        <5>2. Reads(printed, m, printed', Allowed')
          BY <1>1 DEF Reads, Allowed
        <5> QED BY <1>1, <5>1, <5>2, RunAppend
      <4> QED BY <2>2, <4>1
    <3> QED BY <3>1, <3>2
  <2>6. Chain(r, wire', printed', Allowed', shown, ended)
    BY <1>1, <2>a, <2>3, <2>4, <2>5 DEF Chain
  <2> QED BY <2>6 DEF r
<1> QED BY <1>2, <1>8, <1>9, <1>10 DEF IInv

LEMMA PrintsInv ==
  ASSUME IInv, Prints
  PROVE IInv'
<1> DEFINE m == <<printed + 1, printed + 1>>
<1>1. /\ printed \in 0 .. MaxPrint /\ printed < MaxPrint /\ printed' = printed + 1
      /\ holder = "alive" /\ holder' = holder
      /\ wire' = IF Serving THEN Append(wire, m) ELSE wire
      /\ UNCHANGED <<up, entry, ring, deaths, bridge, paneVars>>
  BY DEF Prints, IInv, TypeOK
<1>2. printed + 1 \in 1 .. MaxPrint /\ printed' \in 0 .. MaxPrint
  BY <1>1, TermStreamAssumption
<1>3. m \in Interval /\ m[1] = printed + 1 /\ m[2] = printed + 1
  BY <1>2, DataMessage
<1> HIDE DEF m
<1>4. Reads(printed, m, printed', Final')
  BY <1>1, <1>3, Words DEF Reads, IsData
<1> QED BY <1>1, <1>2, <1>3, <1>4, WireGrows

LEMMA EndsInv ==
  ASSUME IInv, NEW h \in {"dead", "gone"}, Ends(h)
  PROVE IInv'
<1>1. /\ printed \in 0 .. MaxPrint /\ printed' = printed
      /\ holder = "alive" /\ holder' = h
      /\ wire' = IF Serving THEN Append(wire, <<"exit">>) ELSE wire
      /\ UNCHANGED <<up, entry, ring, deaths, bridge, paneVars>>
  BY DEF Ends, IInv, TypeOK
<1>2. Reads(printed, <<"exit">>, printed', Final')
  BY <1>1, Words DEF Reads, IsData, Final
<1> QED BY <1>1, <1>2, WireGrows

LEMMA HolderLeavesInv ==
  ASSUME IInv, HolderLeaves
  PROVE IInv'
<1>1. holder = "dead" /\ holder' = "gone" /\ UNCHANGED <<printed, daemonVars, bridge, paneVars>>
  BY DEF HolderLeaves
<1>2. Final' = Final /\ Allowed' = Allowed
  BY <1>1 DEF Final, Allowed
<1>3. TypeOK'
  BY <1>1 DEF IInv, TypeOK
<1>4. DaemonInv'
  BY <1>1, <1>2 DEF IInv, DaemonInv
<1>5. BridgeInv' /\ PaneInv'
  BY <1>1, <1>2 DEF IInv, BridgeInv, PaneInv
<1> QED BY <1>3, <1>4, <1>5 DEF IInv
-----------------------------------------------------------------------------
(* Steps of the daemon *)

LEMMA DaemonReadsInv ==
  ASSUME IInv, DaemonReads
  PROVE IInv'
<1> DEFINE m == Head(wire)
           Sent(b) == IF bridge[b].sub THEN [bridge[b] EXCEPT !.conn = Append(@, m)] ELSE bridge[b]
<1>1. /\ up /\ wire # <<>> /\ wire' = Tail(wire)
      /\ bridge' = [b \in Bridge |-> Sent(b)]
      /\ IsData(m) => ring' = AppendRing(ring, m) /\ entry' = entry
      /\ ~IsData(m) => entry' = "dead" /\ ring' = ring
      /\ UNCHANGED <<printed, holder, up, deaths, paneVars>>
  BY DEF DaemonReads, Broadcast
<1>2. /\ wire \in Seq(Interval \cup {<<"exit">>}) /\ ring \in Seq(Interval)
      /\ bridge \in [Bridge -> BridgeState] /\ printed \in Nat
  BY PrintedIsNat DEF IInv, TypeOK
<1>3. /\ Tail(wire) \in Seq(Interval \cup {<<"exit">>}) /\ m \in Interval \cup {<<"exit">>}
      /\ m = wire[1] /\ 1 \in 1 .. Len(wire) /\ Len(Tail(wire)) = Len(wire) - 1
      /\ \A i \in 1 .. Len(Tail(wire)) : i + 1 \in 1 .. Len(wire) /\ Tail(wire)[i] = wire[i + 1]
      /\ Len(wire) \in Nat
  BY <1>1, <1>2, TailFacts
<1>4. Final' = Final /\ Allowed' = Allowed /\ Serving /\ Serving' /\ Final \subseteq Allowed
  <2>1. entry # "later"
    BY <1>1 DEF IInv, DaemonInv
  <2> QED BY <1>1, <1>2, <2>1 DEF Final, Allowed
<1>5. ASSUME NEW E, NEW q \in Nat, Run(wire, q, printed, E)
      PROVE \E v \in Nat : Reads(q, m, v, E) /\ v <= printed /\ Run(wire', v, printed, E)
  <2>1. PICK v : Reads(q, m, v, E) /\ v <= printed /\ Run(Tail(wire), v, printed, E)
    BY <1>1, <1>2, <1>5, RunHead
  <2>2. Len(Tail(wire)) \in Nat
    BY <1>3
  <2>3. v \in Nat
    BY <2>1, <2>2, RunBounds
  <2> QED BY <1>1, <2>1, <2>3
<1>6. PICK p, o, v \in Nat :
        /\ Run(ring, p, o, Final)
        /\ Reads(o, m, v, Final) /\ Run(wire', v, printed, Final)
  BY <1>1, <1>4, <1>5 DEF IInv, DaemonInv, Served
<1>7. /\ ring' \in Seq(Interval) /\ (Len(ring') > 1 => Size(ring') <= Cap)
      /\ \E k \in Nat : Run(ring', k, v, Final)
  <2>1. CASE IsData(m)
    BY <1>1, <1>2, <1>6, <2>1, RingFacts DEF IsData
  <2>2. CASE ~IsData(m)
    BY <1>1, <1>2, <1>6, <2>2 DEF Reads, IInv, TypeOK
  <2> QED BY <2>1, <2>2
<1>8. ASSUME NEW b \in Bridge
      PROVE /\ Sent(b) \in BridgeState /\ Sent(b).at = bridge[b].at
            /\ Sent(b).sub = bridge[b].sub /\ Sent(b).reqs = bridge[b].reqs
            /\ Sent(b).pending = bridge[b].pending /\ Sent(b).ws = bridge[b].ws
            /\ bridge[b].sub => Sent(b).conn = Append(bridge[b].conn, m)
            /\ ~bridge[b].sub => Sent(b).conn = bridge[b].conn
            /\ Has(Sent(b).conn, <<"unknown">>) => Has(bridge[b].conn, <<"unknown">>)
  <2> DEFINE q == bridge[b]
             t == [q EXCEPT !.conn = Append(@, m)]
  <2>1. q \in BridgeState /\ q.conn \in Seq(Interval \cup Answer)
    BY <1>2, StateFacts
  <2>2. m \in Interval \cup Answer /\ m # <<"unknown">>
    BY <1>3, Words, WordsDiffer DEF Answer
  <2>3. /\ Append(q.conn, m) \in Seq(Interval \cup Answer)
        /\ Has(Append(q.conn, m), <<"unknown">>) => Has(q.conn, <<"unknown">>)
    BY <2>1, <2>2, AppendProperties, HasAppend
  <2>4. /\ t \in BridgeState /\ t.at = q.at /\ t.sub = q.sub /\ t.reqs = q.reqs
        /\ t.pending = q.pending /\ t.ws = q.ws /\ t.conn = Append(q.conn, m)
    BY <2>1, <2>3 DEF BridgeState
  <2>5. Sent(b) = IF q.sub THEN t ELSE q
    OBVIOUS
  <2> HIDE DEF t, q, Sent
  <2>6. /\ Sent(b) \in BridgeState /\ Sent(b).at = q.at
        /\ Sent(b).sub = q.sub /\ Sent(b).reqs = q.reqs
        /\ Sent(b).pending = q.pending /\ Sent(b).ws = q.ws
        /\ q.sub => Sent(b).conn = Append(q.conn, m)
        /\ ~q.sub => Sent(b).conn = q.conn
        /\ Has(Sent(b).conn, <<"unknown">>) => Has(q.conn, <<"unknown">>)
    BY <2>1, <2>3, <2>4, <2>5
  <2> QED BY <2>6 DEF q
<1>9. \A b \in Bridge : bridge'[b] = Sent(b)
  BY <1>1
<1> HIDE DEF Sent, m
<1>10. TypeOK'
  <2>1. bridge' \in [Bridge -> BridgeState] /\ \A b \in Bridge : bridge'[b].sub => Serving'
    BY <1>1, <1>4, <1>8, <1>9 DEF IInv, TypeOK
  <2> QED BY <1>1, <1>3, <1>7, <2>1 DEF IInv, TypeOK
<1>11. DaemonInv'
  <2>1. Served(ring', wire', printed', Final')
    BY <1>1, <1>4, <1>6, <1>7 DEF Served
  <2>2. \A i \in 1 .. Len(wire') : wire'[i] = <<"exit">> => i = Len(wire')
    <3> SUFFICES ASSUME NEW i \in 1 .. Len(Tail(wire)), Tail(wire)[i] = <<"exit">>
                 PROVE i = Len(Tail(wire))
      BY <1>1
    <3>1. i + 1 \in 1 .. Len(wire) /\ wire[i + 1] = <<"exit">>
      BY <1>3
    <3>2. i + 1 = Len(wire)
      BY <3>1 DEF IInv, DaemonInv
    <3>3. Len(Tail(wire)) = Len(wire) - 1 /\ Len(wire) \in Nat
      BY <1>3
    <3>4. i \in Int
      BY <3>3
    <3> QED BY <3>2, <3>3, <3>4
  <2>3. entry' = "dead" => holder' # "alive" /\ wire' = <<>>
    <3>1. CASE IsData(m)
      BY <1>1, <3>1 DEF IInv, DaemonInv
    <3>2. CASE ~IsData(m)
      <4>1. m = <<"exit">>
        BY <1>3, <3>2 DEF IsData
      <4>2. Len(wire) = 1
        BY <1>3, <4>1 DEF IInv, DaemonInv
      <4>3. wire' = <<>>
        BY <1>1, <1>3, <4>2, EmptySeq
      <4>4. holder # "alive"
        BY <1>6, <4>1 DEF Reads, Final
      <4> QED BY <1>1, <4>3, <4>4
    <3> QED BY <3>1, <3>2
  <2>4. entry' = "none" => holder' # "alive"
    BY <1>1 DEF IInv, DaemonInv
  <2> QED BY <1>4, <2>1, <2>2, <2>3, <2>4 DEF DaemonInv
<1>12. BridgeInv'
  <2> SUFFICES ASSUME NEW b \in Bridge
               PROVE Shape(bridge'[b]) /\ (Has(bridge'[b].conn, <<"unknown">>) => holder # "alive" \/ early)
    BY <1>1 DEF BridgeInv
  <2> DEFINE q == bridge[b]
             t == bridge'[b]
  <2>1. Shape(q) /\ (Has(q.conn, <<"unknown">>) => holder # "alive" \/ early)
    BY DEF IInv, BridgeInv
  <2>2. /\ t.at = q.at /\ t.sub = q.sub /\ t.reqs = q.reqs
        /\ t.pending = q.pending /\ t.ws = q.ws
        /\ ~q.sub => t.conn = q.conn
        /\ Has(t.conn, <<"unknown">>) => Has(q.conn, <<"unknown">>)
    BY <1>8, <1>9
  <2> HIDE DEF q, t
  <2>3. Shape(t)
    BY <2>1, <2>2 DEF Shape, Blank, Waiting
  <2> QED BY <2>1, <2>2, <2>3 DEF t
<1>13. PaneInv'
  <2>1. \A b \in Bridge : b # pane => bridge'[b].at \in {"new", "over"}
    BY <1>8, <1>9 DEF IInv, PaneInv
  <2>2. ASSUME pane # None
        PROVE /\ Fresh(bridge'[pane], shown, ended)
              /\ Chain(bridge'[pane], wire', printed, Allowed, shown, ended)
              /\ early => Doubtful(bridge'[pane], shown)
    <3> DEFINE q == bridge[pane]
               t == bridge'[pane]
    <3>0. pane \in Bridge
      BY <2>2 DEF IInv, TypeOK
    <3>1. Fresh(q, shown, ended) /\ Chain(q, wire, printed, Allowed, shown, ended)
          /\ q.conn \in Seq(Interval \cup Answer) /\ m \in Interval \cup Answer
          /\ (early => Doubtful(q, shown))
      BY <1>2, <1>3, <2>2, <3>0, StateFacts DEF IInv, PaneInv, Answer
    <3>2. /\ t.at = q.at /\ t.sub = q.sub /\ t.reqs = q.reqs /\ t.pending = q.pending /\ t.ws = q.ws
          /\ q.sub => t.conn = Append(q.conn, m)
          /\ ~q.sub => t.conn = q.conn
      BY <1>8, <1>9, <3>0
    <3> HIDE DEF q, t
    <3>3. PICK a, x, y, z \in Nat :
            /\ shown # <<>> => a = shown[Len(shown)]
            /\ ended => a \in Allowed
            /\ Run(q.ws, a, x, Allowed) /\ Run(q.pending, x, y, Allowed) /\ Run(q.conn, y, z, Allowed)
            /\ z <= printed
            /\ q.sub => Run(wire, z, printed, Allowed)
      BY <3>1 DEF Chain
    <3>4. CASE q.sub
      <4>1. PICK k \in Nat : Reads(z, m, k, Allowed) /\ k <= printed /\ Run(wire', k, printed, Allowed)
        BY <1>5, <3>3, <3>4
      <4>2. Run(t.conn, y, k, Allowed)
        BY <3>1, <3>2, <3>3, <3>4, <4>1, RunAppend
      <4> QED BY <3>1, <3>2, <3>3, <3>4, <4>1, <4>2 DEF Chain, Fresh, Doubtful, t
    <3>5. CASE ~q.sub
      BY <3>1, <3>2, <3>3, <3>5 DEF Chain, Fresh, Doubtful, t
    <3> QED BY <3>4, <3>5
  <2> QED BY <1>1, <1>4, <2>1, <2>2 DEF PaneInv
<1> QED BY <1>10, <1>11, <1>12, <1>13 DEF IInv

LEMMA SweepInv ==
  ASSUME IInv, Sweep
  PROVE IInv'
<1>1. /\ entry = "dead" /\ entry' = "none" /\ ring' = <<>>
      /\ UNCHANGED <<printed, holder, wire, up, deaths, bridge, paneVars>>
  BY DEF Sweep
<1>2. Final' = Final /\ Allowed' = Allowed
  BY <1>1 DEF Final, Allowed
<1>3. TypeOK'
  BY <1>1, EmptySeq DEF IInv, TypeOK
<1>4. DaemonInv'
  <2>1. Serving => Served(ring', wire, printed, Final)
    BY <1>1, RunEmpty DEF IInv, DaemonInv, Served
  <2> QED BY <1>1, <1>2, <2>1 DEF IInv, DaemonInv
<1>5. BridgeInv' /\ PaneInv'
  BY <1>1, <1>2 DEF IInv, BridgeInv, PaneInv
<1> QED BY <1>3, <1>4, <1>5 DEF IInv

LEMMA DaemonDiesInv ==
  ASSUME IInv, DaemonDies
  PROVE IInv'
<1>1. /\ up /\ deaths < MaxDeaths /\ deaths' = deaths + 1
      /\ up' = FALSE /\ wire' = <<>> /\ ring' = <<>> /\ entry' = "none"
      /\ UNCHANGED <<printed, holder, paneVars>>
      /\ bridge' = [b \in Bridge |-> IF Connected(bridge[b]) THEN HungUp(bridge[b]) ELSE bridge[b]]
  BY DEF DaemonDies
<1>2. Final' = Final /\ Allowed' = Allowed
  BY <1>1 DEF Final, Allowed
<1>3. ASSUME NEW b \in Bridge
      PROVE /\ bridge'[b] \in BridgeState /\ ~bridge'[b].sub /\ Shape(bridge'[b])
            /\ Has(bridge'[b].conn, <<"unknown">>) => holder # "alive" \/ early
            /\ bridge[b].at \in {"new", "over"} => bridge'[b].at \in {"new", "over"}
  <2>1. bridge[b] \in BridgeState /\ Shape(bridge[b])
    BY DEF IInv, TypeOK, BridgeInv
  <2>2. CASE Connected(bridge[b])
    BY <1>1, <2>1, <2>2, HungUpFacts, BlankShape DEF Blank
  <2>3. CASE ~Connected(bridge[b])
    <3>1. bridge'[b] = bridge[b] /\ bridge[b].at \in {"new", "dial", "over"}
      BY <1>1, <2>1, <2>3, StateFacts DEF Connected
    <3> QED BY <2>1, <3>1 DEF Shape, Blank, IInv, BridgeInv
  <2> QED BY <2>2, <2>3
<1>4. TypeOK'
  <2>1. bridge' \in [Bridge -> BridgeState]
    BY <1>1, <1>3
  <2>2. deaths + 1 \in 0 .. MaxDeaths
    BY <1>1, TermStreamAssumption DEF IInv, TypeOK
  <2>3. \A b \in Bridge : ~bridge'[b].sub
    BY <1>3
  <2>4. /\ wire' \in Seq(Interval \cup {<<"exit">>}) /\ ring' \in Seq(Interval)
        /\ ~(Len(ring') > 1)
    BY <1>1, EmptySeq
  <2> QED BY <1>1, <2>1, <2>2, <2>3, <2>4 DEF IInv, TypeOK
<1>5. DaemonInv'
  BY <1>1 DEF DaemonInv
<1>6. BridgeInv'
  BY <1>1, <1>3 DEF BridgeInv
<1>7. PaneInv'
  <2>1. \A b \in Bridge : b # pane => bridge'[b].at \in {"new", "over"}
    BY <1>3 DEF IInv, PaneInv
  <2>2. ASSUME pane # None
        PROVE /\ Fresh(bridge'[pane], shown, ended)
              /\ Chain(bridge'[pane], wire', printed, Allowed, shown, ended)
              /\ early => Doubtful(bridge'[pane], shown)
    <3>0. pane \in Bridge /\ printed \in Nat
      BY <2>2, PrintedIsNat DEF IInv, TypeOK
    <3>1. /\ bridge[pane] \in BridgeState /\ Shape(bridge[pane])
          /\ Fresh(bridge[pane], shown, ended)
          /\ Chain(bridge[pane], wire, printed, Allowed, shown, ended)
          /\ early => Doubtful(bridge[pane], shown)
      BY <2>2, <3>0 DEF IInv, TypeOK, BridgeInv, PaneInv
    <3>2. CASE Connected(bridge[pane])
      <4>1. bridge'[pane] = HungUp(bridge[pane])
        BY <1>1, <3>0, <3>2
      <4>2. HungUp(bridge[pane]).at = "over"
        BY <3>1, HungUpFacts
      <4>3. Chain(HungUp(bridge[pane]), wire', printed, Allowed, shown, ended)
            /\ (early => Doubtful(HungUp(bridge[pane]), shown))
        BY <3>0, <3>1, HungUpChain, HungUpDoubt
      <4> QED BY <4>1, <4>2, <4>3 DEF Fresh
    <3>3. CASE ~Connected(bridge[pane])
      <4>1. bridge'[pane] = bridge[pane] /\ ~bridge'[pane].sub
        BY <1>1, <1>3, <3>0, <3>3
      <4> QED BY <3>1, <4>1 DEF Chain
    <3> QED BY <3>2, <3>3
  <2> QED BY <1>1, <1>2, <2>1, <2>2 DEF PaneInv
<1> QED BY <1>4, <1>5, <1>6, <1>7 DEF IInv

LEMMA ReplayFacts ==
  ASSUME TypeOK, NEW E
  PROVE Replay \in Seq(Interval) /\ \E p \in Nat : Run(Replay, p, printed, E)
<1>1. printed \in 0 .. MaxPrint /\ MaxPrint \in Nat /\ Cap \in Nat \ {0}
  BY TermStreamAssumption DEF TypeOK
<1>2. CASE printed = 0
  BY <1>1, <1>2, RunEmpty, EmptySeq DEF Replay
<1>3. CASE printed # 0
  <2> DEFINE from == IF printed > Cap THEN printed - Cap + 1 ELSE 1
             m == <<from, printed>>
  <2>1. from \in 1 .. printed /\ from \in 1 .. MaxPrint /\ printed \in 1 .. MaxPrint
    BY <1>1, <1>3
  <2>2. Replay = <<m>>
    BY <1>3 DEF Replay
  <2> HIDE DEF from
  <2>3. m \in Interval /\ m[1] = from /\ m[2] = printed
    BY <2>1, DataMessage
  <2> HIDE DEF m
  <2>4. from - 1 \in Nat /\ Reads(from - 1, m, printed, E)
    BY <1>1, <2>1, <2>3, Words DEF Reads, IsData
  <2>5. Run(<<m>>, from - 1, printed, E)
    BY <1>1, <2>4, RunOfOne
  <2> QED BY <2>2, <2>3, <2>4, <2>5
<1> QED BY <1>2, <1>3

LEMMA DaemonStartsInv ==
  ASSUME IInv, DaemonStarts
  PROVE IInv'
<1>1. /\ ~up /\ up' = TRUE /\ entry = "none" /\ entry' = "later" /\ ring = <<>>
      /\ wire = <<>>
      /\ UNCHANGED <<printed, holder, wire, ring, deaths, bridge, paneVars>>
  BY DEF DaemonStarts, IInv, TypeOK, DaemonInv
<1>2. Final' = Final /\ Allowed' = Allowed
  BY <1>1 DEF Final, Allowed
<1>3. TypeOK'
  BY <1>1 DEF IInv, TypeOK
<1>4. DaemonInv'
  BY <1>1 DEF IInv, DaemonInv
<1>5. BridgeInv' /\ PaneInv'
  BY <1>1, <1>2 DEF IInv, BridgeInv, PaneInv
<1> QED BY <1>3, <1>4, <1>5 DEF IInv

LEMMA AdoptsInv ==
  ASSUME IInv, Adopts
  PROVE IInv'
<1>1. /\ entry = "later" /\ up /\ ring = <<>>
      /\ entry' = IF holder = "gone" THEN "none" ELSE "alive"
      /\ UNCHANGED <<printed, holder, up, ring, deaths, bridge, paneVars>>
  BY DEF Adopts, IInv, DaemonInv
<1>2. holder \in {"alive", "dead", "gone"} /\ printed \in Nat
  BY PrintedIsNat DEF IInv, TypeOK
<1>3. /\ holder = "gone" => wire' = <<>>
      /\ holder = "dead" => wire' = Append(Replay, <<"exit">>)
      /\ holder = "alive" => wire' = Replay
  BY DEF Adopts
<1>4. Final' = Final /\ Allowed' = Allowed
  BY <1>1 DEF Final, Allowed
<1>5. PICK p \in Nat : Replay \in Seq(Interval) /\ Run(Replay, p, printed, Final)
  BY ReplayFacts DEF IInv
<1>6. /\ Replay \in Seq(Interval \cup {<<"exit">>})
      /\ \A i \in 1 .. Len(Replay) : Replay[i] # <<"exit">>
  <2>1. \A i \in 1 .. Len(Replay) : Replay[i] \in Interval
    BY <1>5, ElementOfSeq
  <2> QED BY <1>5, <2>1, SeqMonotonic, Words
<1>7. /\ wire' \in Seq(Interval \cup {<<"exit">>})
      /\ \A i \in 1 .. Len(wire') : wire'[i] = <<"exit">> => i = Len(wire')
      /\ \E q \in Nat : Run(wire', q, printed, Final)
  <2>1. CASE holder = "gone"
    BY <1>2, <1>3, <2>1, RunEmpty, EmptySeq
  <2>2. CASE holder = "dead"
    <3>1. /\ wire' \in Seq(Interval \cup {<<"exit">>}) /\ Len(wire') = Len(Replay) + 1
          /\ \A i \in 1 .. Len(Replay) : wire'[i] = Replay[i]
          /\ Len(Replay) \in Nat
      <4> DEFINE W == Interval \cup {<<"exit">>}
      <4>1. wire' = Append(Replay, <<"exit">>) /\ Replay \in Seq(W) /\ <<"exit">> \in W
        BY <1>3, <1>6, <2>2
      <4> HIDE DEF W
      <4>2. /\ wire' \in Seq(W) /\ Len(wire') = Len(Replay) + 1
            /\ \A i \in 1 .. Len(Replay) : wire'[i] = Replay[i]
        BY <4>1, AppendProperties
      <4>3. Len(Replay) \in Nat
        BY <4>1
      <4> QED BY <4>2, <4>3 DEF W
    <3>2. Reads(printed, <<"exit">>, printed, Final)
      BY <1>2, <2>2, Words DEF Reads, IsData, Final
    <3>3. Run(wire', p, printed, Final)
      BY <1>2, <1>3, <1>5, <1>6, <2>2, <3>2, RunAppend
    <3> QED BY <1>6, <3>1, <3>3
  <2>3. CASE holder = "alive"
    BY <1>3, <1>5, <1>6, <2>3
  <2> QED BY <1>2, <2>1, <2>2, <2>3
<1>8. TypeOK'
  BY <1>1, <1>7 DEF IInv, TypeOK
<1>9. DaemonInv'
  <2>2. Served(ring', wire', printed', Final')
    BY <1>1, <1>4, <1>7, RunEmpty DEF Served
  <2> QED BY <1>1, <1>7, <2>2 DEF DaemonInv
<1>10. BridgeInv'
  BY <1>1 DEF IInv, BridgeInv
<1>11. PaneInv'
  <2> SUFFICES ASSUME pane # None
               PROVE Chain(bridge[pane], wire', printed, Allowed, shown, ended)
    BY <1>1, <1>4 DEF IInv, PaneInv
  <2>1. pane \in Bridge /\ ~bridge[pane].sub
    BY <1>1 DEF IInv, TypeOK
  <2>2. Chain(bridge[pane], wire, printed, Allowed, shown, ended)
    BY DEF IInv, PaneInv
  <2> QED BY <2>1, <2>2 DEF Chain
<1> QED BY <1>8, <1>9, <1>10, <1>11 DEF IInv
-----------------------------------------------------------------------------
(* Steps of the pane *)

LEMMA ConnectInv ==
  ASSUME IInv, NEW b \in Bridge, Connect(b)
  PROVE IInv'
<1> DEFINE q == bridge[b]
           r == [q EXCEPT !.at = "dial"]
<1>1. /\ pane = None /\ ~ended /\ q.at = "new" /\ pane' = b /\ shown' = <<>> /\ early' = FALSE
      /\ bridge' = [bridge EXCEPT ![b] = r]
      /\ UNCHANGED <<printed, holder, daemonVars, ended, closed>>
  BY DEF Connect
<1>2. q \in BridgeState /\ bridge \in [Bridge -> BridgeState] /\ Blank(q) /\ q.ws = <<>>
  BY <1>1 DEF IInv, TypeOK, BridgeInv, Shape
<1>3. /\ r \in BridgeState /\ r.at = "dial" /\ r.sub = q.sub /\ r.reqs = q.reqs
      /\ r.conn = q.conn /\ r.pending = q.pending /\ r.ws = q.ws
  BY <1>2 DEF BridgeState
<1>4. bridge' \in [Bridge -> BridgeState] /\ bridge'[b] = r
      /\ \A x \in Bridge : x # b => bridge'[x] = bridge[x]
  BY <1>1, <1>2, <1>3
<1>5. Final' = Final /\ Allowed' = Final /\ printed \in Nat
  BY <1>1, PrintedIsNat DEF Final, Allowed, IInv
<1> HIDE DEF q, r
<1>6. Shape(r) /\ ~Has(r.conn, <<"unknown">>) /\ ~r.sub /\ Blank(r)
  BY <1>2, <1>3 DEF Shape, Blank, Has
<1>7. TypeOK'
  BY <1>1, <1>4, <1>6, EmptySeq DEF IInv, TypeOK
<1>8. DaemonInv'
  BY <1>1, <1>5 DEF IInv, DaemonInv
<1>9. BridgeInv'
  <2>1. \A x \in Bridge : x # b => ~Has(bridge[x].conn, <<"unknown">>)
    BY <1>1, TermStreamAssumption DEF IInv, PaneInv, BridgeInv, Shape, Blank, Has
  <2> QED BY <1>1, <1>4, <1>6, <2>1 DEF IInv, BridgeInv
<1>10. Chain(r, wire, printed, Final, <<>>, FALSE)
  <2>1. Run(<<>>, 0, 0, Final) /\ 0 \in Nat /\ 0 <= printed
    BY <1>5, RunEmpty
  <2> QED BY <1>2, <1>3, <1>6, <2>1 DEF Chain, Blank
<1>11. PaneInv'
  <2>1. \A x \in Bridge : x # b => bridge'[x].at \in {"new", "over"}
    BY <1>1, <1>4, TermStreamAssumption DEF IInv, PaneInv
  <2>2. ended' = FALSE
    BY <1>1 DEF IInv, TypeOK
  <2> QED BY <1>1, <1>4, <1>5, <1>10, <2>1, <2>2 DEF PaneInv, Fresh
<1> QED BY <1>7, <1>8, <1>9, <1>11 DEF IInv

LEMMA LeaveInv ==
  ASSUME IInv, NEW shut \in BOOLEAN, Leave(shut)
  PROVE IInv'
<1>1. /\ pane # None /\ closed' = shut /\ bridge' = [bridge EXCEPT ![pane] = Over]
      /\ pane' = None /\ UNCHANGED <<printed, holder, daemonVars, shown, ended, early>>
  BY DEF Leave
<1>2. /\ bridge' \in [Bridge -> BridgeState]
      /\ \A b \in Bridge : bridge'[b] = IF b = pane THEN Over ELSE bridge[b]
  BY <1>1, BlankFacts DEF IInv, TypeOK
<1>3. Shape(Over) /\ ~Has(Over.conn, <<"unknown">>) /\ ~Over.sub
  BY BlankFacts, BlankShape DEF Blank
<1>4. Final' = Final
  BY <1>1 DEF Final
<1>5. TypeOK'
  BY <1>1, <1>2, <1>3 DEF IInv, TypeOK
<1>6. DaemonInv'
  BY <1>1, <1>4 DEF IInv, DaemonInv
<1>7. BridgeInv'
  BY <1>1, <1>2, <1>3 DEF IInv, BridgeInv
<1>8. PaneInv'
  BY <1>1, <1>2, BlankFacts DEF IInv, PaneInv
<1> QED BY <1>5, <1>6, <1>7, <1>8 DEF IInv

LEMMA ChunksFacts ==
  ASSUME NEW a \in 1 .. MaxPrint, NEW z \in 1 .. MaxPrint, a <= z,
         NEW s \in Seq(1 .. MaxPrint)
  PROVE LET t == [i \in 1 .. z - a + 1 |-> a + i - 1]
        IN  s \o t \in Seq(1 .. MaxPrint) /\ s \o t # <<>> /\ (s \o t)[Len(s \o t)] = z
<1> DEFINE n == z - a + 1
           t == [i \in 1 .. n |-> a + i - 1]
<1>1. n \in Nat \ {0} /\ \A i \in 1 .. n : a + i - 1 \in 1 .. MaxPrint
  BY TermStreamAssumption
<1>2. t \in Seq(1 .. MaxPrint) /\ Len(t) = n /\ t[n] = z
  BY <1>1
<1> HIDE DEF t, n
<1>3. /\ s \o t \in Seq(1 .. MaxPrint) /\ Len(s \o t) = Len(s) + n /\ Len(s) \in Nat
      /\ (s \o t)[Len(s) + n] = t[n]
  <2>1. Len(s) + n \in 1 .. Len(s) + n /\ ~(Len(s) + n <= Len(s)) /\ (Len(s) + n) - Len(s) = n
        /\ Len(s) \in Nat
    BY <1>1, LenProperties
  <2>2. /\ s \o t \in Seq(1 .. MaxPrint) /\ Len(s \o t) = Len(s) + n
        /\ \A i \in 1 .. Len(s) + n :
              (s \o t)[i] = IF i <= Len(s) THEN s[i] ELSE t[i - Len(s)]
    BY <1>2, ConcatProperties
  <2> QED BY <2>1, <2>2
<1>4. s \o t # <<>>
  BY <1>1, <1>3, EmptySeq
<1> QED BY <1>2, <1>3, <1>4 DEF t, n

LEMMA ReadStep ==
  ASSUME IInv, Read
  PROVE IInv' /\ (T!Show \/ T!Tell \/ UNCHANGED T!vars)
<1> DEFINE q == bridge[pane]
           m == Head(q.ws)
           r == [q EXCEPT !.ws = Tail(@)]
           t == [i \in 1 .. m[2] - m[1] + 1 |-> m[1] + i - 1]
           W == Interval \cup {<<"exit">>, <<"close">>}
<1>1. /\ pane # None /\ q.ws # <<>> /\ bridge' = [bridge EXCEPT ![pane] = r]
      /\ shown' = IF IsData(m) THEN shown \o t ELSE shown
      /\ ended' = (ended \/ m = <<"exit">>)
      /\ pane' = IF m = <<"close">> THEN None ELSE pane
      /\ UNCHANGED <<printed, holder, daemonVars, closed, early>>
  BY DEF Read
<1>2. /\ pane \in Bridge /\ bridge \in [Bridge -> BridgeState] /\ q \in BridgeState
      /\ Shape(q) /\ (Has(q.conn, <<"unknown">>) => holder # "alive" \/ early)
      /\ Fresh(q, shown, ended) /\ Chain(q, wire, printed, Allowed, shown, ended)
      /\ (q.sub => Serving) /\ (early => Doubtful(q, shown))
  BY <1>1 DEF IInv, TypeOK, BridgeInv, PaneInv
<1>3. /\ q.ws \in Seq(W) /\ Tail(q.ws) \in Seq(W) /\ m \in W /\ Has(q.ws, m)
      /\ \A w : Has(Tail(q.ws), w) => Has(q.ws, w)
  BY <1>1, <1>2, StateFacts, TailFacts DEF Has
<1>4. /\ r \in BridgeState /\ r.at = q.at /\ r.sub = q.sub /\ r.reqs = q.reqs
      /\ r.conn = q.conn /\ r.pending = q.pending /\ r.ws = Tail(q.ws)
  BY <1>2, <1>3 DEF BridgeState
<1>5. /\ bridge' \in [Bridge -> BridgeState]
      /\ \A b \in Bridge : bridge'[b] = IF b = pane THEN r ELSE bridge[b]
  BY <1>1, <1>2, <1>4
<1>6. /\ Final' = Final /\ Allowed' = Allowed /\ early \in BOOLEAN /\ printed \in 0 .. MaxPrint /\ MaxPrint \in Nat
      /\ shown \in Seq(1 .. MaxPrint) /\ ended \in BOOLEAN
  BY <1>1, TermStreamAssumption DEF Final, Allowed, IInv, TypeOK
<1> HIDE DEF q, r, m, t
<1>7. PICK p, x, y, z \in Nat :
        /\ shown # <<>> => p = shown[Len(shown)]
        /\ ended => p \in Allowed
        /\ Run(q.ws, p, x, Allowed) /\ Run(q.pending, x, y, Allowed) /\ Run(q.conn, y, z, Allowed)
        /\ z <= printed
        /\ q.sub => Run(wire, z, printed, Allowed)
  BY <1>2 DEF Chain
<1>8. PICK v \in Nat : Reads(p, m, v, Allowed) /\ v <= x /\ Run(Tail(q.ws), v, x, Allowed)
  <2>1. PICK v : Reads(p, Head(q.ws), v, Allowed) /\ v <= x /\ Run(Tail(q.ws), v, x, Allowed)
    BY <1>1, <1>3, <1>7, RunHead
  <2>2. Len(Tail(q.ws)) \in Nat
    BY <1>3
  <2> QED BY <2>1, <2>2, RunBounds DEF m
<1>9. v <= printed
  <2>1. Len(q.pending) \in Nat /\ Len(q.conn) \in Nat
    BY <1>2, StateFacts
  <2>2. x <= y /\ y <= z
    BY <1>7, <2>1, RunBounds
  <2> QED BY <1>6, <1>7, <1>8, <2>2
<1> DEFINE Step == /\ shown' \in Seq(1 .. MaxPrint) /\ ended' \in BOOLEAN
                   /\ pane' = pane \/ (r.at = "over" /\ pane' = None)
                   /\ Chain(r, wire, printed, Allowed, shown', ended')
                   /\ T!Show \/ T!Tell \/ UNCHANGED T!vars
(* What the pane shows *)
<1>10. ASSUME IsData(m) PROVE Step
  <2>1. /\ m[1] = p + 1 /\ m[1] <= m[2] /\ m[2] = v
        /\ m[1] \in 1 .. MaxPrint /\ m[2] \in 1 .. MaxPrint
    BY <1>8, <1>10, DataFacts DEF Reads, IsData
  <2>2. m[1] \in 1 .. printed /\ m[2] \in 1 .. printed
    BY <1>6, <1>9, <2>1
  <2>3. /\ shown' = shown \o t /\ shown' \in Seq(1 .. MaxPrint) /\ shown' # <<>>
        /\ shown'[Len(shown')] = v
    BY <1>1, <1>6, <1>10, <2>1, ChunksFacts DEF t
  <2>e. ~early
    <3>1. m = q.ws[1] /\ 1 \in 1 .. Len(q.ws)
      BY <1>1, <1>3, TailFacts DEF m
    <3> QED BY <1>2, <1>10, <3>1 DEF Doubtful, IsData
  <2>4. ~ended
    <3> SUFFICES ASSUME ended PROVE FALSE
      OBVIOUS
    <3>1. p = printed
      BY <1>7, <2>e DEF Final, Allowed
    <3> QED BY <1>6, <1>9, <2>1, <3>1
  <2>5. ended' = ended /\ m # <<"exit">> /\ m # <<"close">>
    BY <1>1, <1>6, <1>10, Words DEF IsData
  <2>6. T!Show
    <3>1. t = T!Chunks(m[1], m[2])
      BY DEF t, T!Chunks
    <3>2. shown # <<>> => m[1] = shown[Len(shown)] + 1
      BY <1>7, <2>1
    <3> QED BY <1>1, <2>1, <2>2, <2>3, <2>4, <2>5, <2>e, <3>1, <3>2 DEF T!Show
  <2>7. Chain(r, wire, printed, Allowed, shown', ended')
    BY <1>4, <1>7, <1>8, <2>3, <2>4, <2>5 DEF Chain
  <2> QED BY <1>1, <1>6, <2>3, <2>5, <2>6, <2>7
(* The end *)
<1>11. ASSUME m = <<"exit">> PROVE Step
  <2>1. ~IsData(m) /\ m # <<"close">>
    BY <1>11, Words, WordsDiffer DEF IsData
  <2>2. v = p /\ p \in Allowed /\ (~early => p = printed /\ holder # "alive")
    BY <1>8, <1>11, <2>1 DEF Reads, Final, Allowed
  <2>3. shown' = shown /\ ended' = TRUE /\ pane' = pane
    BY <1>1, <1>11, <2>1
  <2>4. T!Tell \/ UNCHANGED T!vars
    BY <1>1, <1>6, <1>7, <2>2, <2>3 DEF T!Tell, T!Complete, T!vars
  <2>5. Chain(r, wire, printed, Allowed, shown', ended')
    BY <1>4, <1>7, <1>8, <2>2, <2>3 DEF Chain
  <2> QED BY <1>6, <2>3, <2>4, <2>5
<1>12. ASSUME m = <<"close">> PROVE Step
  <2>1. ~IsData(m) /\ m # <<"exit">>
    BY <1>12, Words, WordsDiffer DEF IsData
  <2>2. shown' = shown /\ ended' = ended /\ pane' = None /\ v = p
    BY <1>1, <1>6, <1>8, <1>12, <2>1 DEF Reads
  <2>3. r.at = "over"
    BY <1>2, <1>3, <1>4, <1>12 DEF Shape
  <2>4. Chain(r, wire, printed, Allowed, shown', ended')
    BY <1>4, <1>7, <1>8, <2>2 DEF Chain
  <2> QED BY <1>1, <1>6, <2>2, <2>3, <2>4 DEF T!vars
<1>13. Step
  BY <1>3, <1>10, <1>11, <1>12 DEF IsData
<1> HIDE DEF Step
<1>14. /\ shown' \in Seq(1 .. MaxPrint) /\ ended' \in BOOLEAN
       /\ pane' = pane \/ (r.at = "over" /\ pane' = None)
       /\ Chain(r, wire, printed, Allowed, shown', ended')
       /\ T!Show \/ T!Tell \/ UNCHANGED T!vars
  BY <1>13 DEF Step
(* The invariant *)
<1>15. Shape(r) /\ Fresh(r, shown', ended') /\ (Has(r.conn, <<"unknown">>) => holder # "alive" \/ early)
      /\ (early => Doubtful(r, shown'))
  <2>1. q.ws = <<>> \/ q.at = "over" \/ q.sub
    BY <1>2, StateFacts DEF Shape, Waiting
  <2>2. Fresh(r, shown', ended')
    BY <1>1, <1>4, <2>1 DEF Fresh, q
  <2>3. q.at \notin {"new", "dial"}
    BY <1>1, <1>2 DEF Shape, q
  <2>4. ~q.sub => q.at = "over"
    BY <1>1, <2>1 DEF q
  <2>5. Has(r.ws, <<"close">>) => q.at = "over"
    BY <1>2, <1>3, <1>4 DEF Shape
  <2>6. Blank(q) => Blank(r)
    BY <1>4 DEF Blank
  <2>7. Shape(r)
    BY <1>2, <1>4, <2>3, <2>4, <2>5, <2>6 DEF Shape
  <2>8. early => Doubtful(r, shown')
    <3> SUFFICES ASSUME early PROVE Doubtful(r, shown')
      OBVIOUS
    <3>1. Doubtful(q, shown) /\ m = q.ws[1] /\ 1 \in 1 .. Len(q.ws)
          /\ \A i \in 1 .. Len(Tail(q.ws)) : i + 1 \in 1 .. Len(q.ws) /\ Tail(q.ws)[i] = q.ws[i + 1]
      BY <1>1, <1>2, <1>3, TailFacts DEF m
    <3>2. shown' = shown
      BY <1>1, <3>1 DEF Doubtful, IsData
    <3> QED BY <1>4, <3>1, <3>2 DEF Doubtful
  <2> QED BY <1>2, <1>4, <2>2, <2>7, <2>8
<1>16. TypeOK'
  BY <1>1, <1>2, <1>4, <1>5, <1>14 DEF IInv, TypeOK
<1>17. DaemonInv'
  BY <1>1, <1>6 DEF IInv, DaemonInv
<1>18. BridgeInv'
  BY <1>1, <1>5, <1>15 DEF IInv, BridgeInv
<1>19. PaneInv'
  BY <1>1, <1>2, <1>5, <1>6, <1>14, <1>15 DEF IInv, PaneInv
<1> QED BY <1>14, <1>16, <1>17, <1>18, <1>19 DEF IInv
-----------------------------------------------------------------------------
(* All together *)

LEMMA InitInv ==
  ASSUME Init
  PROVE IInv /\ T!Init
<1>1. /\ printed = 0 /\ holder = "alive" /\ wire = <<>> /\ up = TRUE /\ entry = "alive"
      /\ ring = <<>> /\ deaths = 0 /\ bridge = [b \in Bridge |-> New]
      /\ pane = None /\ shown = <<>> /\ ended = FALSE /\ closed = FALSE
      /\ early = FALSE
  BY DEF Init
<1>2. TypeOK
  <2>1. bridge \in [Bridge -> BridgeState] /\ \A b \in Bridge : ~bridge[b].sub
    BY <1>1, BlankFacts DEF Blank
  <2>2. /\ wire \in Seq(Interval \cup {<<"exit">>}) /\ ring \in Seq(Interval)
        /\ ~(Len(ring) > 1) /\ shown \in Seq(1 .. MaxPrint)
    BY <1>1
  <2>3. printed \in 0 .. MaxPrint /\ deaths \in 0 .. MaxDeaths
    BY <1>1, TermStreamAssumption
  <2>4. /\ holder \in {"alive", "dead", "gone"} /\ entry \in {"later", "none", "alive", "dead"}
        /\ up \in BOOLEAN /\ pane \in Bridge \cup {None} /\ ended \in BOOLEAN
        /\ closed \in BOOLEAN /\ early \in BOOLEAN /\ Serving
    BY <1>1
  <2> QED BY <2>1, <2>2, <2>3, <2>4 DEF TypeOK
<1>3. DaemonInv
  <2>1. Run(<<>>, 0, 0, Final) /\ 0 \in Nat
    BY RunEmpty
  <2>2. Len(<<>>) = 0
    OBVIOUS
  <2> QED BY <1>1, <2>1, <2>2 DEF DaemonInv, Served
<1>4. BridgeInv
  <2>1. Shape(New) /\ ~Has(New.conn, <<"unknown">>)
    BY BlankFacts DEF Shape, Blank, Has
  <2> QED BY <1>1, <2>1 DEF BridgeInv
<1>5. PaneInv
  BY <1>1, BlankFacts DEF PaneInv
<1> QED BY <1>1, <1>2, <1>3, <1>4, <1>5 DEF IInv, T!Init

(* Each step keeps the invariant, and is one of the terminal or a stutter.  *)
LEMMA NextStep ==
  ASSUME IInv, Next
  PROVE IInv' /\ (T!Next \/ UNCHANGED T!vars)
<1>1. CASE DaemonNext
  <2>1. IInv'
    BY <1>1, DaemonReadsInv, SweepInv, DaemonDiesInv, DaemonStartsInv, AdoptsInv DEF DaemonNext
  <2>2. UNCHANGED <<printed, holder, shown, ended, early>>
    BY <1>1 DEF DaemonNext, DaemonReads, Sweep, DaemonDies, DaemonStarts, Adopts
  <2>3. CASE entry # "later" /\ entry' # "later"
    BY <2>1, <2>2, <2>3 DEF T!vars
  <2>4. CASE entry = "later" /\ entry' = "later"
    BY <2>1, <2>2, <2>4 DEF T!vars
  <2>5. CASE entry = "later" /\ entry' # "later"
    BY <2>1, <2>2, <2>5 DEF T!Forget, T!Next
  <2>6. CASE entry # "later" /\ entry' = "later"
    BY <2>1, <2>2, <2>6 DEF T!Forget, T!Next
  <2> QED BY <2>1, <2>3, <2>4, <2>5, <2>6 DEF T!Next
<1>2. CASE Prints
  <2>1. T!Prints
    BY <1>2 DEF Prints, T!Prints
  <2> QED BY <1>2, <2>1, PrintsInv DEF T!Next
<1>3. CASE \E h \in {"dead", "gone"} : Ends(h)
  <2>1. T!End
    BY <1>3 DEF Ends, T!End
  <2> QED BY <1>3, <2>1, EndsInv DEF T!Next
<1>4. CASE HolderLeaves
  <2>1. UNCHANGED T!vars
    BY <1>4 DEF HolderLeaves, T!vars
  <2> QED BY <1>4, <2>1, HolderLeavesInv
<1>5. ASSUME NEW b \in Bridge, Connect(b) PROVE IInv' /\ T!Restart
  <2>1. T!Restart
    BY <1>5 DEF Connect, T!Restart
  <2> QED BY <1>5, <2>1, ConnectInv
<1>6. CASE Read
  BY <1>6, ReadStep DEF T!Next
<1>7. ASSUME NEW shut \in BOOLEAN, Leave(shut) PROVE IInv' /\ UNCHANGED T!vars
  <2>1. UNCHANGED T!vars
    BY <1>7 DEF Leave, T!vars
  <2> QED BY <1>7, <2>1, LeaveInv
<1>8. ASSUME NEW b \in Bridge, BridgeNext(b) PROVE IInv' /\ (T!Ask \/ UNCHANGED T!vars)
  BY <1>8, BridgeStep
<1> QED BY <1>1, <1>2, <1>3, <1>4, <1>5, <1>6, <1>7, <1>8 DEF Next, HolderNext, PaneNext, T!Next

(* However deaths of the daemon, cut connections and late answers fall      *)
(* together: the ring and the wire of a daemon that has adopted the PTY are *)
(* a run up to the last write, with the exit, if there is one, as its last  *)
(* message; what the pane shows, the frames and buffers of its bridge and   *)
(* the wire are one run of the output; and no output reaches a bridge that  *)
(* has attached before the adoption.                                       *)
THEOREM InvariantHolds == Spec => []IInv
<1>1. Init => IInv
  BY InitInv
<1>2. IInv /\ [Next]_vars => IInv'
  <2>1. IInv /\ UNCHANGED vars => IInv'
    <3> SUFFICES ASSUME IInv, UNCHANGED vars PROVE IInv'
      OBVIOUS
    <3>1. UNCHANGED <<printed, holder, wire, up, entry, ring, deaths, bridge,
                      pane, shown, ended, closed, early>>
      BY DEF vars
    <3>2. Final' = Final /\ Allowed' = Allowed
      BY <3>1 DEF Final, Allowed
    <3> QED BY <3>1, <3>2 DEF IInv, TypeOK, DaemonInv, BridgeInv, PaneInv
  <2> QED BY <2>1, NextStep
<1> QED BY <1>1, <1>2, PTL DEF Spec

(* The types of the stream; a ring holds Cap characters, or one chunk; and  *)
(* no connection is subscribed before the daemon has adopted the PTY.       *)
THEOREM TypeCorrect == Spec => []TypeOK
<1>1. IInv => TypeOK
  BY DEF IInv
<1> QED BY <1>1, InvariantHolds, PTL

(* The pane is a terminal: over each connection it shows a run of the       *)
(* output without a gap, a repetition or a change of order, and the end     *)
(* only once the PTY has ended and all of its output has been shown, or, if *)
(* it has shown nothing, after an attach to a daemon that had yet to adopt. *)
THEOREM PaneIsTerminal == Spec => IsTerminal
<1>1. Init => T!Init
  BY InitInv
<1>2. IInv /\ [Next]_vars => [T!Next]_T!vars
  <2>1. UNCHANGED vars => UNCHANGED T!vars
    BY DEF vars, T!vars
  <2> QED BY <2>1, NextStep
<1> QED BY <1>1, <1>2, InvariantHolds, PTL DEF Spec, IsTerminal, T!Spec
=============================================================================
