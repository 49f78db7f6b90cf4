------------------------------ MODULE LogProofs ------------------------------
(***************************************************************************)
(* Proofs about one month of the log, for any number of records, batches   *)
(* and interruptions: a rotation receipt always fits the files next to it, *)
(* no step of recovery, compression or sealing changes what readers may    *)
(* see, the two series are the growing sequences that RetainedLog          *)
(* specifies, a command that reads the month reads all of it, once, and    *)
(* the monitor, which follows its files, skips and repeats no line.        *)
(***************************************************************************)
EXTENDS LogReading, SequenceTheorems, Induction, TLAPS

(***************************************************************************)
(* FlattenSeq: the library evaluates it by a function it chooses.          *)
(***************************************************************************)
\* The function FlattenSeq evaluates: f joins the first n sequences of ss.
Flattens(f, ss, n) ==
  f = [i \in 1..n |-> IF i = 1 THEN ss[i] ELSE f[i - 1] \o ss[i]]

LEMMA FlattenIs ==
  \A ss : FlattenSeq(ss) = IF Len(ss) = 0 THEN ss
                           ELSE (CHOOSE f : Flattens(f, ss, Len(ss)))[Len(ss)]
BY DEF FlattenSeq, Flattens

LEMMA FlattensAt ==
  ASSUME NEW f, NEW ss, NEW n, Flattens(f, ss, n), NEW i \in 1..n
  PROVE  f[i] = IF i = 1 THEN ss[i] ELSE f[i - 1] \o ss[i]
BY Zenon DEF Flattens

LEMMA FlattensExists == \A ss : \A n \in Nat : \E f : Flattens(f, ss, n)
<1> SUFFICES ASSUME NEW ss PROVE \A n \in Nat : \E f : Flattens(f, ss, n)
  OBVIOUS
<1> DEFINE Good == {n \in Nat : \E f : Flattens(f, ss, n)}
<1>1. ASSUME NEW n \in Nat, \A m \in 0..n - 1 : m \in Good PROVE n \in Good
  <2>1. CASE n = 0
    <3> DEFINE none == [i \in 1..0 |-> 0]
    <3>1. none = [i \in 1..n |-> IF i = 1 THEN ss[i] ELSE none[i - 1] \o ss[i]]
      BY <2>1
    <3> HIDE DEF none
    <3> QED  BY <3>1 DEF Flattens
  <2>2. CASE n > 0
    <3>1. PICK g : Flattens(g, ss, n - 1)
      BY <1>1, <2>2
    <3> DEFINE last == IF n = 1 THEN ss[n] ELSE g[n - 1] \o ss[n]
               f == [i \in 1..n |-> IF i < n THEN g[i] ELSE last]
    <3>2. \A i \in 1..n : f[i] = IF i = 1 THEN ss[i] ELSE f[i - 1] \o ss[i]
      <4> TAKE i \in 1..n
      <4>1. CASE i = n
        <5>1. n > 1 => f[n - 1] = g[n - 1]
          BY <2>2
        <5> QED  BY <4>1, <5>1, <2>2
      <4>2. CASE i < n
        <5>1. g[i] = IF i = 1 THEN ss[i] ELSE g[i - 1] \o ss[i]
          <6>1. i \in 1..n - 1
            BY <4>2
          <6> QED  BY <3>1, <6>1, FlattensAt
        <5>2. i > 1 => f[i - 1] = g[i - 1]
          BY <4>2
        <5>3. f[i] = g[i]
          BY <4>2
        <5> HIDE DEF f, last
        <5> QED  BY <5>1, <5>2, <5>3
      <4> QED  BY <4>1, <4>2
    <3>3. f = [i \in 1..n |-> f[i]]
      OBVIOUS
    <3> HIDE DEF f
    <3>4. Flattens(f, ss, n)
      BY <3>2, <3>3 DEF Flattens
    <3> QED  BY <3>4
  <2> QED  BY <2>1, <2>2
<1> HIDE DEF Good
<1>2. Nat \subseteq Good
  BY <1>1, NaturalInduction
<1> USE DEF Good
<1> QED  BY <1>2

\* What it joins depends on the sequences joined so far only.
LEMMA FlattensAgree ==
  ASSUME NEW ss, NEW tt, NEW f, NEW g, NEW n \in Nat, NEW m,
         Flattens(f, ss, n), Flattens(g, tt, m), m = n + 1,
         \A i \in 1..n : ss[i] = tt[i]
  PROVE  \A i \in 1..n : f[i] = g[i]
<1> DEFINE Good == {i \in Nat : i \in 1..n => f[i] = g[i]}
<1>1. ASSUME NEW i \in Nat, \A j \in 0..i - 1 : j \in Good PROVE i \in Good
  <2> SUFFICES ASSUME i \in 1..n PROVE f[i] = g[i]
    OBVIOUS
  <2>1. /\ f[i] = IF i = 1 THEN ss[i] ELSE f[i - 1] \o ss[i]
        /\ g[i] = IF i = 1 THEN tt[i] ELSE g[i - 1] \o tt[i]
    <3>1. i \in 1..n /\ i \in 1..m
      OBVIOUS
    <3> QED  BY <3>1, FlattensAt
  <2>2. i # 1 => f[i - 1] = g[i - 1]
    <3> HAVE i # 1
    <3>1. i - 1 \in 0..i - 1 /\ i - 1 \in 1..n
      OBVIOUS
    <3> QED  BY <1>1, <3>1
  <2> HIDE DEF Good
  <2> QED  BY <2>1, <2>2
<1> HIDE DEF Good
<1>2. Nat \subseteq Good
  BY <1>1, NaturalInduction
<1> USE DEF Good
<1> QED  BY <1>2

\* FlattenSeq joins one sequence after the other.
LEMMA FlattenAppend ==
  ASSUME NEW T, NEW ss \in Seq(Seq(T)), NEW t \in Seq(T)
  PROVE  FlattenSeq(Append(ss, t)) = IF ss = << >> THEN t ELSE FlattenSeq(ss) \o t
<1> DEFINE all == Append(ss, t)
           n == Len(ss)
           f == CHOOSE f : Flattens(f, all, n + 1)
           g == CHOOSE g : Flattens(g, ss, n)
<1>1. /\ n \in Nat /\ Len(all) = n + 1 /\ all[n + 1] = t
      /\ \A i \in 1..n : all[i] = ss[i]
  BY AppendProperties, LenProperties
<1>2. FlattenSeq(all) = f[n + 1]
  <2> HIDE DEF all
  <2> QED  BY <1>1, FlattenIs
<1>3. Flattens(f, all, n + 1) /\ Flattens(g, ss, n)
  <2>1. (\E h : Flattens(h, all, n + 1)) /\ \E h : Flattens(h, ss, n)
    <3>1. n \in Nat /\ n + 1 \in Nat
      BY <1>1
    <3> HIDE DEF n, all
    <3> QED  BY <3>1, FlattensExists
  <2> QED  BY <2>1, Zenon
<1>4. f[n + 1] = IF n + 1 = 1 THEN all[n + 1] ELSE f[n] \o all[n + 1]
  <2>1. n + 1 \in 1..n + 1 /\ (n + 1) - 1 = n
    BY <1>1
  <2> HIDE DEF f, all, n
  <2> QED  BY <1>1, <1>3, <2>1, FlattensAt
<1>5. CASE ss = << >>
  <2>1. n = 0
    BY <1>5
  <2> HIDE DEF f, all, n
  <2> QED  BY <1>1, <1>2, <1>4, <1>5, <2>1 DEF all
<1>6. CASE ss # << >>
  <2>1. n > 0
    BY <1>1, <1>6, EmptySeq
  <2>2. f[n] = g[n]
    <3> HIDE DEF f, g, all, n
    <3>1. \A i \in 1..n : g[i] = f[i]
      <4>1. n \in Nat /\ \A i \in 1..n : ss[i] = all[i]
        BY <1>1
      <4>2. PICK m : m = n + 1
        OBVIOUS
      <4>3. Flattens(f, all, m) /\ Flattens(g, ss, n)
        BY <1>3, <4>2
      <4> QED  BY <4>1, <4>2, <4>3, FlattensAgree
    <3> QED  BY <1>1, <2>1, <3>1
  <2>3. FlattenSeq(ss) = g[n]
    BY <1>1, <2>1, FlattenIs
  <2> HIDE DEF f, g, all, n
  <2> QED  BY <1>1, <1>2, <1>4, <1>6, <2>1, <2>2, <2>3 DEF all
<1> QED  BY <1>5, <1>6

LEMMA FlattenEmpty == FlattenSeq(<< >>) = << >>
BY FlattenIs

LEMMA FlattenType ==
  ASSUME NEW T
  PROVE  \A ss \in Seq(Seq(T)) : FlattenSeq(ss) \in Seq(T)
<1> DEFINE Good == {ss \in Seq(Seq(T)) : FlattenSeq(ss) \in Seq(T)}
<1>1. << >> \in Good
  BY FlattenEmpty, EmptySeq
<1>2. ASSUME NEW ss \in Seq(Seq(T)), NEW t \in Seq(T), ss \in Good
      PROVE  Append(ss, t) \in Good
  <2>1. Append(ss, t) \in Seq(Seq(T))
    BY AppendProperties
  <2>2. FlattenSeq(Append(ss, t)) \in Seq(T)
    BY <1>2, FlattenAppend, ConcatProperties
  <2> QED  BY <2>1, <2>2
<1> HIDE DEF Good
<1>3. Seq(Seq(T)) \subseteq Good
  BY <1>1, <1>2, SequenceInduction
<1> USE DEF Good
<1> QED  BY <1>3

LEMMA FlattenWith ==
  ASSUME NEW T, NEW ss \in Seq(Seq(T)), NEW t \in Seq(T)
  PROVE  FlattenSeq(Append(ss, t)) = FlattenSeq(ss) \o t
<1>1. CASE ss = << >>
  BY <1>1, FlattenAppend, FlattenEmpty, ConcatEmptySeq
<1> QED  BY <1>1, FlattenAppend

Trio(E, p, q, r) == p \in Seq(E) /\ q \in Seq(E) /\ r \in Seq(E)

Regroups(p, q, r) == (p \o q) \o r = p \o (q \o r)

LEMMA Associative == \A E, p, q, r : Trio(E, p, q, r) => Regroups(p, q, r)
<1> TAKE E, p, q, r
<1> HAVE Trio(E, p, q, r)
<1>1. p \in Seq(E) /\ q \in Seq(E) /\ r \in Seq(E)
  BY DEF Trio
<1>2. (p \o q) \o r = p \o (q \o r)
  BY <1>1, ConcatAssociative, SMTT(30)
<1> QED
  BY <1>2 DEF Regroups

\* The first sequence comes first.
LEMMA FlattenTail ==
  ASSUME NEW T
  PROVE  \A ss \in Seq(Seq(T)) : ss # << >> =>
           FlattenSeq(ss) = Head(ss) \o FlattenSeq(Tail(ss))
<1> DEFINE Good == {ss \in Seq(Seq(T)) :
             ss # << >> => FlattenSeq(ss) = Head(ss) \o FlattenSeq(Tail(ss))}
<1>1. << >> \in Good
  BY EmptySeq
<1>2. ASSUME NEW ss \in Seq(Seq(T)), NEW t \in Seq(T), ss \in Good
      PROVE  Append(ss, t) \in Good
  <2>1. Append(ss, t) \in Seq(Seq(T))
    BY AppendProperties
  <2>2. CASE ss = << >>
    <3>1. Head(Append(ss, t)) = t /\ Tail(Append(ss, t)) = << >>
      BY <2>2, HeadTailAppend
    <3>2. FlattenSeq(Append(ss, t)) = t
      BY <2>2, FlattenAppend
    <3>3. t \o << >> = t
      BY ConcatEmptySeq
    <3> QED  BY <2>1, <3>1, <3>2, <3>3, FlattenEmpty
  <2>3. CASE ss # << >>
    <3> DEFINE h == Head(ss)
               r == Tail(ss)
    <3>1. h \in Seq(T) /\ r \in Seq(Seq(T))
      BY <2>3, HeadTailProperties
    <3>2. Head(Append(ss, t)) = h /\ Tail(Append(ss, t)) = Append(r, t)
      BY <2>3, HeadTailAppend
    <3>3. FlattenSeq(ss) = h \o FlattenSeq(r)
      BY <1>2, <2>3
    <3>4. FlattenSeq(r) \in Seq(T)
      BY <3>1, FlattenType
    <3> HIDE DEF h, r
    <3>5. FlattenSeq(Append(ss, t)) = (h \o FlattenSeq(r)) \o t
      BY <3>3, FlattenWith
    <3>6. FlattenSeq(Append(r, t)) = FlattenSeq(r) \o t
      BY <3>1, FlattenWith
    <3>7. (h \o FlattenSeq(r)) \o t = h \o (FlattenSeq(r) \o t)
      <4>1. FlattenSeq(r) \in Seq(T)
        BY <3>4
      <4>2. Trio(T, h, FlattenSeq(r), t)
        BY <3>1, <4>1 DEF Trio
      <4>3. Regroups(h, FlattenSeq(r), t)
        BY <4>2, Associative, Zenon
      <4> QED  BY <4>3 DEF Regroups
    <3> QED  BY <2>1, <3>2, <3>5, <3>6, <3>7
  <2> QED  BY <2>2, <2>3
<1> HIDE DEF Good
<1>3. Seq(Seq(T)) \subseteq Good
  BY <1>1, <1>2, SequenceInduction
<1> USE DEF Good
<1> QED  BY <1>3

\* Sequences of one element each.
LEMMA FlattenSingles ==
  ASSUME NEW T
  PROVE  \A ss \in Seq(Seq(T)) : (\A i \in 1..Len(ss) : Len(ss[i]) = 1) =>
           FlattenSeq(ss) = [i \in 1..Len(ss) |-> ss[i][1]]
<1> DEFINE Single(ss) == \A i \in 1..Len(ss) : Len(ss[i]) = 1
           Good == {ss \in Seq(Seq(T)) : Single(ss) =>
                      /\ Len(FlattenSeq(ss)) = Len(ss)
                      /\ \A i \in 1..Len(ss) : FlattenSeq(ss)[i] = ss[i][1]}
<1>1. << >> \in Good
  BY FlattenEmpty, EmptySeq
<1>2. ASSUME NEW ss \in Seq(Seq(T)), NEW t \in Seq(T), ss \in Good
      PROVE  Append(ss, t) \in Good
  <2>1. /\ Append(ss, t) \in Seq(Seq(T)) /\ Len(ss) \in Nat
        /\ Len(Append(ss, t)) = Len(ss) + 1 /\ Append(ss, t)[Len(ss) + 1] = t
        /\ \A i \in 1..Len(ss) : Append(ss, t)[i] = ss[i]
    BY AppendProperties, LenProperties
  <2> SUFFICES ASSUME Single(Append(ss, t))
               PROVE  /\ Len(FlattenSeq(Append(ss, t))) = Len(ss) + 1
                      /\ \A i \in 1..Len(ss) + 1 :
                           FlattenSeq(Append(ss, t))[i] = Append(ss, t)[i][1]
    BY <2>1
  <2>2. Len(t) = 1
    BY <2>1
  <2>3. Single(ss)
    <3> SUFFICES ASSUME NEW i \in 1..Len(ss) PROVE Len(ss[i]) = 1
      OBVIOUS
    <3>1. i \in 1..Len(Append(ss, t)) /\ Append(ss, t)[i] = ss[i]
      BY <2>1
    <3> QED  BY <3>1
  <2>4. /\ FlattenSeq(ss) \in Seq(T) /\ Len(FlattenSeq(ss)) = Len(ss)
        /\ \A i \in 1..Len(ss) : FlattenSeq(ss)[i] = ss[i][1]
    BY <1>2, <2>3, FlattenType
  <2>5. FlattenSeq(Append(ss, t)) = FlattenSeq(ss) \o t
    BY FlattenWith
  <2>6. /\ Len(FlattenSeq(ss) \o t) = Len(ss) + 1
        /\ \A i \in 1..Len(ss) + 1 : (FlattenSeq(ss) \o t)[i] =
             IF i <= Len(ss) THEN FlattenSeq(ss)[i] ELSE t[i - Len(ss)]
    BY <2>2, <2>4, ConcatProperties
  <2>7. \A i \in 1..Len(ss) + 1 : (FlattenSeq(ss) \o t)[i] = Append(ss, t)[i][1]
    <3> TAKE i \in 1..Len(ss) + 1
    <3>1. CASE i = Len(ss) + 1
      BY <2>1, <2>6, <3>1
    <3>2. CASE i # Len(ss) + 1
      <4>1. i \in 1..Len(ss) /\ i <= Len(ss)
        BY <2>1, <3>2
      <4> QED  BY <2>1, <2>4, <2>6, <4>1
    <3> QED  BY <3>1, <3>2
  <2> QED  BY <2>5, <2>6, <2>7
<1> HIDE DEF Good
<1>3. Seq(Seq(T)) \subseteq Good
  BY <1>1, <1>2, SequenceInduction
<1> USE DEF Good
<1> SUFFICES ASSUME NEW ss \in Seq(Seq(T)), Single(ss)
             PROVE  FlattenSeq(ss) = [i \in 1..Len(ss) |-> ss[i][1]]
  OBVIOUS
<1>4. /\ FlattenSeq(ss) \in Seq(T) /\ Len(FlattenSeq(ss)) = Len(ss)
      /\ \A i \in 1..Len(ss) : FlattenSeq(ss)[i] = ss[i][1]
  BY <1>3, FlattenType
<1>5. FlattenSeq(ss) \in [1..Len(ss) -> T]
  BY <1>4, LenProperties
<1> QED  BY <1>4, <1>5
-----------------------------------------------------------------------------
(***************************************************************************)
(* Joining texts: the lines by their place, then associativity.            *)
(***************************************************************************)
Shared(s, t) == IF t # << >> /\ EndsTorn(s) THEN 1 ELSE 0

\* The n lines of x are those of a, of length la, then those of b, of length
\* lb, but the last k of a and the first k of b are one line, `end`.
Spliced(x, n, a, la, k, end, b, lb) ==
  /\ la \in Nat /\ lb \in Nat /\ k \in {0, 1} /\ k <= la /\ k <= lb
  /\ n = la + lb - k
  /\ \A i \in 1..n : x[i] = IF i < la + 1 - k THEN a[i]
                            ELSE IF i = la THEN end ELSE b[i - la + k]

LEMMA JoinElements ==
  ASSUME NEW s \in Seq(Int), NEW t \in Seq(Int)
  PROVE  /\ Join(s, t) \in Seq(Int)
         /\ Spliced(Join(s, t), Len(Join(s, t)),
                    s, Len(s), Shared(s, t), Ended(t[1]), t, Len(t))
<1> Len(s) \in Nat /\ Len(t) \in Nat
  BY LenProperties
<1>1. CASE t # << >> /\ EndsTorn(s)
  <2> DEFINE first == [s EXCEPT ![Len(s)] = Ended(t[1])]
  <2>1. Len(s) \in 1..Len(s) /\ Len(t) > 0
    BY <1>1, EmptySeq DEF EndsTorn
  <2>2. Ended(t[1]) \in Int
    BY DEF Ended, Torn, Junk
  <2>3. /\ first \in Seq(Int) /\ Len(first) = Len(s)
        /\ \A j \in 1..Len(s) : first[j] = IF j = Len(s) THEN Ended(t[1]) ELSE s[j]
    BY <2>1, <2>2, ExceptSeq
  <2>4. /\ Tail(t) \in Seq(Int) /\ Len(Tail(t)) = Len(t) - 1
        /\ \A i \in 1..Len(Tail(t)) : Tail(t)[i] = t[i + 1]
    BY <1>1, HeadTailProperties
  <2> HIDE DEF first
  <2>50. \A a, b \in Seq(Int) :
           /\ a \o b \in Seq(Int) /\ Len(a \o b) = Len(a) + Len(b)
           /\ \A i \in 1..Len(a) + Len(b) :
                (a \o b)[i] = IF i <= Len(a) THEN a[i] ELSE b[i - Len(a)]
    BY ConcatProperties
  <2>5. /\ first \o Tail(t) \in Seq(Int)
        /\ Len(first \o Tail(t)) = Len(first) + Len(Tail(t))
        /\ \A i \in 1..Len(first) + Len(Tail(t)) : (first \o Tail(t))[i] =
             IF i <= Len(first) THEN first[i] ELSE Tail(t)[i - Len(first)]
    BY ONLY <2>3, <2>4, <2>50, Zenon
  <2>6. Join(s, t) = first \o Tail(t) /\ Shared(s, t) = 1
    BY <1>1 DEF Join, Shared, first
  <2>7. Len(Join(s, t)) = Len(s) + Len(t) - 1
    BY <2>3, <2>4, <2>5, <2>6
  <2>8. \A i \in 1..Len(Join(s, t)) :
           Join(s, t)[i] = IF i < Len(s) + 1 - 1 THEN s[i]
                           ELSE IF i = Len(s) THEN Ended(t[1]) ELSE t[i - Len(s) + 1]
    <3> SUFFICES ASSUME NEW i \in 1..Len(Join(s, t))
                 PROVE  Join(s, t)[i] = IF i < Len(s) THEN s[i]
                           ELSE IF i = Len(s) THEN Ended(t[1]) ELSE t[i - Len(s) + 1]
      OBVIOUS
    <3>1. CASE i <= Len(s)
      BY <2>1, <2>3, <2>4, <2>5, <2>6, <3>1, SMTT(30)
    <3>2. CASE i > Len(s)
      <4>1. i - Len(s) \in 1..Len(Tail(t))
        BY <2>4, <2>7, <3>2
      <4> QED
        BY <2>3, <2>4, <2>5, <2>6, <2>7, <3>2, <4>1
    <3> QED
      BY <3>1, <3>2
  <2>9. Join(s, t) \in Seq(Int) /\ 1 <= Len(s) /\ 1 <= Len(t)
    BY <2>1, <2>5, <2>6
  <2> QED
    BY ONLY <2>6, <2>7, <2>8, <2>9, Len(s) \in Nat /\ Len(t) \in Nat DEF Spliced
<1>2. CASE ~(t # << >> /\ EndsTorn(s))
  <2>1. Join(s, t) = s \o t /\ Shared(s, t) = 0
    BY <1>2 DEF Join, Shared
  <2> QED
    BY <2>1, ConcatProperties DEF Spliced
<1> QED
  BY <1>1, <1>2

LEMMA JoinEmpty ==
  ASSUME NEW s \in Seq(Int)
  PROVE  Join(s, << >>) = s /\ Join(<< >>, s) = s
<1>1. Join(s, << >>) = s \o << >> /\ Join(<< >>, s) = << >> \o s
  BY DEF Join, EndsTorn
<1> QED
  BY <1>1, ConcatEmptySeq

\* Where the lines of a text come from, in numbers.
LEMMA EndPlaces ==
  \A s, t, st, ls, lt, lst, k, et : lt > 0 /\ Spliced(st, lst, s, ls, k, et, t, lt) =>
    /\ lst > 0
    /\ lt = 1 /\ k = 1 => st[lst] = et
    /\ lt > 1 \/ k = 0 => st[lst] = t[lt]
    /\ ls > 1 \/ (ls = 1 /\ k = 0) => st[1] = s[1]
    /\ ls = 1 /\ k = 1 => st[1] = et
<1> TAKE s, t, st, ls, lt, lst, k, et
<1> HAVE lt > 0 /\ Spliced(st, lst, s, ls, k, et, t, lt)
<1>1. CASE k = 0
  BY <1>1 DEF Spliced
<1>2. CASE k = 1
  BY <1>2 DEF Spliced
<1> QED
  BY <1>1, <1>2 DEF Spliced

\* A line comes from the same text in whatever order three texts are joined.
LEMMA Places ==
  \A s, t, u, st, tu, x, y, ls, lt, lu, lst, ltu, n, p, k, m, et, eu, etu :
    /\ lt > 0 /\ lu > 0
    /\ Spliced(st, lst, s, ls, k, et, t, lt) /\ Spliced(tu, ltu, t, lt, m, eu, u, lu)
    /\ Spliced(x, n, s, ls, k, etu, tu, ltu) /\ Spliced(y, p, st, lst, m, eu, u, lu)
    /\ lt = 1 /\ m = 1 => etu = eu
    /\ lt > 1 \/ m = 0 => etu = et
   => n = p /\ \A i \in 1..n : x[i] = y[i]
<1> TAKE s, t, u, st, tu, x, y, ls, lt, lu, lst, ltu, n, p, k, m, et, eu, etu
<1> HAVE /\ lt > 0 /\ lu > 0
         /\ Spliced(st, lst, s, ls, k, et, t, lt) /\ Spliced(tu, ltu, t, lt, m, eu, u, lu)
         /\ Spliced(x, n, s, ls, k, etu, tu, ltu) /\ Spliced(y, p, st, lst, m, eu, u, lu)
         /\ lt = 1 /\ m = 1 => etu = eu
         /\ lt > 1 \/ m = 0 => etu = et
<1>1. CASE k = 0 /\ m = 0
  BY <1>1 DEF Spliced
<1>2. CASE k = 0 /\ m = 1
  BY <1>2 DEF Spliced
<1>3. CASE k = 1 /\ m = 0
  BY <1>3 DEF Spliced
<1>4. CASE k = 1 /\ m = 1
  BY <1>4 DEF Spliced
<1> QED
  BY <1>1, <1>2, <1>3, <1>4 DEF Spliced

LEMMA JoinAssociative ==
  ASSUME NEW s \in Seq(Int), NEW t \in Seq(Int), NEW u \in Seq(Int)
  PROVE  Join(s, Join(t, u)) = Join(Join(s, t), u)
<1> DEFINE tu == Join(t, u)
           st == Join(s, t)
           k  == Shared(s, t)
           m  == Shared(t, u)
<1>1. tu \in Seq(Int) /\ st \in Seq(Int)
  BY JoinElements
<1>2. CASE t = << >> \/ u = << >>
  BY <1>2, <1>1, JoinEmpty
<1>3. CASE t # << >> /\ u # << >>
  <2> DEFINE lt == Len(t)
  <2>1. lt > 0 /\ Len(u) > 0
    BY <1>3, EmptySeq, LenProperties
  <2>2. /\ Spliced(st, Len(st), s, Len(s), k, Ended(t[1]), t, lt)
        /\ Spliced(tu, Len(tu), t, lt, m, Ended(u[1]), u, Len(u))
    BY JoinElements
  <2>3. /\ Join(s, tu) \in Seq(Int) /\ Join(st, u) \in Seq(Int)
        /\ Spliced(Join(s, tu), Len(Join(s, tu)), s, Len(s), Shared(s, tu),
                   Ended(tu[1]), tu, Len(tu))
        /\ Spliced(Join(st, u), Len(Join(st, u)), st, Len(st), Shared(st, u),
                   Ended(u[1]), u, Len(u))
    BY <1>1, JoinElements
  <2> HIDE DEF tu, st, k, m, lt
  <2>4. /\ Len(st) > 0
        /\ lt = 1 /\ k = 1 => st[Len(st)] = Ended(t[1])
        /\ lt > 1 \/ k = 0 => st[Len(st)] = t[lt]
    BY <2>1, <2>2, EndPlaces
  <2>5. /\ Len(tu) > 0
        /\ lt > 1 \/ (lt = 1 /\ m = 0) => tu[1] = t[1]
        /\ lt = 1 /\ m = 1 => tu[1] = Ended(u[1])
    BY <2>1, <2>2, EndPlaces
  <2>6. /\ st # << >> /\ tu # << >>
        /\ EndsTorn(st) <=> st[Len(st)] = Torn
        /\ EndsTorn(t) <=> t[lt] = Torn
    BY <1>1, <1>3, <2>4, <2>5, EmptySeq DEF EndsTorn, lt
  <2>7. lt \in Nat /\ k \in {0, 1} /\ m \in {0, 1}
    BY <2>2 DEF Spliced
  <2>8. EndsTorn(st) <=> EndsTorn(t)
    <3>1. Ended(t[1]) = Torn <=> t[1] = Torn
      BY DEF Ended, Torn, Junk
    <3> QED
      <4>1. CASE lt = 1 /\ k = 1
        BY <2>4, <2>6, <3>1, <4>1
      <4>2. CASE lt > 1 \/ k = 0
        BY <2>4, <2>6, <4>2
      <4> QED
        BY <2>1, <2>7, <4>1, <4>2
  <2>9. Shared(s, tu) = k /\ Shared(st, u) = m
    BY <1>3, <2>6, <2>8 DEF Shared, k, m
  <2>10. /\ lt = 1 /\ m = 1 => Ended(tu[1]) = Ended(u[1])
         /\ lt > 1 \/ m = 0 => Ended(tu[1]) = Ended(t[1])
    <3>1. CASE lt = 1 /\ m = 1
      <4>1. tu[1] = Ended(u[1])
        BY <2>5, <3>1
      <4>2. Ended(Ended(u[1])) = Ended(u[1])
        BY DEF Ended, Torn, Junk
      <4> QED
        BY <3>1, <4>1, <4>2
    <3>2. CASE lt > 1 \/ m = 0
      <4>1. tu[1] = t[1]
        BY <2>1, <2>5, <2>7, <3>2
      <4> QED
        BY <2>7, <3>2, <4>1
    <3> QED
      BY <2>1, <2>7, <3>1, <3>2
  <2>11. /\ Len(Join(s, tu)) = Len(Join(st, u))
         /\ \A i \in 1..Len(Join(s, tu)) : Join(s, tu)[i] = Join(st, u)[i]
    <3>1. /\ Spliced(Join(s, tu), Len(Join(s, tu)), s, Len(s), k, Ended(tu[1]),
                     tu, Len(tu))
          /\ Spliced(Join(st, u), Len(Join(st, u)), st, Len(st), m, Ended(u[1]),
                     u, Len(u))
      BY <2>3, <2>9
    <3> QED
      BY <2>1, <2>2, <2>10, <3>1, Places
  <2> QED
    BY <2>3, <2>11, SeqEqual DEF tu, st
<1> QED
  BY <1>2, <1>3

LEMMA JoinWrite ==
  ASSUME NEW s \in Seq(Int), NEW t \in Seq(Int), NEW line \in Int
  PROVE  Join(s, Write(t, line)) = Write(Join(s, t), line)
<1>1. <<line>> \in Seq(Int)
  OBVIOUS
<1> QED
  BY <1>1, JoinAssociative DEF Write
-----------------------------------------------------------------------------
(***************************************************************************)
(* The inductive invariant.                                                *)
(***************************************************************************)
\* The archive is published.
Applied(c, r) == /\ Checksum(archive[c]) = {r.target}
                 /\ Checksum(plain[c]) \subseteq {r.source}

\* The archive it prepares holds all there is, and no batch of it twice.
Prepared(c, r) == /\ Checksum(archive[c]) = r.archive
                  /\ Checksum(plain[c]) = {r.source}
                  /\ r.target = Join(Text(archive[c]), Text(plain[c]))

ReceiptInv == \A c \in Components :
  /\ \A r, q \in receipt[c] : r = q
  /\ \A r \in receipt[c] : Applied(c, r) \/ Prepared(c, r)

\* No two names share a file that is written to.
FileInv == \A c, d \in Components : plain[c] # NoFile =>
  /\ plain[c] = plain[d] => c = d
  /\ plain[c] # archive[d]

JournalInv ==
  /\ ~EndsTorn(Text(plain[Journal]))
  /\ ~Committed(Journal) =>
       \A b \in 1..MaxBatches : ~(HasLine(archive[Journal], b) /\ HasLine(plain[Journal], b))

Compressing == pc \in {"compress", "publish", "unlink", "retire"}

\* The writer settles every receipt of its series before it appends.
PlaceInv == pc # "idle" =>
  /\ \A c \in work : SeriesOf(c) = series
  /\ \A c \in Components : SeriesOf(c) = series /\ receipt[c] # {} =>
       c \in work \/ (Compressing /\ c = target)
  /\ pc \in {"seal", "append"} => work = {}
  /\ Compressing => /\ SeriesOf(target) = series /\ resume \in {"rotate", "append"}
                    /\ resume = "append" => work = {}

\* A month with segments has no archive of its own in preparation.
SegmentInv == receipt[Month] # {} \/ (Compressing /\ target = Month) => SegmentNumbers = {}

StepInv ==
  /\ pc = "publish" => \E r \in receipt[target] : Prepared(target, r)
  /\ pc \in {"unlink", "retire"} => Committed(target)
  /\ pc = "retire" => plain[target] = NoFile

IInv == /\ TypeOK /\ ReceiptInv /\ FileInv /\ JournalInv
        /\ PlaceInv /\ SegmentInv /\ StepInv
-----------------------------------------------------------------------------
(***************************************************************************)
(* Files.                                                                  *)
(***************************************************************************)
LEMMA ComponentNames ==
  /\ Month \in Components /\ Journal \in Components /\ Segments \subseteq Components
  /\ Month # Journal /\ Month \notin Segments /\ Journal \notin Segments
  /\ \A c \in Components : c = Month \/ c = Journal \/ c \in Segments
  /\ \A c \in Components : SeriesOf(c) = "journal" <=> c = Journal
  /\ \A c \in Components : SeriesOf(c) \in {"general", "journal"}
  BY DEF Components, Month, Journal, Segments, SeriesOf

LEMMA NewFile ==
  \A files, x : files \in Seq(Texts) /\ x \in Texts =>
    /\ Append(files, x) \in Seq(Texts)
    /\ Len(files) \in Nat /\ Len(Append(files, x)) = Len(files) + 1
    /\ \A i \in 1..Len(files) : Append(files, x)[i] = files[i]
    /\ Append(files, x)[Len(files) + 1] = x
<1> TAKE files, x
<1> HAVE files \in Seq(Texts) /\ x \in Texts
<1> QED
  BY AppendProperties, LenProperties

LEMMA ChangedFile ==
  \A files, f, x : files \in Seq(Texts) /\ f \in 1..Len(files) /\ x \in Texts =>
    /\ [files EXCEPT ![f] = x] \in Seq(Texts)
    /\ Len([files EXCEPT ![f] = x]) = Len(files)
    /\ \A i \in 1..Len(files) :
         [files EXCEPT ![f] = x][i] = IF i = f THEN x ELSE files[i]
<1> TAKE files, f, x
<1> HAVE files \in Seq(Texts) /\ f \in 1..Len(files) /\ x \in Texts
<1> QED
  BY ExceptSeq

LEMMA TextType ==
  ASSUME TypeOK
  PROVE  /\ Len(text) \in Nat
         /\ \A f \in 0..Len(text) : Text(f) \in Texts
         /\ \A c \in Components : Text(plain[c]) \in Texts /\ Text(archive[c]) \in Texts
<1> USE DEF TypeOK
<1>1. /\ Len(text) \in Nat
      /\ \A i \in 1..Len(text) : text[i] \in Texts
  BY LenProperties, ElementOfSeq
<1>2. << >> \in Texts
  BY DEF Texts
<1>3. \A f \in 0..Len(text) : Text(f) \in Texts
  BY <1>1, <1>2 DEF Text, NoFile
<1> QED
  BY <1>1, <1>3

LEMMA JoinTexts ==
  ASSUME NEW s \in Texts, NEW t \in Texts
  PROVE  Join(s, t) \in Texts
  BY JoinElements DEF Texts

\* compress_log drops no line, as long as the archive is not the rotated file.
LEMMA NothingRepeated ==
  ASSUME JournalInv, NEW c \in Components, ~Committed(c)
  PROVE  Unarchived(c) = Text(plain[c])
  BY DEF JournalInv, Unarchived
-----------------------------------------------------------------------------
(***************************************************************************)
(* What a step leaves alone.                                               *)
(***************************************************************************)
KeptPlain(c)   == Text(plain[c])' = Text(plain[c]) /\ Checksum(plain[c])' = Checksum(plain[c])
KeptArchive(c) == /\ Text(archive[c])' = Text(archive[c])
                  /\ Checksum(archive[c])' = Checksum(archive[c])
Kept3(c)       == KeptPlain(c) /\ KeptArchive(c) /\ receipt'[c] = receipt[c]

LEMMA SameTextKeeps ==
  ASSUME NEW c \in Components, text' = text
  PROVE  /\ plain'[c] = plain[c] => KeptPlain(c)
         /\ archive'[c] = archive[c] => KeptArchive(c)
  BY DEF KeptPlain, KeptArchive, Text, Checksum

LEMMA NewFileKeeps ==
  ASSUME TypeOK, NEW x \in Texts, text' = Append(text, x), NEW c \in Components
  PROVE  /\ plain'[c] = plain[c] => KeptPlain(c)
         /\ archive'[c] = archive[c] => KeptArchive(c)
<1>1. \A i \in 1..Len(text) : text'[i] = text[i]
  BY NewFile DEF TypeOK
<1>2. plain[c] \in 0..Len(text) /\ archive[c] \in 0..Len(text) /\ Len(text) \in Nat
  BY TextType DEF TypeOK
<1>3. /\ plain[c] # NoFile => text'[plain[c]] = text[plain[c]]
      /\ archive[c] # NoFile => text'[archive[c]] = text[archive[c]]
  BY <1>1, <1>2 DEF NoFile
<1> QED
  BY <1>3 DEF KeptPlain, KeptArchive, Text, Checksum

LEMMA ChangedFileKeeps ==
  ASSUME TypeOK, FileInv, NEW x \in Texts, NEW d \in Components, plain[d] # NoFile,
         text' = [text EXCEPT ![plain[d]] = x], plain' = plain, archive' = archive
  PROVE  /\ \A c \in Components \ {d} : KeptPlain(c)
         /\ \A c \in Components : KeptArchive(c)
         /\ Text(plain[d])' = x
<1>1. plain[d] \in 1..Len(text)
  BY TextType DEF TypeOK, NoFile
<1>2. /\ \A i \in 1..Len(text) : i # plain[d] => text'[i] = text[i]
      /\ text'[plain[d]] = x
  BY <1>1, ChangedFile DEF TypeOK
<1>3. \A c \in Components : /\ plain[c] \in 0..Len(text) /\ archive[c] \in 0..Len(text)
                            /\ plain[d] # archive[c] /\ (c # d => plain[d] # plain[c])
  BY DEF TypeOK, FileInv
<1>4. \A c \in Components :
        /\ plain[c] # NoFile /\ c # d => text'[plain[c]] = text[plain[c]]
        /\ archive[c] # NoFile => text'[archive[c]] = text[archive[c]]
  BY <1>2, <1>3, TextType DEF NoFile
<1> QED
  BY <1>2, <1>4 DEF KeptPlain, KeptArchive, Text, Checksum

LEMMA KeptComponent ==
  ASSUME NEW c \in Components, Kept3(c)
  PROVE  /\ Committed(c)' <=> Committed(c)
         /\ Held(c)' = Held(c)
         /\ \A r : (Applied(c, r)' <=> Applied(c, r)) /\ (Prepared(c, r)' <=> Prepared(c, r))
  BY DEF Kept3, KeptPlain, KeptArchive, Committed, Held, Applied, Prepared
-----------------------------------------------------------------------------
(***************************************************************************)
(* The types.                                                              *)
(***************************************************************************)
LEMMA AppendToType ==
  ASSUME TypeOK, NEW c \in Components, NEW x \in Texts, AppendTo(c, x)
  PROVE  /\ text' \in Seq(Texts) /\ plain' \in [Components -> 0..Len(text')]
         /\ Len(text') \in Nat /\ Len(text') >= Len(text)
<1>1. CASE plain[c] = NoFile
  <2>1. text' = Append(text, x) /\ plain' = [plain EXCEPT ![c] = Len(text) + 1]
    BY <1>1 DEF AppendTo
  <2>2. /\ text' \in Seq(Texts) /\ Len(text') = Len(text) + 1 /\ Len(text) \in Nat
    BY <2>1, NewFile DEF TypeOK
  <2> QED
    BY <2>1, <2>2 DEF TypeOK
<1>2. CASE plain[c] # NoFile
  <2>1. text' = [text EXCEPT ![plain[c]] = Join(text[plain[c]], x)] /\ plain' = plain
    BY <1>2 DEF AppendTo
  <2>2. plain[c] \in 1..Len(text) /\ text[plain[c]] \in Texts
    BY <1>2, TextType, ElementOfSeq DEF TypeOK, NoFile
  <2>3. text' \in Seq(Texts) /\ Len(text') = Len(text)
    BY <2>1, <2>2, JoinTexts, ChangedFile DEF TypeOK
  <2> QED
    BY <2>1, <2>3, TextType DEF TypeOK
<1> QED
  BY <1>1, <1>2

LEMMA TypeStep ==
  ASSUME IInv, NextRotation
  PROVE  TypeOK'
<1> USE BoundsAssumption, ComponentNames DEF IInv
<1>1. ASSUME NEW s \in Series, NEW line \in Nat, Acquire(s, line), records' \in 0..MaxRecords
      PROVE  TypeOK'
  BY <1>1 DEF TypeOK, Acquire, Due, disk, Labels
<1>2. CASE LogRecord \/ LogElsewhere \/ LogBatch \/ LogNoBatch
  <2>1. records \in Nat /\ records \in 0..MaxRecords /\ pending \in Nat
    BY DEF TypeOK
  <2>2. CASE LogRecord
    BY <1>1, <2>1, <2>2 DEF LogRecord, Series
  <2>3. CASE LogElsewhere
    BY <1>1, <2>1, <2>3 DEF LogElsewhere, Series
  <2>4. CASE LogBatch
    BY <1>1, <2>1, <2>4 DEF LogBatch, Series
  <2>5. CASE LogNoBatch
    BY <1>1, <2>1, <2>5 DEF LogNoBatch, Series
  <2> QED
    BY <1>2, <2>2, <2>3, <2>4, <2>5
<1>3. CASE JournalBatch \/ Acknowledge \/ Abandon \/ PassTime
  <2>1. CASE JournalBatch
    BY <2>1 DEF TypeOK, JournalBatch, disk, call
  <2>2. CASE Acknowledge
    BY <2>2 DEF TypeOK, Acknowledge, disk, call
  <2>3. CASE Abandon
    BY <2>3 DEF TypeOK, Abandon, Release, disk, call, Labels
  <2>4. CASE PassTime
    BY <2>4 DEF TypeOK, PassTime, disk, call, Closed
  <2> QED
    BY <1>3, <2>1, <2>2, <2>3, <2>4
<1>4. ASSUME NEW n \in Segments, NEW after \in {"rotate", "append"}, SealAs(n, after),
             work' \subseteq Components
      PROVE  TypeOK'
  BY <1>4 DEF TypeOK, SealAs, inputs, call, Labels, NoFile
<1>5. CASE RotateTail \/ SealTail
  BY <1>4, <1>5 DEF TypeOK, RotateTail, SealTail
<1>6. CASE \E c \in Components : RotateComponent(c)
  BY <1>6 DEF TypeOK, RotateComponent, disk, inputs, call, Labels
<1>7. CASE KeepTail \/ FinishRotation \/ LeaveTail \/ RetireSource \/ AppendNothing
  BY <1>7 DEF TypeOK, KeepTail, FinishRotation, LeaveTail, RetireSource, AppendNothing,
              Release, disk, inputs, call, Labels
<1>8. CASE WriteReceipt
  <2> DEFINE r == [source |-> Text(plain[target]), archive |-> Checksum(archive[target]),
                   target |-> Join(Text(archive[target]), Unarchived(target))]
  <2>1. Text(plain[target]) \in Texts /\ Text(archive[target]) \in Texts
    BY TextType DEF TypeOK
  <2>2. Unarchived(target) = Text(plain[target])
    BY <1>8, NothingRepeated DEF WriteReceipt, TypeOK
  <2>3. Checksum(archive[target]) \subseteq Texts
    BY <2>1 DEF Checksum, Text
  <2>4. r \in Receipts
    BY <2>1, <2>2, <2>3, JoinTexts DEF Receipts
  <2> QED
    BY <1>8, <2>4 DEF TypeOK, WriteReceipt, inputs, call, Labels
<1>9. CASE PublishArchive
  <2>1. PICK r \in receipt[target] : text' = Append(text, r.target)
    BY <1>9 DEF PublishArchive
  <2>2. r.target \in Texts
    BY <2>1 DEF TypeOK, Receipts
  <2>3. text' \in Seq(Texts) /\ Len(text') = Len(text) + 1 /\ Len(text) \in Nat
    BY <2>1, <2>2, NewFile DEF TypeOK
  <2> QED
    BY <1>9, <2>3 DEF TypeOK, PublishArchive, inputs, call, Labels
<1>10. CASE UnlinkSource \/ UnlinkReceipt
  <2>1. CASE UnlinkSource
    BY <2>1, TextType DEF TypeOK, UnlinkSource, inputs, call, Labels, NoFile
  <2>2. CASE UnlinkReceipt
    BY <2>2 DEF TypeOK, UnlinkReceipt, inputs, call, Labels
  <2> QED
    BY <1>10, <2>1, <2>2
<1>11. CASE AppendRecord \/ TearAppend
  <2>1. PICK x \in Texts : AppendTo(Month, x)
    <3>1. << >> \in Texts /\ <<Torn>> \in Texts /\ <<entry>> \in Texts
      BY DEF Texts, Torn, TypeOK
    <3> QED
      BY <1>11, <3>1 DEF AppendRecord, TearAppend
  <2>2. /\ text' \in Seq(Texts) /\ plain' \in [Components -> 0..Len(text')]
        /\ Len(text') \in Nat /\ Len(text') >= Len(text)
    BY <2>1, AppendToType
  <2> QED
    <3>1. archive \in [Components -> 0..Len(text')]
      BY <2>2, TextType DEF TypeOK
    <3>2. CASE AppendRecord
      BY <2>2, <3>1, <3>2 DEF TypeOK, AppendRecord, Release, inputs, call, Labels
    <3>3. CASE TearAppend
      BY <2>2, <3>1, <3>3 DEF TypeOK, TearAppend, Release, call, Labels
    <3> QED
      BY <1>11, <3>2, <3>3
<1>12. CASE AppendBatch
  <2>1. Append(Text(plain[Journal]), entry) \in Texts
    BY TextType, AppendProperties DEF TypeOK, Texts
  <2>2. text' \in Seq(Texts) /\ Len(text') = Len(text) + 1 /\ Len(text) \in Nat
    BY <1>12, <2>1, NewFile DEF TypeOK, AppendBatch
  <2> QED
    BY <1>12, <2>2 DEF TypeOK, AppendBatch, Release, inputs, call, Labels
<1>13. CASE \E r \in Readers : Share(r) \/ Unshare(r)
  BY <1>13 DEF TypeOK, Share, Unshare, disk, inputs, call
<1> QED
  BY <1>2, <1>3, <1>5, <1>6, <1>7, <1>8, <1>9, <1>10, <1>11, <1>12, <1>13
     DEF NextRotation, NextWriter, StepWriter
-----------------------------------------------------------------------------
(***************************************************************************)
(* The places: which names hold which files, and where the writer is.      *)
(***************************************************************************)
StepsThatKeepDisk ==
  \/ LogRecord \/ LogElsewhere \/ LogBatch \/ LogNoBatch
  \/ JournalBatch \/ Acknowledge \/ Abandon \/ PassTime
  \/ \E c \in Components : RotateComponent(c)
  \/ KeepTail \/ FinishRotation \/ LeaveTail \/ RetireSource \/ AppendNothing
  \/ \E r \in Readers : Share(r) \/ Unshare(r)

LEMMA Steps ==
  ASSUME NextRotation
  PROVE  \/ StepsThatKeepDisk
         \/ RotateTail \/ SealTail
         \/ WriteReceipt \/ PublishArchive \/ UnlinkSource \/ UnlinkReceipt
         \/ AppendRecord \/ TearAppend \/ AppendBatch
  BY DEF NextRotation, NextWriter, StepWriter, StepsThatKeepDisk

LEMMA DiskKept ==
  ASSUME StepsThatKeepDisk
  PROVE  UNCHANGED <<text, plain, archive, receipt>>
  BY DEF StepsThatKeepDisk, LogRecord, LogElsewhere, LogBatch, LogNoBatch, Acquire,
         JournalBatch, Acknowledge, Abandon, PassTime, RotateComponent, KeepTail,
         FinishRotation, LeaveTail, RetireSource, AppendNothing, Share, Unshare, disk

LEMMA AppendToFile ==
  ASSUME TypeOK, FileInv, NEW c \in Components, NEW x \in Texts, AppendTo(c, x),
         archive' = archive
  PROVE  FileInv'
<1>1. CASE plain[c] = NoFile
  <2>1. plain' = [plain EXCEPT ![c] = Len(text) + 1]
    BY <1>1 DEF AppendTo
  <2>2. Len(text) \in Nat
    BY TextType
  <2> QED
    BY <2>1, <2>2 DEF FileInv, TypeOK, NoFile
<1>2. CASE plain[c] # NoFile
  BY <1>2 DEF FileInv, AppendTo
<1> QED
  BY <1>1, <1>2

LEMMA FileStep ==
  ASSUME IInv, NextRotation
  PROVE  FileInv'
<1> USE ComponentNames DEF IInv
<1>1. CASE StepsThatKeepDisk
  BY <1>1, DiskKept DEF FileInv
<1>2. ASSUME NEW n \in Segments, NEW after, SealAs(n, after)
      PROVE  FileInv'
  <2>1. /\ plain' = [plain EXCEPT ![n] = plain[Month], ![Month] = NoFile]
        /\ archive' = archive
    BY <1>2 DEF SealAs
  <2> QED
    BY <2>1 DEF FileInv, TypeOK
<1>3. CASE RotateTail \/ SealTail
  BY <1>2, <1>3 DEF RotateTail, SealTail
<1>4. CASE WriteReceipt \/ UnlinkReceipt
  BY <1>4 DEF FileInv, WriteReceipt, UnlinkReceipt
<1>5. CASE PublishArchive
  <2>1. /\ archive' = [archive EXCEPT ![target] = Len(text) + 1] /\ plain' = plain
    BY <1>5 DEF PublishArchive
  <2>2. Len(text) \in Nat
    BY TextType
  <2> QED
    BY <2>1, <2>2, SMTT(30) DEF FileInv, TypeOK, NoFile
<1>6. CASE UnlinkSource
  BY <1>6 DEF FileInv, UnlinkSource, TypeOK
<1>7. CASE AppendRecord \/ TearAppend
  <2>1. PICK x \in Texts : AppendTo(Month, x)
    <3>1. << >> \in Texts /\ <<Torn>> \in Texts /\ <<entry>> \in Texts
      BY DEF Texts, Torn, TypeOK
    <3> QED
      BY <1>7, <3>1 DEF AppendRecord, TearAppend
  <2> QED
    BY <1>7, <2>1, AppendToFile DEF AppendRecord, TearAppend
<1>8. CASE AppendBatch
  <2>1. /\ plain' = [plain EXCEPT ![Journal] = Len(text) + 1] /\ archive' = archive
    BY <1>8 DEF AppendBatch
  <2>2. Len(text) \in Nat
    BY TextType
  <2> QED
    BY <2>1, <2>2, SMTT(30) DEF FileInv, TypeOK, NoFile
<1> QED
  BY <1>1, <1>3, <1>4, <1>5, <1>6, <1>7, <1>8, Steps

LEMMA PlaceStep ==
  ASSUME IInv, NextRotation
  PROVE  PlaceInv'
<1> USE ComponentNames DEF IInv, PlaceInv, Compressing, disk, inputs, call
<1>1. ASSUME NEW s \in Series, NEW line, Acquire(s, line)
      PROVE  PlaceInv'
  BY <1>1 DEF Acquire, Due
<1>2. CASE LogRecord \/ LogElsewhere \/ LogBatch \/ LogNoBatch
  BY <1>1, <1>2 DEF LogRecord, LogElsewhere, LogBatch, LogNoBatch, Series
<1>3. CASE JournalBatch \/ Acknowledge \/ PassTime
  BY <1>3 DEF JournalBatch, Acknowledge, PassTime
<1>4. CASE \E r \in Readers : Share(r) \/ Unshare(r)
  BY <1>4 DEF Share, Unshare
<1>5. CASE Abandon \/ AppendRecord \/ TearAppend \/ AppendBatch \/ AppendNothing
  BY <1>5 DEF Abandon, AppendRecord, TearAppend, AppendBatch, AppendNothing, Release
<1>6. CASE \E c \in Components : RotateComponent(c)
  BY <1>6 DEF RotateComponent, Visit
<1>7. CASE RotateTail
  <2>1. PICK n \in Segments : SealAs(n, "rotate")
    BY <1>7 DEF RotateTail
  <2>2. work' = {} /\ pc = "rotate" /\ receipt[Month] = {} /\ Month \in work
        /\ \A d \in work \ {Month} : Before(Month, d)
    BY <1>7 DEF RotateTail, SegmentInv, Visit
  <2> QED
    BY <2>1, <2>2 DEF SealAs, Before
<1>8. CASE SealTail
  BY <1>8 DEF SealTail, SealAs
<1>9. CASE KeepTail
  BY <1>9 DEF KeepTail, SegmentInv, Visit, Before
<1>10. CASE FinishRotation \/ LeaveTail \/ RetireSource
  BY <1>10 DEF FinishRotation, LeaveTail, RetireSource
<1>11. CASE WriteReceipt \/ PublishArchive \/ UnlinkSource
  <2>1. /\ UNCHANGED <<series, work, target, resume>> /\ Compressing /\ Compressing'
        /\ \A c \in Components \ {target} : receipt'[c] = receipt[c]
    BY <1>11 DEF WriteReceipt, PublishArchive, UnlinkSource, TypeOK
  <2> QED
    BY <2>1
<1>12. CASE UnlinkReceipt
  BY <1>12 DEF UnlinkReceipt, TypeOK
<1> QED
  BY <1>2, <1>3, <1>4, <1>5, <1>6, <1>7, <1>8, <1>9, <1>10, <1>11, <1>12
     DEF NextRotation, NextWriter, StepWriter

\* A plain file of a segment appears only when the tail is sealed.
LEMMA SegmentsKept ==
  ASSUME TypeOK, \A n \in Segments : /\ plain'[n] = plain[n] /\ archive'[n] = archive[n]
                                     /\ receipt'[n] = receipt[n]
  PROVE  SegmentNumbers' = SegmentNumbers
  BY DEF SegmentNumbers, Exists

LEMMA SealTailReceipts ==
  ASSUME IInv, SealTail
  PROVE  receipt[Month] = {}
  BY ComponentNames DEF IInv, PlaceInv, SealTail, SealAs, Compressing, Series, TypeOK

LEMMA SegmentStep ==
  ASSUME IInv, NextRotation
  PROVE  SegmentInv'
<1> USE ComponentNames DEF IInv, SegmentInv, Compressing
<1>1. CASE StepsThatKeepDisk
  <2>1. SegmentNumbers' = SegmentNumbers /\ receipt' = receipt
    BY <1>1, DiskKept, SegmentsKept
  <2>2. Compressing' /\ target' = Month =>
          (Compressing /\ target = Month) \/ SegmentNumbers = {}
    BY <1>1 DEF StepsThatKeepDisk, LogRecord, LogElsewhere, LogBatch, LogNoBatch, Acquire,
         JournalBatch, Acknowledge, Abandon, PassTime, Release, RotateComponent, KeepTail,
         FinishRotation, LeaveTail, RetireSource, AppendNothing, Share, Unshare,
         disk, inputs, call
  <2> QED
    BY <2>1, <2>2
<1>2. CASE RotateTail \/ SealTail
  <2>1. receipt[Month] = {}
    BY <1>2, SealTailReceipts DEF RotateTail
  <2>2. receipt' = receipt /\ target' \in Segments
    BY <1>2 DEF RotateTail, SealTail, SealAs
  <2> QED
    BY <2>1, <2>2
<1>3. CASE WriteReceipt \/ UnlinkReceipt
  <2>1. /\ plain' = plain /\ archive' = archive /\ target' = target
        /\ receipt' = [receipt EXCEPT ![target] = receipt'[target]]
        /\ pc \in {"compress", "retire"} /\ pc' \in {"publish", resume}
    BY <1>3 DEF WriteReceipt, UnlinkReceipt, TypeOK
  <2>2. CASE target = Month
    <3>1. SegmentNumbers = {}
      BY <2>1, <2>2
    <3>2. SegmentNumbers' = SegmentNumbers
      BY <2>1, <2>2, SegmentsKept DEF TypeOK
    <3> QED
      BY <3>1, <3>2
  <2>3. CASE target # Month
    <3>1. SegmentNumbers' \subseteq SegmentNumbers \cup {target}
      BY <2>1 DEF SegmentNumbers, Exists, TypeOK
    <3>2. plain[target] # NoFile \/ archive[target] # NoFile \/ receipt[target] # {}
      BY <1>3 DEF WriteReceipt, UnlinkReceipt, StepInv, Committed
    <3>3. SegmentNumbers = {} => SegmentNumbers' = {}
      BY <2>3, <3>1, <3>2 DEF SegmentNumbers, Exists, TypeOK
    <3> QED
      BY <2>1, <2>3, <3>3 DEF TypeOK
  <2> QED
    BY <2>2, <2>3
<1>4. CASE PublishArchive \/ UnlinkSource
  <2>1. /\ receipt' = receipt /\ target' = target
        /\ pc' \in {"unlink", "retire"} /\ pc \in {"publish", "unlink"}
        /\ \A c \in Components \ {target} : plain'[c] = plain[c] /\ archive'[c] = archive[c]
    BY <1>4 DEF PublishArchive, UnlinkSource, TypeOK
  <2>2. receipt[target] # {}
    BY <1>4 DEF PublishArchive, UnlinkSource, StepInv, Committed
  <2>3. SegmentNumbers' = SegmentNumbers
    BY <2>1, <2>2 DEF SegmentNumbers, Exists
  <2> QED
    BY <2>1, <2>3
<1>5. CASE AppendRecord \/ TearAppend \/ AppendBatch
  <2>1. /\ receipt' = receipt /\ archive' = archive /\ pc' = "idle"
        /\ \A n \in Segments : plain'[n] = plain[n]
    BY <1>5 DEF AppendRecord, TearAppend, AppendBatch, AppendTo, Release, TypeOK
  <2> QED
    BY <2>1, SegmentsKept
<1> QED
  BY <1>1, <1>2, <1>3, <1>4, <1>5, Steps
-----------------------------------------------------------------------------
(***************************************************************************)
(* The texts: receipts keep fitting, and what may be read only grows.      *)
(***************************************************************************)
ReceiptOf(c) == /\ \A r, q \in receipt[c] : r = q
                /\ \A r \in receipt[c] : Applied(c, r) \/ Prepared(c, r)

TextInv == ReceiptInv /\ JournalInv /\ StepInv

HeldKept(S) == \A c \in S : Held(c)' = Held(c)

LEMMA KeptReceipt ==
  ASSUME ReceiptInv, NEW c \in Components, Kept3(c)
  PROVE  ReceiptOf(c)' /\ Held(c)' = Held(c)
  BY KeptComponent DEF ReceiptInv, ReceiptOf, Kept3

LEMMA KeptJournal ==
  ASSUME JournalInv, Kept3(Journal)
  PROVE  JournalInv'
<1>1. Committed(Journal)' <=> Committed(Journal)
  BY KeptComponent, ComponentNames
<1> QED
  BY <1>1 DEF JournalInv, Kept3, KeptPlain, KeptArchive, HasLine

LEMMA KeptTexts ==
  ASSUME IInv, StepsThatKeepDisk
  PROVE  TextInv' /\ HeldKept(Components)
<1>1. \A c \in Components : Kept3(c)
  BY DiskKept, SameTextKeeps DEF Kept3
<1>2. ReceiptInv' /\ JournalInv' /\ HeldKept(Components)
  BY <1>1, KeptReceipt, KeptJournal, ComponentNames
     DEF IInv, ReceiptInv, ReceiptOf, HeldKept
<1>3. \/ pc' \notin {"publish", "unlink", "retire"}
      \/ pc' = pc /\ target' = target
      \/ pc' = "unlink" /\ target' = target /\ Committed(target)
  BY DEF StepsThatKeepDisk, LogRecord, LogElsewhere, LogBatch, LogNoBatch, Acquire,
         JournalBatch, Acknowledge, Abandon, PassTime, Release, RotateComponent, KeepTail,
         FinishRotation, LeaveTail, RetireSource, AppendNothing, Share, Unshare,
         disk, inputs, call
<1>4. /\ target \in Components
      /\ receipt' = receipt /\ plain' = plain /\ archive' = archive /\ text' = text
  BY DiskKept DEF IInv, TypeOK
<1>5. StepInv
  BY DEF IInv
<1>6. StepInv'
  <2>1. CASE target' = target
    <3>1. \A r : Prepared(target, r)' <=> Prepared(target, r)
      BY <1>4, <2>1 DEF Prepared, Checksum, Text
    <3>2. Committed(target)' <=> Committed(target)
      BY <1>4, <2>1 DEF Committed, Checksum
    <3> QED
      BY <1>3, <1>4, <1>5, <2>1, <3>1, <3>2 DEF StepInv
  <2>2. CASE target' # target
    BY <1>3, <2>2 DEF StepInv
  <2> QED
    BY <2>1, <2>2
<1> QED
  BY <1>2, <1>6 DEF TextInv

LEMMA SealTexts ==
  ASSUME IInv, NEW n \in Segments, NEW after, SealAs(n, after), receipt[Month] = {}
  PROVE  /\ TextInv' /\ \A c \in Components : Grows(c)
         /\ HeldKept(Components \ {n, Month})
         /\ Held(n)' = Text(plain[Month]) /\ Held(Month)' = Text(archive[Month])
<1> USE ComponentNames DEF IInv
<1>1. /\ text' = text /\ archive' = archive /\ receipt' = receipt /\ pc' = "compress"
      /\ plain' = [plain EXCEPT ![n] = plain[Month], ![Month] = NoFile]
      /\ n \notin SegmentNumbers
  BY DEF SealAs, Segments
<1>2. ~Exists(n)
  BY <1>1 DEF SegmentNumbers
<1>3. \A c \in Components \ {n, Month} : Kept3(c)
  BY <1>1, SameTextKeeps DEF Kept3, TypeOK
<1>4. plain'[n] = plain[Month] /\ plain'[Month] = NoFile
  BY <1>1 DEF TypeOK
<1>5. ReceiptOf(n)' /\ ReceiptOf(Month)'
  BY <1>1, <1>2 DEF ReceiptOf, Exists
<1>6. ReceiptInv' /\ JournalInv'
  BY <1>3, <1>5, KeptReceipt, KeptJournal DEF ReceiptInv, ReceiptOf
<1>7. /\ Held(n) = << >>
      /\ Held(n)' = Text(plain[Month])
      /\ Held(Month)' = Text(archive[Month])
  <2>1. /\ ~Committed(n) /\ ~Committed(n)' /\ ~Committed(Month)'
    BY <1>1, <1>2 DEF Committed, Exists
  <2>2. /\ Text(plain[n]) = << >> /\ Text(archive[n]) = << >> /\ Text(archive[n])' = << >>
        /\ Text(plain[n])' = Text(plain[Month])
        /\ Text(plain[Month])' = << >> /\ Text(archive[Month])' = Text(archive[Month])
    BY <1>1, <1>2, <1>4 DEF Text, Exists
  <2>3. /\ Join(<< >>, << >>) = << >>
        /\ Join(<< >>, Text(plain[Month])) = Text(plain[Month])
        /\ Join(Text(archive[Month]), << >>) = Text(archive[Month])
    BY TextType, JoinEmpty, EmptySeq DEF Texts
  <2> QED
    BY <2>1, <2>2, <2>3 DEF Held
<1>8. Grows(n) /\ Grows(Month)
  BY <1>2, <1>7 DEF Grows
<1> QED
  BY <1>1, <1>3, <1>6, <1>7, <1>8, KeptReceipt DEF TextInv, StepInv, Grows, HeldKept

LEMMA ReceiptTexts ==
  ASSUME IInv, WriteReceipt
  PROVE  TextInv' /\ HeldKept(Components)
<1> USE ComponentNames DEF IInv
<1>1. PICK c \in Components : c = target
  BY DEF TypeOK
<1>2. PICK r : r = [source |-> Text(plain[c]), archive |-> Checksum(archive[c]),
                    target |-> Join(Text(archive[c]), Text(plain[c]))]
  OBVIOUS
<1>3. /\ text' = text /\ plain' = plain /\ archive' = archive /\ target' = c /\ target = c
      /\ pc' = "publish" /\ plain[c] # NoFile /\ ~Committed(c)
      /\ receipt' = [receipt EXCEPT ![c] = {r}]
  <2>1. Unarchived(c) = Text(plain[c])
    BY <1>1, NothingRepeated DEF WriteReceipt
  <2> QED
    BY <1>1, <1>2, <2>1 DEF WriteReceipt
<1>4. /\ \A d \in Components \ {c} : Kept3(d)
      /\ KeptPlain(c) /\ KeptArchive(c)
  BY <1>1, <1>3, SameTextKeeps DEF Kept3, TypeOK
<1>5. receipt'[c] = {r}
  BY <1>1, <1>3 DEF TypeOK
<1>6. Prepared(c, r)'
  BY <1>2, <1>3 DEF Prepared, Checksum, Text
<1>7. ReceiptOf(c)'
  BY <1>3, <1>5, <1>6 DEF ReceiptOf
<1>8. ReceiptInv'
  BY <1>4, <1>7, KeptReceipt DEF ReceiptInv, ReceiptOf
<1>9. JournalInv'
  <2>1. CASE c = Journal
    BY <1>3, <1>4, <2>1 DEF JournalInv, KeptPlain, KeptArchive, HasLine
  <2>2. CASE c # Journal
    BY <1>4, <2>2, KeptJournal
  <2> QED
    BY <2>1, <2>2
<1>10. Held(c)' = Held(c)
  <2>1. Held(c) = r.target
    BY <1>2, <1>3 DEF Held
  <2>2. CASE Committed(c)'
    <3>1. Checksum(archive[c])' = {r.target}
      BY <1>3, <1>5, <2>2 DEF Committed
    <3>2. Text(archive[c])' = r.target
      BY <1>3, <3>1 DEF Checksum, Text
    <3> QED
      BY <2>1, <2>2, <3>2 DEF Held
  <2>3. CASE ~Committed(c)'
    BY <1>3, <1>4, <2>3 DEF Held, KeptPlain, KeptArchive
  <2> QED
    BY <2>2, <2>3
<1> QED
  BY <1>3, <1>4, <1>5, <1>6, <1>8, <1>9, <1>10, KeptReceipt DEF TextInv, StepInv, HeldKept

LEMMA PublishTexts ==
  ASSUME IInv, PublishArchive
  PROVE  TextInv' /\ HeldKept(Components)
<1> USE ComponentNames DEF IInv
<1>0. Len(text) \in Nat
  BY TextType
<1>1. PICK c \in Components : c = target
  BY DEF TypeOK
<1>2. PICK r \in receipt[c] : text' = Append(text, r.target)
  BY <1>1 DEF PublishArchive
<1>3. receipt[c] = {r} /\ r.target \in Texts /\ Prepared(c, r)
  BY <1>0, <1>1, <1>2 DEF ReceiptInv, StepInv, PublishArchive, TypeOK, Receipts
<1>4. /\ archive' = [archive EXCEPT ![c] = Len(text) + 1] /\ pc' = "unlink"
      /\ plain' = plain /\ receipt' = receipt /\ target' = c
  BY <1>1 DEF PublishArchive
<1>5. /\ \A d \in Components \ {c} : Kept3(d)
      /\ KeptPlain(c)
  BY <1>0, <1>1, <1>2, <1>3, <1>4, NewFileKeeps DEF Kept3, TypeOK
<1>6. /\ text'[Len(text) + 1] = r.target /\ archive'[c] = Len(text) + 1
  BY <1>0, <1>1, <1>2, <1>3, <1>4, NewFile DEF TypeOK
<1>7. Text(archive[c])' = r.target /\ Checksum(archive[c])' = {r.target}
  BY <1>0, <1>1, <1>4, <1>6 DEF Text, Checksum, NoFile
<1>8. Applied(c, r)'
  BY <1>3, <1>4, <1>5, <1>7 DEF Applied, Prepared, KeptPlain
<1>9. ReceiptOf(c)' /\ Committed(c)'
  BY <1>3, <1>4, <1>7, <1>8 DEF ReceiptOf, Committed
<1>10. ReceiptInv'
  BY <1>5, <1>9, KeptReceipt DEF ReceiptInv, ReceiptOf
<1>11. JournalInv'
  <2>1. CASE c = Journal
    BY <1>5, <1>9, <1>4, <2>1 DEF JournalInv, KeptPlain
  <2>2. CASE c # Journal
    BY <1>5, <2>2, KeptJournal
  <2> QED
    BY <2>1, <2>2
<1>12. Held(c) = r.target
  <2>1. CASE Committed(c)
    BY <1>3, <2>1 DEF Held, Committed, Checksum, Text
  <2>2. CASE ~Committed(c)
    BY <1>3, <2>2 DEF Held, Prepared
  <2> QED
    BY <2>1, <2>2
<1>13. Held(c)' = r.target
  BY <1>4, <1>7, <1>9 DEF Held
<1> QED
  BY <1>1, <1>4, <1>5, <1>9, <1>10, <1>11, <1>12, <1>13, KeptReceipt
     DEF TextInv, StepInv, HeldKept

LEMMA UnlinkTexts ==
  ASSUME IInv, UnlinkSource \/ UnlinkReceipt
  PROVE  TextInv' /\ HeldKept(Components)
<1> USE ComponentNames DEF IInv
<1>1. PICK c \in Components : c = target
  BY DEF TypeOK
<1>2. /\ text' = text /\ archive' = archive /\ target' = c
      /\ \A d \in Components \ {c} : plain'[d] = plain[d] /\ receipt'[d] = receipt[d]
  BY <1>1 DEF UnlinkSource, UnlinkReceipt, TypeOK
<1>3. (\A d \in Components \ {c} : Kept3(d)) /\ KeptArchive(c)
  BY <1>2, SameTextKeeps DEF Kept3
<1>4. plain'[c] = NoFile
  BY <1>1 DEF UnlinkSource, UnlinkReceipt, StepInv, TypeOK
<1>5. Text(plain[c])' = << >> /\ Checksum(plain[c])' = {}
  BY <1>4 DEF Text, Checksum
<1>6. Held(c) = Text(archive[c])
  BY <1>1 DEF UnlinkSource, UnlinkReceipt, StepInv, Held
<1>7. Text(archive[c])' \in Texts /\ Text(archive[c])' = Text(archive[c])
  BY <1>2, TextType DEF Text
<1>8. Held(c)' = Held(c)
  <2>1. Join(Text(archive[c])', << >>) = Text(archive[c])'
    BY <1>7, JoinEmpty DEF Texts
  <2> QED
    BY <1>5, <1>6, <1>7, <2>1 DEF Held
<1>9. JournalInv'
  <2>1. CASE c = Journal
    <3>1. ~EndsTorn(<< >>) /\ DOMAIN << >> = {}
      BY DEF EndsTorn
    <3> QED
      BY <1>5, <2>1, <3>1 DEF JournalInv, HasLine
  <2>2. CASE c # Journal
    BY <1>3, <2>2, KeptJournal
  <2> QED
    BY <2>1, <2>2
<1>10. ReceiptOf(c)' /\ (pc' \in {"publish", "unlink", "retire"} => Committed(c)')
       /\ pc' # "publish"
  <2>1. CASE UnlinkSource
    <3>1. receipt' = receipt /\ Committed(c) /\ pc' = "retire"
      BY <1>1, <2>1 DEF UnlinkSource, StepInv
    <3>2. PICK r \in receipt[c] : receipt[c] = {r} /\ Checksum(archive[c]) = {r.target}
      BY <3>1 DEF Committed, ReceiptInv
    <3>3. Applied(c, r)'
      BY <1>3, <1>5, <3>2 DEF Applied, KeptArchive
    <3> QED
      BY <1>3, <3>1, <3>2, <3>3 DEF ReceiptOf, Committed, KeptArchive
  <2>2. CASE UnlinkReceipt
    <3>1. receipt'[c] = {} /\ pc' = resume /\ pc = "retire"
      BY <1>1, <2>2 DEF UnlinkReceipt, TypeOK
    <3>2. pc' \notin {"publish", "unlink", "retire"}
      BY <3>1 DEF TypeOK
    <3> QED
      BY <3>1, <3>2 DEF ReceiptOf
  <2> QED
    BY <2>1, <2>2
<1>11. ReceiptInv' /\ HeldKept(Components)
  BY <1>3, <1>8, <1>10, KeptReceipt DEF ReceiptInv, ReceiptOf, HeldKept
<1>12. StepInv'
  BY <1>2, <1>4, <1>10 DEF StepInv
<1> QED
  BY <1>9, <1>11, <1>12 DEF TextInv

LEMMA AppendToText ==
  ASSUME TypeOK, FileInv, NEW c \in Components, NEW x \in Texts, AppendTo(c, x),
         archive' = archive
  PROVE  /\ \A d \in Components \ {c} : KeptPlain(d)
         /\ \A d \in Components : KeptArchive(d)
         /\ Text(plain[c])' = Join(Text(plain[c]), x)
<1>1. CASE plain[c] = NoFile
  <2>1. text' = Append(text, x) /\ plain' = [plain EXCEPT ![c] = Len(text) + 1]
    BY <1>1 DEF AppendTo
  <2>2. text'[Len(text) + 1] = x /\ Len(text) \in Nat
    BY <2>1, NewFile DEF TypeOK
  <2>3. Text(plain[c])' = x
    BY <2>1, <2>2 DEF Text, NoFile, TypeOK
  <2>4. Join(Text(plain[c]), x) = x
    BY <1>1, JoinEmpty DEF Text, Texts
  <2> QED
    BY <2>1, <2>3, <2>4, NewFileKeeps DEF TypeOK
<1>2. CASE plain[c] # NoFile
  <2>1. /\ text' = [text EXCEPT ![plain[c]] = Join(text[plain[c]], x)] /\ plain' = plain
        /\ Text(plain[c]) = text[plain[c]]
    BY <1>2 DEF AppendTo, Text
  <2>2. Join(text[plain[c]], x) \in Texts
    BY <2>1, TextType, JoinTexts
  <2> QED
    BY <1>2, <2>1, <2>2, ChangedFileKeeps
<1> QED
  BY <1>1, <1>2

LEMMA RecordTexts ==
  ASSUME IInv, AppendRecord \/ TearAppend
  PROVE  /\ TextInv' /\ HeldKept(Components \ {Month})
         /\ \/ Held(Month)' = Held(Month)
            \/ \E line \in {entry, Torn} : Held(Month)' = Write(Held(Month), line)
<1> USE ComponentNames DEF IInv
<1>1. PICK x \in {<< >>, <<Torn>>, <<entry>>} : AppendTo(Month, x)
  BY DEF AppendRecord, TearAppend
<1>2. x \in Texts /\ entry \in Int /\ Torn \in Int
  <2>1. entry \in Int /\ Torn \in Int
    BY DEF TypeOK, Torn
  <2>2. << >> \in Texts /\ <<Torn>> \in Texts /\ <<entry>> \in Texts
    BY <2>1 DEF Texts
  <2> QED
    BY <1>1, <2>1, <2>2
<1>3. archive' = archive /\ receipt' = receipt /\ pc' = "idle"
  BY DEF AppendRecord, TearAppend, Release
<1>4. receipt[Month] = {}
  BY DEF AppendRecord, TearAppend, PlaceInv, Compressing
<1>5. /\ \A d \in Components \ {Month} : Kept3(d)
      /\ KeptArchive(Month)
      /\ Text(plain[Month])' = Join(Text(plain[Month]), x)
  BY <1>1, <1>2, <1>3, AppendToText DEF Kept3
<1>6. ReceiptInv' /\ JournalInv'
  BY <1>3, <1>4, <1>5, KeptReceipt, KeptJournal DEF ReceiptInv, ReceiptOf
<1>7. \/ Held(Month)' = Held(Month)
      \/ \E line \in {entry, Torn} : Held(Month)' = Write(Held(Month), line)
  <2> DEFINE A == Text(archive[Month])
             P == Text(plain[Month])
  <2>1. Held(Month) = Join(A, P) /\ Held(Month)' = Join(A, Join(P, x))
    BY <1>3, <1>4, <1>5 DEF Held, Committed, KeptArchive
  <2>2. A \in Texts /\ P \in Texts /\ Join(A, P) \in Texts
    BY TextType, JoinTexts
  <2>3. CASE x = << >>
    BY <2>1, <2>2, <2>3, JoinEmpty DEF Texts
  <2>4. ASSUME NEW line \in {entry, Torn}, x = <<line>>
        PROVE  Held(Month)' = Write(Held(Month), line)
    BY <1>2, <2>1, <2>2, <2>4, JoinWrite DEF Write, Texts
  <2> QED
    BY <1>1, <2>3, <2>4
<1> QED
  BY <1>3, <1>5, <1>6, <1>7, KeptReceipt DEF TextInv, StepInv, HeldKept

LEMMA BatchTexts ==
  ASSUME IInv, AppendBatch
  PROVE  /\ TextInv' /\ HeldKept(Components \ {Journal})
         /\ Held(Journal)' = Write(Held(Journal), entry)
<1> USE ComponentNames DEF IInv
<1> DEFINE A == Text(archive[Journal])
           P == Text(plain[Journal])
<1>1. /\ archive' = archive /\ receipt' = receipt /\ pc' = "idle"
      /\ text' = Append(text, Append(P, entry))
      /\ plain' = [plain EXCEPT ![Journal] = Len(text) + 1]
      /\ entry # 0 /\ ~HasLine(plain[Journal], entry) /\ ~HasLine(archive[Journal], entry)
  BY DEF AppendBatch, Release, HasBatch
<1>2. A \in Texts /\ P \in Texts /\ Append(P, entry) \in Texts /\ entry \in Int
  BY TextType, AppendProperties DEF TypeOK, Texts
<1>3. text'[Len(text) + 1] = Append(P, entry) /\ Len(text) \in Nat
  BY <1>1, <1>2, NewFile DEF TypeOK
<1>4. /\ \A d \in Components \ {Journal} : Kept3(d)
      /\ KeptArchive(Journal)
  BY <1>1, <1>2, NewFileKeeps DEF Kept3, TypeOK
<1>5. Text(plain[Journal])' = Append(P, entry)
  BY <1>1, <1>3 DEF Text, NoFile, TypeOK
<1>6. receipt[Journal] = {}
  BY DEF AppendBatch, PlaceInv, Compressing
<1>7. ReceiptInv'
  BY <1>1, <1>4, <1>6, KeptReceipt DEF ReceiptInv, ReceiptOf
<1>8. /\ Len(P) \in Nat /\ Len(Append(P, entry)) = Len(P) + 1
      /\ Append(P, entry)[Len(P) + 1] = entry
      /\ \A i \in 1..Len(P) : Append(P, entry)[i] = P[i]
      /\ DOMAIN Append(P, entry) = 1..Len(P) + 1 /\ DOMAIN P = 1..Len(P)
  BY <1>2, AppendProperties, LenProperties DEF Texts
<1>9. JournalInv'
  <2>1. ~EndsTorn(Text(plain[Journal])')
    BY <1>1, <1>5, <1>8 DEF EndsTorn, Torn
  <2>2. ASSUME NEW b \in 1..MaxBatches, HasLine(archive[Journal], b)',
               HasLine(plain[Journal], b)'
        PROVE  FALSE
    <3>1. HasLine(archive[Journal], b)
      BY <1>4, <2>2 DEF HasLine, KeptArchive
    <3>2. HasLine(plain[Journal], b) \/ b = entry
      BY <1>5, <1>8, <2>2 DEF HasLine
    <3> QED
      BY <1>1, <1>6, <3>1, <3>2 DEF JournalInv, Committed
  <2> QED
    BY <2>1, <2>2 DEF JournalInv
<1>10. Held(Journal)' = Write(Held(Journal), entry)
  <2>1. Append(P, entry) = Write(P, entry)
    BY <1>2 DEF JournalInv, Write, Join, Texts
  <2>2. Held(Journal) = Join(A, P) /\ Held(Journal)' = Join(A, Write(P, entry))
    BY <1>1, <1>4, <1>5, <1>6, <2>1 DEF Held, Committed, KeptArchive
  <2> QED
    BY <1>2, <2>2, JoinWrite DEF Texts
<1> QED
  BY <1>1, <1>4, <1>7, <1>9, <1>10, KeptReceipt DEF TextInv, StepInv, HeldKept

LEMMA TextStep ==
  ASSUME IInv, NextRotation
  PROVE  TextInv' /\ \A c \in Components : Grows(c)
<1>1. CASE RotateTail
  <2>1. receipt[Month] = {}
    BY <1>1 DEF IInv, SegmentInv, RotateTail
  <2> QED
    BY <1>1, <2>1, SealTexts DEF RotateTail
<1>2. CASE SealTail
  BY <1>2, SealTexts, SealTailReceipts DEF SealTail
<1>3. CASE StepsThatKeepDisk \/ WriteReceipt \/ PublishArchive
           \/ UnlinkSource \/ UnlinkReceipt
  BY <1>3, KeptTexts, ReceiptTexts, PublishTexts, UnlinkTexts DEF HeldKept, Grows
<1>4. CASE AppendRecord \/ TearAppend
  BY <1>4, RecordTexts, ComponentNames DEF HeldKept, Grows
<1>5. CASE AppendBatch
  BY <1>5, BatchTexts, ComponentNames DEF HeldKept, Grows
<1> QED
  BY <1>1, <1>2, <1>3, <1>4, <1>5, Steps
-----------------------------------------------------------------------------
(***************************************************************************)
(* The theorems.                                                           *)
(***************************************************************************)
LEMMA InitIInv == InitRotation => IInv
<1> SUFFICES ASSUME InitRotation PROVE IInv
  OBVIOUS
<1> USE BoundsAssumption, ComponentNames DEF InitRotation
<1>1. \A c \in Components : plain[c] = NoFile /\ archive[c] = NoFile /\ receipt[c] = {}
  OBVIOUS
<1>2. Len(text) = 0 /\ text \in Seq(Texts)
  BY EmptySeq
<1>3. TypeOK
  BY <1>2 DEF TypeOK, Labels, Series, NoFile
<1>4. ReceiptInv /\ FileInv
  BY <1>1 DEF ReceiptInv, FileInv
<1>5. JournalInv
  <2>1. Text(plain[Journal]) = << >> /\ ~EndsTorn(<< >>) /\ DOMAIN << >> = {}
    BY <1>1 DEF Text, EndsTorn
  <2> QED
    BY <2>1 DEF JournalInv, HasLine
<1>6. PlaceInv /\ SegmentInv /\ StepInv
  BY <1>1 DEF PlaceInv, SegmentInv, StepInv, Compressing
<1> QED
  BY <1>3, <1>4, <1>5, <1>6 DEF IInv

LEMMA StutterIInv == IInv /\ UNCHANGED rotationVars => IInv'
<1> SUFFICES ASSUME IInv, UNCHANGED rotationVars PROVE IInv'
  OBVIOUS
<1> USE DEF IInv, rotationVars, disk, inputs, call
<1>1. TypeOK' /\ FileInv'
  BY DEF TypeOK, FileInv
<1>2. PlaceInv'
  BY DEF PlaceInv, Compressing
<1>3. SegmentInv'
  BY DEF SegmentInv, SegmentNumbers, Exists, Compressing
<1>4. \A c : Kept3(c)
  BY DEF Kept3, KeptPlain, KeptArchive, Text, Checksum
<1>5. ReceiptInv' /\ JournalInv'
  BY <1>4, KeptReceipt, KeptJournal, ComponentNames DEF ReceiptInv, ReceiptOf
<1>6. StepInv'
  BY DEF StepInv, Prepared, Committed, Text, Checksum
<1> QED
  BY <1>1, <1>2, <1>3, <1>5, <1>6

\* The inductive invariant holds in every state.
THEOREM Invariance == SpecRotation => []IInv
<1>1. IInv /\ [NextRotation]_rotationVars => IInv'
  <2> SUFFICES ASSUME IInv, [NextRotation]_rotationVars PROVE IInv'
    OBVIOUS
  <2>1. CASE NextRotation
    BY <2>1, TypeStep, FileStep, PlaceStep, SegmentStep, TextStep DEF IInv, TextInv
  <2>2. CASE UNCHANGED rotationVars
    BY <2>2, StutterIInv
  <2> QED
    BY <2>1, <2>2
<1> QED
  BY <1>1, InitIInv, PTL DEF SpecRotation

\* The files, the calendar and the writer's locals have their types.
THEOREM TypeCorrect == SpecRotation => []TypeOK
<1>1. IInv => TypeOK
  BY DEF IInv
<1> QED
  BY <1>1, Invariance, PTL

\* rotation_committed never raises, however often an append was interrupted.
THEOREM ReceiptsSound == SpecRotation => []ReceiptsAuthenticate
<1>1. IInv => ReceiptsAuthenticate
  BY DEF IInv, ReceiptInv, ReceiptsAuthenticate, Authentic, Applied, Prepared
<1> QED
  BY <1>1, Invariance, PTL

\* Recovery, compression and sealing neither lose nor repeat what may be read.
THEOREM TextsKept == SpecRotation => TextIsKept
<1>1. IInv /\ [NextRotation]_rotationVars => [\A c \in Components : Grows(c)]_rotationVars
  BY TextStep
<1> QED
  BY <1>1, Invariance, PTL DEF SpecRotation, TextIsKept
-----------------------------------------------------------------------------
(***************************************************************************)
(* The two series: where the month stands, and which texts are whole.      *)
(***************************************************************************)
\* An archive of the month's own name is written once the month is closed, of a
\* tail without segments, and no record of the month comes after it.
MonthInv ==
  /\ archive[Month] # NoFile => SegmentNumbers = {}
  /\ \/ archive[Month] # NoFile \/ receipt[Month] # {}
     \/ pc # "idle" /\ Month \in work
     \/ Compressing /\ target = Month
     => Closed /\ (pc # "idle" /\ series = "general" => entry = 0)

\* Segments are numbered without a gap.
NumberInv == \E k \in 0..MaxRecords : SegmentNumbers = 1..k

Whole(s) == s # << >> /\ ~EndsTorn(s)

\* What is moved out of the tail, or archived of the journal, ends with its line.
WholeInv == /\ \A n \in SegmentNumbers : Whole(Held(n))
            /\ ~EndsTorn(Text(archive[Journal]))

EntryInv == pc # "idle" => IF series = "general" THEN entry \in 0..MaxRecords
                                                 ELSE entry \in 0..MaxBatches

SeriesInv == MonthInv /\ NumberInv /\ WholeInv /\ EntryInv

LEMMA EntryStep ==
  ASSUME IInv, EntryInv, NextRotation
  PROVE  EntryInv'
<1> USE DEF EntryInv, disk, inputs, call
<1>1. CASE LogRecord \/ LogElsewhere \/ LogBatch \/ LogNoBatch
  BY <1>1, BoundsAssumption DEF LogRecord, LogElsewhere, LogBatch, LogNoBatch, Acquire, IInv,
     TypeOK
<1>2. CASE RotateTail \/ SealTail
  BY <1>2 DEF RotateTail, SealTail, SealAs
<1>3. CASE Abandon \/ AppendRecord \/ TearAppend \/ AppendBatch \/ AppendNothing
  BY <1>3 DEF Abandon, AppendRecord, TearAppend, AppendBatch, AppendNothing, Release
<1>4. ASSUME pc # "idle", UNCHANGED call PROVE EntryInv'
  BY <1>4
<1>5. CASE \/ \E c \in Components : RotateComponent(c)
           \/ KeepTail \/ FinishRotation \/ LeaveTail \/ RetireSource
           \/ WriteReceipt \/ PublishArchive \/ UnlinkSource \/ UnlinkReceipt
  BY <1>5 DEF RotateComponent, KeepTail, FinishRotation, LeaveTail, RetireSource,
     WriteReceipt, PublishArchive, UnlinkSource, UnlinkReceipt
<1>6. CASE JournalBatch \/ Acknowledge \/ PassTime \/ \E r \in Readers : Share(r) \/ Unshare(r)
  BY <1>6 DEF JournalBatch, Acknowledge, PassTime, Share, Unshare
<1> QED
  BY <1>1, <1>2, <1>3, <1>5, <1>6 DEF NextRotation, NextWriter, StepWriter

\* Only sealing makes a segment.
LEMMA SameSegments ==
  ASSUME IInv, NextRotation, ~RotateTail, ~SealTail
  PROVE  SegmentNumbers' = SegmentNumbers
<1> USE ComponentNames DEF IInv
<1>1. CASE StepsThatKeepDisk
  BY <1>1, DiskKept, SegmentsKept
<1>2. CASE AppendRecord \/ TearAppend \/ AppendBatch
  <2>1. /\ receipt' = receipt /\ archive' = archive
        /\ \A n \in Segments : plain'[n] = plain[n]
    BY <1>2 DEF AppendRecord, TearAppend, AppendBatch, AppendTo, TypeOK
  <2> QED
    BY <2>1, SegmentsKept
<1>3. CASE WriteReceipt \/ PublishArchive \/ UnlinkSource \/ UnlinkReceipt
  <2>1. /\ \A c \in Components \ {target} :
             plain'[c] = plain[c] /\ archive'[c] = archive[c] /\ receipt'[c] = receipt[c]
        /\ target \in Components
    BY <1>3 DEF WriteReceipt, PublishArchive, UnlinkSource, UnlinkReceipt, TypeOK
  <2>2. /\ plain'[target] # NoFile \/ archive'[target] # NoFile \/ receipt'[target] # {}
        /\ plain[target] # NoFile \/ archive[target] # NoFile \/ receipt[target] # {}
    <3>1. CASE WriteReceipt
      BY <3>1 DEF WriteReceipt, TypeOK
    <3>2. CASE PublishArchive
      BY <3>2 DEF PublishArchive, StepInv, TypeOK
    <3>3. CASE UnlinkSource
      BY <3>3 DEF UnlinkSource, StepInv, Committed
    <3>4. CASE UnlinkReceipt
      <4>1. PICK r : Checksum(archive[target]) = {r.target}
        BY <3>4 DEF UnlinkReceipt, StepInv, Committed
      <4>2. archive[target] # NoFile
        BY <4>1 DEF Checksum
      <4> QED
        BY <3>4, <4>2 DEF UnlinkReceipt
    <3> QED
      BY <1>3, <3>1, <3>2, <3>3, <3>4
  <2>3. \A n \in Segments : Exists(n)' <=> Exists(n)
    BY <2>1, <2>2 DEF Exists
  <2> QED
    BY <2>3 DEF SegmentNumbers
<1> QED
  BY <1>1, <1>2, <1>3, Steps

\* A tail is sealed under the next number, and it is all there is of the month's
\* own name.
LEMMA SealedSegment ==
  ASSUME IInv, SeriesInv, RotateTail \/ SealTail
  PROVE  \E k \in 0..MaxRecords - 1, after \in {"rotate", "append"} :
           /\ SealAs(k + 1, after) /\ k + 1 \in Segments
           /\ SegmentNumbers = 1..k /\ SegmentNumbers' = 1..k + 1
           /\ receipt[Month] = {} /\ archive[Month] = NoFile /\ Sealable
<1> USE ComponentNames, BoundsAssumption DEF IInv, SeriesInv
<1>1. PICK n \in Segments, after \in {"rotate", "append"} : SealAs(n, after)
  BY DEF RotateTail, SealTail
<1>2. PICK k \in 0..MaxRecords : SegmentNumbers = 1..k
  BY DEF NumberInv
<1>3. n = k + 1 /\ k \in 0..MaxRecords - 1
  <2>1. (\A m \in 1..k : m < n) /\ (n = 1 \/ n - 1 \in 1..k) /\ n \in 1..MaxRecords
    BY <1>1, <1>2 DEF SealAs, Segments
  <2> QED
    BY <2>1
<1>4. receipt[Month] = {} /\ archive[Month] = NoFile /\ Sealable
  <2>1. CASE RotateTail
    BY <2>1 DEF RotateTail, SegmentInv, MonthInv
  <2>2. CASE SealTail
    <3>1. pc = "seal" /\ series = "general" /\ entry # 0 /\ Sealable
      BY <2>2 DEF SealTail, OverSize
    <3> QED
      BY <2>2, <3>1, SealTailReceipts DEF MonthInv
  <2> QED
    BY <2>1, <2>2
<1>5. SegmentNumbers' = SegmentNumbers \cup {n}
  <2>1. /\ archive' = archive /\ receipt' = receipt /\ plain[Month] # NoFile
        /\ \A c \in Segments : plain'[c] = IF c = n THEN plain[Month] ELSE plain[c]
    BY <1>1, <1>4 DEF SealAs, Sealable, TypeOK
  <2> QED
    BY <1>1, <2>1 DEF SegmentNumbers, Exists
<1>6. SegmentNumbers' = 1..k + 1
  BY <1>2, <1>3, <1>5
<1> QED
  BY <1>1, <1>2, <1>3, <1>4, <1>6

LEMMA NumberStep ==
  ASSUME IInv, SeriesInv, NextRotation
  PROVE  NumberInv'
<1>1. CASE RotateTail \/ SealTail
  <2>1. PICK k \in 0..MaxRecords - 1 : SegmentNumbers' = 1..k + 1
    BY <1>1, SealedSegment
  <2>2. k + 1 \in 0..MaxRecords
    BY BoundsAssumption
  <2> QED
    BY <2>1, <2>2 DEF NumberInv
<1>2. CASE ~(RotateTail \/ SealTail)
  BY <1>2, SameSegments DEF SeriesInv, NumberInv
<1> QED
  BY <1>1, <1>2

LEMMA MonthStep ==
  ASSUME IInv, SeriesInv, NextRotation
  PROVE  MonthInv'
<1> USE ComponentNames DEF IInv, SeriesInv
<1> DEFINE Late == \/ archive[Month] # NoFile \/ receipt[Month] # {}
                   \/ pc # "idle" /\ Month \in work
                   \/ Compressing /\ target = Month
           Past == Closed /\ (pc # "idle" /\ series = "general" => entry = 0)
<1>0. Late => Past
  BY DEF MonthInv
<1>1. (archive[Month] # NoFile => SegmentNumbers = {})'
  <2>1. CASE RotateTail \/ SealTail
    <3>1. archive[Month] = NoFile
      BY <2>1, SealedSegment
    <3>2. archive' = archive
      BY <2>1 DEF RotateTail, SealTail, SealAs
    <3> QED
      BY <3>1, <3>2
  <2>2. CASE PublishArchive
    <3>1. SegmentNumbers' = SegmentNumbers
      BY <2>2, SameSegments DEF PublishArchive, RotateTail, SealTail
    <3>2. archive'[Month] # NoFile =>
             archive[Month] # NoFile \/ (Compressing /\ target = Month)
      BY <2>2 DEF PublishArchive, TypeOK, Compressing
    <3> QED
      BY <3>1, <3>2 DEF MonthInv, SegmentInv
  <2>3. CASE ~RotateTail /\ ~SealTail /\ ~PublishArchive
    <3>1. archive' = archive
      BY <2>3, Steps, DiskKept DEF WriteReceipt, UnlinkSource, UnlinkReceipt, AppendRecord,
         TearAppend, AppendBatch
    <3> QED
      BY <2>3, <3>1, SameSegments DEF MonthInv
  <2> QED
    BY <2>1, <2>2, <2>3
<1>2. (Late => Past)'
  <2> USE DEF Compressing, disk, inputs, call, Closed
  <2>1. CASE LogRecord \/ LogElsewhere \/ LogBatch \/ LogNoBatch
    <3>1. /\ pc' = "rotate" /\ pc = "idle" /\ UNCHANGED <<archive, receipt, age>>
          /\ work' = Due(series')
      BY <2>1 DEF LogRecord, LogElsewhere, LogBatch, LogNoBatch, Acquire
    <3>2. Late' => Closed
      BY <1>0, <3>1 DEF Due
    <3>3. Closed /\ series' = "general" => entry' = 0
      BY <2>1 DEF LogRecord, LogElsewhere, LogBatch, LogNoBatch, Acquire, Current
    <3> QED
      BY <3>1, <3>2, <3>3
  <2>2. CASE RotateTail \/ SealTail
    <3>1. /\ UNCHANGED <<archive, receipt, age, series, entry>>
          /\ pc # "idle" /\ work' \subseteq work /\ target' # Month
      BY <2>2 DEF RotateTail, SealTail, SealAs
    <3> QED
      BY <1>0, <3>1
  <2>3. CASE Abandon \/ AppendRecord \/ TearAppend \/ AppendBatch \/ AppendNothing
    <3>1. UNCHANGED <<archive, receipt, age>> /\ pc' = "idle"
      BY <2>3 DEF Abandon, AppendRecord, TearAppend, AppendBatch, AppendNothing, Release
    <3> QED
      BY <1>0, <3>1
  <2>4. CASE \/ \E c \in Components : RotateComponent(c)
             \/ KeepTail \/ FinishRotation \/ LeaveTail \/ RetireSource
    <3>1. /\ UNCHANGED <<archive, receipt, age, series, entry>>
          /\ pc # "idle" /\ work' \subseteq work
          /\ (pc' = "compress" => target' \in work \/ (pc = "compress" /\ target' = target))
          /\ (pc' = "unlink" => pc = "compress" /\ target' = target)
          /\ pc' \notin {"publish", "retire"}
      BY <2>4 DEF RotateComponent, Visit, KeepTail, FinishRotation, LeaveTail, RetireSource
    <3> QED
      BY <1>0, <3>1
  <2>5. CASE WriteReceipt \/ PublishArchive \/ UnlinkSource \/ UnlinkReceipt
    <3>1. /\ UNCHANGED <<age, series, entry, work, target>>
          /\ pc \in {"compress", "publish", "unlink", "retire"}
          /\ \A c \in Components \ {target} : archive'[c] = archive[c] /\ receipt'[c] = receipt[c]
      BY <2>5 DEF WriteReceipt, PublishArchive, UnlinkSource, UnlinkReceipt, TypeOK
    <3> QED
      BY <1>0, <3>1
  <2>6. CASE JournalBatch \/ Acknowledge \/ PassTime
             \/ \E r \in Readers : Share(r) \/ Unshare(r)
    <3>1. /\ UNCHANGED <<archive, receipt, series, entry, work, target, pc>>
          /\ Closed => age' = age
      BY <2>6 DEF JournalBatch, Acknowledge, PassTime, Share, Unshare
    <3> QED
      BY <1>0, <3>1
  <2> QED
    BY <2>1, <2>2, <2>3, <2>4, <2>5, <2>6 DEF NextRotation, NextWriter, StepWriter
<1> QED
  BY <1>1, <1>2 DEF MonthInv

LEMMA JoinWhole ==
  ASSUME NEW s \in Texts, NEW t \in Texts, ~EndsTorn(s)
  PROVE  /\ Join(s, t) = s \o t
         /\ ~EndsTorn(t) => ~EndsTorn(s \o t)
         /\ Whole(t) => Whole(s \o t)
<1>1. Join(s, t) = s \o t
  BY DEF Join
<1>2. CASE t = << >>
  <2>1. s \o t = s
    BY <1>2, ConcatEmptySeq DEF Texts
  <2> QED
    BY <1>1, <1>2, <2>1 DEF Whole
<1>3. CASE t # << >>
  <2>1. /\ Len(s) \in Nat /\ Len(t) \in Nat /\ Len(t) > 0
        /\ s \o t \in Seq(Int) /\ Len(s \o t) = Len(s) + Len(t)
        /\ (s \o t)[Len(s) + Len(t)] = t[Len(t)]
    BY <1>3, ConcatProperties, LenProperties, EmptySeq DEF Texts
  <2>2. s \o t # << >>
    BY <2>1, EmptySeq
  <2> QED
    BY <1>1, <1>3, <2>1, <2>2 DEF EndsTorn, Whole
<1> QED
  BY <1>1, <1>2, <1>3

LEMMA WholeStep ==
  ASSUME IInv, SeriesInv, NextRotation
  PROVE  WholeInv'
<1> USE ComponentNames DEF IInv, SeriesInv
<1>1. \A n \in SegmentNumbers' : Whole(Held(n))'
  <2>1. CASE RotateTail \/ SealTail
    <3>1. PICK k \in 0..MaxRecords - 1, after \in {"rotate", "append"} :
             /\ SealAs(k + 1, after) /\ k + 1 \in Segments
             /\ SegmentNumbers = 1..k /\ SegmentNumbers' = 1..k + 1
             /\ receipt[Month] = {} /\ Sealable
      BY <2>1, SealedSegment
    <3>2. /\ HeldKept(Components \ {k + 1, Month}) /\ Held(k + 1)' = Text(plain[Month])
      BY <3>1, SealTexts
    <3>3. Whole(Held(k + 1))'
      BY <3>1, <3>2 DEF Sealable, Whole
    <3>4. \A n \in 1..k : n \in Components \ {k + 1, Month}
      BY <3>1, BoundsAssumption DEF SegmentNumbers, Segments, Month
    <3> QED
      BY <3>1, <3>2, <3>3, <3>4 DEF WholeInv, Whole, HeldKept
  <2>2. CASE ~(RotateTail \/ SealTail)
    <3>1. HeldKept(Segments)
      BY <2>2, Steps, KeptTexts, ReceiptTexts, PublishTexts, UnlinkTexts, RecordTexts,
         BatchTexts DEF HeldKept
    <3>2. SegmentNumbers' = SegmentNumbers /\ SegmentNumbers \subseteq Segments
      BY <2>2, SameSegments DEF SegmentNumbers
    <3> QED
      BY <3>1, <3>2 DEF WholeInv, Whole, HeldKept
  <2> QED
    BY <2>1, <2>2
<1>2. (~EndsTorn(Text(archive[Journal])))'
  <2> DEFINE A == Text(archive[Journal])
             P == Text(plain[Journal])
  <2>1. CASE PublishArchive /\ target = Journal
    <3>1. PICK r \in receipt[Journal] : text' = Append(text, r.target)
      BY <2>1 DEF PublishArchive
    <3>2. r.target \in Texts /\ r.target = Join(A, P)
      BY <2>1, <3>1 DEF ReceiptInv, StepInv, PublishArchive, TypeOK, Receipts, Prepared
    <3>3. text'[Len(text) + 1] = r.target /\ Len(text) \in Nat
      BY <3>1, <3>2, NewFile DEF TypeOK
    <3>4. A' = r.target
      BY <2>1, <3>3 DEF PublishArchive, Text, NoFile, TypeOK
    <3>5. A \in Texts /\ P \in Texts /\ ~EndsTorn(A) /\ ~EndsTorn(P)
      BY TextType DEF WholeInv, JournalInv
    <3>6. ~EndsTorn(Join(A, P))
      BY <3>5, JoinWhole
    <3> QED
      BY <3>2, <3>4, <3>6
  <2>2. CASE ~(PublishArchive /\ target = Journal)
    <3>1. archive'[Journal] = archive[Journal]
      <4>1. CASE PublishArchive
        BY <2>2, <4>1 DEF PublishArchive, TypeOK
      <4>2. CASE ~PublishArchive
        BY <4>2, Steps, DiskKept DEF WriteReceipt, UnlinkSource, UnlinkReceipt, AppendRecord,
           TearAppend, AppendBatch, RotateTail, SealTail, SealAs
      <4> QED
        BY <4>1, <4>2
    <3>2. Text(archive[Journal])' = Text(archive[Journal])
      <4>1. CASE AppendRecord \/ TearAppend
        <5>1. PICK x \in {<< >>, <<Torn>>, <<entry>>} : AppendTo(Month, x)
          BY <4>1 DEF AppendRecord, TearAppend
        <5>2. x \in Texts
          <6>1. << >> \in Texts /\ <<Torn>> \in Texts /\ <<entry>> \in Texts
            BY DEF TypeOK, Torn, Texts
          <6> QED
            BY <6>1, <5>1
        <5>3. archive' = archive
          BY <4>1 DEF AppendRecord, TearAppend
        <5> QED
          BY <5>1, <5>2, <5>3, AppendToText DEF KeptArchive
      <4>2. CASE AppendBatch
        <5>1. /\ text' = Append(text, Append(P, entry))
              /\ Append(P, entry) \in Texts
          BY <4>2, TextType, AppendProperties DEF AppendBatch, TypeOK, Texts
        <5> QED
          BY <3>1, <5>1, NewFileKeeps DEF KeptArchive
      <4>3. CASE PublishArchive
        <5>1. PICK r \in receipt[target] : text' = Append(text, r.target)
          BY <4>3 DEF PublishArchive
        <5>2. r.target \in Texts
          BY <5>1 DEF TypeOK, Receipts
        <5> QED
          BY <3>1, <5>1, <5>2, NewFileKeeps DEF KeptArchive
      <4>4. CASE text' = text
        BY <3>1, <4>4, SameTextKeeps DEF KeptArchive
      <4> QED
        BY <4>1, <4>2, <4>3, <4>4, Steps, DiskKept
           DEF WriteReceipt, UnlinkSource, UnlinkReceipt, RotateTail, SealTail, SealAs
    <3> QED
      BY <3>2 DEF WholeInv
  <2> QED
    BY <2>1, <2>2
<1> QED
  BY <1>1, <1>2 DEF WholeInv
-----------------------------------------------------------------------------
(***************************************************************************)
(* What the general series holds: its segments, then its own name.         *)
(***************************************************************************)
LEMMA AscendingRange ==
  ASSUME NEW k \in Nat
  PROVE  Ascending(1..k) = [i \in 1..k |-> i]
<1>1. Cardinality(1..k) = k
  BY FS_Interval
<1>2. ASSUME NEW n \in 1..k PROVE Cardinality({m \in 1..k : m <= n}) = n
  <2>1. {m \in 1..k : m <= n} = 1..n /\ n \in Nat /\ n >= 1
    OBVIOUS
  <2>2. Cardinality(1..n) = n
    BY <2>1, FS_Interval
  <2> QED
    BY <2>1, <2>2
<1>3. ASSUME NEW i \in 1..k
      PROVE  (CHOOSE n \in 1..k : Cardinality({m \in 1..k : m <= n}) = i) = i
  BY <1>2
<1> QED
  BY <1>1, <1>3 DEF Ascending

Sealed(k) == [i \in 1..k |-> Held(i)]

LEMMA HeldType ==
  ASSUME TypeOK
  PROVE  \A c \in Components : Held(c) \in Texts
  BY TextType, JoinTexts DEF Held

LEMMA SealedType ==
  ASSUME TypeOK, NEW k \in 0..MaxRecords
  PROVE  Sealed(k) \in Seq(Texts) /\ Len(Sealed(k)) = k /\ FlattenSeq(Sealed(k)) \in Texts
<1>1. k \in Nat /\ \A i \in 1..k : Held(i) \in Texts
  BY HeldType, BoundsAssumption DEF Components, Segments
<1>2. Sealed(k) \in Seq(Texts) /\ Len(Sealed(k)) = k
  BY <1>1, IsASeq DEF Sealed
<1> QED
  BY <1>2, FlattenType DEF Texts

\* The segments, one after the other, then what the month's own name holds.
LEMMA KeptIs ==
  ASSUME IInv, MonthInv, NEW k \in 0..MaxRecords, SegmentNumbers = 1..k
  PROVE  Kept = Join(FlattenSeq(Sealed(k)), Held(Month))
<1> USE ComponentNames, BoundsAssumption DEF IInv
<1> DEFINE tail   == IF Committed(Month) THEN << >> ELSE Text(plain[Month])
           sealed == FlattenSeq(Sealed(k))
<1>1. Kept = Join(Text(archive[Month]) \o sealed, tail)
  <2> DEFINE numbers == Ascending(SegmentNumbers)
             held    == [i \in DOMAIN numbers |-> Held(numbers[i])]
  <2>1. k \in Nat /\ numbers = [i \in 1..k |-> i]
    BY AscendingRange
  <2>2. held = Sealed(k)
    <3> HIDE DEF numbers
    <3> QED
      BY <2>1 DEF Sealed
  <2> HIDE DEF numbers, held
  <2> QED
    BY <2>2 DEF Kept, numbers, held
<1>2. /\ sealed \in Texts /\ tail \in Texts /\ Held(Month) \in Texts
      /\ Text(archive[Month]) \in Texts /\ Text(plain[Month]) \in Texts
  BY SealedType, HeldType, TextType, EmptySeq DEF Texts
<1>3. Held(Month) = Join(Text(archive[Month]), tail)
  BY <1>2, JoinEmpty DEF Held, Texts
<1>4. CASE k = 0
  <2>1. sealed = << >>
    <3>1. Sealed(k) = << >>
      BY <1>4, SealedType, EmptySeq
    <3> QED
      BY <3>1, FlattenEmpty
  <2>2. Text(archive[Month]) \o << >> = Text(archive[Month])
    BY <1>2, ConcatEmptySeq DEF Texts
  <2>3. Join(<< >>, Held(Month)) = Held(Month)
    BY <1>2, JoinEmpty DEF Texts
  <2> QED
    BY <1>1, <1>3, <2>1, <2>2, <2>3
<1>5. CASE k # 0
  <2>1. archive[Month] = NoFile
    <3>1. 1 \in SegmentNumbers
      BY <1>5
    <3> QED
      BY <3>1 DEF MonthInv
  <2>2. Text(archive[Month]) = << >>
    BY <2>1 DEF Text
  <2>3. << >> \o sealed = sealed /\ Join(<< >>, tail) = tail
    BY <1>2, ConcatEmptySeq, JoinEmpty DEF Texts
  <2> QED
    BY <1>1, <1>3, <2>2, <2>3
<1> QED
  BY <1>4, <1>5

KeptSplits == IInv /\ MonthInv => \A k \in 0..MaxRecords : SegmentNumbers = 1..k =>
                Kept = Join(FlattenSeq(Sealed(k)), Held(Month))

LEMMA KeptIsNext == KeptSplits'
<1>1. KeptSplits
  BY KeptIs DEF KeptSplits
<1> QED
  BY <1>1, PTL

SealedTypes == TypeOK => \A k \in 0..MaxRecords : FlattenSeq(Sealed(k)) \in Texts

LEMMA SealedTypeNext == SealedTypes'
<1>1. SealedTypes
  BY SealedType DEF SealedTypes
<1> QED
  BY <1>1, PTL

LEMMA SealedKept ==
  ASSUME NEW k \in 0..MaxRecords, \A c \in 1..k : Held(c)' = Held(c)
  PROVE  Sealed(k)' = Sealed(k)
  BY DEF Sealed

LEMMA SealedNext ==
  ASSUME NEW k \in 0..MaxRecords - 1
  PROVE  Sealed(k + 1) = Append(Sealed(k), Held(k + 1))
<1> USE BoundsAssumption
<1> DEFINE s == Sealed(k)
           t == Held(k + 1)
<1>1. k \in Nat /\ s = [i \in 1..k |-> Held(i)]
  BY DEF Sealed
<1>2. s \in Seq({Held(i) : i \in 1..k + 1}) /\ Len(s) = k
  <2>1. \A i \in 1..k : Held(i) \in {Held(j) : j \in 1..k + 1}
    BY <1>1
  <2> QED
    BY <1>1, <2>1, IsASeq
<1>3. Append(s, t) = [i \in 1..k + 1 |-> IF i = k + 1 THEN t ELSE s[i]]
  <2> HIDE DEF s, t
  <2> QED
    BY <1>1, <1>2
<1> QED
  BY <1>1, <1>3 DEF Sealed

SealedNexts == \A k \in 0..MaxRecords - 1 : Sealed(k + 1) = Append(Sealed(k), Held(k + 1))

LEMMA SealedNextNext == SealedNexts'
<1>1. SealedNexts
  BY SealedNext DEF SealedNexts
<1> QED
  BY <1>1, PTL

\* What was sealed ends with its line.
LEMMA SealedWhole ==
  ASSUME TypeOK, WholeInv, NEW k \in 0..MaxRecords, SegmentNumbers = 1..k
  PROVE  ~EndsTorn(FlattenSeq(Sealed(k)))
<1> USE BoundsAssumption
<1>1. CASE k = 0
  <2>1. Sealed(k) = << >> /\ ~EndsTorn(<< >>)
    BY <1>1, SealedType, EmptySeq DEF EndsTorn
  <2> QED
    BY <2>1, FlattenEmpty
<1>2. CASE k # 0
  <2>1. k - 1 \in 0..MaxRecords - 1 /\ k - 1 \in 0..MaxRecords /\ (k - 1) + 1 = k
    BY <1>2
  <2>2. Sealed(k) = Append(Sealed(k - 1), Held(k))
    BY <2>1, SealedNext
  <2>3. Sealed(k - 1) \in Seq(Texts) /\ Held(k) \in Texts /\ Whole(Held(k))
    <3>1. k \in SegmentNumbers /\ k \in Components
      BY <1>2 DEF Components, Segments
    <3> QED
      BY <2>1, <3>1, SealedType, HeldType DEF WholeInv
  <2> DEFINE s == Sealed(k - 1)
             t == Held(k)
  <2> HIDE DEF s, t
  <2>4. FlattenSeq(Append(s, t)) = FlattenSeq(s) \o t /\ FlattenSeq(s) \in Texts
    BY <2>3, FlattenWith, FlattenType DEF s, t, Texts
  <2>5. ~EndsTorn(FlattenSeq(s) \o t)
    <3>1. /\ FlattenSeq(s) \in Seq(Int) /\ t \in Seq(Int) /\ t # << >>
          /\ Len(t) \in Nat /\ Len(FlattenSeq(s)) \in Nat /\ Len(t) > 0
          /\ t[Len(t)] # Torn
      BY <2>3, <2>4, LenProperties, EmptySeq DEF Texts, Whole, EndsTorn, t
    <3>2. /\ FlattenSeq(s) \o t \in Seq(Int)
          /\ Len(FlattenSeq(s) \o t) = Len(FlattenSeq(s)) + Len(t)
          /\ (FlattenSeq(s) \o t)[Len(FlattenSeq(s)) + Len(t)] = t[Len(t)]
      BY <3>1, ConcatProperties
    <3> QED
      BY <3>1, <3>2 DEF EndsTorn
  <2> QED
    BY <2>2, <2>4, <2>5 DEF s, t
<1> QED
  BY <1>1, <1>2

\* What a step does to the general series.
LEMMA SameKept ==
  ASSUME IInv, IInv', SeriesInv, SeriesInv', SegmentNumbers' = SegmentNumbers,
         HeldKept(Components \ {Month, Journal}), NEW h, Held(Month)' = h
  PROVE  \E k \in 0..MaxRecords :
           /\ Kept = Join(FlattenSeq(Sealed(k)), Held(Month))
           /\ Kept' = Join(FlattenSeq(Sealed(k)), h)
<1>1. PICK k \in 0..MaxRecords : SegmentNumbers = 1..k
  BY DEF SeriesInv, NumberInv
<1>2. \A c \in 1..k : c \in Components \ {Month, Journal}
  BY <1>1, ComponentNames DEF SegmentNumbers
<1>3. Sealed(k)' = Sealed(k)
  BY <1>2, SealedKept DEF HeldKept
<1>4. Kept = Join(FlattenSeq(Sealed(k)), Held(Month))
  BY <1>1, KeptIs DEF SeriesInv
<1>5. (SegmentNumbers = 1..k)'
  BY <1>1
<1>6. Kept' = Join(FlattenSeq(Sealed(k)), Held(Month))'
  BY <1>5, KeptIsNext DEF SeriesInv, KeptSplits
<1>7. Kept' = Join(FlattenSeq(Sealed(k)'), Held(Month)')
  BY <1>6
<1> QED
  BY <1>3, <1>4, <1>7
-----------------------------------------------------------------------------
(***************************************************************************)
(* The log implements RetainedLog.                                         *)
(***************************************************************************)
\* The tail becomes the last segment: the series stays what it is.
LEMMA KeptBySealing ==
  ASSUME IInv, IInv', SeriesInv, SeriesInv', RotateTail \/ SealTail
  PROVE  Kept' = Kept /\ Held(Journal)' = Held(Journal)
<1> USE ComponentNames, BoundsAssumption DEF IInv, SeriesInv
<1>1. PICK k \in 0..MaxRecords - 1, after \in {"rotate", "append"} :
         /\ SealAs(k + 1, after) /\ k + 1 \in Segments
         /\ SegmentNumbers = 1..k /\ SegmentNumbers' = 1..k + 1
         /\ receipt[Month] = {} /\ archive[Month] = NoFile
  BY SealedSegment
<1> DEFINE sealed == FlattenSeq(Sealed(k))
           tail   == Text(plain[Month])
<1>2. k \in 0..MaxRecords /\ k + 1 \in 0..MaxRecords /\ k + 1 \in Components /\ k \in Nat
  BY <1>1
<1>3. /\ HeldKept(Components \ {k + 1, Month})
      /\ Held(k + 1)' = tail /\ Held(Month)' = << >>
  BY <1>1, SealTexts DEF Text
<1>4. tail \in Texts /\ sealed \in Texts /\ sealed \o tail \in Texts
  <2>1. tail \in Texts /\ sealed \in Texts
    BY <1>2, TextType, SealedType
  <2> QED
    BY <2>1, ConcatProperties DEF Texts
<1>5. Held(Month) = tail
  <2>1. Held(Month) = Join(<< >>, tail)
    BY <1>1 DEF Held, Committed, Text
  <2> QED
    BY <1>4, <2>1, JoinEmpty DEF Texts
<1>6. Kept = sealed \o tail
  <2>1. Kept = Join(sealed, tail)
    BY <1>1, <1>2, <1>5, KeptIs
  <2>2. ~EndsTorn(sealed)
    BY <1>1, <1>2, SealedWhole
  <2> QED
    BY <1>4, <2>1, <2>2, JoinWhole
<1>7. Kept' = FlattenSeq(Sealed(k + 1)')
  <2>1. (SegmentNumbers = 1..k + 1)'
    BY <1>1
  <2>2. Kept' = Join(FlattenSeq(Sealed(k + 1)'), Held(Month)')
    BY <1>2, <2>1, KeptIsNext DEF KeptSplits
  <2>3. FlattenSeq(Sealed(k + 1)') \in Texts
    BY <1>2, SealedTypeNext DEF SealedTypes
  <2> QED
    BY <1>3, <2>2, <2>3, JoinEmpty DEF Texts
<1>8. Sealed(k + 1)' = Append(Sealed(k), tail)
  <2>1. Sealed(k + 1)' = Append(Sealed(k)', Held(k + 1)')
    BY <1>2, SealedNextNext DEF SealedNexts
  <2>2. \A c \in 1..k : c \in Components \ {k + 1, Month}
    BY <1>1 DEF Segments
  <2>3. Sealed(k)' = Sealed(k)
    BY <1>2, <1>3, <2>2, SealedKept DEF HeldKept
  <2> QED
    BY <1>3, <2>1, <2>3
<1>9. FlattenSeq(Append(Sealed(k), tail)) = sealed \o tail
  <2>1. Sealed(k) \in Seq(Texts)
    BY <1>2, SealedType
  <2> HIDE DEF tail
  <2> QED
    BY <1>4, <2>1, FlattenWith DEF Texts
<1>10. Held(Journal)' = Held(Journal)
  <2>1. Journal \in Components \ {k + 1, Month}
    BY <1>1
  <2> QED
    BY <1>3, <2>1 DEF HeldKept
<1> QED
  BY <1>6, <1>7, <1>8, <1>9, <1>10

\* A batch that contains_batch does not find ends the journal, and is new there.
LEMMA JournalGrows ==
  ASSUME IInv, SeriesInv, AppendBatch
  PROVE  /\ entry \in 1..MaxBatches
         /\ \A i \in DOMAIN Held(Journal) : Held(Journal)[i] # entry
         /\ Held(Journal)' = Append(Held(Journal), entry)
<1> USE ComponentNames, BoundsAssumption DEF IInv, SeriesInv
<1> DEFINE A == Text(archive[Journal])
           P == Text(plain[Journal])
<1>1. /\ pc = "append" /\ series = "journal" /\ entry # 0 /\ receipt[Journal] = {}
      /\ ~HasLine(plain[Journal], entry) /\ ~HasLine(archive[Journal], entry)
  BY DEF AppendBatch, HasBatch, PlaceInv, Compressing
<1>2. entry \in 1..MaxBatches
  BY <1>1 DEF EntryInv
<1>3. /\ A \in Texts /\ P \in Texts /\ A \o P \in Texts /\ Held(Journal) = A \o P
      /\ ~EndsTorn(A \o P)
  <2>1. A \in Texts /\ P \in Texts /\ ~EndsTorn(A) /\ ~EndsTorn(P)
    BY TextType DEF WholeInv, JournalInv
  <2>2. Held(Journal) = Join(A, P)
    BY <1>1 DEF Held, Committed
  <2>3. A \o P \in Texts
    BY <2>1, ConcatProperties DEF Texts
  <2> QED
    BY <2>1, <2>2, <2>3, JoinWhole
<1>4. \A i \in DOMAIN Held(Journal) : Held(Journal)[i] # entry
  <2>1. /\ Len(A) \in Nat /\ Len(P) \in Nat
        /\ DOMAIN A = 1..Len(A) /\ DOMAIN P = 1..Len(P)
        /\ DOMAIN (A \o P) = 1..Len(A) + Len(P)
        /\ \A i \in 1..Len(A) + Len(P) :
             (A \o P)[i] = IF i <= Len(A) THEN A[i] ELSE P[i - Len(A)]
    BY <1>3, ConcatProperties, LenProperties DEF Texts
  <2>2. /\ \A i \in 1..Len(A) : A[i] # entry
        /\ \A i \in 1..Len(P) : P[i] # entry
    BY <1>1, <2>1 DEF HasLine
  <2> HIDE DEF A, P
  <2>3. ASSUME NEW i \in 1..Len(A) + Len(P) PROVE (A \o P)[i] # entry
    <3>1. CASE i <= Len(A)
      BY <2>1, <2>2, <3>1
    <3>2. CASE i > Len(A)
      <4>1. i - Len(A) \in 1..Len(P)
        BY <2>1, <3>2
      <4> QED
        BY <2>1, <2>2, <3>2, <4>1
    <3> QED
      BY <2>1, <3>1, <3>2
  <2> QED
    BY <1>3, <2>1, <2>3
<1>5. Held(Journal)' = Append(Held(Journal), entry)
  <2>1. Held(Journal)' = Write(A \o P, entry)
    BY <1>3, BatchTexts
  <2>2. (A \o P) \o <<entry>> = Append(A \o P, entry)
    BY <1>2, <1>3 DEF Texts
  <2> HIDE DEF A, P
  <2> QED
    BY <1>3, <2>1, <2>2 DEF Write, Join
<1> QED
  BY <1>2, <1>4, <1>5

\* RetainedLog writes as the files do.
LEMMA SameWrite ==
  Retained!Torn = Torn /\ \A s, line : Retained!Write(s, line) = Write(s, line)
  BY DEF Retained!Torn, Torn, Retained!Write, Write, Retained!Join, Join,
         Retained!EndsTorn, EndsTorn, Retained!Ended, Ended, Retained!Junk, Junk

LEMMA RetainedStep ==
  ASSUME IInv, IInv', SeriesInv, SeriesInv', NextRotation
  PROVE  Retained!Next \/ UNCHANGED <<Kept, Held(Journal)>>
<1> USE ComponentNames DEF IInv
<1>1. CASE RotateTail \/ SealTail
  BY <1>1, KeptBySealing
<1>2. CASE AppendRecord \/ TearAppend
  <2>1. SegmentNumbers' = SegmentNumbers
    <3>1. ~RotateTail /\ ~SealTail
      BY <1>2 DEF AppendRecord, TearAppend, RotateTail, SealTail
    <3> QED
      BY <3>1, SameSegments
  <2>2. /\ HeldKept(Components \ {Month}) /\ HeldKept(Components \ {Month, Journal})
        /\ Held(Journal)' = Held(Journal)
    BY <1>2, RecordTexts DEF HeldKept
  <2>3. PICK k \in 0..MaxRecords :
          /\ Kept = Join(FlattenSeq(Sealed(k)), Held(Month))
          /\ Kept' = Join(FlattenSeq(Sealed(k)), Held(Month)')
    BY <2>1, <2>2, SameKept
  <2>4. CASE Held(Month)' = Held(Month)
    BY <2>2, <2>3, <2>4
  <2>5. ASSUME NEW line \in {entry, Torn}, Held(Month)' = Write(Held(Month), line)
        PROVE  Retained!Next
    <3>1. line \in 1..MaxRecords \cup {Torn}
      <4>1. pc = "append" /\ series = "general" /\ entry # 0
        BY <1>2 DEF AppendRecord, TearAppend
      <4>2. entry \in 1..MaxRecords
        BY <4>1, BoundsAssumption DEF SeriesInv, EntryInv
      <4> QED
        BY <2>5, <4>2
    <3>2. FlattenSeq(Sealed(k)) \in Texts /\ Held(Month) \in Texts /\ line \in Int
      BY <3>1, SealedType, HeldType, BoundsAssumption DEF Torn
    <3>3. Kept' = Write(Kept, line)
      BY <2>3, <2>5, <3>2, JoinWrite DEF Texts
    <3> QED
      BY <2>2, <3>1, <3>3, SameWrite DEF Retained!Next, Retained!AppendRecord
  <2> QED
    BY <1>2, <2>4, <2>5, RecordTexts
<1>3. CASE StepsThatKeepDisk \/ WriteReceipt \/ PublishArchive
           \/ UnlinkSource \/ UnlinkReceipt \/ AppendBatch
  <2>1. HeldKept(Components \ {Journal}) /\ (HeldKept(Components) \/ AppendBatch)
    BY <1>3, KeptTexts, ReceiptTexts, PublishTexts, UnlinkTexts, BatchTexts DEF HeldKept
  <2>2. CASE ~RotateTail /\ ~SealTail
    <3>1. SegmentNumbers' = SegmentNumbers
      BY <2>2, SameSegments
    <3>2. Held(Month)' = Held(Month) /\ HeldKept(Components \ {Month, Journal})
      BY <2>1 DEF HeldKept
    <3>3. Kept' = Kept
      BY <3>1, <3>2, SameKept
    <3>4. CASE AppendBatch
      BY <3>3, <3>4, JournalGrows DEF Retained!Next, Retained!AppendBatch
    <3>5. CASE HeldKept(Components)
      BY <3>3, <3>5 DEF HeldKept
    <3> QED
      BY <2>1, <3>4, <3>5
  <2> QED
    BY <1>1, <2>2
<1> QED
  BY <1>1, <1>2, <1>3, Steps

LEMMA InitSeries == InitRotation => SeriesInv /\ Retained!Init
<1> SUFFICES ASSUME InitRotation PROVE SeriesInv /\ Retained!Init
  OBVIOUS
<1> USE BoundsAssumption, ComponentNames DEF InitRotation
<1>1. IInv
  BY InitIInv
<1>2. /\ SegmentNumbers = {} /\ SegmentNumbers = 1..0 /\ 0 \in 0..MaxRecords
      /\ plain[Month] = NoFile /\ archive[Month] = NoFile /\ receipt[Month] = {}
      /\ plain[Journal] = NoFile /\ archive[Journal] = NoFile /\ receipt[Journal] = {}
  BY DEF SegmentNumbers, Exists
<1>3. ~EndsTorn(<< >>) /\ Join(<< >>, << >>) = << >>
  BY JoinEmpty, EmptySeq DEF EndsTorn
<1>4. SeriesInv
  BY <1>2, <1>3 DEF SeriesInv, MonthInv, NumberInv, WholeInv, EntryInv, Compressing, Text
<1>5. Held(Month) = << >> /\ Held(Journal) = << >>
  BY <1>2, <1>3 DEF Held, Committed, Text
<1>6. FlattenSeq(Sealed(0)) = << >>
  <2>1. Sealed(0) = << >>
    BY <1>1, <1>2, SealedType, EmptySeq DEF IInv
  <2> QED
    BY <2>1, FlattenEmpty
<1>7. Kept = Join(FlattenSeq(Sealed(0)), Held(Month))
  BY <1>1, <1>2, <1>4, KeptIs DEF SeriesInv
<1> QED
  BY <1>3, <1>4, <1>5, <1>6, <1>7 DEF Retained!Init

LEMMA StutterSeries ==
  SeriesInv /\ UNCHANGED rotationVars => SeriesInv' /\ UNCHANGED <<Kept, Held(Journal)>>
<1> SUFFICES ASSUME SeriesInv, UNCHANGED rotationVars
             PROVE  SeriesInv' /\ UNCHANGED <<Kept, Held(Journal)>>
  OBVIOUS
<1> USE DEF rotationVars, disk, inputs, call
<1>1. /\ UNCHANGED <<text, plain, archive, receipt>>
      /\ UNCHANGED <<pc, series, entry, work, target, age>>
  OBVIOUS
<1>2. UNCHANGED SegmentNumbers
  BY <1>1 DEF SegmentNumbers, Exists
<1>3. \A f : Text(f)' = Text(f')
  BY <1>1 DEF Text
<1>4. \A c : Held(c)' = Held(c)
  BY <1>1 DEF Held, Committed, Checksum, Text
<1>5. UNCHANGED <<Kept, Held(Journal)>>
  BY <1>1, <1>2, <1>4 DEF Kept, Committed, Checksum, Text
<1>6. SeriesInv'
  BY <1>1, <1>2, <1>4
     DEF SeriesInv, MonthInv, NumberInv, WholeInv, EntryInv, Compressing, Closed, Text
<1> QED
  BY <1>5, <1>6

LEMMA SeriesInvariance == SpecRotation => [](IInv /\ SeriesInv)
<1>1. IInv /\ IInv' /\ SeriesInv /\ [NextRotation]_rotationVars => SeriesInv'
  BY StutterSeries, MonthStep, NumberStep, WholeStep, EntryStep DEF SeriesInv
<1> QED
  BY <1>1, Invariance, InitSeries, PTL DEF SpecRotation

\* Whatever is moved, compressed, retried or interrupted, the two series are what
\* RetainedLog says: each only grows at its end, and no batch is in it twice.
THEOREM LogIsRetained == SpecRotation => ImplementsRetainedLog
<1>1. /\ IInv /\ IInv' /\ SeriesInv /\ SeriesInv' /\ [NextRotation]_rotationVars
      => [Retained!Next]_<<Kept, Held(Journal)>>
  BY RetainedStep, StutterSeries
<1> QED
  BY <1>1, SeriesInvariance, InitSeries, PTL DEF SpecRotation, ImplementsRetainedLog, Retained!Spec
-----------------------------------------------------------------------------
(***************************************************************************)
(* The pieces of a month.                                                  *)
(***************************************************************************)
Pieces == Components \X {"plain", "archive"}

\* A writer excludes the readers, and they it.
LockInv == sharing # {} => pc = "idle"

\* A component other than the journal is plain or archived, unless its rotation
\* is at its end.
SoleInv == \A c \in Components \ {Journal} :
             plain[c] # NoFile /\ archive[c] # NoFile => Committed(c)

ReaderTypes == /\ stage \in [Readers -> {"idle", "listed", "reading", "refused"}]
               /\ pieces \in [Readers -> Seq(Pieces)]
               /\ view \in [Readers -> Texts]

ListInv == \A r \in Readers : stage[r] = "listed" => Listed

\* What a command has read, and has yet to read, is the month.
ReadInv == \A r \in Readers :
  IF stage[r] = "reading"
  THEN r \in sharing /\ view[r] \o LinesOf(pieces[r]) = CompleteLines(Kept)
  ELSE view[r] = << >>

ReaderInv == ReaderTypes /\ ListInv /\ ReadInv

RInv == IInv /\ SeriesInv /\ SoleInv /\ LockInv

LEMMA LockStep ==
  ASSUME LockInv, NextRotation
  PROVE  LockInv'
<1> USE DEF LockInv
<1>1. CASE LogRecord \/ LogElsewhere \/ LogBatch \/ LogNoBatch
  BY <1>1 DEF LogRecord, LogElsewhere, LogBatch, LogNoBatch, Acquire
<1>2. CASE \E r \in Readers : Share(r) \/ Unshare(r)
  BY <1>2 DEF Share, Unshare
<1>3. CASE JournalBatch \/ Acknowledge \/ PassTime
  BY <1>3 DEF JournalBatch, Acknowledge, PassTime
<1>4. ASSUME pc # "idle", sharing' = sharing PROVE LockInv'
  BY <1>4
<1>5. CASE StepWriter
  BY <1>4, <1>5 DEF StepWriter, RotateComponent, RotateTail, KeepTail, FinishRotation,
     SealTail, LeaveTail, SealAs, RetireSource, WriteReceipt, PublishArchive, UnlinkSource,
     UnlinkReceipt, AppendRecord, AppendBatch, AppendNothing
<1>6. CASE Abandon \/ TearAppend
  BY <1>4, <1>6 DEF Abandon, TearAppend
<1> QED
  BY <1>1, <1>2, <1>3, <1>5, <1>6 DEF NextRotation, NextWriter

LEMMA SoleStep ==
  ASSUME IInv, SeriesInv, SoleInv, NextRotation
  PROVE  SoleInv'
<1> USE ComponentNames DEF IInv
<1> SUFFICES ASSUME NEW c \in Components \ {Journal},
                    plain'[c] # NoFile, archive'[c] # NoFile
             PROVE  Committed(c)'
  BY DEF SoleInv
<1>1. CASE /\ archive'[c] = archive[c] /\ receipt'[c] = receipt[c] /\ text' = text
           /\ plain[c] # NoFile
  <2>1. Committed(c)
    BY <1>1 DEF SoleInv
  <2> QED
    BY <1>1, <2>1 DEF Committed, Checksum
<1>2. CASE StepsThatKeepDisk
  BY <1>1, <1>2, DiskKept
<1>3. CASE RotateTail \/ SealTail
  <2>1. PICK k \in 0..MaxRecords - 1, after \in {"rotate", "append"} :
          /\ SealAs(k + 1, after) /\ k + 1 \in Segments /\ SegmentNumbers = 1..k
          /\ archive[Month] = NoFile
    BY <1>3, SealedSegment
  <2>2. archive[k + 1] = NoFile
    <3>1. k + 1 \notin SegmentNumbers
      BY <2>1
    <3> QED
      BY <2>1, <3>1 DEF SegmentNumbers, Exists
  <2>3. /\ UNCHANGED <<text, archive, receipt>>
        /\ \A d \in Components \ {k + 1, Month} : plain'[d] = plain[d]
    BY <2>1 DEF SealAs, TypeOK
  <2> QED
    BY <1>1, <2>1, <2>2, <2>3
<1>4. CASE WriteReceipt
  <2>1. UNCHANGED <<text, plain, archive>>
    BY <1>4 DEF WriteReceipt
  <2>2. Committed(c)
    BY <2>1 DEF SoleInv
  <2>3. c # target
    BY <1>4, <2>2 DEF WriteReceipt
  <2> QED
    BY <1>1, <1>4, <2>1, <2>3 DEF WriteReceipt, TypeOK
<1>5. CASE PublishArchive
  <2>1. PICK r \in receipt[target] : text' = Append(text, r.target)
    BY <1>5 DEF PublishArchive
  <2>2. r.target \in Texts
    BY <2>1 DEF TypeOK, Receipts
  <2>3. CASE c = target
    <3>1. archive'[c] = Len(text) + 1 /\ text'[Len(text) + 1] = r.target /\ receipt' = receipt
      BY <1>5, <2>1, <2>2, <2>3, NewFile DEF PublishArchive, TypeOK
    <3>2. Checksum(archive[c])' = {r.target}
      BY <3>1 DEF Checksum
    <3> QED
      BY <2>1, <2>3, <3>1, <3>2 DEF Committed
  <2>4. CASE c # target
    <3>1. archive'[c] = archive[c] /\ receipt' = receipt /\ plain' = plain
      BY <1>5, <2>4 DEF PublishArchive, TypeOK
    <3>2. Checksum(archive[c])' = Checksum(archive[c])
      BY <2>1, <2>2, <3>1, NewFileKeeps DEF KeptArchive
    <3>3. Committed(c)
      BY <3>1 DEF SoleInv
    <3> QED
      BY <3>1, <3>2, <3>3 DEF Committed
  <2> QED
    BY <2>3, <2>4
<1>6. CASE UnlinkSource
  BY <1>1, <1>6 DEF UnlinkSource, TypeOK
<1>7. CASE UnlinkReceipt
  <2>1. c # target
    BY <1>7 DEF UnlinkReceipt, StepInv
  <2> QED
    BY <1>1, <1>7, <2>1 DEF UnlinkReceipt, TypeOK
<1>8. CASE AppendRecord \/ TearAppend
  <2>1. archive[Month] = NoFile
    <3>1. pc = "append" /\ series = "general" /\ entry # 0
      BY <1>8 DEF AppendRecord, TearAppend
    <3> QED
      BY <3>1 DEF SeriesInv, MonthInv
  <2>2. PICK x \in {<< >>, <<Torn>>, <<entry>>} : AppendTo(Month, x)
    BY <1>8 DEF AppendRecord, TearAppend
  <2>3. x \in Texts
    <3>1. << >> \in Texts /\ <<Torn>> \in Texts /\ <<entry>> \in Texts
      BY DEF TypeOK, Torn, Texts
    <3> QED
      BY <2>2, <3>1
  <2>4. archive' = archive /\ receipt' = receipt
    BY <1>8 DEF AppendRecord, TearAppend
  <2>5. c # Month /\ plain'[c] = plain[c]
    BY <2>1, <2>2, <2>4 DEF AppendTo, TypeOK
  <2>6. Checksum(archive[c])' = Checksum(archive[c])
    BY <2>2, <2>3, <2>4, AppendToText DEF KeptArchive
  <2>7. Committed(c)
    BY <2>4, <2>5 DEF SoleInv
  <2> QED
    BY <2>4, <2>6, <2>7 DEF Committed
<1>9. CASE AppendBatch
  <2>1. /\ text' = Append(text, Append(Text(plain[Journal]), entry))
        /\ Append(Text(plain[Journal]), entry) \in Texts
        /\ archive' = archive /\ receipt' = receipt /\ plain'[c] = plain[c]
    BY <1>9, TextType, AppendProperties DEF AppendBatch, TypeOK, Texts
  <2>2. Checksum(archive[c])' = Checksum(archive[c])
    BY <2>1, NewFileKeeps DEF KeptArchive
  <2>3. Committed(c)
    BY <2>1 DEF SoleInv
  <2> QED
    BY <2>1, <2>2, <2>3 DEF Committed
<1> QED
  BY <1>2, <1>3, <1>4, <1>5, <1>6, <1>7, <1>8, <1>9, Steps

\* A component of the general series is in one file, or in none.
LEMMA OnePiece ==
  ASSUME IInv, SoleInv, NEW c \in Components \ {Journal}
  PROVE  \/ /\ ~Exists(c) /\ ComponentPieces(c) = << >> /\ Held(c) = << >>
         \/ /\ plain[c] # NoFile \/ archive[c] # NoFile
            /\ \E kind \in {"plain", "archive"} :
                 /\ ComponentPieces(c) = << <<c, kind>> >>
                 /\ Text(FileOf(<<c, kind>>)) = Held(c)
<1> USE DEF IInv
<1> DEFINE A == Text(archive[c])
           P == Text(plain[c])
<1>0. /\ A \in Texts /\ P \in Texts /\ Join(A, << >>) = A /\ Join(<< >>, P) = P
      /\ << >> \in Texts /\ Join(<< >>, << >>) = << >>
  BY TextType, JoinEmpty, EmptySeq DEF Texts
<1>1. FileOf(<<c, "plain">>) = plain[c] /\ FileOf(<<c, "archive">>) = archive[c]
  BY DEF FileOf
<1>2. CASE archive[c] # NoFile
  <2>1. Piece(c, "archive") = << <<c, "archive">> >>
    BY <1>2 DEF Piece
  <2>2. Committed(c) \/ plain[c] = NoFile
    BY <1>2 DEF SoleInv
  <2>3. ComponentPieces(c) = << <<c, "archive">> >> \o << >>
    BY <2>1, <2>2 DEF ComponentPieces, Piece
  <2>4. << <<c, "archive">> >> \o << >> = << <<c, "archive">> >>
    OBVIOUS
  <2>5. Held(c) = A
    BY <1>0, <2>2 DEF Held, Text
  <2> QED
    BY <1>1, <1>2, <2>3, <2>4, <2>5
<1>3. CASE archive[c] = NoFile
  <2>1. /\ Piece(c, "archive") = << >> /\ ~Committed(c) /\ A = << >> /\ Held(c) = P
    BY <1>0, <1>3 DEF Piece, Committed, Checksum, Text, Held
  <2>2. CASE plain[c] # NoFile
    <3>1. ComponentPieces(c) = << >> \o << <<c, "plain">> >>
      BY <2>1, <2>2 DEF ComponentPieces, Piece
    <3>2. << >> \o << <<c, "plain">> >> = << <<c, "plain">> >>
      OBVIOUS
    <3> QED
      BY <1>1, <2>1, <2>2, <3>1, <3>2
  <2>3. CASE plain[c] = NoFile
    <3>1. receipt[c] = {}
      BY <1>3, <2>3 DEF ReceiptInv, Applied, Prepared, Checksum
    <3>2. ComponentPieces(c) = << >> \o << >>
      BY <2>1, <2>3 DEF ComponentPieces, Piece
    <3>3. << >> \o << >> = << >>
      OBVIOUS
    <3> QED
      BY <1>3, <2>1, <2>3, <3>1, <3>2, <3>3 DEF Exists, Text
  <2> QED
    BY <2>2, <2>3
<1> QED
  BY <1>2, <1>3

\* The pieces of the segments: one each.
SealedPieces(k) == [i \in 1..k |-> ComponentPieces(i)[1]]

LEMMA MonthPiecesAre ==
  ASSUME IInv, MonthInv, SoleInv, NEW k \in 0..MaxRecords, SegmentNumbers = 1..k
  PROVE  /\ SealedPieces(k) \in Seq(Pieces) /\ Len(SealedPieces(k)) = k
         /\ \A i \in 1..k : /\ ComponentPieces(i) # << >>
                            /\ Text(FileOf(SealedPieces(k)[i])) = Held(i)
         /\ MonthPieces = SealedPieces(k) \o ComponentPieces(Month)
<1> USE ComponentNames, BoundsAssumption DEF IInv
<1> DEFINE numbers == Ascending(SegmentNumbers)
           sealed  == [i \in DOMAIN numbers |-> ComponentPieces(numbers[i])]
           last    == IF Committed(Month) THEN << >> ELSE Piece(Month, "plain")
<1>1. k \in Nat /\ numbers = [i \in 1..k |-> i]
  BY AscendingRange
<1>2. ASSUME NEW i \in 1..k
      PROVE  \E kind \in {"plain", "archive"} :
               /\ ComponentPieces(i) = << <<i, kind>> >>
               /\ Text(FileOf(<<i, kind>>)) = Held(i)
  <2>1. Exists(i) /\ i \in Components \ {Journal}
    BY DEF SegmentNumbers
  <2> QED
    BY <2>1, OnePiece
<1>3. \A i \in 1..k : /\ ComponentPieces(i) \in Seq(Pieces) /\ Len(ComponentPieces(i)) = 1
                      /\ ComponentPieces(i) # << >>
                      /\ ComponentPieces(i)[1] \in Pieces
                      /\ Text(FileOf(ComponentPieces(i)[1])) = Held(i)
  <2> TAKE i \in 1..k
  <2>1. PICK kind \in {"plain", "archive"} :
               /\ ComponentPieces(i) = << <<i, kind>> >>
               /\ Text(FileOf(<<i, kind>>)) = Held(i)
    BY <1>2
  <2>2. i \in Components
    BY DEF SegmentNumbers
  <2>3. <<i, kind>> \in Pieces
    BY <2>2 DEF Pieces
  <2> QED
    BY <2>1, <2>3
<1>4. sealed = [i \in 1..k |-> ComponentPieces(i)]
  <2> HIDE DEF numbers
  <2> QED
    BY <1>1
<1>5. sealed \in Seq(Seq(Pieces)) /\ Len(sealed) = k
  <2>1. [i \in 1..k |-> ComponentPieces(i)] \in Seq(Seq(Pieces))
    BY <1>1, <1>3, IsASeq
  <2> HIDE DEF sealed
  <2> QED
    BY <1>1, <1>4, <2>1
<1>6. FlattenSeq(sealed) = SealedPieces(k)
  <2>1. \A i \in 1..Len(sealed) : Len(sealed[i]) = 1
    BY <1>3, <1>4, <1>5
  <2>2. FlattenSeq(sealed) = [i \in 1..Len(sealed) |-> sealed[i][1]]
    <3> HIDE DEF sealed
    <3> QED
      BY <1>5, <2>1, FlattenSingles
  <2>3. \A i \in 1..k : sealed[i] = ComponentPieces(i)
    BY <1>4
  <2> HIDE DEF sealed
  <2> QED
    BY <1>5, <2>2, <2>3 DEF SealedPieces
<1>7. SealedPieces(k) \in Seq(Pieces) /\ Len(SealedPieces(k)) = k
  <2>1. SealedPieces(k) \in Seq(Pieces)
    BY <1>1, <1>3, IsASeq DEF SealedPieces
  <2> QED
    BY <1>1, <2>1 DEF SealedPieces
<1>8. MonthPieces = Piece(Month, "archive") \o SealedPieces(k) \o last
  <2> HIDE DEF last
  <2> QED
    BY <1>6 DEF MonthPieces, last
<1>9. MonthPieces = SealedPieces(k) \o ComponentPieces(Month)
  <2>1. ComponentPieces(Month) = Piece(Month, "archive") \o last
    BY DEF ComponentPieces
  <2>2. Piece(Month, "archive") \in Seq(Pieces) /\ last \in Seq(Pieces)
    <3>1. <<Month, "archive">> \in Pieces /\ <<Month, "plain">> \in Pieces
      BY DEF Pieces
    <3> QED
      BY <3>1 DEF Piece
  <2> HIDE DEF last
  <2>3. CASE k = 0
    <3>1. SealedPieces(k) = << >>
      BY <1>7, <2>3, EmptySeq
    <3>2. /\ Piece(Month, "archive") \o << >> = Piece(Month, "archive")
          /\ << >> \o ComponentPieces(Month) = ComponentPieces(Month)
      BY <2>1, <2>2, ConcatEmptySeq, ConcatProperties
    <3> QED
      BY <1>8, <2>1, <3>1, <3>2
  <2>4. CASE k # 0
    <3>1. Piece(Month, "archive") = << >>
      <4>1. 1 \in SegmentNumbers
        BY <2>4
      <4> QED
        BY <4>1 DEF MonthInv, Piece
    <3>2. << >> \o SealedPieces(k) = SealedPieces(k) /\ << >> \o last = last
      BY <1>7, <2>2, ConcatEmptySeq
    <3> QED
      BY <1>8, <2>1, <3>1, <3>2
  <2> QED
    BY <2>3, <2>4
<1> QED
  BY <1>3, <1>7, <1>9 DEF SealedPieces
-----------------------------------------------------------------------------
(***************************************************************************)
(* The lines of the pieces.                                                *)
(***************************************************************************)
LEMMA CompleteType ==
  ASSUME NEW s \in Texts
  PROVE  CompleteLines(s) \in Texts
<1>1. SubSeq(s, 1, Len(s) - 1) \in Seq(Int)
  BY LenProperties, SubSeqProperties DEF Texts
<1> QED
  BY <1>1 DEF CompleteLines, Texts

\* An unfinished last line is one of the text that is read last.
LEMMA CompleteConcat ==
  ASSUME NEW f \in Texts, NEW h \in Texts, ~EndsTorn(f)
  PROVE  CompleteLines(f \o h) = f \o CompleteLines(h)
<1>1. CASE h = << >>
  <2>1. f \o << >> = f /\ ~EndsTorn(<< >>)
    BY ConcatEmptySeq, EmptySeq DEF Texts, EndsTorn
  <2> QED
    BY <1>1, <2>1 DEF CompleteLines
<1>2. CASE h # << >>
  <2> DEFINE all == f \o h
             n   == Len(f)
             m   == Len(h)
  <2>1. /\ n \in Nat /\ m \in Nat /\ m > 0
        /\ all \in Seq(Int) /\ Len(all) = n + m /\ all # << >>
        /\ \A i \in 1..n + m : all[i] = IF i <= n THEN f[i] ELSE h[i - n]
    <3>1. /\ n \in Nat /\ m \in Nat /\ m > 0
          /\ all \in Seq(Int) /\ Len(all) = n + m
          /\ \A i \in 1..n + m : all[i] = IF i <= n THEN f[i] ELSE h[i - n]
      BY <1>2, ConcatProperties, LenProperties, EmptySeq DEF Texts
    <3> QED
      BY <3>1, EmptySeq
  <2>2. all[n + m] = h[m]
    <3>1. n + m \in 1..n + m /\ ~(n + m <= n) /\ (n + m) - n = m
      BY <2>1
    <3> HIDE DEF all, n, m
    <3> QED
      BY <2>1, <3>1
  <2>3. EndsTorn(all) <=> EndsTorn(h)
    BY <1>2, <2>1, <2>2 DEF EndsTorn
  <2>4. CASE ~EndsTorn(h)
    BY <2>3, <2>4 DEF CompleteLines
  <2>5. CASE EndsTorn(h)
    <3> DEFINE cut  == SubSeq(all, 1, n + m - 1)
               rest == SubSeq(h, 1, m - 1)
    <3>1. /\ cut \in Seq(Int) /\ Len(cut) = n + m - 1
          /\ \A i \in 1..n + m - 1 : cut[i] = all[i]
      <4>1. /\ cut \in Seq(Int)
            /\ Len(cut) = IF 1 <= n + m - 1 THEN (n + m - 1) - 1 + 1 ELSE 0
            /\ \A i \in 1..(n + m - 1) - 1 + 1 : cut[i] = all[1 + i - 1]
        <5>1. /\ all \in Seq(Int) /\ 1 \in 1..Len(all) + 1 /\ n + m - 1 \in 0..Len(all)
          BY <2>1
        <5> HIDE DEF all, n, m
        <5> QED
          BY <5>1, SubSeqProperties
      <4> HIDE DEF cut, all, n, m
      <4> QED
        BY <2>1, <4>1
    <3>2. /\ rest \in Seq(Int) /\ Len(rest) = m - 1
          /\ \A i \in 1..m - 1 : rest[i] = h[i]
      <4>1. /\ rest \in Seq(Int)
            /\ Len(rest) = IF 1 <= m - 1 THEN (m - 1) - 1 + 1 ELSE 0
            /\ \A i \in 1..(m - 1) - 1 + 1 : rest[i] = h[1 + i - 1]
        <5>1. /\ h \in Seq(Int) /\ 1 \in 1..Len(h) + 1 /\ m - 1 \in 0..Len(h)
          BY <2>1 DEF Texts
        <5> HIDE DEF m
        <5> QED
          BY <5>1, SubSeqProperties
      <4> HIDE DEF rest, m
      <4> QED
        BY <2>1, <4>1
    <3> HIDE DEF cut, rest
    <3>3. /\ f \o rest \in Seq(Int) /\ Len(f \o rest) = n + (m - 1)
          /\ \A i \in 1..n + (m - 1) :
               (f \o rest)[i] = IF i <= n THEN f[i] ELSE rest[i - n]
      <4>1. f \in Seq(Int) /\ Len(f) = n
        BY DEF Texts
      <4>2. /\ f \o rest \in Seq(Int) /\ Len(f \o rest) = Len(f) + Len(rest)
            /\ \A i \in 1..Len(f) + Len(rest) :
                 (f \o rest)[i] = IF i <= Len(f) THEN f[i] ELSE rest[i - Len(f)]
        BY <3>2, <4>1, ConcatProperties
      <4> QED
        BY <3>2, <4>1, <4>2, Zenon
    <3>4. \A i \in 1..n + m - 1 : cut[i] = (f \o rest)[i]
      <4> TAKE i \in 1..n + m - 1
      <4> HIDE DEF all, n, m
      <4>1. cut[i] = IF i <= n THEN f[i] ELSE h[i - n]
        <5>1. i \in 1..n + m
          BY <2>1
        <5>2. cut[i] = all[i]
          BY <3>1, Zenon
        <5>3. all[i] = IF i <= n THEN f[i] ELSE h[i - n]
          BY <2>1, <5>1
        <5> QED
          BY <5>2, <5>3
      <4>2. i > n => i - n \in 1..m - 1
        BY <2>1
      <4>3. i \in 1..n + (m - 1)
        BY <2>1
      <4>4. (f \o rest)[i] = IF i <= n THEN f[i] ELSE rest[i - n]
        BY <3>3, <4>3
      <4>5. ~(i <= n) => rest[i - n] = h[i - n]
        <5>1. ~(i <= n) => i > n
          BY <2>1
        <5> QED
          BY <3>2, <4>2, <5>1
      <4> QED
        BY <4>1, <4>4, <4>5
    <3>5. cut = f \o rest
      <4> HIDE DEF all, n, m
      <4>1. Len(cut) = n + m - 1 /\ Len(f \o rest) = n + m - 1
        BY <2>1, <3>1, <3>3
      <4> QED
        BY <3>1, <3>3, <3>4, <4>1, SeqEqual
    <3>6. CompleteLines(all) = cut /\ CompleteLines(h) = rest
      <4>1. CompleteLines(all) = SubSeq(all, 1, Len(all) - 1)
        BY <2>3, <2>5 DEF CompleteLines
      <4> QED
        BY <2>1, <2>5, <4>1 DEF CompleteLines, cut, rest
    <3> QED
      BY <3>5, <3>6
  <2> QED
    BY <2>4, <2>5
<1> QED
  BY <1>1, <1>2

LEMMA FileLines ==
  ASSUME TypeOK
  PROVE  \A piece \in Pieces : /\ FileOf(piece) \in 0..Len(text)
                               /\ Text(FileOf(piece)) \in Texts
                               /\ Lines(FileOf(piece)) \in Texts
<1> TAKE piece \in Pieces
<1>1. FileOf(piece) \in 0..Len(text)
  BY DEF TypeOK, FileOf, Pieces
<1>2. Text(FileOf(piece)) \in Texts
  BY <1>1, TextType
<1>3. CompleteLines(Text(FileOf(piece))) \in Texts
  BY <1>2, CompleteType
<1> QED
  BY <1>1, <1>2, <1>3 DEF Lines

\* The lines of pieces, piece by piece.
LinesOfEach(p) == [i \in 1..Len(p) |-> Lines(FileOf(p[i]))]

LEMMA LinesAre ==
  ASSUME TypeOK, NEW p \in Seq(Pieces)
  PROVE  /\ LinesOfEach(p) \in Seq(Texts) /\ Len(LinesOfEach(p)) = Len(p)
         /\ LinesOf(p) = FlattenSeq(LinesOfEach(p)) /\ LinesOf(p) \in Texts
<1>1. /\ DOMAIN p = 1..Len(p) /\ Len(p) \in Nat
      /\ \A i \in 1..Len(p) : Lines(FileOf(p[i])) \in Texts
  BY FileLines, LenProperties, ElementOfSeq
<1>2. LinesOfEach(p) \in Seq(Texts) /\ Len(LinesOfEach(p)) = Len(p)
  BY <1>1, IsASeq DEF LinesOfEach
<1>3. LinesOf(p) = FlattenSeq(LinesOfEach(p))
  BY <1>1 DEF LinesOf, LinesOfEach
<1> QED
  BY <1>2, <1>3, FlattenType DEF Texts

LEMMA LinesOfNone ==
  ASSUME TypeOK
  PROVE  LinesOf(<< >>) = << >>
<1>1. << >> \in Seq(Pieces) /\ Len(<< >>) = 0
  BY EmptySeq
<1>2. LinesOfEach(<< >>) \in Seq(Texts) /\ Len(LinesOfEach(<< >>)) = 0
      /\ LinesOf(<< >>) = FlattenSeq(LinesOfEach(<< >>))
  BY <1>1, LinesAre
<1>3. LinesOfEach(<< >>) = << >>
  BY <1>2, EmptySeq
<1> QED
  BY <1>2, <1>3, FlattenEmpty

LEMMA LinesOfLast ==
  ASSUME TypeOK, NEW p \in Seq(Pieces), NEW x \in Pieces
  PROVE  LinesOf(Append(p, x)) = LinesOf(p) \o Lines(FileOf(x))
<1> DEFINE q == Append(p, x)
<1>1. /\ q \in Seq(Pieces) /\ Len(q) = Len(p) + 1 /\ Len(p) \in Nat
      /\ q[Len(p) + 1] = x /\ \A i \in 1..Len(p) : q[i] = p[i]
  BY AppendProperties, LenProperties
<1>2. LinesOfEach(q) = Append(LinesOfEach(p), Lines(FileOf(x)))
  <2>1. /\ LinesOfEach(q) \in Seq(Texts) /\ Len(LinesOfEach(q)) = Len(p) + 1
        /\ LinesOfEach(p) \in Seq(Texts) /\ Len(LinesOfEach(p)) = Len(p)
        /\ Lines(FileOf(x)) \in Texts
    BY <1>1, LinesAre, FileLines
  <2>2. \A i \in 1..Len(p) + 1 : LinesOfEach(q)[i] =
           IF i = Len(p) + 1 THEN Lines(FileOf(x)) ELSE LinesOfEach(p)[i]
    BY <1>1 DEF LinesOfEach
  <2> HIDE DEF q
  <2>3. LET a == Append(LinesOfEach(p), Lines(FileOf(x)))
        IN  /\ a \in Seq(Texts) /\ Len(a) = Len(p) + 1
            /\ \A i \in 1..Len(p) : a[i] = LinesOfEach(p)[i]
            /\ a[Len(p) + 1] = Lines(FileOf(x))
    BY <2>1, AppendProperties
  <2>4. \A i \in 1..Len(p) + 1 :
           LinesOfEach(q)[i] = Append(LinesOfEach(p), Lines(FileOf(x)))[i]
    BY <1>1, <2>2, <2>3
  <2> QED
    BY <1>1, <2>1, <2>3, <2>4, SeqEqual
<1>3. LinesOf(q) = FlattenSeq(LinesOfEach(q)) /\ LinesOf(p) = FlattenSeq(LinesOfEach(p))
  BY <1>1, LinesAre
<1>4. LinesOfEach(p) \in Seq(Texts) /\ Lines(FileOf(x)) \in Texts
  BY LinesAre, FileLines
<1>5. FlattenSeq(Append(LinesOfEach(p), Lines(FileOf(x)))) =
        FlattenSeq(LinesOfEach(p)) \o Lines(FileOf(x))
  BY <1>4, FlattenWith DEF Texts
<1> QED
  BY <1>2, <1>3, <1>5

LEMMA LinesOfFirst ==
  ASSUME TypeOK, NEW p \in Seq(Pieces), p # << >>
  PROVE  LinesOf(p) = Lines(FileOf(p[1])) \o LinesOf(Tail(p))
<1>1. /\ Tail(p) \in Seq(Pieces) /\ Len(Tail(p)) = Len(p) - 1 /\ Len(p) \in Nat
      /\ Len(p) > 0 /\ \A i \in 1..Len(p) - 1 : Tail(p)[i] = p[i + 1]
  BY HeadTailProperties, LenProperties, EmptySeq
<1> DEFINE e == LinesOfEach(p)
           f == LinesOfEach(Tail(p))
<1>2. /\ e \in Seq(Texts) /\ Len(e) = Len(p) /\ f \in Seq(Texts) /\ Len(f) = Len(p) - 1
      /\ LinesOf(p) = FlattenSeq(e) /\ LinesOf(Tail(p)) = FlattenSeq(f)
  BY <1>1, LinesAre
<1>3. /\ e[1] = Lines(FileOf(p[1]))
      /\ \A i \in 1..Len(p) - 1 : f[i] = e[i + 1]
  BY <1>1 DEF LinesOfEach
<1> HIDE DEF e, f
<1>4. /\ e # << >> /\ Head(e) = e[1] /\ Tail(e) \in Seq(Texts) /\ Len(Tail(e)) = Len(p) - 1
      /\ \A i \in 1..Len(p) - 1 : Tail(e)[i] = e[i + 1]
  <2>1. e # << >>
    BY <1>1, <1>2, EmptySeq
  <2> QED
    BY <1>1, <1>2, <2>1, HeadTailProperties
<1>5. Tail(e) = f
  BY <1>1, <1>2, <1>3, <1>4, SeqEqual
<1>6. FlattenSeq(e) = Head(e) \o FlattenSeq(Tail(e))
  BY <1>2, <1>4, FlattenTail DEF Texts
<1> QED
  BY <1>2, <1>3, <1>4, <1>5, <1>6

\* The pieces of the month hold its complete lines, in order and once.
LEMMA MonthLines ==
  ASSUME IInv, SeriesInv, SoleInv
  PROVE  MonthPieces \in Seq(Pieces) /\ LinesOf(MonthPieces) = CompleteLines(Kept)
<1> USE ComponentNames DEF IInv, SeriesInv
<1>1. PICK k \in 0..MaxRecords : SegmentNumbers = 1..k
  BY DEF NumberInv
<1> DEFINE sealed == FlattenSeq(Sealed(k))
<1>2. /\ SealedPieces(k) \in Seq(Pieces) /\ Len(SealedPieces(k)) = k
      /\ \A i \in 1..k : Text(FileOf(SealedPieces(k)[i])) = Held(i)
      /\ MonthPieces = SealedPieces(k) \o ComponentPieces(Month)
  BY <1>1, MonthPiecesAre
<1>3. LinesOf(SealedPieces(k)) = sealed
  <2>1. \A i \in 1..k : Lines(FileOf(SealedPieces(k)[i])) = Held(i)
    <3> TAKE i \in 1..k
    <3>1. Whole(Held(i))
      BY <1>1 DEF WholeInv
    <3> QED
      BY <1>2, <3>1 DEF Lines, CompleteLines, Whole
  <2>2. LinesOfEach(SealedPieces(k)) = Sealed(k)
    BY <1>2, <2>1 DEF LinesOfEach, Sealed
  <2> QED
    BY <1>2, <2>2, LinesAre
<1>4. /\ sealed \in Texts /\ Held(Month) \in Texts /\ ~EndsTorn(sealed)
      /\ Kept = Join(sealed, Held(Month))
  BY <1>1, SealedType, SealedWhole, HeldType, KeptIs
<1>5. CompleteLines(Kept) = sealed \o CompleteLines(Held(Month))
  <2> HIDE DEF sealed
  <2> QED
    BY <1>4, JoinWhole, CompleteConcat
<1>6. CASE ComponentPieces(Month) = << >> /\ Held(Month) = << >>
  <2>1. MonthPieces = SealedPieces(k)
    BY <1>2, <1>6, ConcatEmptySeq
  <2>2. CompleteLines(<< >>) = << >>
    BY EmptySeq DEF CompleteLines, EndsTorn
  <2>3. sealed \o << >> = sealed
    BY <1>4, ConcatEmptySeq DEF Texts
  <2> QED
    BY <1>2, <1>3, <1>5, <1>6, <2>1, <2>2, <2>3
<1>7. ASSUME NEW kind \in {"plain", "archive"}, ComponentPieces(Month) = << <<Month, kind>> >>,
             Text(FileOf(<<Month, kind>>)) = Held(Month)
      PROVE  MonthPieces \in Seq(Pieces) /\ LinesOf(MonthPieces) = CompleteLines(Kept)
  <2> DEFINE x == <<Month, kind>>
  <2>1. x \in Pieces
    BY DEF Pieces
  <2>2. MonthPieces = Append(SealedPieces(k), x)
    <3> HIDE DEF x
    <3> QED
      BY <1>2, <1>7, <2>1 DEF x
  <2>3. LinesOf(MonthPieces) = LinesOf(SealedPieces(k)) \o Lines(FileOf(x))
    <3> HIDE DEF x
    <3> QED
      BY <1>2, <2>1, <2>2, LinesOfLast
  <2>4. Lines(FileOf(x)) = CompleteLines(Held(Month))
    BY <1>7 DEF Lines
  <2>5. MonthPieces \in Seq(Pieces)
    BY <1>2, <2>1, <2>2, AppendProperties
  <2> QED
    BY <1>3, <1>5, <2>3, <2>4, <2>5
<1> QED
  BY <1>6, <1>7, OnePiece
-----------------------------------------------------------------------------
(***************************************************************************)
(* The commands that read a month.                                         *)
(***************************************************************************)
LEMMA ListedIs ==
  ASSUME IInv, SeriesInv, SoleInv
  PROVE  Unreadable <=> ~Listed
<1> USE ComponentNames DEF IInv, SeriesInv
<1>1. PICK k \in 0..MaxRecords : SegmentNumbers = 1..k
  BY DEF NumberInv
<1>2. /\ SealedPieces(k) \in Seq(Pieces) /\ Len(SealedPieces(k)) = k
      /\ \A i \in 1..k : ComponentPieces(i) # << >>
      /\ MonthPieces = SealedPieces(k) \o ComponentPieces(Month)
  BY <1>1, MonthPiecesAre
<1>3. \A c \in Components : Authentic(c)
  BY DEF ReceiptInv, Authentic, Applied, Prepared
<1>4. Unreadable <=> MonthPieces = << >>
  BY <1>1, <1>2, <1>3 DEF Unreadable, SegmentNumbers
<1>5. /\ ComponentPieces(Month) \in Seq(Pieces)
      /\ ComponentPieces(Month) = << >> <=> plain[Month] = NoFile /\ archive[Month] = NoFile
  <2>1. CASE ~Exists(Month) /\ ComponentPieces(Month) = << >>
    BY <2>1 DEF Exists
  <2>2. ASSUME NEW kind \in {"plain", "archive"}, ComponentPieces(Month) = << <<Month, kind>> >>,
               plain[Month] # NoFile \/ archive[Month] # NoFile
        PROVE  <1>5!:
    <3>1. <<Month, kind>> \in Pieces
      BY DEF Pieces
    <3> QED
      BY <2>2, <3>1
  <2> QED
    BY <2>1, <2>2, OnePiece
<1>6. MonthPieces = << >> <=> k = 0 /\ ComponentPieces(Month) = << >>
  <2>1. /\ Len(MonthPieces) = k + Len(ComponentPieces(Month)) /\ MonthPieces \in Seq(Pieces)
        /\ Len(ComponentPieces(Month)) \in Nat
    BY <1>2, <1>5, ConcatProperties, LenProperties, ZenonT(40)
  <2> QED
    BY <1>5, <2>1, EmptySeq
<1>7. k = 0 <=> SegmentNumbers = {}
  BY <1>1
<1> QED
  BY <1>4, <1>5, <1>6, <1>7 DEF Listed

\* A month does not go away.
LEMMA ListedStays ==
  ASSUME IInv, SeriesInv, NextRotation, Listed
  PROVE  Listed'
<1> USE ComponentNames DEF IInv, Listed
<1>1. CASE StepsThatKeepDisk
  <2>1. SegmentNumbers' = SegmentNumbers
    BY <1>1, DiskKept, SegmentsKept
  <2> QED
    BY <1>1, <2>1, DiskKept
<1>2. CASE RotateTail \/ SealTail
  <2>1. PICK k \in 0..MaxRecords - 1 : SegmentNumbers' = 1..k + 1
    BY <1>2, SealedSegment
  <2>2. 1 \in SegmentNumbers'
    BY <2>1, BoundsAssumption
  <2> QED
    BY <2>2
<1>3. CASE WriteReceipt \/ PublishArchive \/ UnlinkReceipt \/ AppendRecord \/ TearAppend
           \/ AppendBatch
  <2>1. ~RotateTail /\ ~SealTail
    BY <1>3 DEF WriteReceipt, PublishArchive, UnlinkReceipt, AppendRecord, TearAppend,
       AppendBatch, RotateTail, SealTail
  <2>2. SegmentNumbers' = SegmentNumbers
    BY <2>1, SameSegments
  <2>3. /\ plain[Month] # NoFile => plain'[Month] # NoFile
        /\ archive[Month] # NoFile => archive'[Month] # NoFile
    <3>1. Len(text) \in Nat
      BY TextType
    <3> QED
      BY <1>3, <3>1 DEF WriteReceipt, PublishArchive, UnlinkReceipt, AppendRecord, TearAppend,
         AppendBatch, AppendTo, TypeOK, NoFile
  <2> QED
    BY <2>2, <2>3
<1>4. CASE UnlinkSource
  <2>1. ~RotateTail /\ ~SealTail
    BY <1>4 DEF UnlinkSource, RotateTail, SealTail
  <2>2. SegmentNumbers' = SegmentNumbers
    BY <2>1, SameSegments
  <2>3. PICK r : Checksum(archive[target]) = {r.target}
    BY <1>4 DEF UnlinkSource, StepInv, Committed
  <2>4. archive[target] # NoFile
    BY <2>3 DEF Checksum
  <2> QED
    BY <1>4, <2>2, <2>4 DEF UnlinkSource, TypeOK
<1> QED
  BY <1>1, <1>2, <1>3, <1>4, Steps


\* What a reader does, and what others do while it holds the lock, changes no file.
LEMMA ReadersRotate ==
  ASSUME [Next]_vars
  PROVE  [NextRotation]_rotationVars
  BY DEF Next, vars, NextRotation, ListMonth, OpenMonth, ReadPiece, CloseMonth, PollHealth

LEMMA SharedDisk ==
  ASSUME LockInv, sharing # {}, [NextRotation]_rotationVars
  PROVE  UNCHANGED <<text, plain, archive, receipt>>
<1>1. CASE UNCHANGED rotationVars
  BY <1>1 DEF rotationVars, disk
<1>2. CASE NextRotation
  <2>1. pc = "idle"
    BY DEF LockInv
  <2>2. StepsThatKeepDisk
    BY <1>2, <2>1, Steps DEF RotateTail, SealTail, WriteReceipt, PublishArchive, UnlinkSource,
       UnlinkReceipt, AppendRecord, TearAppend, AppendBatch
  <2> QED
    BY <2>2, DiskKept
<1> QED
  BY <1>1, <1>2

LEMMA DiskLines ==
  ASSUME UNCHANGED <<text, plain, archive, receipt>>
  PROVE  /\ Kept' = Kept /\ MonthPieces' = MonthPieces /\ (Listed' <=> Listed)
         /\ \A p : LinesOf(p)' = LinesOf(p)
<1>1. \A c : Held(c)' = Held(c) /\ (Committed(c)' <=> Committed(c))
  BY DEF Held, Committed, Checksum, Text
<1>2. SegmentNumbers' = SegmentNumbers
  BY DEF SegmentNumbers, Exists
<1>3. Kept' = Kept
  BY <1>1, <1>2 DEF Kept, Text
<1>4. \A c : ComponentPieces(c)' = ComponentPieces(c)
  BY <1>1 DEF ComponentPieces, Piece
<1>5. MonthPieces' = MonthPieces
  BY <1>1, <1>2, <1>4 DEF MonthPieces, Piece
<1>6. \A p : LinesOf(p)' = LinesOf(p)
  BY DEF LinesOf, Lines, FileOf, Text
<1> QED
  BY <1>2, <1>3, <1>5, <1>6 DEF Listed

LEMMA WriterShares ==
  ASSUME NextWriter
  PROVE  sharing' = sharing
  BY DEF NextWriter, StepWriter, LogRecord, LogElsewhere, LogBatch, LogNoBatch, Acquire,
     RotateComponent, RotateTail, KeepTail, FinishRotation, SealTail, LeaveTail, SealAs,
     RetireSource, WriteReceipt, PublishArchive, UnlinkSource, UnlinkReceipt, AppendRecord,
     AppendBatch, AppendNothing, JournalBatch, Acknowledge, Abandon, TearAppend, PassTime

LEMMA LinesNext ==
  ASSUME UNCHANGED <<text, plain, archive, receipt>>, NEW r \in Readers
  PROVE  LinesOf(pieces[r])' = LinesOf(pieces'[r])
  BY DEF LinesOf, Lines, FileOf, Text

LEMMA ReaderStep ==
  ASSUME RInv, ReaderInv, [Next]_vars
  PROVE  ReaderInv'
<1> USE DEF ReaderInv, RInv, readers
<1>1. CASE sharing' = sharing /\ UNCHANGED readers
  <2>1. ReaderTypes'
    BY <1>1 DEF ReaderTypes
  <2>2. ListInv'
    <3>1. Listed => Listed'
      <4>1. CASE NextRotation
        BY <4>1, ListedStays
      <4>2. CASE UNCHANGED rotationVars
        BY <4>2, DiskLines DEF rotationVars, disk
      <4> QED
        BY <4>1, <4>2, ReadersRotate
    <3> QED
      BY <1>1, <3>1 DEF ListInv
  <2>3. ReadInv'
    <3> SUFFICES ASSUME NEW r \in Readers, stage[r] = "reading"
                 PROVE  /\ r \in sharing
                        /\ view[r] \o LinesOf(pieces[r])' = CompleteLines(Kept)'
      BY <1>1, Zenon DEF ReadInv
    <3>1. r \in sharing /\ view[r] \o LinesOf(pieces[r]) = CompleteLines(Kept)
      BY DEF ReadInv
    <3>2. UNCHANGED <<text, plain, archive, receipt>>
      BY <3>1, SharedDisk, ReadersRotate
    <3>3. Kept' = Kept /\ LinesOf(pieces[r])' = LinesOf(pieces[r])
      <4>1. LinesOf(pieces[r])' = LinesOf(pieces'[r]) /\ Kept' = Kept
        BY <3>2, LinesNext, DiskLines
      <4> QED
        BY <1>1, <4>1
    <3> QED
      BY <3>1, <3>3
  <2> QED
    BY <2>1, <2>2, <2>3
<1>2. ASSUME NEW r \in Readers, ListMonth(r) \/ OpenMonth(r) \/ ReadPiece(r) \/ CloseMonth(r)
      PROVE  ReaderInv'
  <2>1. UNCHANGED <<text, plain, archive, receipt>>
    BY <1>2 DEF ListMonth, OpenMonth, ReadPiece, CloseMonth, Share, Unshare, rotationVars, disk
  <2>2. /\ Kept' = Kept /\ (Listed' <=> Listed)
        /\ \A q \in Readers : LinesOf(pieces[q])' = LinesOf(pieces'[q])
    BY <2>1, DiskLines, LinesNext
  <2>3. /\ MonthPieces \in Seq(Pieces) /\ LinesOf(MonthPieces) = CompleteLines(Kept)
    BY MonthLines
  <2>4. ASSUME NEW q \in Readers \ {r}
        PROVE  stage'[q] = stage[q] /\ pieces'[q] = pieces[q] /\ view'[q] = view[q]
               /\ (q \in sharing' <=> q \in sharing)
    BY <1>2 DEF ListMonth, OpenMonth, ReadPiece, CloseMonth, Share, Unshare, rotationVars,
       ReaderTypes
  <2>5. ASSUME NEW q \in Readers \ {r}
        PROVE  /\ stage'[q] = "listed" => Listed'
               /\ IF stage'[q] = "reading"
                  THEN /\ q \in sharing'
                       /\ view'[q] \o LinesOf(pieces'[q]) = CompleteLines(Kept)
                  ELSE view'[q] = << >>
    BY <2>2, <2>4 DEF ListInv, ReadInv
  <2>6. ASSUME ReaderTypes', stage'[r] = "listed" => Listed,
                IF stage'[r] = "reading"
                THEN /\ r \in sharing'
                     /\ view'[r] \o LinesOf(pieces'[r]) = CompleteLines(Kept)
                ELSE view'[r] = << >>
         PROVE  ReaderInv'
    <3>1. \A q \in Readers : stage'[q] = "listed" => Listed'
      BY <2>2, <2>5, <2>6
    <3>2. \A q \in Readers : IF stage'[q] = "reading"
             THEN q \in sharing' /\ view'[q] \o LinesOf(pieces[q])' = CompleteLines(Kept')
             ELSE view'[q] = << >>
      BY <2>2, <2>5, <2>6
    <3>3. CompleteLines(Kept)' = CompleteLines(Kept')
      BY DEF CompleteLines, EndsTorn
    <3> QED
      BY <2>6, <3>1, <3>2, <3>3 DEF ListInv, ReadInv
  <2>7. CASE ListMonth(r)
    <3>1. /\ stage' = [stage EXCEPT ![r] = "listed"] /\ Listed /\ stage[r] = "idle"
          /\ pieces' = pieces /\ view' = view
      BY <2>7 DEF ListMonth
    <3>2. ReaderTypes' /\ stage'[r] = "listed"
      BY <3>1 DEF ReaderTypes
    <3> QED
      BY <2>6, <3>1, <3>2 DEF ReadInv
  <2>8. CASE OpenMonth(r)
    <3>1. /\ stage' = [stage EXCEPT ![r] = "reading"]
          /\ pieces' = [pieces EXCEPT ![r] = MonthPieces]
          /\ view' = view /\ sharing' = sharing \cup {r} /\ stage[r] = "listed"
      BY <2>8 DEF OpenMonth, Share
    <3>2. /\ ReaderTypes' /\ stage'[r] = "reading" /\ pieces'[r] = MonthPieces
          /\ r \in sharing'
      BY <2>3, <3>1 DEF ReaderTypes
    <3>3. view'[r] = << >>
      BY <3>1 DEF ReadInv
    <3>4. LinesOf(MonthPieces) \in Texts /\ << >> \o LinesOf(MonthPieces) = LinesOf(MonthPieces)
      <4>1. LinesOf(MonthPieces) \in Texts
        BY <2>3, LinesAre DEF IInv
      <4> QED
        BY <4>1, ConcatEmptySeq DEF Texts
    <3> QED
      BY <2>3, <2>6, <3>2, <3>3, <3>4
  <2>9. CASE ReadPiece(r)
    <3> DEFINE first == Lines(FileOf(pieces[r][1]))
               rest  == LinesOf(Tail(pieces[r]))
    <3>1. /\ stage[r] = "reading" /\ pieces[r] # << >> /\ stage' = stage /\ sharing' = sharing
          /\ view' = [view EXCEPT ![r] = view[r] \o first]
          /\ pieces' = [pieces EXCEPT ![r] = Tail(pieces[r])]
      BY <2>9 DEF ReadPiece, Lines, rotationVars
    <3>2. /\ pieces[r] \in Seq(Pieces) /\ Tail(pieces[r]) \in Seq(Pieces)
          /\ pieces[r][1] \in Pieces /\ view[r] \in Texts
      BY <3>1, HeadTailProperties, EmptySeq, ElementOfSeq DEF ReaderTypes
    <3>3. first \in Texts /\ rest \in Texts /\ LinesOf(pieces[r]) = first \o rest
      BY <3>1, <3>2, FileLines, LinesAre, LinesOfFirst DEF IInv
    <3>4. r \in sharing /\ view[r] \o (first \o rest) = CompleteLines(Kept)
      BY <3>1, <3>3 DEF ReadInv
    <3> HIDE DEF first, rest
    <3>5. (view[r] \o first) \o rest = CompleteLines(Kept) /\ view[r] \o first \in Texts
      <4>1. (view[r] \o first) \o rest = view[r] \o (first \o rest)
        <5>1. Trio(Int, view[r], first, rest)
          BY <3>2, <3>3 DEF Texts, Trio
        <5>2. Regroups(view[r], first, rest)
          BY <5>1, Associative, Zenon
        <5> QED
          BY <5>2 DEF Regroups
      <4>2. view[r] \o first \in Texts
        BY <3>2, <3>3, ConcatProperties DEF Texts
      <4> QED
        BY <3>4, <4>1, <4>2
    <3>6. /\ ReaderTypes' /\ stage'[r] = "reading"
          /\ pieces'[r] = Tail(pieces[r]) /\ view'[r] = view[r] \o first
      BY <3>1, <3>2, <3>5 DEF ReaderTypes
    <3>7. LinesOf(pieces'[r]) = rest
      BY <3>6 DEF rest
    <3> QED
      BY <2>6, <3>1, <3>4, <3>5, <3>6, <3>7
  <2>10. CASE CloseMonth(r)
    <3>1. /\ stage' = [stage EXCEPT ![r] = "idle"]
          /\ pieces' = [pieces EXCEPT ![r] = << >>]
          /\ view' = [view EXCEPT ![r] = << >>]
      BY <2>10 DEF CloseMonth
    <3>2. << >> \in Seq(Pieces) /\ << >> \in Texts
      BY EmptySeq DEF Texts
    <3>3. ReaderTypes' /\ stage'[r] = "idle" /\ view'[r] = << >>
      BY <3>1, <3>2 DEF ReaderTypes
    <3> QED
      BY <2>6, <3>3
  <2> QED
    BY <1>2, <2>7, <2>8, <2>9, <2>10
<1> QED
  BY <1>1, <1>2, WriterShares DEF Next, vars, PollHealth, rotationVars

LEMMA InitReading == Init => RInv /\ ReaderInv
<1> SUFFICES ASSUME Init PROVE RInv /\ ReaderInv
  OBVIOUS
<1>1. InitRotation /\ IInv /\ SeriesInv
  BY InitIInv, InitSeries DEF Init
<1>2. SoleInv /\ LockInv
  BY <1>1, ComponentNames DEF InitRotation, SoleInv, LockInv
<1>3. << >> \in Seq(Pieces) /\ << >> \in Texts
  BY EmptySeq DEF Texts
<1>4. ReaderInv
  BY <1>3 DEF Init, ReaderInv, ReaderTypes, ListInv, ReadInv
<1> QED
  BY <1>1, <1>2, <1>4 DEF RInv

LEMMA StutterReading ==
  SoleInv /\ LockInv /\ UNCHANGED rotationVars => SoleInv' /\ LockInv'
<1> SUFFICES ASSUME SoleInv, LockInv, UNCHANGED rotationVars PROVE SoleInv' /\ LockInv'
  OBVIOUS
<1>1. UNCHANGED <<text, plain, archive, receipt, sharing, pc>>
  BY DEF rotationVars, disk
<1> QED
  BY <1>1 DEF SoleInv, LockInv, Committed, Checksum

\* Reading does not disturb the rotation: its theorems hold while months are read.
LEMMA RotationOfReading == Spec => SpecRotation
<1>1. [Next]_vars => [NextRotation]_rotationVars
  BY ReadersRotate
<1>2. Init => InitRotation
  BY DEF Init
<1> QED
  BY <1>1, <1>2, PTL DEF Spec, SpecRotation

LEMMA ReadingInvariance == Spec => [](RInv /\ ReaderInv)
<1>1. /\ IInv /\ SeriesInv /\ SoleInv /\ LockInv /\ [NextRotation]_rotationVars
      => SoleInv' /\ LockInv'
  BY SoleStep, LockStep, StutterReading
<1>2. RInv /\ ReaderInv /\ [Next]_vars => ReaderInv'
  BY ReaderStep
<1>3. [Next]_vars => [NextRotation]_rotationVars
  BY ReadersRotate
<1>4. IInv /\ SeriesInv /\ SoleInv /\ LockInv <=> RInv
  BY DEF RInv
<1> QED
  BY <1>1, <1>2, <1>3, <1>4, RotationOfReading, SeriesInvariance, InitReading, PTL DEF Spec

\* A month that was listed without the lock can be opened later, whatever was
\* rotated in between.
THEOREM ListedStaysReadable == Spec => []ListedIsReadable
<1>1. RInv /\ ReaderInv => ListedIsReadable
  BY ListedIs DEF RInv, ReaderInv, ListInv, ListedIsReadable
<1> QED
  BY <1>1, ReadingInvariance, PTL

\* complete_lines yields the month, though it opens one file after the other.
THEOREM MonthIsReadWhole == Spec => []ReadsWholeMonth
<1>1. ASSUME RInv, ReaderInv PROVE ReadsWholeMonth
  <2> SUFFICES ASSUME NEW r \in Readers, stage[r] = "reading", pieces[r] = << >>
               PROVE  view[r] = CompleteLines(Kept)
    BY DEF ReadsWholeMonth
  <2>1. view[r] \o << >> = CompleteLines(Kept) /\ view[r] \in Texts
    BY <1>1, LinesOfNone DEF RInv, IInv, ReaderInv, ReaderTypes, ReadInv
  <2> QED
    BY <2>1, ConcatEmptySeq DEF Texts
<1> QED
  BY <1>1, ReadingInvariance, PTL

(***************************************************************************)
(* The monitor's reader: which files of the month are still to grow.       *)
(***************************************************************************)
\* Only the newest segment may wait for its archive.
PlainInv == \A m, n \in SegmentNumbers : m < n => archive[m] # NoFile

\* An append compresses every segment that waits before it seals another.
VisitInv == pc # "idle" /\ series = "general" =>
  \A n \in SegmentNumbers : archive[n] = NoFile => n \in work \/ (Compressing /\ target = n)

LEMMA AllArchived ==
  ASSUME IInv, VisitInv, RotateTail \/ KeepTail \/ SealTail
  PROVE  \A n \in SegmentNumbers : archive[n] # NoFile
<1> USE ComponentNames DEF IInv
<1>1. pc \in {"rotate", "seal"} /\ series = "general"
  BY DEF RotateTail, KeepTail, SealTail, Visit, PlaceInv, SeriesOf, Journal, Month
<1>2. ASSUME NEW n \in SegmentNumbers, n \in work PROVE FALSE
  <2>1. n # Month
    BY DEF SegmentNumbers
  <2>2. CASE SealTail
    BY <1>2, <2>2 DEF SealTail, PlaceInv
  <2>3. CASE RotateTail \/ KeepTail
    <3>1. Visit(Month)
      BY <2>3 DEF RotateTail, KeepTail
    <3> QED
      BY <1>2, <2>1, <3>1 DEF Visit, Before
  <2> QED
    BY <2>2, <2>3
<1> QED
  BY <1>1, <1>2 DEF VisitInv, Compressing

LEMMA ArchiveStep ==
  ASSUME IInv, SeriesInv, PlainInv, VisitInv, NextRotation
  PROVE  PlainInv' /\ VisitInv'
<1> USE ComponentNames DEF IInv
<1>1. ASSUME SegmentNumbers' = SegmentNumbers, archive' = archive
      PROVE  PlainInv'
  BY <1>1 DEF PlainInv
<1>2. CASE StepsThatKeepDisk
  <2>1. /\ UNCHANGED <<plain, archive, receipt>> /\ SegmentNumbers' = SegmentNumbers
    BY <1>2, DiskKept, SegmentsKept
  <2>2. VisitInv'
    <3> SUFFICES ASSUME pc' # "idle", series' = "general",
                        NEW n \in SegmentNumbers, archive[n] = NoFile
                 PROVE  n \in work' \/ (Compressing' /\ target' = n)
      BY <2>1 DEF VisitInv
    <3>1. CASE LogRecord \/ LogElsewhere \/ LogBatch \/ LogNoBatch
      <4>1. work' = Due(series')
        BY <3>1 DEF LogRecord, LogElsewhere, LogBatch, LogNoBatch, Acquire
      <4>2. n \in Segments /\ (plain[n] # NoFile \/ receipt[n] # {}) /\ SeriesOf(n) = "general"
        BY DEF SegmentNumbers, Exists, SeriesOf
      <4> QED
        BY <4>1, <4>2 DEF Due, Components
    <3>2. CASE JournalBatch \/ Acknowledge \/ PassTime \/ \E r \in Readers : Share(r) \/ Unshare(r)
      BY <3>2 DEF JournalBatch, Acknowledge, PassTime, Share, Unshare, VisitInv, Compressing, call
    <3>3. CASE Abandon \/ AppendNothing
      BY <3>3 DEF Abandon, AppendNothing, Release
    <3>4. CASE \E c \in Components : RotateComponent(c)
      <4>1. PICK c \in Components : RotateComponent(c)
        BY <3>4
      <4>2. n \in work
        BY <4>1 DEF RotateComponent, VisitInv, Compressing, call
      <4> QED
        BY <4>1, <4>2 DEF RotateComponent, Compressing
    <3>5. CASE KeepTail
      BY <3>5, AllArchived
    <3>6. CASE FinishRotation \/ LeaveTail \/ RetireSource
      BY <3>6 DEF FinishRotation, LeaveTail, RetireSource, VisitInv, Compressing, call
    <3> QED
      BY <1>2, <3>1, <3>2, <3>3, <3>4, <3>5, <3>6 DEF StepsThatKeepDisk
  <2> QED
    BY <1>1, <2>1, <2>2
<1>3. CASE RotateTail \/ SealTail
  <2>1. PICK k \in 0..MaxRecords - 1, after \in {"rotate", "append"} :
          /\ SealAs(k + 1, after) /\ SegmentNumbers = 1..k /\ SegmentNumbers' = 1..k + 1
    BY <1>3, SealedSegment
  <2>2. /\ \A n \in 1..k : archive'[n] # NoFile
        /\ pc' = "compress" /\ target' = k + 1
    BY <1>3, <2>1, AllArchived DEF SealAs
  <2>3. \A n \in 1..k + 1 : n \in 1..k \/ n = k + 1
    BY BoundsAssumption
  <2>4. \A m, n \in 1..k + 1 : m < n => m \in 1..k
    BY BoundsAssumption
  <2> QED
    BY <2>1, <2>2, <2>3, <2>4 DEF PlainInv, VisitInv, Compressing
<1>4. CASE WriteReceipt \/ UnlinkSource \/ UnlinkReceipt
  <2>1. SegmentNumbers' = SegmentNumbers /\ archive' = archive
    <3>1. ~RotateTail /\ ~SealTail
      BY <1>4 DEF WriteReceipt, UnlinkSource, UnlinkReceipt, RotateTail, SealTail
    <3> QED
      BY <1>4, <3>1, SameSegments DEF WriteReceipt, UnlinkSource, UnlinkReceipt
  <2>2. VisitInv'
    <3> SUFFICES ASSUME series = "general", NEW n \in SegmentNumbers, archive[n] = NoFile
                 PROVE  n \in work' \/ (Compressing' /\ target' = n)
      BY <1>4, <2>1 DEF VisitInv, WriteReceipt, UnlinkSource, UnlinkReceipt, call
    <3>1. n \in work \/ target = n
      BY <1>4 DEF VisitInv, WriteReceipt, UnlinkSource, UnlinkReceipt
    <3>2. CASE WriteReceipt \/ UnlinkSource
      BY <3>1, <3>2 DEF WriteReceipt, UnlinkSource, Compressing
    <3>3. CASE UnlinkReceipt
      <4>1. PICK r : Checksum(archive[target]) = {r.target}
        BY <3>3 DEF UnlinkReceipt, StepInv, Committed
      <4>2. target # n
        BY <4>1 DEF Checksum
      <4> QED
        BY <3>1, <3>3, <4>2 DEF UnlinkReceipt
    <3> QED
      BY <1>4, <3>2, <3>3
  <2> QED
    BY <1>1, <2>1, <2>2
<1>5. CASE PublishArchive
  <2>1. SegmentNumbers' = SegmentNumbers
    <3>1. ~RotateTail /\ ~SealTail
      BY <1>5 DEF PublishArchive, RotateTail, SealTail
    <3> QED
      BY <3>1, SameSegments
  <2>2. \A c \in Components : archive'[c] = NoFile => archive[c] = NoFile /\ c # target
    <3>1. Len(text) + 1 # NoFile
      BY TextType DEF NoFile
    <3> QED
      BY <1>5, <3>1 DEF PublishArchive, TypeOK
  <2>3. \A n \in SegmentNumbers : n \in Components
    BY DEF SegmentNumbers
  <2>4. work' = work /\ series' = series /\ pc # "idle"
    BY <1>5 DEF PublishArchive, call
  <2>5. PlainInv'
    BY <2>1, <2>2, <2>3 DEF PlainInv
  <2>6. VisitInv'
    BY <2>1, <2>2, <2>3, <2>4 DEF VisitInv
  <2> QED
    BY <2>5, <2>6
<1>6. CASE AppendRecord \/ TearAppend \/ AppendBatch
  <2>1. SegmentNumbers' = SegmentNumbers
    <3>1. ~RotateTail /\ ~SealTail
      BY <1>6 DEF AppendRecord, TearAppend, AppendBatch, RotateTail, SealTail
    <3> QED
      BY <3>1, SameSegments
  <2>2. archive' = archive /\ pc' = "idle"
    BY <1>6 DEF AppendRecord, TearAppend, AppendBatch, Release
  <2> QED
    BY <1>1, <2>1, <2>2 DEF VisitInv
<1> QED
  BY <1>2, <1>3, <1>4, <1>5, <1>6, Steps
-----------------------------------------------------------------------------
(***************************************************************************)
(* What was read stays the start of what there is.                         *)
(***************************************************************************)
Begins(e, t) == Len(e) <= Len(t) /\ \A i \in 1..Len(e) : e[i] = t[i]

LEMMA BeginsPrefix ==
  ASSUME NEW e \in Texts, NEW t \in Texts
  PROVE  /\ Begins(e, t) <=> IsPrefix(e, t)
         /\ Begins(e, t) /\ Len(e) = Len(t) => e = t
<1>1. /\ Len(e) \in Nat /\ Len(t) \in Nat
      /\ SubSeq(e, 1, Len(e)) = e
  BY LenProperties, SubSeqFull DEF Texts
<1>2. ASSUME Len(e) <= Len(t)
      PROVE  LET u == SubSeq(t, 1, Len(e))
             IN  u \in Seq(Int) /\ Len(u) = Len(e) /\ \A i \in 1..Len(e) : u[i] = t[i]
  <2>1. \A i \in 1..Len(e) : t[i] \in Int
    BY <1>1, <1>2, ElementOfSeq DEF Texts
  <2>2. LET u == SubSeq(t, 1, Len(e))
        IN  /\ u \in Seq(Int) /\ Len(u) = IF 1 <= Len(e) THEN Len(e) - 1 + 1 ELSE 0
            /\ \A i \in 1..Len(e) - 1 + 1 : u[i] = t[1 + i - 1]
    BY <1>1, <2>1, SubSeqProperties
  <2> QED
    BY <1>1, <2>2
<1>3. ASSUME Begins(e, t) PROVE IsPrefix(e, t)
  <2>1. e \in Seq(Int) /\ Len(e) <= Len(t) /\ \A i \in 1..Len(e) : e[i] = t[i]
    BY <1>3 DEF Begins, Texts
  <2>2. e = SubSeq(t, 1, Len(e))
    BY <1>2, <2>1, SeqEqual
  <2> QED
    BY <1>1, <2>1, <2>2 DEF IsPrefix
<1>4. ASSUME IsPrefix(e, t) PROVE Begins(e, t)
  BY <1>1, <1>2, <1>4 DEF IsPrefix, Begins
<1>5. ASSUME Begins(e, t), Len(e) = Len(t) PROVE e = t
  BY <1>5, SeqEqual DEF Begins, Texts
<1> QED
  BY <1>3, <1>4, <1>5

LEMMA BeginsConcat ==
  ASSUME NEW a \in Texts, NEW b \in Texts
  PROVE  Begins(a, a \o b)
  BY ConcatProperties, LenProperties DEF Texts, Begins

LEMMA BeginsOn ==
  ASSUME NEW a \in Texts, NEW b \in Texts, NEW c \in Texts, Begins(a, b), Begins(b, c)
  PROVE  Begins(a, c)
  BY LenProperties DEF Texts, Begins

\* The complete lines of a file are not touched by what is written behind them.
LEMMA CompleteGrows ==
  ASSUME NEW s \in Texts, NEW t \in Texts
  PROVE  Begins(CompleteLines(s), CompleteLines(Join(s, t)))
<1>0. CompleteLines(t) \in Texts
  BY CompleteType
<1>1. CASE ~EndsTorn(s)
  <2>1. Join(s, t) = s \o t /\ CompleteLines(s) = s
    BY <1>1 DEF Join, CompleteLines
  <2>2. CompleteLines(s \o t) = s \o CompleteLines(t)
    BY <1>1, CompleteConcat
  <2>3. Begins(s, s \o CompleteLines(t))
    BY <1>0, BeginsConcat
  <2> QED
    BY <2>1, <2>2, <2>3
<1>2. CASE EndsTorn(s) /\ t = << >>
  <2>1. Join(s, t) = s
    BY <1>2, ConcatEmptySeq DEF Join, Texts
  <2>2. CompleteLines(s) \in Texts
    BY CompleteType
  <2> QED
    BY <2>1, <2>2, LenProperties DEF Begins, Texts
<1>3. CASE EndsTorn(s) /\ t # << >>
  <2> DEFINE n    == Len(s)
             cut  == CompleteLines(s)
             join == Join(s, t)
             all  == CompleteLines(join)
  <2>1. n \in Nat /\ n > 0 /\ Len(t) \in Nat /\ Len(t) > 0 /\ s # << >>
    BY <1>3, LenProperties, EmptySeq DEF EndsTorn, Texts
  <2>2. /\ join \in Texts /\ Len(join) = n + Len(t) - 1
        /\ \A i \in 1..n - 1 : join[i] = s[i]
    <3> DEFINE new == [s EXCEPT ![n] = Ended(t[1])]
    <3>1. t[1] \in Int /\ Ended(t[1]) \in Int
      BY <2>1, ElementOfSeq DEF Texts, Ended, Torn, Junk
    <3>2. /\ new \in Seq(Int) /\ Len(new) = n
          /\ \A i \in 1..n : new[i] = IF i = n THEN Ended(t[1]) ELSE s[i]
      <4>1. s \in Seq(Int) /\ n \in 1..Len(s)
        BY <2>1 DEF Texts
      <4> QED
        BY <3>1, <4>1, ExceptSeq
    <3>3. Tail(t) \in Seq(Int) /\ Len(Tail(t)) = Len(t) - 1
      BY <1>3, HeadTailProperties DEF Texts
    <3>4. join = new \o Tail(t)
      BY <1>3 DEF Join
    <3> HIDE DEF new, join, n
    <3>5. /\ new \o Tail(t) \in Seq(Int) /\ Len(new \o Tail(t)) = Len(new) + Len(Tail(t))
          /\ \A i \in 1..Len(new) + Len(Tail(t)) :
               (new \o Tail(t))[i] = IF i <= Len(new) THEN new[i] ELSE Tail(t)[i - Len(new)]
      BY <3>2, <3>3, ConcatProperties
    <3>6. join \in Seq(Int) /\ Len(join) = n + (Len(t) - 1)
      BY <3>2, <3>3, <3>4, <3>5
    <3>7. \A i \in 1..n - 1 : join[i] = s[i]
      <4> TAKE i \in 1..n - 1
      <4>1. i \in 1..n + (Len(t) - 1) /\ i <= n /\ i # n /\ i \in 1..n
        BY <2>1
      <4> QED
        BY <3>2, <3>3, <3>4, <3>5, <4>1
    <3> QED
      BY <2>1, <3>6, <3>7 DEF Texts
  <2>3. Len(cut) = n - 1 /\ \A i \in 1..n - 1 : cut[i] = s[i]
    <3>1. cut = SubSeq(s, 1, n - 1)
      BY <1>3 DEF CompleteLines
    <3>2. \A i \in 1..n - 1 : s[i] \in Int
      BY <2>1, ElementOfSeq DEF Texts
    <3> HIDE DEF cut, n
    <3> QED
      BY <2>1, <3>1, <3>2, SubSeqProperties
  <2>4. Len(all) >= n - 1 /\ \A i \in 1..n - 1 : all[i] = join[i]
    <3>1. CASE ~EndsTorn(join)
      BY <2>1, <2>2, <3>1 DEF CompleteLines
    <3>2. CASE EndsTorn(join)
      <4>1. all = SubSeq(join, 1, Len(join) - 1)
        BY <3>2 DEF CompleteLines
      <4> HIDE DEF all, join, n
      <4>2. \A i \in 1..Len(join) - 1 : join[i] \in Int
        BY <2>1, <2>2, ElementOfSeq DEF Texts
      <4> QED
        BY <2>1, <2>2, <4>1, <4>2, SubSeqProperties
    <3> QED
      BY <3>1, <3>2
  <2> HIDE DEF cut, all, join, n
  <2> QED
    BY <2>1, <2>2, <2>3, <2>4 DEF Begins, cut, all, join
<1> QED
  BY <1>1, <1>2, <1>3

LEMMA KeptType ==
  ASSUME TypeOK
  PROVE  NumberInv /\ IInv /\ MonthInv => Kept \in Texts /\ CompleteLines(Kept) \in Texts
<1> SUFFICES ASSUME NumberInv, IInv, MonthInv PROVE Kept \in Texts
  BY CompleteType
<1>1. PICK k \in 0..MaxRecords : SegmentNumbers = 1..k
  BY DEF NumberInv
<1>2. /\ Kept = Join(FlattenSeq(Sealed(k)), Held(Month))
      /\ FlattenSeq(Sealed(k)) \in Texts /\ Held(Month) \in Texts
  BY <1>1, ComponentNames, KeptIs, SealedType, HeldType
<1> QED
  BY <1>2, JoinTexts

LEMMA KeptGrows ==
  ASSUME IInv, IInv', SeriesInv, SeriesInv', NextRotation
  PROVE  /\ Begins(CompleteLines(Kept), CompleteLines(Kept)')
         /\ CompleteLines(Kept)' \in Texts
<1>1. Kept \in Texts /\ CompleteLines(Kept) \in Texts
  BY KeptType DEF IInv, SeriesInv
<1>2. CompleteLines(Kept)' = CompleteLines(Kept')
  BY DEF CompleteLines, EndsTorn
<1>3. CASE Kept' = Kept
  BY <1>1, <1>2, <1>3, LenProperties DEF Begins, Texts
<1>4. ASSUME NEW line \in Int, Kept' = Write(Kept, line)
      PROVE  /\ Begins(CompleteLines(Kept), CompleteLines(Kept)')
             /\ CompleteLines(Kept)' \in Texts
  <2>1. <<line>> \in Texts
    BY DEF Texts
  <2>2. Kept' \in Texts
    BY <1>1, <1>4, <2>1, JoinTexts DEF Write
  <2> QED
    BY <1>1, <1>2, <1>4, <2>1, <2>2, CompleteGrows, CompleteType DEF Write
<1>5. Kept' = Kept \/ \E line \in Int : Kept' = Write(Kept, line)
  <2>1. CASE Retained!Next
    BY <2>1, SameWrite, BoundsAssumption
       DEF Retained!Next, Retained!AppendRecord, Retained!AppendBatch, Torn
  <2> QED
    BY <2>1, RetainedStep
<1> QED
  BY <1>3, <1>4, <1>5
-----------------------------------------------------------------------------
(***************************************************************************)
(* The files that may still grow, and the lines that come before them.     *)
(***************************************************************************)
Open(c) == IF archive[c] = NoFile THEN plain[c] ELSE NoFile

One(f) == IF f = NoFile THEN << >> ELSE <<f>>

\* The newest of k segments, if it waits for its archive.
Newest(k) == IF k = 0 THEN NoFile ELSE Open(k)

\* The plain files of the month, in the order of their lines.
Tails(k) == One(Newest(k)) \o One(Open(Month))

Ahead(k) == IF archive[Month] # NoFile THEN Lines(archive[Month])
            ELSE FlattenSeq(Sealed(IF Newest(k) = NoFile THEN k ELSE k - 1))

Signed == {<<c, archive[c]>> : c \in {d \in Components \ {Journal} : archive[d] # NoFile}}

LEMMA Pair ==
  ASSUME NEW S, NEW a \in S, NEW b \in S
  PROVE  /\ <<a, b>> \in Seq(S) /\ Len(<<a, b>>) = 2 /\ <<a, b>>[1] = a /\ <<a, b>>[2] = b
         /\ <<a>> \o <<b>> = <<a, b>>
<1>1. PICK t : t = <<a, b>>
  OBVIOUS
<1>2. t \in Seq(S) /\ Len(t) = 2 /\ t[1] = a /\ t[2] = b
  BY <1>1
<1>3. PICK u, v : u = <<a>> /\ v = <<b>>
  OBVIOUS
<1>4. u \in Seq(S) /\ v \in Seq(S) /\ Len(u) = 1 /\ Len(v) = 1 /\ u[1] = a /\ v[1] = b
  BY <1>3
<1>5. PICK s : s = u \o v
  OBVIOUS
<1>6. s \in Seq(S) /\ Len(s) = 2 /\ s[1] = a /\ s[2] = b
  BY <1>4, <1>5, ConcatProperties
<1>7. \A i \in 1..Len(s) : s[i] = t[i]
  BY <1>2, <1>6
<1>8. s = t
  BY <1>2, <1>6, <1>7, SeqEqual
<1> QED
  BY <1>1, <1>2, <1>3, <1>5, <1>8

LEMMA TailsAre ==
  ASSUME TypeOK, NEW k \in 0..MaxRecords
  PROVE  /\ Newest(k) \in Nat /\ Open(Month) \in Nat
         /\ Tails(k) \in Seq(Nat)
         /\ Newest(k) = NoFile => Tails(k) = One(Open(Month))
         /\ Open(Month) = NoFile => Tails(k) = One(Newest(k))
         /\ Newest(k) # NoFile /\ Open(Month) # NoFile => Tails(k) = <<Newest(k), Open(Month)>>
         /\ \A i \in 1..Len(Tails(k)) : Tails(k)[i] \in {Newest(k), Open(Month)} \ {NoFile}
<1> USE ComponentNames
<1>1. Newest(k) \in Nat /\ Open(Month) \in Nat
  <2>1. k # 0 => k \in Components
    BY BoundsAssumption DEF Components, Segments
  <2> QED
    BY <2>1, TextType DEF Newest, Open, TypeOK, NoFile
<1>2. One(Newest(k)) \in Seq(Nat) /\ One(Open(Month)) \in Seq(Nat)
  BY <1>1, EmptySeq DEF One
<1>3. Newest(k) # NoFile /\ Open(Month) # NoFile => Tails(k) = <<Newest(k), Open(Month)>>
  <2> SUFFICES ASSUME Newest(k) # NoFile, Open(Month) # NoFile
               PROVE  Tails(k) = <<Newest(k), Open(Month)>>
    OBVIOUS
  <2>1. Tails(k) = <<Newest(k)>> \o <<Open(Month)>>
    BY DEF Tails, One
  <2> QED
    BY <1>1, <2>1, Pair
<1>4. /\ Newest(k) = NoFile => Tails(k) = One(Open(Month))
      /\ Open(Month) = NoFile => Tails(k) = One(Newest(k))
  <2>1. << >> \o One(Open(Month)) = One(Open(Month)) /\ One(Newest(k)) \o << >> = One(Newest(k))
    BY <1>2, ConcatEmptySeq
  <2> QED
    BY <2>1 DEF Tails, One
<1>5. Tails(k) \in Seq(Nat)
  BY <1>2, ConcatProperties DEF Tails
<1>6. \A i \in 1..Len(Tails(k)) : Tails(k)[i] \in {Newest(k), Open(Month)} \ {NoFile}
  <2>1. CASE Newest(k) = NoFile
    BY <1>4, <2>1 DEF One
  <2>2. CASE Open(Month) = NoFile
    BY <1>4, <2>2 DEF One
  <2>3. CASE Newest(k) # NoFile /\ Open(Month) # NoFile
    <3>1. PICK a, b : a = Newest(k) /\ b = Open(Month)
      OBVIOUS
    <3>2. Tails(k) = <<a, b>>
      BY <1>3, <2>3, <3>1
    <3>3. PICK t : t = Tails(k)
      OBVIOUS
    <3>4. \A i \in 1..Len(t) : t[i] \in {a, b}
      BY <3>2, <3>3
    <3> QED
      BY <2>3, <3>1, <3>3, <3>4
  <2> QED
    BY <2>1, <2>2, <2>3
<1> QED
  BY <1>1, <1>3, <1>4, <1>5, <1>6

LEMMA FileGrows ==
  ASSUME IInv, NextRotation
  PROVE  /\ Len(text) <= Len(text')
         /\ \A f \in 1..Len(text) : /\ Begins(Lines(f), Lines(f)')
                                    /\ f # plain[Month] => Lines(f)' = Lines(f)
<1> USE ComponentNames DEF IInv
<1>0. /\ Len(text) \in Nat /\ \A f \in 1..Len(text) : text[f] \in Texts
      /\ \A f \in 1..Len(text) : Text(f) = text[f] /\ Text(f)' = text'[f]
  <2>1. \A f \in 1..Len(text) : Text(f) = text[f] /\ Text(f)' = text'[f]
    BY DEF Text, NoFile
  <2> QED
    BY <2>1, TextType DEF NoFile
<1>1. \A f \in 1..Len(text) : /\ Lines(f) = CompleteLines(text[f])
                              /\ Lines(f)' = CompleteLines(text'[f])
  <2> TAKE f \in 1..Len(text)
  <2>1. Text(f) = text[f] /\ Text(f)' = text'[f]
    BY <1>0
  <2>2. Lines(f)' = CompleteLines(Text(f)')
    BY DEF Lines, CompleteLines, EndsTorn
  <2> QED
    BY <2>1, <2>2 DEF Lines
<1>2. \A s \in Texts : Begins(CompleteLines(s), CompleteLines(s))
  <2> TAKE s \in Texts
  <2>1. CompleteLines(s) \in Texts
    BY CompleteType
  <2> QED
    BY <2>1, LenProperties DEF Begins, Texts
<1>3. ASSUME Len(text) <= Len(text'), \A f \in 1..Len(text) : text'[f] = text[f]
      PROVE  /\ Len(text) <= Len(text')
             /\ \A f \in 1..Len(text) : Begins(Lines(f), Lines(f)') /\ Lines(f)' = Lines(f)
  BY <1>0, <1>1, <1>2, <1>3
<1>4. ASSUME NEW x \in Texts, text' = Append(text, x)
      PROVE  /\ Len(text) <= Len(text')
             /\ \A f \in 1..Len(text) : Begins(Lines(f), Lines(f)') /\ Lines(f)' = Lines(f)
  BY <1>0, <1>3, <1>4, NewFile DEF TypeOK
<1>5. CASE text' = text
  BY <1>0, <1>3, <1>5
<1>6. CASE AppendRecord \/ TearAppend
  <2>1. PICK x \in {<< >>, <<Torn>>, <<entry>>} : AppendTo(Month, x)
    BY <1>6 DEF AppendRecord, TearAppend
  <2>2. x \in Texts
    <3>1. << >> \in Texts /\ <<Torn>> \in Texts /\ <<entry>> \in Texts
      BY DEF TypeOK, Torn, Texts
    <3> QED
      BY <2>1, <3>1
  <2>3. CASE plain[Month] = NoFile
    BY <1>4, <2>1, <2>2, <2>3 DEF AppendTo
  <2>4. CASE plain[Month] # NoFile
    <3>0. PICK p : p = plain[Month]
      OBVIOUS
    <3>1. p \in 1..Len(text) /\ text' = [text EXCEPT ![p] = Join(text[p], x)]
      BY <1>0, <2>1, <2>4, <3>0 DEF AppendTo, TypeOK, NoFile
    <3>2. Join(text[p], x) \in Texts /\ text \in Seq(Texts)
      BY <1>0, <2>2, <3>1, JoinTexts DEF TypeOK
    <3>3. /\ Len(text') = Len(text) /\ text'[p] = Join(text[p], x)
          /\ \A f \in 1..Len(text) : f # p => text'[f] = text[f]
      BY <3>1, <3>2, ChangedFile
    <3>4. Begins(CompleteLines(text[p]), CompleteLines(Join(text[p], x)))
      BY <1>0, <2>2, <3>1, CompleteGrows
    <3>5. \A f \in 1..Len(text) : f # p => Begins(Lines(f), Lines(f)') /\ Lines(f)' = Lines(f)
      BY <1>0, <1>1, <1>2, <3>3
    <3>6. Begins(Lines(p), Lines(p)')
      BY <1>1, <3>1, <3>3, <3>4
    <3> QED
      BY <1>0, <3>0, <3>3, <3>5, <3>6
  <2> QED
    BY <2>3, <2>4
<1>7. CASE AppendBatch
  <2>1. Append(Text(plain[Journal]), entry) \in Texts
    BY TextType, AppendProperties DEF TypeOK, Texts
  <2> QED
    BY <1>4, <1>7, <2>1 DEF AppendBatch
<1>8. CASE PublishArchive
  <2>1. PICK r \in receipt[target] : text' = Append(text, r.target)
    BY <1>8 DEF PublishArchive
  <2>2. r.target \in Texts
    BY <2>1 DEF TypeOK, Receipts
  <2> QED
    BY <1>4, <2>1, <2>2
<1>9. CASE StepsThatKeepDisk \/ RotateTail \/ SealTail \/ WriteReceipt \/ UnlinkSource
           \/ UnlinkReceipt
  BY <1>5, <1>9, DiskKept DEF RotateTail, SealTail, SealAs, WriteReceipt, UnlinkSource,
     UnlinkReceipt
<1> QED
  BY <1>6, <1>7, <1>8, <1>9, Steps

LEMMA ArchiveLines ==
  ASSUME IInv, NextRotation, NEW c \in Components, archive'[c] = archive[c]
  PROVE  Lines(archive[c])' = Lines(archive[c])
<1>1. PICK f : f = archive[c]
  OBVIOUS
<1>2. Lines(archive[c])' = Lines(f)' /\ Lines(archive[c]) = Lines(f)
  BY <1>1 DEF Lines, CompleteLines, EndsTorn, Text
<1>3. CASE f = NoFile
  BY <1>2, <1>3 DEF Lines, CompleteLines, EndsTorn, Text
<1>4. CASE f # NoFile
  <2>1. f \in 1..Len(text) /\ f # plain[Month]
    BY <1>1, <1>4, TextType, ComponentNames DEF IInv, TypeOK, FileInv, NoFile
  <2> QED
    BY <1>2, <2>1, FileGrows
<1> QED
  BY <1>3, <1>4

\* While no archive appears, the month grows in the files it had or in one more.
LEMMA TailsStep ==
  ASSUME IInv, IInv', SeriesInv, SoleInv, PlainInv, VisitInv, NextRotation,
         NEW k \in 0..MaxRecords, SegmentNumbers = 1..k,
         NEW j \in 0..MaxRecords, SegmentNumbers' = 1..j,
         \A c \in Components \ {Journal} : archive'[c] = archive[c]
  PROVE  /\ Ahead(j)' = Ahead(k)
         /\ Tails(j)' = Tails(k) \/ \E f \in Nat : Tails(j)' = Append(Tails(k), f)
<1> USE ComponentNames, BoundsAssumption DEF IInv, SeriesInv
<1>0. archive'[Month] = archive[Month] /\ Lines(archive[Month])' = Lines(archive[Month])
  BY ArchiveLines
<1>1. \A n \in 1..k : n \in Components \ {Month, Journal} /\ n \in Segments
  BY DEF SegmentNumbers
<1>2. CASE RotateTail \/ SealTail
  <2>1. PICK m \in 0..MaxRecords - 1, after \in {"rotate", "append"} :
          /\ SealAs(m + 1, after) /\ m + 1 \in Segments
          /\ SegmentNumbers = 1..m /\ SegmentNumbers' = 1..m + 1
          /\ receipt[Month] = {} /\ archive[Month] = NoFile /\ Sealable
    BY <1>2, SealedSegment
  <2>2. m = k /\ j = k + 1
    BY <2>1
  <2>3. Newest(k) = NoFile
    <3>1. k # 0 => k \in SegmentNumbers
      OBVIOUS
    <3> QED
      BY <1>2, <3>1, AllArchived DEF Newest, Open
  <2>4. archive[k + 1] = NoFile /\ archive'[k + 1] = NoFile
    <3>1. k + 1 \notin SegmentNumbers /\ k + 1 \in Components \ {Journal} /\ k + 1 \in Segments
      BY <2>1, <2>2
    <3> QED
      BY <3>1 DEF SegmentNumbers, Exists
  <2>5. /\ plain'[k + 1] = plain[Month] /\ plain'[Month] = NoFile /\ plain[Month] # NoFile
    BY <2>1, <2>2 DEF SealAs, Sealable, TypeOK
  <2>6. Open(Month) = plain[Month] /\ Open(Month)' = NoFile /\ Newest(j)' = plain[Month]
    BY <1>0, <2>1, <2>2, <2>4, <2>5 DEF Open, Newest
  <2>7. Tails(j)' = Tails(k)
    <3>1. Tails(k) = One(Open(Month))
      BY <2>3, TailsAre
    <3>2. Tails(j)' = One(Newest(j)') \o One(Open(Month)')
      BY DEF Tails, One
    <3>3. One(NoFile) = << >> /\ One(plain[Month]) \in Seq(Nat)
      BY <2>5, TailsAre, <2>6, EmptySeq DEF One
    <3> QED
      BY <2>6, <3>1, <3>2, <3>3, ConcatEmptySeq
  <2>8. Ahead(j)' = Ahead(k)
    <3>1. HeldKept(Components \ {k + 1, Month})
      BY <2>1, <2>2, SealTexts
    <3>2. \A n \in 1..k : Held(n)' = Held(n)
      BY <1>1, <3>1 DEF HeldKept
    <3>3. Ahead(k) = FlattenSeq(Sealed(k))
      BY <2>1, <2>3 DEF Ahead
    <3>4. Ahead(j)' = FlattenSeq(Sealed(k)')
      <4>1. j - 1 = k
        BY <2>2
      <4>2. Ahead(j)' = FlattenSeq(Sealed(j - 1)')
        BY <1>0, <2>1, <2>5, <2>6 DEF Ahead, Sealed
      <4> QED
        BY <4>1, <4>2
    <3> QED
      BY <3>2, <3>3, <3>4, SealedKept
  <2> QED
    BY <2>7, <2>8
<1>3. CASE ~RotateTail /\ ~SealTail
  <2>1. j = k
    <3>1. SegmentNumbers' = SegmentNumbers
      BY <1>3, SameSegments
    <3> QED
      BY <3>1
  <2>2. HeldKept(Components \ {Month, Journal})
    BY <1>3, Steps, KeptTexts, ReceiptTexts, PublishTexts, UnlinkTexts, RecordTexts, BatchTexts
       DEF HeldKept
  <2>3. \A c \in Components \ {Journal} :
           \/ plain'[c] = plain[c] \/ archive[c] # NoFile
           \/ c = Month /\ plain[c] = NoFile
    <3> TAKE c \in Components \ {Journal}
    <3>1. CASE StepsThatKeepDisk \/ WriteReceipt \/ PublishArchive \/ UnlinkReceipt
      BY <3>1, DiskKept DEF WriteReceipt, PublishArchive, UnlinkReceipt
    <3>2. CASE AppendRecord \/ TearAppend \/ AppendBatch
      BY <3>2 DEF AppendRecord, TearAppend, AppendBatch, AppendTo, TypeOK
    <3>3. CASE UnlinkSource
      <4>1. PICK r : Checksum(archive[target]) = {r.target}
        BY <3>3 DEF UnlinkSource, StepInv, Committed
      <4>2. archive[target] # NoFile
        BY <4>1 DEF Checksum
      <4> QED
        BY <3>3, <4>2 DEF UnlinkSource, TypeOK
    <3> QED
      BY <1>3, <3>1, <3>2, <3>3, Steps
  <2>4. Newest(k)' = Newest(k)
    <3>1. k # 0 => k \in Components \ {Journal, Month}
      BY <1>1
    <3> QED
      BY <2>3, <3>1 DEF Newest, Open
  <2>5. Open(Month)' = Open(Month) \/ (Open(Month) = NoFile /\ Open(Month)' # NoFile)
    BY <1>0, <2>3 DEF Open
  <2>6. Tails(j)' = One(Newest(k)) \o One(Open(Month)')
    BY <2>1, <2>4 DEF Tails, One
  <2>7. Ahead(j)' = Ahead(k)
    <3>1. PICK n \in 0..MaxRecords : n = IF Newest(k) = NoFile THEN k ELSE k - 1
      BY DEF Newest
    <3>2. Ahead(j)' = IF archive[Month] # NoFile THEN Lines(archive[Month])
                      ELSE FlattenSeq(Sealed(n)')
      BY <1>0, <2>1, <2>4, <3>1 DEF Ahead, Sealed
    <3>3. \A i \in 1..n : i \in 1..k
      BY <3>1
    <3>4. Sealed(n)' = Sealed(n)
      BY <1>1, <2>2, <3>3, SealedKept DEF HeldKept
    <3> QED
      BY <3>1, <3>2, <3>4 DEF Ahead
  <2>8. CASE Open(Month)' = Open(Month)
    BY <2>6, <2>7, <2>8 DEF Tails
  <2>9. CASE Open(Month) = NoFile /\ Open(Month)' # NoFile
    <3>1. PICK f : f = Open(Month)'
      OBVIOUS
    <3>2. f \in Nat
      BY <1>0, <3>1, TextType DEF TypeOK, Open, NoFile
    <3>3. Tails(k) = One(Newest(k)) /\ One(Newest(k)) \in Seq(Nat)
      BY <2>9, TailsAre
    <3>4. Tails(j)' = One(Newest(k)) \o <<f>>
      BY <2>6, <2>9, <3>1 DEF One
    <3>5. One(Newest(k)) \o <<f>> = Append(One(Newest(k)), f)
      <4> HIDE DEF IInv
      <4> QED
        BY <3>2, <3>3
    <3> QED
      BY <2>7, <3>2, <3>3, <3>4, <3>5
  <2> QED
    BY <2>5, <2>8, <2>9
<1> QED
  BY <1>2, <1>3
-----------------------------------------------------------------------------
(***************************************************************************)
(* Where the monitor's reader is.                                          *)
(***************************************************************************)
Cursors == [file : Nat, at : Nat]

Healths == [loaded : BOOLEAN, archives : SUBSET (Components \X Nat), cursors : Seq(Cursors),
            evidence : Texts, caughtUp : BOOLEAN]

\* The lines read through the cursors.
Through(c) == IF Len(c) = 0 THEN 0
              ELSE IF Len(c) = 1 THEN c[1].at ELSE c[1].at + c[2].at

\* The cursors are those of the first of the files f, and they are read in their
\* order, behind n lines.
Reading(f, h, n) ==
  /\ Len(h.cursors) <= Len(f)
  /\ \A i \in 1..Len(h.cursors) : /\ h.cursors[i].file = f[i]
                                  /\ h.cursors[i].at <= Len(Lines(f[i]))
  /\ Len(h.cursors) = 2 /\ h.cursors[2].at > 0 => h.cursors[1].at = Len(Lines(f[1]))
  /\ Len(h.evidence) = n + Through(h.cursors)

Follows(h) == \A k \in 0..MaxRecords : SegmentNumbers = 1..k =>
  \E f \in Seq(Nat), a \in Texts : f = Tails(k) /\ a = Ahead(k) /\ Reading(f, h, Len(a))

\* What was read is where the log begins; and a reader that has all archives has
\* their lines and knows how far it is in each plain file.
HealthOf(h) ==
  /\ \A s \in h.archives : s[2] \in 1..Len(text)
  /\ ~h.loaded => h.cursors = << >> /\ h.evidence = << >>
  /\ Begins(h.evidence, CompleteLines(Kept))
  /\ h.loaded /\ Signed \subseteq h.archives => Follows(h)

HealthInv == \E h \in Healths : h = health /\ HealthOf(h)

LinesTypes == TypeOK => \A f \in 1..Len(text) : Lines(f) \in Texts

LEMMA LinesTyped == LinesTypes /\ LinesTypes'
<1>1. LinesTypes
  BY TextType, CompleteType DEF LinesTypes, Lines
<1>2. LinesTypes'
  BY <1>1, PTL
<1> QED
  BY <1>1, <1>2

LEMMA TailsPlaces ==
  ASSUME TypeOK, FileInv, NEW k \in 0..MaxRecords, SegmentNumbers = 1..k
  PROVE  /\ Len(Tails(k)) \in 0..2
         /\ \A i \in 1..Len(Tails(k)) : Tails(k)[i] \in 1..Len(text)
         /\ Len(Tails(k)) = 2 => /\ Tails(k)[1] # Tails(k)[2]
                                 /\ Tails(k)[1] # plain[Month]
<1> USE ComponentNames
<1>1. /\ Newest(k) \in 0..Len(text) /\ Open(Month) \in 0..Len(text)
      /\ Len(text) \in Nat
  <2>1. k # 0 => k \in Components
    BY BoundsAssumption DEF Components, Segments
  <2> QED
    BY <2>1, TextType DEF Newest, Open, TypeOK, NoFile
<1>2. \A i \in 1..Len(Tails(k)) : Tails(k)[i] \in 1..Len(text)
  <2> TAKE i \in 1..Len(Tails(k))
  <2>1. Tails(k)[i] \in {Newest(k), Open(Month)} \ {NoFile}
    BY TailsAre
  <2> QED
    BY <1>1, <2>1 DEF NoFile
<1>3. \A f : Len(One(f)) \in 0..1
  BY DEF One
<1>4. CASE Newest(k) = NoFile
  BY <1>2, <1>3, <1>4, TailsAre
<1>5. CASE Open(Month) = NoFile
  BY <1>2, <1>3, <1>5, TailsAre
<1>6. CASE Newest(k) # NoFile /\ Open(Month) # NoFile
  <2>1. Tails(k) = <<Newest(k), Open(Month)>> /\ Newest(k) \in Nat /\ Open(Month) \in Nat
    BY <1>6, TailsAre
  <2>2. Len(Tails(k)) = 2 /\ Tails(k)[1] = Newest(k) /\ Tails(k)[2] = Open(Month)
    BY <2>1, Pair
  <2>3. /\ k # 0 /\ k \in Components \ {Month, Journal}
        /\ Newest(k) = plain[k] /\ Open(Month) = plain[Month] /\ plain[k] # NoFile
    <3>1. k # 0
      BY <1>6 DEF Newest
    <3>2. k \in SegmentNumbers
      BY <3>1
    <3> QED
      BY <1>6, <3>1, <3>2 DEF Newest, Open, SegmentNumbers
  <2>4. plain[k] # plain[Month]
    BY <2>3 DEF FileInv
  <2> QED
    BY <1>2, <2>2, <2>3, <2>4
<1> QED
  BY <1>4, <1>5, <1>6

LEMMA NewSignature ==
  ASSUME TypeOK, NextRotation, NEW S, \A s \in S : s[2] \in 1..Len(text), Signed' \subseteq S
  PROVE  /\ \A c \in Components \ {Journal} : archive'[c] = archive[c]
         /\ Signed' = Signed
<1>1. \A c \in Components \ {Journal} : archive'[c] = archive[c]
  <2>1. CASE PublishArchive
    <3>1. archive' = [archive EXCEPT ![target] = Len(text) + 1]
      BY <2>1 DEF PublishArchive
    <3>2. ASSUME target # Journal PROVE FALSE
      <4>1. target \in Components /\ archive'[target] = Len(text) + 1 /\ Len(text) \in Nat
        BY <3>1, TextType DEF TypeOK
      <4>2. <<target, Len(text) + 1>> \in Signed'
        BY <3>2, <4>1 DEF Signed, NoFile
      <4>3. <<target, Len(text) + 1>>[2] \in 1..Len(text)
        BY <4>2
      <4>4. <<target, Len(text) + 1>>[2] = Len(text) + 1
        OBVIOUS
      <4> QED
        BY <4>1, <4>3, <4>4
    <3> QED
      BY <3>1, <3>2 DEF TypeOK
  <2>2. CASE ~PublishArchive
    BY <2>2, Steps, DiskKept DEF RotateTail, SealTail, SealAs, WriteReceipt, UnlinkSource,
       UnlinkReceipt, AppendRecord, TearAppend, AppendBatch
  <2> QED
    BY <2>1, <2>2
<1> QED
  BY <1>1 DEF Signed

\* No step of a writer sends the reader astray.
LEMMA HealthWriter ==
  ASSUME IInv, IInv', SeriesInv, SeriesInv', SoleInv, PlainInv, VisitInv, NextRotation,
         NEW h \in Healths, HealthOf(h)
  PROVE  HealthOf(h)'
<1> USE DEF IInv
<1> USE DEF HealthOf
<1>1. \A s \in h.archives : s[2] \in 1..Len(text')
  <2>1. Len(text) <= Len(text') /\ Len(text) \in Nat /\ Len(text') \in Nat
    <3>1. text' \in Seq(Texts)
      BY DEF TypeOK
    <3> QED
      BY <3>1, FileGrows, TextType, LenProperties
  <2> QED
    BY <2>1
<1>2. Begins(h.evidence, CompleteLines(Kept)')
  <2>1. /\ h.evidence \in Texts /\ CompleteLines(Kept) \in Texts /\ CompleteLines(Kept)' \in Texts
        /\ Begins(CompleteLines(Kept), CompleteLines(Kept)')
    BY KeptGrows, KeptType DEF Healths, SeriesInv
  <2> QED
    BY <2>1, BeginsOn
<1>3. ASSUME h.loaded, Signed' \subseteq h.archives,
             NEW j \in 0..MaxRecords, SegmentNumbers' = 1..j
      PROVE  \E f \in Seq(Nat), a \in Texts :
               f = Tails(j)' /\ a = Ahead(j)' /\ Reading(f, h, Len(a))'
  <2>1. /\ \A c \in Components \ {Journal} : archive'[c] = archive[c]
        /\ Follows(h)
    BY <1>3, NewSignature
  <2>2. PICK k \in 0..MaxRecords : SegmentNumbers = 1..k
    BY DEF SeriesInv, NumberInv
  <2>3. PICK f \in Seq(Nat), a \in Texts : f = Tails(k) /\ a = Ahead(k) /\ Reading(f, h, Len(a))
    BY <2>1, <2>2 DEF Follows
  <2>4. PICK g : /\ g = Tails(j)' /\ Ahead(j)' = a
                 /\ g = f \/ \E x \in Nat : g = Append(f, x)
    BY <1>3, <2>1, <2>2, <2>3, TailsStep
  <2>5. /\ g \in Seq(Nat) /\ Len(f) <= Len(g) /\ Len(f) \in Nat /\ Len(g) \in Nat
        /\ \A i \in 1..Len(f) : g[i] = f[i]
    <3>1. CASE g = f
      BY <3>1, LenProperties
    <3>2. ASSUME NEW x \in Nat, g = Append(f, x)
          PROVE  <2>5!:
      BY <3>2, AppendProperties, LenProperties
    <3> QED
      BY <2>4, <3>1, <3>2
  <2> DEFINE c == h.cursors
  <2>6. c \in Seq(Cursors) /\ Len(c) \in Nat /\ \A i \in 1..Len(c) : c[i].at \in Nat
    <3>1. c \in Seq(Cursors)
      BY DEF Healths
    <3>2. \A i \in 1..Len(c) : c[i] \in Cursors
      BY <3>1, ElementOfSeq
    <3> QED
      BY <3>1, <3>2, LenProperties DEF Cursors
  <2>7. \A i \in 1..Len(f) : /\ Lines(f[i]) \in Texts /\ Lines(f[i])' \in Texts
                             /\ Len(Lines(f[i])) \in Nat /\ Len(Lines(f[i])') \in Nat
                             /\ Len(Lines(f[i])) <= Len(Lines(f[i])')
                             /\ f[i] # plain[Month] => Lines(f[i])' = Lines(f[i])
    <3> TAKE i \in 1..Len(f)
    <3>1. f[i] \in 1..Len(text) /\ f[i] \in 1..Len(text')
      <4>1. f[i] \in 1..Len(text)
        BY <2>2, <2>3, TailsPlaces
      <4>2. Len(text) <= Len(text') /\ Len(text) \in Nat /\ Len(text') \in Nat
        <5>1. text' \in Seq(Texts)
          BY DEF TypeOK
        <5> QED
          BY <5>1, FileGrows, TextType, LenProperties
      <4> QED
        BY <4>1, <4>2
    <3>2. Lines(f[i]) \in Texts /\ Lines(f[i])' \in Texts
      BY <3>1, LinesTyped DEF LinesTypes
    <3>3. Begins(Lines(f[i]), Lines(f[i])') /\ (f[i] # plain[Month] => Lines(f[i])' = Lines(f[i]))
      BY <3>1, FileGrows
    <3> QED
      BY <3>2, <3>3, LenProperties DEF Begins, Texts
  <2>8. /\ Len(c) <= Len(f)
        /\ \A i \in 1..Len(c) : c[i].file = f[i] /\ c[i].at <= Len(Lines(f[i]))
        /\ Len(c) = 2 /\ c[2].at > 0 => c[1].at = Len(Lines(f[1]))
        /\ Len(h.evidence) = Len(a) + Through(c)
    BY <2>3 DEF Reading
  <2> HIDE DEF c
  <2>9. \A i \in 1..Len(c) : c[i].file = g[i] /\ c[i].at <= Len(Lines(g[i])')
    <3> TAKE i \in 1..Len(c)
    <3>1. i \in 1..Len(f)
      BY <2>5, <2>6, <2>8
    <3>2. c[i].file = f[i] /\ c[i].at <= Len(Lines(f[i])) /\ c[i].at \in Nat
      BY <2>6, <2>8
    <3>3. /\ Len(Lines(f[i])) \in Nat /\ Len(Lines(f[i])') \in Nat
          /\ Len(Lines(f[i])) <= Len(Lines(f[i])')
      BY <2>7, <3>1
    <3>4. c[i].at <= Len(Lines(f[i])')
      BY <3>2, <3>3
    <3>5. g[i] = f[i]
      BY <2>5, <3>1
    <3> QED
      BY <3>2, <3>4, <3>5
  <2>10. Len(c) = 2 /\ c[2].at > 0 => c[1].at = Len(Lines(g[1])')
    <3> SUFFICES ASSUME Len(c) = 2, c[2].at > 0 PROVE c[1].at = Len(Lines(g[1])')
      OBVIOUS
    <3>1. Len(f) = 2 /\ f[1] # plain[Month] /\ 1 \in 1..Len(f)
      <4>1. Len(f) \in 0..2 /\ (Len(f) = 2 => f[1] # plain[Month])
        BY <2>2, <2>3, TailsPlaces
      <4> QED
        BY <2>8, <4>1
    <3> QED
      BY <2>5, <2>7, <2>8, <3>1
  <2>11. Reading(g, h, Len(a))'
    BY <2>5, <2>6, <2>8, <2>9, <2>10 DEF Reading, c
  <2> QED
    BY <2>4, <2>5, <2>11
<1>4. h.loaded /\ Signed' \subseteq h.archives => Follows(h)'
  BY <1>3 DEF Follows
<1> QED
  BY <1>1, <1>2, <1>4
-----------------------------------------------------------------------------
(***************************************************************************)
(* The items of a sequence that are in a set.                              *)
(***************************************************************************)
Chosen(x, S) == IF x \in S THEN <<x>> ELSE << >>

AmongEach(s, S) == [i \in 1..Len(s) |-> Chosen(s[i], S)]

LEMMA AmongIs ==
  ASSUME NEW E, NEW S, NEW s \in Seq(E)
  PROVE  /\ AmongEach(s, S) \in Seq(Seq(E)) /\ Len(AmongEach(s, S)) = Len(s)
         /\ Among(s, S) = FlattenSeq(AmongEach(s, S)) /\ Among(s, S) \in Seq(E)
<1>1. DOMAIN s = 1..Len(s) /\ Len(s) \in Nat /\ \A i \in 1..Len(s) : s[i] \in E
  BY LenProperties, ElementOfSeq
<1>2. \A x \in E : Chosen(x, S) \in Seq(E)
  BY EmptySeq DEF Chosen
<1>3. AmongEach(s, S) \in Seq(Seq(E)) /\ Len(AmongEach(s, S)) = Len(s)
  BY <1>1, <1>2, IsASeq DEF AmongEach
<1>4. Among(s, S) = FlattenSeq(AmongEach(s, S))
  BY <1>1 DEF Among, AmongEach, Chosen
<1> QED
  BY <1>3, <1>4, FlattenType

LEMMA AmongLast ==
  ASSUME NEW E, NEW S, NEW s \in Seq(E), NEW x \in E
  PROVE  Among(Append(s, x), S) = Among(s, S) \o Chosen(x, S)
<1> DEFINE q == Append(s, x)
<1>1. /\ q \in Seq(E) /\ Len(q) = Len(s) + 1 /\ Len(s) \in Nat
      /\ q[Len(s) + 1] = x /\ \A i \in 1..Len(s) : q[i] = s[i]
  BY AppendProperties, LenProperties
<1>2. /\ AmongEach(q, S) \in Seq(Seq(E)) /\ Len(AmongEach(q, S)) = Len(s) + 1
      /\ AmongEach(s, S) \in Seq(Seq(E)) /\ Len(AmongEach(s, S)) = Len(s)
      /\ Chosen(x, S) \in Seq(E)
      /\ Among(q, S) = FlattenSeq(AmongEach(q, S)) /\ Among(s, S) = FlattenSeq(AmongEach(s, S))
  <2>1. Chosen(x, S) \in Seq(E)
    BY EmptySeq DEF Chosen
  <2> HIDE DEF q
  <2> QED
    BY <1>1, <2>1, AmongIs
<1>3. AmongEach(q, S) = Append(AmongEach(s, S), Chosen(x, S))
  <2>1. \A i \in 1..Len(s) + 1 : AmongEach(q, S)[i] =
           IF i = Len(s) + 1 THEN Chosen(x, S) ELSE AmongEach(s, S)[i]
    BY <1>1 DEF AmongEach
  <2> HIDE DEF q
  <2>2. LET a == Append(AmongEach(s, S), Chosen(x, S))
        IN  /\ a \in Seq(Seq(E)) /\ Len(a) = Len(s) + 1
            /\ \A i \in 1..Len(s) : a[i] = AmongEach(s, S)[i]
            /\ a[Len(s) + 1] = Chosen(x, S)
    BY <1>2, AppendProperties
  <2>3. \A i \in 1..Len(s) + 1 :
           AmongEach(q, S)[i] = Append(AmongEach(s, S), Chosen(x, S))[i]
    BY <1>1, <2>1, <2>2
  <2> QED
    BY <1>1, <1>2, <2>2, <2>3, SeqEqual
<1>4. FlattenSeq(Append(AmongEach(s, S), Chosen(x, S))) =
        FlattenSeq(AmongEach(s, S)) \o Chosen(x, S)
  BY <1>2, FlattenWith
<1> QED
  BY <1>2, <1>3, <1>4

\* What a further part adds that is in S as a whole, or not at all.
LEMMA AmongConcat ==
  ASSUME NEW E, NEW S, NEW s \in Seq(E)
  PROVE  \A t \in Seq(E) :
           /\ (\A i \in 1..Len(t) : t[i] \in S) => Among(s \o t, S) = Among(s, S) \o t
           /\ (\A i \in 1..Len(t) : t[i] \notin S) => Among(s \o t, S) = Among(s, S)
<1> DEFINE All(t)  == \A i \in 1..Len(t) : t[i] \in S
           None(t) == \A i \in 1..Len(t) : t[i] \notin S
           Good == {t \in Seq(E) :
             /\ All(t) => Among(s \o t, S) = Among(s, S) \o t
             /\ None(t) => Among(s \o t, S) = Among(s, S)}
<1>0. Among(s, S) \in Seq(E)
  BY AmongIs
<1>1. << >> \in Good
  <2>1. s \o << >> = s /\ Among(s, S) \o << >> = Among(s, S)
    BY <1>0, ConcatEmptySeq
  <2> QED
    BY <2>1, EmptySeq
<1>2. ASSUME NEW t \in Seq(E), NEW x \in E, t \in Good
      PROVE  Append(t, x) \in Good
  <2>1. /\ Append(t, x) \in Seq(E) /\ Len(t) \in Nat
        /\ Len(Append(t, x)) = Len(t) + 1 /\ Append(t, x)[Len(t) + 1] = x
        /\ \A i \in 1..Len(t) : Append(t, x)[i] = t[i]
    BY AppendProperties, LenProperties
  <2>2. /\ All(Append(t, x)) => All(t) /\ x \in S
        /\ None(Append(t, x)) => None(t) /\ x \notin S
    <3>1. \A i \in 1..Len(t) : i \in 1..Len(t) + 1
      BY <2>1
    <3>2. Len(t) + 1 \in 1..Len(t) + 1
      BY <2>1
    <3> QED
      BY <2>1, <3>1, <3>2
  <2>3. s \o Append(t, x) = Append(s \o t, x) /\ s \o t \in Seq(E)
    <3>1. s \o t \in Seq(E) /\ <<x>> \in Seq(E)
      BY ConcatProperties
    <3>2. (s \o t) \o <<x>> = s \o (t \o <<x>>)
      <4>1. Trio(E, s, t, <<x>>)
        BY <3>1 DEF Trio
      <4>2. Regroups(s, t, <<x>>)
        BY <4>1, Associative, Zenon
      <4> QED
        BY <4>2 DEF Regroups
    <3>3. Append(t, x) = t \o <<x>> /\ Append(s \o t, x) = (s \o t) \o <<x>>
      BY <3>1, AppendIsConcat
    <3> QED
      BY <3>1, <3>2, <3>3
  <2>4. Among(s \o Append(t, x), S) = Among(s \o t, S) \o Chosen(x, S)
    BY <2>3, AmongLast
  <2>5. ASSUME All(Append(t, x))
        PROVE  Among(s \o Append(t, x), S) = Among(s, S) \o Append(t, x)
    <3>1. Among(s \o t, S) = Among(s, S) \o t /\ Chosen(x, S) = <<x>>
      BY <1>2, <2>2, <2>5 DEF Chosen
    <3>2. (Among(s, S) \o t) \o <<x>> = Among(s, S) \o Append(t, x)
      <4>1. PICK c : c = Among(s, S)
        OBVIOUS
      <4>2. Append(t, x) = t \o <<x>> /\ <<x>> \in Seq(E)
        BY AppendIsConcat
      <4>3. Trio(E, c, t, <<x>>)
        BY <1>0, <4>1, <4>2 DEF Trio
      <4>5. Regroups(c, t, <<x>>)
        BY <4>3, Associative, Zenon
      <4>4. (c \o t) \o <<x>> = c \o (t \o <<x>>)
        BY <4>5 DEF Regroups
      <4> QED
        BY <4>1, <4>2, <4>4
    <3> QED
      BY <2>4, <3>1, <3>2
  <2>6. ASSUME None(Append(t, x)) PROVE Among(s \o Append(t, x), S) = Among(s, S)
    <3>1. Among(s \o t, S) = Among(s, S) /\ Chosen(x, S) = << >>
      BY <1>2, <2>2, <2>6 DEF Chosen
    <3> QED
      BY <1>0, <2>4, <3>1, ConcatEmptySeq
  <2> QED
    BY <2>1, <2>5, <2>6
<1> HIDE DEF Good
<1>3. Seq(E) \subseteq Good
  BY <1>1, <1>2, SequenceInduction
<1> USE DEF Good
<1> QED
  BY <1>3

LEMMA AmongAll ==
  ASSUME NEW E, NEW S, NEW t \in Seq(E)
  PROVE  /\ (\A i \in 1..Len(t) : t[i] \in S) => Among(t, S) = t
         /\ (\A i \in 1..Len(t) : t[i] \notin S) => Among(t, S) = << >>
<1>1. << >> \in Seq(E) /\ << >> \o t = t
  BY EmptySeq, ConcatEmptySeq
<1>2. Among(<< >>, S) = << >>
  <2>1. /\ AmongEach(<< >>, S) \in Seq(Seq(E)) /\ Len(AmongEach(<< >>, S)) = Len(<< >>)
        /\ Among(<< >>, S) = FlattenSeq(AmongEach(<< >>, S))
    BY <1>1, AmongIs, ZenonT(40)
  <2>2. AmongEach(<< >>, S) = << >>
    BY <2>1, EmptySeq
  <2> QED
    BY <2>1, <2>2, FlattenEmpty
<1>3. /\ (\A i \in 1..Len(t) : t[i] \in S) => Among(<< >> \o t, S) = Among(<< >>, S) \o t
      /\ (\A i \in 1..Len(t) : t[i] \notin S) => Among(<< >> \o t, S) = Among(<< >>, S)
  BY <1>1, AmongConcat
<1> QED
  BY <1>1, <1>2, <1>3
-----------------------------------------------------------------------------
(***************************************************************************)
(* The pieces of the month: archives, and then the files that may grow.    *)
(***************************************************************************)
LEMMA PieceIs ==
  ASSUME IInv, SoleInv, NEW c \in Components \ {Journal}
  PROVE  ComponentPieces(c) = IF archive[c] # NoFile THEN << <<c, "archive">> >>
                              ELSE IF plain[c] # NoFile THEN << <<c, "plain">> >> ELSE << >>
<1>1. Committed(c) => archive[c] # NoFile
  BY DEF Committed, Checksum
<1>2. CASE archive[c] # NoFile
  <2>1. Piece(c, "archive") = << <<c, "archive">> >>
    BY <1>2 DEF Piece
  <2>2. Committed(c) \/ plain[c] = NoFile
    BY <1>2 DEF SoleInv
  <2>3. ComponentPieces(c) = << <<c, "archive">> >> \o << >>
    BY <2>1, <2>2 DEF ComponentPieces, Piece
  <2>4. << <<c, "archive">> >> \o << >> = << <<c, "archive">> >>
    OBVIOUS
  <2> QED
    BY <1>2, <2>3, <2>4
<1>3. CASE archive[c] = NoFile
  <2>1. Piece(c, "archive") = << >>
    BY <1>3 DEF Piece
  <2>2. ComponentPieces(c) = << >> \o Piece(c, "plain")
    BY <1>1, <1>3, <2>1 DEF ComponentPieces
  <2>3. << >> \o << <<c, "plain">> >> = << <<c, "plain">> >> /\ << >> \o << >> = << >>
    OBVIOUS
  <2> QED
    BY <1>3, <2>2, <2>3 DEF Piece
<1> QED
  BY <1>2, <1>3

\* A are archives, and T the plain files that were not compressed.
Parted(A, T, k) ==
  /\ MonthPieces = A \o T
  /\ \A i \in 1..Len(A) : A[i][2] = "archive"
  /\ Len(T) = Len(Tails(k))
  /\ \A i \in 1..Len(T) : T[i][2] = "plain" /\ FileOf(T[i]) = Tails(k)[i]
  /\ LinesOf(A) = Ahead(k)

LEMMA SealedLines ==
  ASSUME IInv, SeriesInv, SoleInv, NEW k \in 0..MaxRecords, SegmentNumbers = 1..k,
         NEW n \in 0..k
  PROVE  /\ SealedPieces(n) \in Seq(Pieces) /\ Len(SealedPieces(n)) = n
         /\ LinesOf(SealedPieces(n)) = FlattenSeq(Sealed(n))
         /\ \A i \in 1..n : SealedPieces(n)[i] = ComponentPieces(i)[1]
<1> USE ComponentNames, BoundsAssumption DEF IInv, SeriesInv
<1>1. /\ SealedPieces(k) \in Seq(Pieces) /\ Len(SealedPieces(k)) = k
      /\ \A i \in 1..k : Text(FileOf(SealedPieces(k)[i])) = Held(i)
  BY MonthPiecesAre
<1>2. \A i \in 1..k : ComponentPieces(i)[1] = SealedPieces(k)[i]
  BY DEF SealedPieces
<1>3. \A i \in 1..k : ComponentPieces(i)[1] \in Pieces
  BY <1>1, <1>2, ElementOfSeq
<1>4. \A i \in 1..n : i \in 1..k
  OBVIOUS
<1>5. SealedPieces(n) \in Seq(Pieces) /\ Len(SealedPieces(n)) = n
  <2>1. SealedPieces(n) \in Seq(Pieces)
    BY <1>3, <1>4, IsASeq DEF SealedPieces
  <2> QED
    BY <2>1 DEF SealedPieces
<1>6. \A i \in 1..n : SealedPieces(n)[i] = ComponentPieces(i)[1]
  BY DEF SealedPieces
<1>7. \A i \in 1..n : Lines(FileOf(SealedPieces(n)[i])) = Held(i)
  <2> TAKE i \in 1..n
  <2>1. Whole(Held(i))
    BY <1>4 DEF WholeInv
  <2>2. Text(FileOf(SealedPieces(n)[i])) = Held(i)
    BY <1>1, <1>2, <1>4, <1>6
  <2> QED
    BY <2>1, <2>2 DEF Lines, CompleteLines, Whole
<1>8. LinesOfEach(SealedPieces(n)) = Sealed(n)
  BY <1>5, <1>7 DEF LinesOfEach, Sealed
<1> QED
  BY <1>5, <1>6, <1>8, LinesAre

LEMMA MonthParts ==
  ASSUME IInv, SeriesInv, SoleInv, PlainInv, NEW k \in 0..MaxRecords, SegmentNumbers = 1..k
  PROVE  \E A, T \in Seq(Pieces) : Parted(A, T, k)
<1> USE ComponentNames, BoundsAssumption
<1>0. k \in Nat /\ TypeOK /\ MonthInv
  BY DEF IInv, SeriesInv
<1>1. /\ MonthPieces = SealedPieces(k) \o ComponentPieces(Month)
      /\ SealedPieces(k) \in Seq(Pieces) /\ Len(SealedPieces(k)) = k
  BY MonthPiecesAre DEF SeriesInv
<1>2. \A i \in 1..k : i \in Components \ {Journal} /\ (plain[i] # NoFile \/ archive[i] # NoFile)
  <2> TAKE i \in 1..k
  <2>1. i \in Components \ {Journal} /\ Exists(i)
    BY DEF SegmentNumbers
  <2> QED
    BY <2>1, OnePiece
<1>3. PICK n \in 0..k : n = IF Newest(k) = NoFile THEN k ELSE k - 1
  BY <1>0 DEF Newest
<1>4. \A i \in 1..n : archive[i] # NoFile
  <2> TAKE i \in 1..n
  <2>1. CASE i < k
    <3>1. i \in SegmentNumbers /\ k \in SegmentNumbers
      BY <1>3, <2>1
    <3> QED
      BY <2>1, <3>1 DEF PlainInv
  <2>2. CASE i = k
    <3>1. Newest(k) = NoFile /\ k # 0
      BY <1>3, <2>2
    <3> QED
      BY <1>2, <2>2, <3>1 DEF Newest, Open
  <2> QED
    BY <1>3, <2>1, <2>2
<1>5. PICK a : a = SealedPieces(n)
  OBVIOUS
<1>6. /\ a \in Seq(Pieces) /\ Len(a) = n /\ LinesOf(a) = FlattenSeq(Sealed(n))
      /\ \A i \in 1..Len(a) : a[i][2] = "archive"
  <2>1. /\ a \in Seq(Pieces) /\ Len(a) = n /\ LinesOf(a) = FlattenSeq(Sealed(n))
        /\ \A i \in 1..n : a[i] = ComponentPieces(i)[1]
    BY <1>5, SealedLines
  <2>2. \A i \in 1..n : ComponentPieces(i) = << <<i, "archive">> >>
    <3> TAKE i \in 1..n
    <3>1. i \in 1..k
      BY <1>3
    <3> QED
      BY <1>2, <1>4, <3>1, PieceIs
  <2>3. \A i \in 1..n : a[i] = <<i, "archive">>
    BY <2>1, <2>2
  <2> QED
    BY <2>1, <2>3
<1>7. \E t \in Seq(Pieces) :
         /\ SealedPieces(k) = a \o t /\ Len(t) = Len(One(Newest(k)))
         /\ \A i \in 1..Len(t) : t[i][2] = "plain" /\ FileOf(t[i]) = Newest(k)
  <2>1. CASE Newest(k) = NoFile
    <3>1. a \o << >> = a /\ << >> \in Seq(Pieces) /\ Len(<< >>) = 0 /\ 1..0 = {}
      BY <1>6, EmptySeq, ConcatEmptySeq
    <3>2. SealedPieces(k) = a
      BY <1>3, <1>5, <2>1
    <3>3. Len(One(Newest(k))) = 0
      BY <2>1, EmptySeq DEF One
    <3> QED
      BY <3>1, <3>2, <3>3
  <2>2. CASE Newest(k) # NoFile
    <3>1. k # 0 /\ n = k - 1 /\ Newest(k) = plain[k] /\ plain[k] # NoFile /\ archive[k] = NoFile
      BY <1>3, <2>2 DEF Newest, Open
    <3>2. k \in 1..k /\ k \in Components \ {Journal}
      BY <1>0, <1>2, <3>1
    <3>3. PICK x : x = <<k, "plain">>
      OBVIOUS
    <3>4. x \in Pieces /\ x[2] = "plain" /\ FileOf(x) = Newest(k) /\ ComponentPieces(k) = <<x>>
      BY <3>1, <3>2, <3>3, PieceIs DEF Pieces, FileOf
    <3>5. a \o <<x>> = SealedPieces(k)
      <4>1. /\ a \o <<x>> \in Seq(Pieces) /\ Len(a \o <<x>>) = k
            /\ \A i \in 1..k : (a \o <<x>>)[i] = IF i <= n THEN a[i] ELSE x
        <5>1. <<x>> \in Seq(Pieces) /\ Len(<<x>>) = 1 /\ <<x>>[1] = x
          BY <3>4
        <5>2. /\ a \o <<x>> \in Seq(Pieces) /\ Len(a \o <<x>>) = n + 1
              /\ \A i \in 1..n + 1 : (a \o <<x>>)[i] = IF i <= n THEN a[i] ELSE <<x>>[i - n]
          BY <1>6, <5>1, ConcatProperties
        <5>3. \A i \in 1..k : i <= n \/ i - n = 1
          BY <1>0, <3>1
        <5> QED
          BY <1>0, <3>1, <5>1, <5>2, <5>3
      <4>2. /\ \A i \in 1..n : a[i] = ComponentPieces(i)[1]
            /\ \A i \in 1..k : SealedPieces(k)[i] = ComponentPieces(i)[1]
        <5>1. k \in 0..k
          BY <1>0
        <5> QED
          BY <1>5, <5>1, SealedLines
      <4>3. \A i \in 1..k : (a \o <<x>>)[i] = SealedPieces(k)[i]
        <5> TAKE i \in 1..k
        <5>1. CASE i <= n
          <6>1. i \in 1..n
            BY <5>1
          <6> QED
            BY <4>1, <4>2, <5>1, <6>1
        <5>2. CASE ~(i <= n)
          <6>1. i = k
            BY <1>0, <3>1, <5>2
          <6>2. ComponentPieces(k)[1] = x
            BY <3>4
          <6> QED
            BY <3>2, <4>1, <4>2, <5>2, <6>1, <6>2
        <5> QED
          BY <5>1, <5>2
      <4> QED
        BY <1>1, <4>1, <4>3, SeqEqual
    <3>6. /\ <<x>> \in Seq(Pieces) /\ Len(<<x>>) = 1 /\ \A i \in 1..1 : <<x>>[i] = x
          /\ Len(One(Newest(k))) = 1
      BY <2>2, <3>4 DEF One
    <3> QED
      BY <3>4, <3>5, <3>6
  <2> QED
    BY <2>1, <2>2
<1>8. PICK t \in Seq(Pieces) :
         /\ SealedPieces(k) = a \o t /\ Len(t) = Len(One(Newest(k)))
         /\ \A i \in 1..Len(t) : t[i][2] = "plain" /\ FileOf(t[i]) = Newest(k)
  BY <1>7
<1>9. CASE archive[Month] # NoFile
  <2>1. k = 0 /\ n = 0
    <3>1. 1 \notin SegmentNumbers
      BY <1>0, <1>9 DEF MonthInv
    <3> QED
      BY <1>0, <1>3, <3>1
  <2>2. SealedPieces(k) = << >>
    BY <1>1, <2>1, EmptySeq
  <2>3. PICK x : x = <<Month, "archive">>
    OBVIOUS
  <2>4. x \in Pieces /\ x[2] = "archive" /\ FileOf(x) = archive[Month]
    BY <2>3 DEF Pieces, FileOf
  <2>5. ComponentPieces(Month) = <<x>>
    BY <1>9, <2>3, PieceIs
  <2>6. <<x>> \in Seq(Pieces) /\ Len(<<x>>) = 1 /\ <<x>>[1] = x /\ << >> \in Seq(Pieces)
    BY <2>4, EmptySeq
  <2>7. MonthPieces = <<x>> \o << >>
    BY <1>1, <2>2, <2>5, <2>6, ConcatEmptySeq
  <2>8. LinesOf(<<x>>) = Lines(archive[Month])
    <3>1. <<x>> = Append(<< >>, x)
      BY <2>4, <2>6, AppendIsConcat, ConcatEmptySeq
    <3>2. LinesOf(<<x>>) = << >> \o Lines(FileOf(x))
      BY <1>0, <2>4, <2>6, <3>1, LinesOfLast, LinesOfNone
    <3>3. Lines(FileOf(x)) \in Seq(Int)
      BY <1>0, <2>4, FileLines DEF Texts
    <3> QED
      BY <2>4, <3>2, <3>3, ConcatEmptySeq
  <2>9. Len(Tails(k)) = 0
    <3>1. Newest(k) = NoFile /\ Open(Month) = NoFile
      BY <1>9, <2>1 DEF Newest, Open
    <3>2. Tails(k) = One(Open(Month))
      BY <1>0, <3>1, TailsAre
    <3> QED
      BY <3>1, <3>2, EmptySeq DEF One
  <2>10. Parted(<<x>>, << >>, k)
    BY <1>9, <2>4, <2>6, <2>7, <2>8, <2>9, EmptySeq DEF Parted, Ahead
  <2> QED
    BY <2>6, <2>10
<1>10. CASE archive[Month] = NoFile
  <2>1. Ahead(k) = LinesOf(a)
    BY <1>3, <1>6, <1>10 DEF Ahead
  <2>2. \E u \in Seq(Pieces) :
          /\ ComponentPieces(Month) = u /\ Len(u) = Len(One(Open(Month)))
          /\ \A i \in 1..Len(u) : u[i][2] = "plain" /\ FileOf(u[i]) = Open(Month)
    <3>1. CASE plain[Month] = NoFile
      <4>1. ComponentPieces(Month) = << >>
        BY <1>10, <3>1, PieceIs
      <4>2. Len(One(Open(Month))) = 0
        BY <1>10, <3>1, EmptySeq DEF Open, One
      <4>3. << >> \in Seq(Pieces) /\ Len(<< >>) = 0 /\ 1..0 = {}
        BY EmptySeq
      <4> QED
        BY <4>1, <4>2, <4>3
    <3>2. CASE plain[Month] # NoFile
      <4>1. PICK x : x = <<Month, "plain">>
        OBVIOUS
      <4>2. x \in Pieces /\ x[2] = "plain" /\ FileOf(x) = plain[Month]
        BY <4>1 DEF Pieces, FileOf
      <4>3. ComponentPieces(Month) = <<x>>
        BY <1>10, <3>2, <4>1, PieceIs
      <4>4. /\ <<x>> \in Seq(Pieces) /\ Len(<<x>>) = 1 /\ \A i \in 1..1 : <<x>>[i] = x
            /\ Len(One(Open(Month))) = 1
        BY <1>10, <3>2, <4>2 DEF One, Open
      <4> QED
        BY <1>10, <4>2, <4>3, <4>4 DEF Open
    <3> QED
      BY <3>1, <3>2
  <2>3. PICK u \in Seq(Pieces) :
          /\ ComponentPieces(Month) = u /\ Len(u) = Len(One(Open(Month)))
          /\ \A i \in 1..Len(u) : u[i][2] = "plain" /\ FileOf(u[i]) = Open(Month)
    BY <2>2
  <2>4. MonthPieces = a \o (t \o u)
    <3>2. Trio(Pieces, a, t, u)
      BY <1>6 DEF Trio
    <3>3. Regroups(a, t, u)
      BY <3>2, Associative, Zenon
    <3>1. (a \o t) \o u = a \o (t \o u)
      BY <3>3 DEF Regroups
    <3> QED
      BY <1>1, <1>8, <2>3, <3>1
  <2>5. PICK v, w : v = One(Newest(k)) /\ w = One(Open(Month))
    OBVIOUS
  <2>6. /\ v \in Seq(Nat) /\ w \in Seq(Nat) /\ Tails(k) = v \o w
        /\ \A i \in 1..Len(v) : v[i] = Newest(k)
        /\ \A i \in 1..Len(w) : w[i] = Open(Month)
        /\ Len(v) = Len(t) /\ Len(w) = Len(u)
    <3>1. Newest(k) \in Nat /\ Open(Month) \in Nat
      BY <1>0, TailsAre
    <3>2. v \in Seq(Nat) /\ \A i \in 1..Len(v) : v[i] = Newest(k)
      BY <2>5, <3>1, EmptySeq DEF One
    <3>3. w \in Seq(Nat) /\ \A i \in 1..Len(w) : w[i] = Open(Month)
      BY <2>5, <3>1, EmptySeq DEF One
    <3> QED
      BY <1>8, <2>3, <2>5, <3>2, <3>3 DEF Tails
  <2>7. /\ t \o u \in Seq(Pieces) /\ Len(t \o u) = Len(t) + Len(u)
        /\ Len(t) \in Nat /\ Len(u) \in Nat
        /\ \A i \in 1..Len(t) + Len(u) :
             (t \o u)[i] = IF i <= Len(t) THEN t[i] ELSE u[i - Len(t)]
    BY ConcatProperties, LenProperties
  <2>8. /\ Len(v \o w) = Len(t) + Len(u)
        /\ \A i \in 1..Len(t) + Len(u) :
             (v \o w)[i] = IF i <= Len(t) THEN v[i] ELSE w[i - Len(t)]
    BY <2>6, ConcatProperties
  <2>9. ASSUME NEW i \in 1..Len(t) + Len(u)
        PROVE  (t \o u)[i][2] = "plain" /\ FileOf((t \o u)[i]) = (v \o w)[i]
    <3>1. CASE i <= Len(t)
      <4>1. i \in 1..Len(t)
        BY <2>7, <3>1
      <4> QED
        BY <1>8, <2>6, <2>7, <2>8, <3>1, <4>1
    <3>2. CASE ~(i <= Len(t))
      <4>1. PICK j \in 1..Len(u) : j = i - Len(t)
        BY <2>7, <3>2
      <4> QED
        BY <2>3, <2>6, <2>7, <2>8, <3>2, <4>1
    <3> QED
      BY <3>1, <3>2
  <2>10. Parted(a, t \o u, k)
    BY <1>6, <2>1, <2>4, <2>6, <2>7, <2>8, <2>9 DEF Parted
  <2> QED
    BY <1>6, <2>7, <2>10
<1> QED
  BY <1>9, <1>10
-----------------------------------------------------------------------------
(***************************************************************************)
(* A poll: what it finds.                                                  *)
(***************************************************************************)
\* What a reader knows stays true while the files stay what they are.
LEMMA StutterHealth ==
  ASSUME UNCHANGED <<text, plain, archive, receipt>>, NEW h
  PROVE  HealthOf(h)' <=> HealthOf(h)
<1>1. Kept' = Kept /\ CompleteLines(Kept)' = CompleteLines(Kept)
  <2>1. CompleteLines(Kept)' = CompleteLines(Kept')
    BY DEF CompleteLines, EndsTorn
  <2> QED
    BY <2>1, DiskLines
<1>2. SegmentNumbers' = SegmentNumbers /\ Signed' = Signed
  BY DEF SegmentNumbers, Exists, Signed
<1>3. \A f : Lines(f)' = Lines(f)
  BY DEF Lines, Text
<1>4. \A k : Tails(k)' = Tails(k)
  BY DEF Tails, One, Newest, Open
<1>5. \A k : Ahead(k)' = Ahead(k)
  <2>1. \A n : Sealed(n)' = Sealed(n)
    BY DEF Sealed, Held, Committed, Checksum, Text
  <2>2. Lines(archive[Month])' = Lines(archive[Month])
    BY DEF Lines, Text
  <2>3. \A k : Newest(k)' = Newest(k)
    BY DEF Newest, Open
  <2> QED
    BY <2>1, <2>2, <2>3 DEF Ahead
<1>6. \A f, n : Reading(f, h, n)' <=> Reading(f, h, n)
  BY <1>3 DEF Reading
<1>7. Follows(h)' <=> Follows(h)
  BY <1>2, <1>4, <1>5, <1>6 DEF Follows
<1> QED
  BY <1>1, <1>2, <1>7 DEF HealthOf

LEMMA FlattenShort ==
  ASSUME NEW E, NEW g \in Seq(Seq(E))
  PROVE  /\ Len(g) = 0 => FlattenSeq(g) = << >>
         /\ Len(g) = 1 => FlattenSeq(g) = g[1]
         /\ Len(g) = 2 => FlattenSeq(g) = g[1] \o g[2]
<1>0. Len(g) \in Nat /\ \A i \in 1..Len(g) : g[i] \in Seq(E)
  BY LenProperties, ElementOfSeq
<1>1. ASSUME Len(g) = 0 PROVE FlattenSeq(g) = << >>
  BY <1>1, EmptySeq, FlattenEmpty
<1>2. ASSUME NEW h \in Seq(Seq(E)), Len(h) = 1 PROVE FlattenSeq(h) = h[1]
  <2>1. h # << >>
    BY <1>2, EmptySeq
  <2>2. /\ Tail(h) \in Seq(Seq(E)) /\ Len(Tail(h)) = 0 /\ Head(h) = h[1]
        /\ FlattenSeq(h) = Head(h) \o FlattenSeq(Tail(h)) /\ h[1] \in Seq(E)
    BY <1>2, <2>1, FlattenTail, HeadTailProperties, ElementOfSeq
  <2>3. FlattenSeq(Tail(h)) = << >>
    BY <2>2, EmptySeq, FlattenEmpty
  <2> QED
    BY <2>2, <2>3, ConcatEmptySeq
<1>3. ASSUME Len(g) = 2 PROVE FlattenSeq(g) = g[1] \o g[2]
  <2>1. g # << >>
    BY <1>3, EmptySeq
  <2>2. /\ Tail(g) \in Seq(Seq(E)) /\ Len(Tail(g)) = 1 /\ Head(g) = g[1]
        /\ \A i \in 1..1 : Tail(g)[i] = g[i + 1]
    BY <1>3, <2>1, HeadTailProperties
  <2>3. FlattenSeq(g) = Head(g) \o FlattenSeq(Tail(g))
    BY <2>1, FlattenTail
  <2>4. Tail(g)[1] = g[2]
    BY <2>2, SMTT(30)
  <2> QED
    BY <1>2, <2>2, <2>3, <2>4
<1> QED
  BY <1>1, <1>2, <1>3

\* The text w has l behind its first p lines.
Holds(w, p, l) == p + Len(l) <= Len(w) /\ \A i \in 1..Len(l) : w[p + i] = l[i]

\* The next m lines of l, of which at were read.
Taken(b, l, at, m) == b = SubSeq(l, at + 1, at + m)

\* One has read e of w, p lines and the first at lines of l, and then reads b.
ReadsFrom(w, l, e, p, at, m, b) ==
  /\ w \in Texts /\ l \in Texts /\ e \in Texts /\ p \in Nat /\ at \in Nat /\ m \in Nat
  /\ Holds(w, p, l) /\ Begins(e, w) /\ Len(e) = p + at /\ at + m <= Len(l)
  /\ Taken(b, l, at, m)

ReadsTo(w, e, p, at, m, b) ==
  e \o b \in Texts /\ Len(e \o b) = p + at + m /\ Begins(e \o b, w)

\* Reading on in l, where one is, is reading on in w.
LEMMA ReadOn ==
  \A w, l, e, p, at, m, b : ReadsFrom(w, l, e, p, at, m, b) => ReadsTo(w, e, p, at, m, b)
<1> SUFFICES ASSUME NEW w \in Texts, NEW l \in Texts, NEW e \in Texts, NEW p \in Nat,
                    NEW at \in Nat, NEW m \in Nat, NEW b, Holds(w, p, l), Begins(e, w),
                    Len(e) = p + at, at + m <= Len(l), Taken(b, l, at, m)
             PROVE  e \o b \in Texts /\ Len(e \o b) = p + at + m /\ Begins(e \o b, w)
  BY DEF ReadsFrom, ReadsTo
<1>2. b \in Seq(Int) /\ Len(b) = m /\ \A i \in 1..m : b[i] = l[at + i]
  <2>1. Len(l) \in Nat /\ \A i \in at + 1..at + m : l[i] \in Int
    BY LenProperties, ElementOfSeq DEF Texts
  <2>2. /\ SubSeq(l, at + 1, at + m) \in Seq(Int)
        /\ Len(SubSeq(l, at + 1, at + m)) =
             IF at + 1 <= at + m THEN (at + m) - (at + 1) + 1 ELSE 0
        /\ \A i \in 1..(at + m) - (at + 1) + 1 :
             SubSeq(l, at + 1, at + m)[i] = l[at + 1 + i - 1]
    BY <2>1, SubSeqProperties
  <2>3. b \in Seq(Int) /\ Len(b) = m
    BY <2>2 DEF Taken
  <2>4. \A i \in 1..m : b[i] = l[at + 1 + i - 1] /\ at + 1 + i - 1 = at + i
    BY <2>2 DEF Taken
  <2> QED
    BY <2>3, <2>4
<1>3. /\ e \o b \in Seq(Int) /\ Len(e \o b) = Len(e) + m
      /\ \A i \in 1..Len(e) + m : (e \o b)[i] = IF i <= Len(e) THEN e[i] ELSE b[i - Len(e)]
  <2>1. e \in Seq(Int) /\ b \in Seq(Int) /\ Len(b) = m
    BY <1>2 DEF Texts
  <2>2. /\ e \o b \in Seq(Int) /\ Len(e \o b) = Len(e) + Len(b)
        /\ \A i \in 1..Len(e) + Len(b) : (e \o b)[i] = IF i <= Len(e) THEN e[i] ELSE b[i - Len(e)]
    BY <2>1, ConcatProperties
  <2> QED
    BY <2>1, <2>2
<1>4. Len(w) \in Nat /\ Len(l) \in Nat
  BY LenProperties DEF Texts
<1>5. \A i \in 1..Len(e) + m : (e \o b)[i] = w[i]
  <2> TAKE i \in 1..Len(e) + m
  <2>1. CASE i <= Len(e)
    BY <1>3, <2>1, SMTT(30) DEF Begins
  <2>2. CASE ~(i <= Len(e))
    <3>1. PICK j \in 1..m : j = i - Len(e)
      BY <2>2
    <3>2. (e \o b)[i] = l[at + j]
      BY <1>2, <1>3, <2>2, <3>1
    <3>3. at + j \in 1..Len(l) /\ p + (at + j) = i
      BY <1>4, <3>1
    <3>4. w[p + (at + j)] = l[at + j]
      BY <3>3 DEF Holds
    <3> QED
      BY <3>2, <3>3, <3>4
  <2> QED
    BY <2>1, <2>2
<1>6. Begins(e \o b, w)
  <2>1. p + Len(l) <= Len(w)
    BY DEF Holds
  <2>2. Len(e) + m <= Len(w)
    BY <1>4, <2>1
  <2>3. Len(e \o b) = Len(e) + m
    BY <1>3
  <2> QED
    BY <1>5, <2>2, <2>3 DEF Begins
<1> QED
  BY <1>2, <1>3, <1>6 DEF Texts

LEMMA PieceSets ==
  ASSUME NEW A \in Seq(Pieces), NEW T \in Seq(Pieces), NEW k, Parted(A, T, k)
  PROVE  /\ \A i \in 1..Len(A) : A[i] \in Archives
         /\ \A i \in 1..Len(T) : T[i] \in ToSet(MonthPieces) \ Archives
         /\ \A x \in ToSet(MonthPieces) \ Archives : \E i \in 1..Len(T) : x = T[i]
         /\ \A x \in Archives : \E i \in 1..Len(A) : x = A[i]
         /\ Among(MonthPieces, Archives) = A
<1>1. PICK M : M = MonthPieces
  OBVIOUS
<1>2. /\ Len(A) \in Nat /\ Len(T) \in Nat /\ M \in Seq(Pieces) /\ M = A \o T
      /\ DOMAIN M = 1..Len(A) + Len(T)
      /\ \A i \in 1..Len(A) + Len(T) : M[i] = IF i <= Len(A) THEN A[i] ELSE T[i - Len(A)]
  <2>1. M = A \o T /\ Len(A) \in Nat /\ Len(T) \in Nat
    BY <1>1, LenProperties DEF Parted
  <2>2. /\ A \o T \in Seq(Pieces) /\ Len(A \o T) = Len(A) + Len(T)
        /\ \A i \in 1..Len(A) + Len(T) :
             (A \o T)[i] = IF i <= Len(A) THEN A[i] ELSE T[i - Len(A)]
    BY ConcatProperties
  <2>3. DOMAIN M = 1..Len(A) + Len(T)
    BY <2>1, <2>2, LenProperties
  <2> QED
    BY <2>1, <2>2, <2>3
<1>3. ToSet(M) = {M[i] : i \in 1..Len(A) + Len(T)}
  BY <1>2 DEF ToSet
<1>4. \A i \in 1..Len(A) : A[i] \in Archives
  <2> TAKE i \in 1..Len(A)
  <2>1. i \in 1..Len(A) + Len(T) /\ M[i] = A[i] /\ A[i][2] = "archive"
    BY <1>2 DEF Parted
  <2> QED
    BY <1>1, <1>3, <2>1 DEF Archives
<1>5. \A i \in 1..Len(T) : T[i] \in ToSet(MonthPieces) \ Archives
  <2> TAKE i \in 1..Len(T)
  <2>1. Len(A) + i \in 1..Len(A) + Len(T) /\ M[Len(A) + i] = T[i]
    <3>1. ~(Len(A) + i <= Len(A)) /\ Len(A) + i - Len(A) = i /\ Len(A) + i \in 1..Len(A) + Len(T)
      BY <1>2
    <3> QED
      BY <1>2, <3>1
  <2>2. T[i][2] = "plain"
    BY DEF Parted
  <2> QED
    BY <1>1, <1>3, <2>1, <2>2 DEF Archives
<1>6. \A x \in ToSet(M) : (\E i \in 1..Len(A) : x = A[i]) \/ (\E i \in 1..Len(T) : x = T[i])
  <2> TAKE x \in ToSet(M)
  <2>1. PICK i \in 1..Len(A) + Len(T) : x = M[i]
    BY <1>3
  <2>2. CASE i <= Len(A)
    <3>1. i \in 1..Len(A)
      BY <1>2, <2>2
    <3> QED
      BY <1>2, <2>1, <2>2, <3>1
  <2>3. CASE ~(i <= Len(A))
    <3>1. i - Len(A) \in 1..Len(T)
      BY <1>2, <2>3
    <3> QED
      BY <1>2, <2>1, <2>3, <3>1
  <2> QED
    BY <2>2, <2>3
<1>7. Among(A \o T, Archives) = A
  <2>1. \A i \in 1..Len(T) : T[i] \notin Archives
    BY <1>5
  <2>2. Among(A \o T, Archives) = Among(A, Archives) /\ Among(A, Archives) = A
    BY <1>4, <2>1, AmongConcat, AmongAll
  <2> QED
    BY <2>2
<1>8. Archives \subseteq ToSet(M) /\ ToSet(MonthPieces) = ToSet(M)
  BY <1>1 DEF Archives
<1>9. \A x \in ToSet(MonthPieces) \ Archives : \E i \in 1..Len(T) : x = T[i]
  BY <1>4, <1>6, <1>8
<1>10. \A x \in Archives : \E i \in 1..Len(A) : x = A[i]
  BY <1>5, <1>6, <1>8
<1>11. Among(MonthPieces, Archives) = A
  BY <1>1, <1>2, <1>7
<1> QED
  BY <1>4, <1>5, <1>9, <1>10, <1>11

\* The reader knows an archive by its component and its file.
LEMMA SignaturesAre ==
  ASSUME IInv, SeriesInv, SoleInv, NEW k \in 0..MaxRecords, SegmentNumbers = 1..k
  PROVE  Signatures = Signed
<1> USE ComponentNames, BoundsAssumption
<1>1. /\ MonthPieces = SealedPieces(k) \o ComponentPieces(Month)
      /\ SealedPieces(k) \in Seq(Pieces) /\ Len(SealedPieces(k)) = k
  BY MonthPiecesAre DEF SeriesInv
<1>2. \A i \in 1..k : /\ SealedPieces(k)[i] = ComponentPieces(i)[1]
                      /\ i \in Components \ {Journal, Month} /\ ComponentPieces(i) # << >>
  <2> TAKE i \in 1..k
  <2>1. i \in Components \ {Journal, Month} /\ ComponentPieces(i) # << >>
    BY MonthPiecesAre DEF SegmentNumbers, SeriesInv
  <2> QED
    BY <2>1 DEF SealedPieces
<1>3. /\ ComponentPieces(Month) \in Seq(Pieces) /\ Len(ComponentPieces(Month)) \in 0..1
      /\ ComponentPieces(Month) = << >> <=> Len(ComponentPieces(Month)) = 0
  <2>1. <<Month, "archive">> \in Pieces /\ <<Month, "plain">> \in Pieces
    BY DEF Pieces
  <2>2. PICK x, y : x = <<Month, "archive">> /\ y = <<Month, "plain">>
    OBVIOUS
  <2>3. /\ <<x>> \in Seq(Pieces) /\ Len(<<x>>) = 1 /\ <<y>> \in Seq(Pieces) /\ Len(<<y>>) = 1
        /\ << >> \in Seq(Pieces) /\ Len(<< >>) = 0
    BY <2>1, <2>2, EmptySeq
  <2>4. ComponentPieces(Month) \in {<<x>>, <<y>>, << >>}
    BY <2>2, PieceIs
  <2>5. PICK p : p = ComponentPieces(Month)
    OBVIOUS
  <2>6. p \in Seq(Pieces) /\ Len(p) \in 0..1
    <3>1. PICK u, v, w : u = <<x>> /\ v = <<y>> /\ w = << >>
      OBVIOUS
    <3>2. /\ u \in Seq(Pieces) /\ v \in Seq(Pieces) /\ w \in Seq(Pieces)
          /\ Len(u) \in 0..1 /\ Len(v) \in 0..1 /\ Len(w) \in 0..1
      BY <2>3, <3>1
    <3>3. p = u \/ p = v \/ p = w
      BY <2>4, <2>5, <3>1, Zenon
    <3> QED
      BY <3>2, <3>3
  <2>7. p = << >> <=> Len(p) = 0
    BY <2>6, EmptySeq
  <2> QED
    BY <2>5, <2>6, <2>7
<1>4. \A x : x \in ToSet(MonthPieces) <=>
        \E c \in 1..k \cup {Month} : ComponentPieces(c) # << >> /\ x = ComponentPieces(c)[1]
  <2>1. PICK s, t : s = SealedPieces(k) /\ t = ComponentPieces(Month)
    OBVIOUS
  <2>2. /\ k \in Nat /\ Len(t) \in Nat /\ MonthPieces \in Seq(Pieces)
        /\ DOMAIN MonthPieces = 1..k + Len(t)
        /\ \A i \in 1..k + Len(t) : MonthPieces[i] = IF i <= k THEN s[i] ELSE t[i - k]
    BY <1>1, <1>3, <2>1, ConcatProperties, LenProperties
  <2>3. ASSUME NEW x \in ToSet(MonthPieces)
        PROVE  \E c \in 1..k \cup {Month} : ComponentPieces(c) # << >> /\ x = ComponentPieces(c)[1]
    <3>1. PICK i \in 1..k + Len(t) : x = MonthPieces[i]
      BY <2>2 DEF ToSet
    <3>2. CASE i <= k
      <4>1. i \in 1..k
        BY <2>2, <3>2
      <4> QED
        BY <1>2, <2>1, <2>2, <3>1, <3>2, <4>1
    <3>3. CASE ~(i <= k)
      <4>1. i - k = 1 /\ Len(t) = 1
        BY <1>3, <2>1, <2>2, <3>3
      <4>2. x = t[1]
        BY <2>2, <3>1, <3>3, <4>1
      <4>3. ComponentPieces(Month) # << >>
        BY <1>3, <2>1, <4>1
      <4> QED
        BY <2>1, <4>2, <4>3
    <3> QED
      BY <3>2, <3>3
  <2>4. ASSUME NEW c \in 1..k \cup {Month}, ComponentPieces(c) # << >>
        PROVE  ComponentPieces(c)[1] \in ToSet(MonthPieces)
    <3>1. CASE c \in 1..k
      <4>1. c \in 1..k + Len(t) /\ c <= k
        BY <2>2, <3>1
      <4>2. MonthPieces[c] = ComponentPieces(c)[1]
        BY <1>2, <2>1, <2>2, <3>1, <4>1
      <4> QED
        BY <2>2, <4>1, <4>2 DEF ToSet
    <3>2. CASE c = Month
      <4>1. k + 1 \in 1..k + Len(t) /\ ~(k + 1 <= k) /\ k + 1 - k = 1
        BY <1>3, <2>1, <2>2, <2>4, <3>2
      <4>2. MonthPieces[k + 1] = ComponentPieces(c)[1]
        BY <2>1, <2>2, <3>2, <4>1
      <4> QED
        BY <2>2, <4>1, <4>2 DEF ToSet
    <3> QED
      BY <3>1, <3>2
  <2> QED
    BY <2>3, <2>4
<1>5. ASSUME NEW x \in Archives PROVE <<x[1], FileOf(x)>> \in Signed
  <2>1. PICK c \in 1..k \cup {Month} : ComponentPieces(c) # << >> /\ x = ComponentPieces(c)[1]
    BY <1>4 DEF Archives
  <2>2. c \in Components \ {Journal} /\ x[2] = "archive"
    BY <1>2, <2>1 DEF Archives
  <2>3. archive[c] # NoFile /\ x = <<c, "archive">>
    BY <2>1, <2>2, PieceIs
  <2>4. x[1] = c /\ FileOf(x) = archive[c]
    BY <2>3 DEF FileOf
  <2> QED
    BY <2>2, <2>3, <2>4 DEF Signed
<1>6. ASSUME NEW c \in Components \ {Journal}, archive[c] # NoFile
      PROVE  <<c, archive[c]>> \in Signatures
  <2>1. PICK x : x = <<c, "archive">>
    OBVIOUS
  <2>2. ComponentPieces(c) = <<x>>
    BY <1>6, <2>1, PieceIs
  <2>3. c \in 1..k \cup {Month}
    <3>1. c \in Segments => c \in SegmentNumbers
      BY <1>6 DEF SegmentNumbers, Exists
    <3> QED
      BY <3>1
  <2>4. ComponentPieces(c) # << >> /\ ComponentPieces(c)[1] = x
    BY <2>2
  <2>5. x \in Archives /\ x[1] = c /\ FileOf(x) = archive[c]
    BY <1>4, <2>1, <2>3, <2>4 DEF Archives, FileOf
  <2>6. <<x[1], FileOf(x)>> \in Signatures
    BY <2>5 DEF Signatures
  <2> QED
    BY <2>5, <2>6
<1> QED
  BY <1>5, <1>6 DEF Signatures, Signed
-----------------------------------------------------------------------------
(***************************************************************************)
(* A poll: what it reads.                                                  *)
(***************************************************************************)
LEMMA Cut ==
  ASSUME NEW E, NEW s \in Seq(E), NEW n \in 0..Len(s)
  PROVE  LET u == SubSeq(s, 1, n)
             v == SubSeq(s, n + 1, Len(s))
         IN  /\ u \in Seq(E) /\ v \in Seq(E) /\ u \o v = s
             /\ Len(u) = n /\ Len(v) = Len(s) - n
             /\ \A i \in 1..n : u[i] = s[i]
             /\ \A i \in 1..Len(s) - n : v[i] = s[n + i]
<1>0. Len(s) \in Nat /\ n \in Nat /\ \A i \in 1..Len(s) : s[i] \in E
  BY LenProperties, ElementOfSeq
<1>1. PICK u, v : u = SubSeq(s, 1, n) /\ v = SubSeq(s, n + 1, Len(s))
  OBVIOUS
<1>2. u \in Seq(E) /\ Len(u) = n /\ \A i \in 1..n : u[i] = s[i]
  <2>1. \A i \in 1..n : s[i] \in E
    BY <1>0
  <2>2. /\ SubSeq(s, 1, n) \in Seq(E) /\ Len(SubSeq(s, 1, n)) = IF 1 <= n THEN n - 1 + 1 ELSE 0
        /\ \A i \in 1..n - 1 + 1 : SubSeq(s, 1, n)[i] = s[1 + i - 1]
    BY <1>0, <2>1, SubSeqProperties
  <2> QED
    BY <1>0, <1>1, <2>2
<1>3. v \in Seq(E) /\ Len(v) = Len(s) - n /\ \A i \in 1..Len(s) - n : v[i] = s[n + i]
  <2>1. \A i \in n + 1..Len(s) : s[i] \in E
    BY <1>0
  <2>2. /\ SubSeq(s, n + 1, Len(s)) \in Seq(E)
        /\ Len(SubSeq(s, n + 1, Len(s))) = IF n + 1 <= Len(s) THEN Len(s) - (n + 1) + 1 ELSE 0
        /\ \A i \in 1..Len(s) - (n + 1) + 1 : SubSeq(s, n + 1, Len(s))[i] = s[n + 1 + i - 1]
    BY <1>0, <2>1, SubSeqProperties
  <2> QED
    BY <1>0, <1>1, <2>2
<1>4. /\ u \o v \in Seq(E) /\ Len(u \o v) = Len(u) + Len(v)
      /\ \A i \in 1..Len(u) + Len(v) : (u \o v)[i] = IF i <= Len(u) THEN u[i] ELSE v[i - Len(u)]
  BY <1>2, <1>3, ConcatProperties
<1>5. \A i \in 1..Len(s) : (u \o v)[i] = s[i]
  <2> TAKE i \in 1..Len(s)
  <2>0. i \in 1..Len(u) + Len(v)
    BY <1>0, <1>2, <1>3
  <2>1. CASE i <= n
    <3>1. i \in 1..n
      BY <1>0, <2>1
    <3> QED
      BY <1>2, <1>4, <2>0, <2>1, <3>1
  <2>2. CASE ~(i <= n)
    <3>1. PICK j \in 1..Len(s) - n : j = i - n /\ n + j = i
      BY <1>0, <2>2
    <3> QED
      BY <1>2, <1>3, <1>4, <2>0, <2>2, <3>1
  <2> QED
    BY <2>1, <2>2
<1>6. Len(u \o v) = Len(s)
  BY <1>0, <1>2, <1>3, <1>4
<1>7. u \o v = s
  BY <1>4, <1>5, <1>6, SeqEqual
<1> QED
  BY <1>1, <1>2, <1>3, <1>7

\* The month in its parts.
LEMMA PartLines ==
  ASSUME IInv, SeriesInv, SoleInv, NEW k \in 0..MaxRecords, SegmentNumbers = 1..k,
         NEW A \in Seq(Pieces), NEW T \in Seq(Pieces), Parted(A, T, k),
         NEW f \in Seq(Nat), f = Tails(k), NEW a \in Texts, a = Ahead(k),
         NEW w \in Texts, w = CompleteLines(Kept)
  PROVE  /\ Len(f) \in 0..2 /\ \A i \in 1..Len(f) : f[i] \in 1..Len(text) /\ Lines(f[i]) \in Texts
         /\ Begins(a, w)
         /\ Len(f) = 0 => Len(w) = Len(a)
         /\ Len(f) = 1 => /\ Holds(w, Len(a), Lines(f[1]))
                          /\ Len(w) = Len(a) + Len(Lines(f[1]))
         /\ Len(f) = 2 => /\ Holds(w, Len(a), Lines(f[1]))
                          /\ Holds(w, Len(a) + Len(Lines(f[1])), Lines(f[2]))
                          /\ Len(w) = Len(a) + Len(Lines(f[1])) + Len(Lines(f[2]))
<1>0. TypeOK /\ FileInv
  BY DEF IInv
<1>1. Len(f) \in 0..2 /\ \A i \in 1..Len(f) : f[i] \in 1..Len(text) /\ Lines(f[i]) \in Texts
  BY <1>0, TailsPlaces, LinesTyped DEF LinesTypes
<1>2. /\ MonthPieces = A \o T /\ LinesOf(A) = a /\ Len(T) = Len(f)
      /\ \A i \in 1..Len(T) : FileOf(T[i]) = f[i] /\ T[i] \in Pieces
  BY ElementOfSeq DEF Parted
<1>3. LinesOf(A \o T) = w
  BY <1>2, MonthLines
<1>4. ASSUME NEW p \in Texts, NEW q \in Texts
      PROVE  Begins(p, p \o q) /\ Holds(p \o q, Len(p), q) /\ Len(p \o q) = Len(p) + Len(q)
             /\ p \o q \in Texts
  <2>1. /\ p \o q \in Seq(Int) /\ Len(p \o q) = Len(p) + Len(q) /\ Len(p) \in Nat /\ Len(q) \in Nat
        /\ \A i \in 1..Len(p) + Len(q) : (p \o q)[i] = IF i <= Len(p) THEN p[i] ELSE q[i - Len(p)]
    BY ConcatProperties, LenProperties DEF Texts
  <2>2. \A i \in 1..Len(q) : (p \o q)[Len(p) + i] = q[i]
    <3> TAKE i \in 1..Len(q)
    <3>1. Len(p) + i \in 1..Len(p) + Len(q) /\ ~(Len(p) + i <= Len(p)) /\ Len(p) + i - Len(p) = i
      BY <2>1
    <3> QED
      BY <2>1, <3>1
  <2> QED
    BY <2>1, <2>2, BeginsConcat DEF Holds, Texts
<1>5. CASE Len(f) = 0
  <2>1. A \o T = A
    <3>1. T = << >>
      BY <1>2, <1>5, EmptySeq
    <3> QED
      BY <3>1, ConcatEmptySeq
  <2>2. w = a
    BY <1>2, <1>3, <2>1
  <2> QED
    BY <1>1, <1>5, <2>2, LenProperties DEF Begins, Texts
<1>6. CASE Len(f) = 1
  <2>1. A \o T = Append(A, T[1]) /\ T[1] \in Pieces /\ FileOf(T[1]) = f[1]
    <3>1. T[1] \in Pieces /\ FileOf(T[1]) = f[1]
      BY <1>2, <1>6
    <3>2. T = <<T[1]>>
      <4>1. <<T[1]>> \in Seq(Pieces) /\ Len(<<T[1]>>) = 1 /\ \A i \in 1..1 : <<T[1]>>[i] = T[i]
        BY <3>1
      <4> QED
        BY <1>2, <1>6, <4>1, SeqEqual
    <3>3. Append(A, T[1]) = A \o <<T[1]>>
      BY <3>1, AppendIsConcat
    <3> QED
      BY <3>1, <3>2, <3>3
  <2>2. w = a \o Lines(f[1])
    BY <1>0, <1>2, <1>3, <2>1, LinesOfLast
  <2>3. Lines(f[1]) \in Texts
    BY <1>1, <1>6
  <2> QED
    BY <1>1, <1>4, <1>6, <2>2, <2>3
<1>7. CASE Len(f) = 2
  <2>1. /\ A \o T = Append(Append(A, T[1]), T[2]) /\ T[1] \in Pieces /\ T[2] \in Pieces
        /\ FileOf(T[1]) = f[1] /\ FileOf(T[2]) = f[2]
    <3>1. T[1] \in Pieces /\ FileOf(T[1]) = f[1] /\ T[2] \in Pieces /\ FileOf(T[2]) = f[2]
      BY <1>2, <1>7
    <3>2. PICK x, y : x = T[1] /\ y = T[2]
      OBVIOUS
    <3>3. /\ <<x, y>> \in Seq(Pieces) /\ Len(<<x, y>>) = 2 /\ <<x, y>>[1] = x /\ <<x, y>>[2] = y
          /\ <<x>> \o <<y>> = <<x, y>>
      BY <3>1, <3>2, Pair
    <3>4. T = <<x, y>>
      <4>1. \A i \in 1..2 : T[i] = <<x, y>>[i]
        BY <3>2, <3>3
      <4> QED
        BY <1>2, <1>7, <3>3, <4>1, SeqEqual
    <3>5. <<x>> \in Seq(Pieces) /\ <<y>> \in Seq(Pieces) /\ A \o <<x>> \in Seq(Pieces)
      BY <3>1, <3>2, ConcatProperties
    <3>8. Trio(Pieces, A, <<x>>, <<y>>)
      BY <3>5 DEF Trio
    <3>9. Regroups(A, <<x>>, <<y>>)
      BY <3>8, Associative, Zenon
    <3>6. (A \o <<x>>) \o <<y>> = A \o (<<x>> \o <<y>>)
      BY <3>9 DEF Regroups
    <3>7. Append(A, x) = A \o <<x>> /\ Append(A \o <<x>>, y) = (A \o <<x>>) \o <<y>>
      BY <3>1, <3>2, <3>5, AppendIsConcat
    <3> QED
      BY <3>1, <3>2, <3>3, <3>4, <3>6, <3>7
  <2>2. w = (a \o Lines(f[1])) \o Lines(f[2])
    <3>1. Append(A, T[1]) \in Seq(Pieces)
      BY <2>1, AppendProperties
    <3>2. LinesOf(Append(A, T[1])) = a \o Lines(f[1])
      BY <1>0, <1>2, <2>1, LinesOfLast
    <3>3. LinesOf(Append(Append(A, T[1]), T[2])) = LinesOf(Append(A, T[1])) \o Lines(f[2])
      BY <1>0, <2>1, <3>1, LinesOfLast
    <3> QED
      BY <1>3, <2>1, <3>2, <3>3
  <2>3. PICK l, m, p : l = Lines(f[1]) /\ m = Lines(f[2]) /\ p = a \o l
    OBVIOUS
  <2>4. l \in Texts /\ m \in Texts
    BY <1>1, <1>7, <2>3
  <2>5. p \in Texts /\ Begins(a, p) /\ Holds(p, Len(a), l) /\ Len(p) = Len(a) + Len(l)
    BY <1>4, <2>3, <2>4
  <2>6. w = p \o m
    BY <2>2, <2>3
  <2>7. Begins(p, w) /\ Holds(w, Len(p), m) /\ Len(w) = Len(p) + Len(m)
    <3>1. Begins(p, p \o m) /\ Holds(p \o m, Len(p), m) /\ Len(p \o m) = Len(p) + Len(m)
      BY <1>4, <2>4, <2>5
    <3> QED
      BY <2>6, <3>1
  <2>8. Begins(a, w)
    BY <2>5, <2>7, BeginsOn
  <2>9. Holds(w, Len(a), l)
    <3>1. Len(a) \in Nat /\ Len(l) \in Nat /\ Len(p) \in Nat /\ Len(w) \in Nat
      BY <2>4, <2>5, LenProperties DEF Texts
    <3>2. \A i \in 1..Len(l) : Len(a) + i \in 1..Len(p)
      BY <2>5, <3>1
    <3> QED
      BY <2>5, <2>7, <3>1, <3>2 DEF Holds, Begins
  <2> QED
    BY <1>1, <1>7, <2>3, <2>5, <2>7, <2>8, <2>9
<1> QED
  BY <1>1, <1>5, <1>6, <1>7

\* discover opens the files that have no cursor, each at its beginning.
LEMMA DiscoverTails ==
  ASSUME TypeOK, FileInv, NEW k \in 0..MaxRecords, SegmentNumbers = 1..k,
         NEW A \in Seq(Pieces), NEW T \in Seq(Pieces), Parted(A, T, k),
         NEW f \in Seq(Nat), f = Tails(k), NEW n \in Nat,
         NEW h \in Healths, Reading(f, h, n)
  PROVE  \E d \in Healths :
           /\ d = Discovered(h) /\ Reading(f, d, n) /\ Len(d.cursors) = Len(f)
           /\ d.loaded = h.loaded /\ d.archives = h.archives /\ d.evidence = h.evidence
<1>1. /\ Len(f) \in 0..2 /\ Len(f) = Len(T)
      /\ Len(f) = 2 => f[1] # f[2]
      /\ \A i \in 1..Len(f) : f[i] \in Nat /\ FileOf(T[i]) = f[i] /\ Lines(f[i]) \in Texts
  BY TailsPlaces, LinesTyped, ElementOfSeq DEF Parted, LinesTypes
<1>2. \A i, j \in 1..Len(f) : f[i] = f[j] => i = j
  <2> SUFFICES ASSUME NEW i \in 1..Len(f), NEW j \in 1..Len(f), i < j PROVE f[i] # f[j]
    <3>1. \A p, q \in 1..Len(f) : p = q \/ p < q \/ q < p
      OBVIOUS
    <3> QED
      BY <3>1
  <2>1. Len(f) = 2 /\ i = 1 /\ j = 2
    <3>1. PICK z : z = Len(f)
      OBVIOUS
    <3>2. z \in 0..2 /\ i \in 1..z /\ j \in 1..z /\ i < j
      BY <1>1, <3>1
    <3>3. z = 2 /\ i = 1 /\ j = 2
      BY <3>2
    <3> QED
      BY <3>1, <3>3
  <2> QED
    BY <1>1, <2>1
<1>3. PICK c : c = h.cursors
  OBVIOUS
<1>4. /\ c \in Seq(Cursors) /\ Len(c) \in 0..Len(f)
      /\ \A i \in 1..Len(c) : /\ c[i] \in Cursors /\ c[i].file = f[i] /\ c[i].at \in Nat
                              /\ c[i].at <= Len(Lines(f[i]))
      /\ Len(c) = 2 /\ c[2].at > 0 => c[1].at = Len(Lines(f[1]))
      /\ Len(h.evidence) = n + Through(c) /\ DOMAIN c = 1..Len(c)
  <2>1. c \in Seq(Cursors)
    BY <1>3 DEF Healths
  <2>2. Len(c) \in Nat /\ DOMAIN c = 1..Len(c)
    BY <2>1, LenProperties
  <2>3. \A i \in 1..Len(c) : c[i] \in Cursors
    BY <2>1, ElementOfSeq
  <2>4. \A i \in 1..Len(c) : c[i].at \in Nat
    BY <2>3 DEF Cursors
  <2>5. /\ Len(c) <= Len(f)
        /\ \A i \in 1..Len(c) : c[i].file = f[i] /\ c[i].at <= Len(Lines(f[i]))
        /\ Len(c) = 2 /\ c[2].at > 0 => c[1].at = Len(Lines(f[1]))
        /\ Len(h.evidence) = n + Through(c)
    BY <1>3 DEF Reading
  <2>6. Len(c) \in 0..Len(f)
    BY <1>1, <2>2, <2>5
  <2> QED
    BY <2>1, <2>2, <2>3, <2>4, <2>5, <2>6
<1> DEFINE m == Len(c)
<1>0. m \in Nat /\ Len(f) \in Nat /\ m <= Len(f) /\ Len(c) = m /\ Len(f) - m \in Nat
  BY <1>1, <1>4
<1> HIDE DEF m
<1>5. PICK t1, t2 : t1 = SubSeq(T, 1, Len(c)) /\ t2 = SubSeq(T, Len(c) + 1, Len(T))
  OBVIOUS
<1>6. /\ t1 \in Seq(Pieces) /\ t2 \in Seq(Pieces) /\ T = t1 \o t2
      /\ Len(t1) = Len(c) /\ Len(t2) = Len(f) - Len(c)
      /\ \A i \in 1..Len(c) : t1[i] = T[i]
      /\ \A i \in 1..Len(f) - Len(c) : t2[i] = T[Len(c) + i]
  <2>1. Len(c) \in 0..Len(T)
    BY <1>0, <1>1
  <2> QED
    <3>1. PICK u, v : u = SubSeq(T, 1, Len(c)) /\ v = SubSeq(T, Len(c) + 1, Len(T))
      OBVIOUS
    <3>2. /\ u \in Seq(Pieces) /\ v \in Seq(Pieces) /\ u \o v = T
          /\ Len(u) = Len(c) /\ Len(v) = Len(T) - Len(c)
          /\ \A i \in 1..Len(c) : u[i] = T[i]
          /\ \A i \in 1..Len(T) - Len(c) : v[i] = T[Len(c) + i]
      BY <2>1, <3>1, Cut, ZenonT(40)
    <3> QED
      BY <1>1, <1>5, <3>1, <3>2
<1>7. PICK U : U = Unopened(h)
  OBVIOUS
<1>8. \A x : x \in U <=> /\ x \in ToSet(MonthPieces) \ Archives
                          /\ \A i \in 1..Len(c) : c[i].file # FileOf(x)
  BY <1>3, <1>4, <1>7 DEF Unopened
<1>9. Among(MonthPieces, U) = t2
  <2>1. \A i \in 1..Len(A) : A[i] \notin U
    BY <1>8, PieceSets
  <2>2. \A i \in 1..Len(t1) : t1[i] \notin U
    <3> TAKE i \in 1..Len(t1)
    <3>1. i \in 1..Len(c) /\ i \in 1..Len(f) /\ t1[i] = T[i]
      BY <1>1, <1>4, <1>6
    <3>2. FileOf(T[i]) = c[i].file
      BY <1>1, <1>4, <3>1
    <3> QED
      BY <1>8, <3>1, <3>2
  <2>3. \A i \in 1..Len(t2) : t2[i] \in U
    <3> TAKE i \in 1..Len(t2)
    <3>1. PICK j \in 1..Len(f) : j = Len(c) + i /\ t2[i] = T[j] /\ j > Len(c)
      <4>1. i \in 1..Len(f) - Len(c)
        BY <1>6
      <4>2. Len(c) + i \in 1..Len(f) /\ Len(c) + i > Len(c)
        BY <1>0, <4>1
      <4> QED
        BY <1>6, <4>1, <4>2
    <3>2. T[j] \in ToSet(MonthPieces) \ Archives
      BY <1>1, PieceSets
    <3>3. \A q \in 1..Len(c) : c[q].file # f[j]
      <4> TAKE q \in 1..Len(c)
      <4>1. q \in 1..Len(f) /\ q # j
        BY <1>0, <3>1, SMTT(30)
      <4> QED
        BY <1>2, <1>4, <4>1, SMTT(30)
    <3> QED
      BY <1>1, <1>8, <3>1, <3>2, <3>3
  <2>4. PICK b : b = A \o t1
    OBVIOUS
  <2>5. b \in Seq(Pieces) /\ MonthPieces = b \o t2
    <3>1. Trio(Pieces, A, t1, t2)
      BY <1>6 DEF Trio
    <3>2. Regroups(A, t1, t2)
      BY <3>1, Associative, Zenon
    <3>3. (A \o t1) \o t2 = A \o (t1 \o t2)
      BY <3>2 DEF Regroups
    <3> QED
      BY <1>6, <2>4, <3>3, ConcatProperties DEF Parted
  <2>6. Among(A \o t1, U) = Among(A, U) /\ Among(A, U) = << >>
    BY <1>6, <2>1, <2>2, AmongConcat, AmongAll
  <2>7. Among(b \o t2, U) = Among(b, U) \o t2
    BY <1>6, <2>3, <2>5, AmongConcat, ZenonT(40)
  <2> QED
    BY <1>6, <2>4, <2>5, <2>6, <2>7, ConcatEmptySeq
<1>10. PICK x : x = [i \in DOMAIN t2 |-> [file |-> FileOf(t2[i]), at |-> 0]]
  OBVIOUS
<1>11. /\ x \in Seq(Cursors) /\ Len(x) = Len(f) - Len(c)
       /\ \A i \in 1..Len(f) - Len(c) : x[i] = [file |-> f[Len(c) + i], at |-> 0]
  <2>1. DOMAIN t2 = 1..Len(f) - Len(c) /\ Len(f) - Len(c) \in Nat
    BY <1>1, <1>4, <1>6, LenProperties
  <2>2. \A i \in 1..Len(f) - Len(c) : /\ FileOf(t2[i]) = f[Len(c) + i]
                                      /\ f[Len(c) + i] \in Nat
    <3> TAKE i \in 1..Len(f) - Len(c)
    <3>1. Len(c) + i \in 1..Len(f)
      BY <1>1, <1>4
    <3> QED
      BY <1>1, <1>6, <3>1
  <2>3. x = [i \in 1..Len(f) - Len(c) |-> [file |-> FileOf(t2[i]), at |-> 0]]
    BY <1>10, <2>1
  <2>4. \A i \in 1..Len(f) - Len(c) : [file |-> FileOf(t2[i]), at |-> 0] \in Cursors
    BY <2>2 DEF Cursors
  <2>5. x \in Seq(Cursors)
    BY <2>1, <2>3, <2>4, IsASeq
  <2> QED
    BY <2>1, <2>2, <2>3, <2>5
<1>12. PICK y : y = c \o x
  OBVIOUS
<1>13. /\ y \in Seq(Cursors) /\ Len(y) = Len(f)
       /\ \A i \in 1..Len(f) : i <= Len(c) => y[i] = c[i]
       /\ \A i \in 1..Len(f) : i > Len(c) => y[i] = [file |-> f[i], at |-> 0]
  <2>1. /\ c \o x \in Seq(Cursors) /\ Len(c \o x) = Len(c) + Len(x)
        /\ \A i \in 1..Len(c) + Len(x) : (c \o x)[i] = IF i <= Len(c) THEN c[i] ELSE x[i - Len(c)]
    <3>1. c \in Seq(Cursors) /\ x \in Seq(Cursors)
      BY <1>4, <1>11
    <3> QED
      BY <3>1, ConcatProperties
  <2>2. Len(y) = Len(f)
    BY <1>1, <1>4, <1>11, <1>12, <2>1
  <2>3. \A i \in 1..Len(f) : i <= Len(c) => y[i] = c[i]
    BY <1>1, <1>4, <1>11, <1>12, <2>1
  <2>4. \A i \in 1..Len(f) : i > Len(c) => y[i] = [file |-> f[i], at |-> 0]
    <3> TAKE i \in 1..Len(f)
    <3> HAVE i > Len(c)
    <3>1. i - Len(c) \in 1..Len(f) - Len(c) /\ Len(c) + (i - Len(c)) = i /\ ~(i <= Len(c))
          /\ i \in 1..Len(c) + Len(x)
      <4>1. Len(x) = Len(f) - Len(c)
        BY <1>11
      <4> QED
        BY <1>0, <4>1
    <3> QED
      BY <1>11, <1>12, <2>1, <3>1
  <2> QED
    BY <1>12, <2>1, <2>2, <2>3, <2>4
<1>14. PICK d : d = Discovered(h)
  OBVIOUS
<1>15. /\ d \in Healths /\ d.cursors = y
       /\ d.loaded = h.loaded /\ d.archives = h.archives /\ d.evidence = h.evidence
  <2>1. d = [h EXCEPT !.cursors = y]
    BY <1>3, <1>7, <1>9, <1>10, <1>12, <1>14 DEF Discovered
  <2> QED
    BY <1>13, <2>1 DEF Healths
<1>16. \A i \in 1..Len(y) : /\ y[i].file = f[i] /\ y[i].at <= Len(Lines(f[i])) /\ y[i].at \in Nat
                            /\ i > Len(c) => y[i].at = 0
                            /\ i <= Len(c) => y[i].at = c[i].at
  <2> TAKE i \in 1..Len(y)
  <2>1. i \in 1..Len(f) /\ Len(Lines(f[i])) \in Nat
    BY <1>1, <1>13, LenProperties DEF Texts
  <2>2. CASE i <= Len(c)
    <3>1. i \in 1..Len(c)
      BY <1>4, <2>1, <2>2
    <3> QED
      BY <1>4, <1>13, <2>1, <2>2, <3>1, SMTT(30)
  <2>3. CASE i > Len(c)
    <3>1. y[i] = [file |-> f[i], at |-> 0] /\ ~(i <= Len(c))
      BY <1>0, <1>13, <2>1, <2>3
    <3> QED
      BY <2>1, <2>3, <3>1
  <2> QED
    BY <1>0, <2>1, <2>2, <2>3
<1>17. Through(y) = Through(c) /\ (Len(y) = 2 /\ y[2].at > 0 => y[1].at = Len(Lines(f[1])))
  <2>1. CASE Len(y) = 0
    BY <1>1, <1>4, <1>13, <2>1 DEF Through
  <2>2. CASE Len(y) = 1
    BY <1>1, <1>4, <1>13, <1>16, <2>2 DEF Through
  <2>3. CASE Len(y) = 2
    <3>1. /\ Len(c) \in 0..2
          /\ 1 \in 1..Len(y) /\ 2 \in 1..Len(y)
      BY <1>1, <1>4, <1>13, <2>3, SMTT(30)
    <3>2. /\ y[1].at \in Nat /\ y[2].at \in Nat
          /\ 1 > Len(c) => y[1].at = 0
          /\ 2 > Len(c) => y[2].at = 0
          /\ 1 <= Len(c) => y[1].at = c[1].at
          /\ 2 <= Len(c) => y[2].at = c[2].at
      BY <1>16, <3>1
    <3>3. Len(c) = 2 => 1 \in 1..Len(c) /\ 2 \in 1..Len(c)
      OBVIOUS
    <3>4. Through(y) = y[1].at + y[2].at
      BY <2>3 DEF Through
    <3>5. CASE Len(c) = 0
      <4>1. Through(c) = 0
        BY <3>5 DEF Through
      <4>2. y[1].at = 0 /\ y[2].at = 0
        BY <3>2, <3>5
      <4> QED
        BY <3>4, <4>1, <4>2
    <3>6. CASE Len(c) = 1
      BY <3>2, <3>4, <3>6 DEF Through
    <3>7. CASE Len(c) = 2
      BY <1>4, <3>2, <3>4, <3>7, SMTT(30) DEF Through
    <3> QED
      BY <3>1, <3>5, <3>6, <3>7
  <2> QED
    BY <1>1, <1>13, <2>1, <2>2, <2>3
<1>18. Reading(f, d, n)
  <2>1. Len(y) <= Len(f)
    BY <1>1, <1>13
  <2> QED
    BY <1>4, <1>15, <1>16, <1>17, <2>1 DEF Reading
<1> QED
  BY <1>13, <1>14, <1>15, <1>18

\* How many lines a poll takes of a file.
Amount(c) == IF Unread(c) > ReadLines THEN ReadLines ELSE Unread(c)

LEMMA BatchIs ==
  ASSUME NEW c \in Cursors, Lines(c.file) \in Texts, c.at <= Len(Lines(c.file))
  PROVE  /\ Unread(c) \in Nat /\ Amount(c) \in Nat /\ c.at \in Nat /\ c.at + Amount(c) \in Nat
         /\ Unread(c) = Len(Lines(c.file)) - c.at
         /\ c.at + Amount(c) <= Len(Lines(c.file))
         /\ Batch(c) = SubSeq(Lines(c.file), c.at + 1, c.at + Amount(c))
         /\ Batch(c) \in Texts /\ Len(Batch(c)) = Amount(c)
         /\ Advanced(c) = [file |-> c.file, at |-> c.at + Amount(c)]
         /\ Advanced(c) \in Cursors
<1>1. c.at \in Nat /\ c.file \in Nat /\ Len(Lines(c.file)) \in Nat
  BY LenProperties DEF Cursors, Texts
<1>2. Unread(c) \in Nat /\ Unread(c) = Len(Lines(c.file)) - c.at
  BY <1>1 DEF Unread
<1>3. Amount(c) \in Nat /\ Amount(c) <= Unread(c)
  BY <1>1, <1>2, ReadAssumption DEF Amount
<1>4. c.at + Amount(c) \in Nat /\ c.at + Amount(c) <= Len(Lines(c.file))
  BY <1>1, <1>2, <1>3
<1>5. Batch(c) = SubSeq(Lines(c.file), c.at + 1, c.at + Amount(c))
  BY DEF Batch, Amount
<1>6. Batch(c) \in Texts /\ Len(Batch(c)) = Amount(c)
  <2>1. PICK l, at, m : l = Lines(c.file) /\ at = c.at /\ m = Amount(c)
    OBVIOUS
  <2>2. l \in Seq(Int) /\ Len(l) \in Nat /\ at \in Nat /\ m \in Nat /\ at + m <= Len(l)
    BY <1>1, <1>3, <1>4, <2>1 DEF Texts
  <2>3. \A i \in at + 1..at + m : l[i] \in Int
    BY <2>2, ElementOfSeq
  <2>4. /\ SubSeq(l, at + 1, at + m) \in Seq(Int)
        /\ Len(SubSeq(l, at + 1, at + m)) =
             IF at + 1 <= at + m THEN (at + m) - (at + 1) + 1 ELSE 0
    BY <2>2, <2>3, SubSeqProperties
  <2>5. Len(SubSeq(l, at + 1, at + m)) = m
    BY <2>2, <2>4
  <2> QED
    BY <1>5, <2>1, <2>4, <2>5 DEF Texts
<1>7. Advanced(c) = [file |-> c.file, at |-> c.at + Amount(c)]
  BY <1>6 DEF Advanced, Cursors
<1> QED
  BY <1>1, <1>2, <1>3, <1>4, <1>5, <1>6, <1>7 DEF Cursors

\* The files that are not exhausted, the one the poll ends with, and the cursors.
Busy(h)  == {i \in DOMAIN h.cursors : Unread(h.cursors[i]) > ReadLines}
Final(h)  == IF Busy(h) = {} THEN Len(h.cursors)
            ELSE CHOOSE i \in Busy(h) : \A j \in Busy(h) : i <= j
After(h) == [i \in DOMAIN h.cursors |->
               IF i <= Final(h) THEN Advanced(h.cursors[i]) ELSE h.cursors[i]]
StillOpen(h) == {cursor \in ToSet(After(h)) :
               \/ cursor.file \in {FileOf(piece) : piece \in ToSet(MonthPieces) \ Archives}
               \/ Unread(cursor) > 0}

LEMMA PolledIs ==
  ASSUME NEW h
  PROVE  Polled(h) =
    [h EXCEPT !.evidence = @ \o FlattenSeq([i \in 1..Final(h) |-> Batch(h.cursors[i])]),
              !.cursors  = Among(SubSeq(After(h), 1, Final(h)), StillOpen(h))
                           \o SubSeq(After(h), Final(h) + 1, Len(After(h))),
              !.caughtUp = Busy(h) = {}]
  BY Zenon DEF Polled, StillOpen, After, Final, Busy

\* A poll reads on where it was, in the order of the files.
LEMMA PollTails ==
  ASSUME IInv, SeriesInv, SoleInv, NEW k \in 0..MaxRecords, SegmentNumbers = 1..k,
         NEW A \in Seq(Pieces), NEW T \in Seq(Pieces), Parted(A, T, k),
         NEW f \in Seq(Nat), f = Tails(k), NEW a \in Texts, a = Ahead(k),
         NEW w \in Texts, w = CompleteLines(Kept),
         NEW h \in Healths, Reading(f, h, Len(a)), Len(h.cursors) = Len(f),
         Begins(h.evidence, w)
  PROVE  \E r \in Healths :
           /\ r = Polled(h) /\ Reading(f, r, Len(a)) /\ Begins(r.evidence, w)
           /\ r.loaded = h.loaded /\ r.archives = h.archives
           /\ r.caughtUp => r.evidence = w
<1>1. /\ Len(f) \in 0..2 /\ \A i \in 1..Len(f) : Lines(f[i]) \in Texts
      /\ Len(f) = 0 => Len(w) = Len(a)
      /\ Len(f) = 1 => /\ Holds(w, Len(a), Lines(f[1]))
                       /\ Len(w) = Len(a) + Len(Lines(f[1]))
      /\ Len(f) = 2 => /\ Holds(w, Len(a), Lines(f[1]))
                       /\ Holds(w, Len(a) + Len(Lines(f[1])), Lines(f[2]))
                       /\ Len(w) = Len(a) + Len(Lines(f[1])) + Len(Lines(f[2]))
  BY PartLines, ZenonT(40)
<1>2. PICK c, e : c = h.cursors /\ e = h.evidence
  OBVIOUS
<1>3. /\ c \in Seq(Cursors) /\ Len(c) = Len(f) /\ DOMAIN c = 1..Len(c)
      /\ e \in Texts /\ Begins(e, w) /\ Len(e) = Len(a) + Through(c)
      /\ Len(c) = 2 /\ c[2].at > 0 => c[1].at = Len(Lines(f[1]))
      /\ \A i \in 1..Len(c) : /\ c[i] \in Cursors /\ c[i].file = f[i] /\ Lines(f[i]) \in Texts
                              /\ c[i].at <= Len(Lines(f[i]))
  <2>1. c \in Seq(Cursors) /\ e \in Texts
    BY <1>2 DEF Healths
  <2>2. DOMAIN c = 1..Len(c) /\ \A i \in 1..Len(c) : c[i] \in Cursors
    BY <2>1, LenProperties, ElementOfSeq
  <2>3. \A i \in 1..Len(c) : c[i].file = f[i] /\ c[i].at <= Len(Lines(f[i]))
    BY <1>2 DEF Reading
  <2>4. Len(e) = Len(a) + Through(c) /\ (Len(c) = 2 /\ c[2].at > 0 => c[1].at = Len(Lines(f[1])))
    BY <1>2 DEF Reading
  <2> QED
    BY <1>1, <1>2, <2>1, <2>2, <2>3, <2>4
<1>4. \A i \in 1..Len(c) :
        /\ Unread(c[i]) \in Nat /\ Amount(c[i]) \in Nat /\ c[i].at \in Nat
        /\ Unread(c[i]) = Len(Lines(f[i])) - c[i].at
        /\ c[i].at + Amount(c[i]) <= Len(Lines(f[i])) /\ c[i].at + Amount(c[i]) \in Nat
        /\ Batch(c[i]) = SubSeq(Lines(f[i]), c[i].at + 1, c[i].at + Amount(c[i]))
        /\ Batch(c[i]) \in Texts /\ Len(Batch(c[i])) = Amount(c[i])
        /\ Advanced(c[i]) = [file |-> f[i], at |-> c[i].at + Amount(c[i])]
        /\ Advanced(c[i]) \in Cursors
  <2> TAKE i \in 1..Len(c)
  <2>1. PICK x, y : x = c[i] /\ y = f[i]
    OBVIOUS
  <2>2. x \in Cursors /\ x.file = y /\ Lines(y) \in Texts /\ x.at <= Len(Lines(y))
    BY <1>3, <2>1
  <2>3. Lines(x.file) \in Texts /\ x.at <= Len(Lines(x.file))
    BY <2>2
  <2> QED
    BY <2>1, <2>2, <2>3, BatchIs
<1>0. PICK busy : busy = Busy(h)
  OBVIOUS
<1>5. PICK last : last = Final(h)
  OBVIOUS
<1>6. /\ \A i : i \in busy <=> i \in 1..Len(c) /\ Unread(c[i]) > ReadLines
      /\ last \in 0..Len(c) /\ Len(c) \in 0..2
      /\ busy = {} => last = Len(c)
      /\ busy # {} => last \in busy /\ \A j \in busy : last <= j
  <2>1. \A i : i \in busy <=> i \in 1..Len(c) /\ Unread(c[i]) > ReadLines
    BY <1>0, <1>2, <1>3 DEF Busy
  <2>2. Len(c) \in 0..2
    BY <1>1, <1>3
  <2>3. CASE busy = {}
    BY <1>0, <1>2, <1>5, <2>1, <2>2, <2>3 DEF Final
  <2>4. CASE busy # {}
    <3>1. busy \subseteq Nat
      BY <2>1, <2>2
    <3>2. \E i \in busy : \A j \in busy : i <= j
      BY <2>4, <3>1, Least
    <3>3. last \in busy /\ \A j \in busy : last <= j
      BY <1>0, <1>5, <2>4, <3>2 DEF Final
    <3> QED
      BY <2>1, <2>2, <2>4, <3>3
  <2> QED
    BY <2>3, <2>4
<1>7. PICK after : after = After(h)
  OBVIOUS
<1>8. /\ after \in Seq(Cursors) /\ Len(after) = Len(c) /\ DOMAIN after = 1..Len(c)
      /\ \A i \in 1..Len(c) :
           /\ i <= last => after[i] = [file |-> f[i], at |-> c[i].at + Amount(c[i])]
           /\ i > last => after[i] = c[i]
           /\ after[i].file = f[i]
  <2>1. after = [i \in 1..Len(c) |-> IF i <= last THEN Advanced(c[i]) ELSE c[i]]
    BY <1>2, <1>3, <1>5, <1>7 DEF After
  <2>2. \A i \in 1..Len(c) : (IF i <= last THEN Advanced(c[i]) ELSE c[i]) \in Cursors
    BY <1>3, <1>4
  <2>3. Len(c) \in Nat
    BY <1>6
  <2>4. after \in Seq(Cursors)
    BY <2>1, <2>2, <2>3, IsASeq
  <2>5. Len(after) = Len(c) /\ DOMAIN after = 1..Len(c)
    BY <2>1, <2>3
  <2>6. ASSUME NEW i \in 1..Len(c)
        PROVE  /\ i <= last => after[i] = [file |-> f[i], at |-> c[i].at + Amount(c[i])]
               /\ i > last => after[i] = c[i]
               /\ after[i].file = f[i]
    <3>1. i \in Int /\ last \in Int
      BY <1>6
    <3>2. CASE i <= last
      <4>1. after[i] = Advanced(c[i])
        BY <2>1, <3>2
      <4>2. Advanced(c[i]) = [file |-> f[i], at |-> c[i].at + Amount(c[i])]
        BY <1>4
      <4> QED
        BY <3>1, <3>2, <4>1, <4>2
    <3>3. CASE ~(i <= last)
      <4>1. after[i] = c[i]
        BY <2>1, <3>3
      <4>2. c[i].file = f[i]
        BY <1>3
      <4> QED
        BY <3>1, <3>3, <4>1, <4>2
    <3> QED
      BY <3>1, <3>2, <3>3
  <2> QED
    BY <2>4, <2>5, <2>6
<1>9. PICK kept : kept = StillOpen(h)
  OBVIOUS
<1>10. \A i \in 1..Len(c) : after[i] \in kept
  <2> TAKE i \in 1..Len(c)
  <2>1. after[i] \in ToSet(after)
    BY <1>8 DEF ToSet
  <2>2. T[i] \in ToSet(MonthPieces) \ Archives /\ FileOf(T[i]) = after[i].file
    <3>1. i \in 1..Len(T) /\ FileOf(T[i]) = f[i]
      BY <1>3 DEF Parted
    <3>2. T[i] \in ToSet(MonthPieces) \ Archives
      BY <3>1, PieceSets
    <3> QED
      BY <1>8, <3>1, <3>2
  <2> QED
    BY <1>7, <1>9, <2>1, <2>2 DEF StillOpen
<1>11. Among(SubSeq(after, 1, last), kept) \o SubSeq(after, last + 1, Len(after)) = after
  <2>1. PICK u, v : u = SubSeq(after, 1, last) /\ v = SubSeq(after, last + 1, Len(after))
    OBVIOUS
  <2>2. last \in 0..Len(after) /\ after \in Seq(Cursors)
    BY <1>6, <1>8
  <2>3. /\ u \in Seq(Cursors) /\ u \o v = after /\ Len(u) = last
        /\ \A i \in 1..last : u[i] = after[i]
    BY <2>1, <2>2, Cut
  <2>4. \A i \in 1..Len(u) : u[i] \in kept
    <3> TAKE i \in 1..Len(u)
    <3>1. i \in 1..last /\ i \in 1..Len(c)
      BY <1>6, <2>3
    <3> QED
      BY <1>10, <2>3, <3>1
  <2>5. Among(u, kept) = u
    BY <2>3, <2>4, AmongAll
  <2> QED
    BY <2>1, <2>3, <2>5
<1>12. PICK portions : portions = [i \in 1..last |-> Batch(c[i])]
  OBVIOUS
<1>13. /\ portions \in Seq(Texts) /\ Len(portions) = last
       /\ \A i \in 1..last : portions[i] = Batch(c[i])
  <2>1. last \in Nat /\ \A i \in 1..last : Batch(c[i]) \in Texts
    <3>1. \A i \in 1..last : i \in 1..Len(c)
      BY <1>6
    <3>2. \A i \in 1..last : Batch(c[i]) \in Texts
      BY <1>4, <3>1
    <3>3. last \in Nat
      BY <1>6
    <3> QED
      BY <3>2, <3>3
  <2>2. portions \in Seq(Texts)
    BY <1>12, <2>1, IsASeq
  <2> QED
    BY <1>12, <2>1, <2>2
<1>14. PICK all : all = FlattenSeq(portions)
  OBVIOUS
<1>15. /\ all \in Texts
       /\ last = 0 => all = << >>
       /\ last = 1 => all = Batch(c[1])
       /\ last = 2 => all = Batch(c[1]) \o Batch(c[2])
  <2>1. portions \in Seq(Seq(Int))
    BY <1>13 DEF Texts
  <2>2. all \in Texts
    BY <1>14, <2>1, FlattenType DEF Texts
  <2>3. /\ last = 0 => all = << >>
        /\ last = 1 => all = portions[1]
        /\ last = 2 => all = portions[1] \o portions[2]
    BY <1>13, <1>14, <2>1, FlattenShort
  <2>4. last = 1 => portions[1] = Batch(c[1])
    BY <1>13
  <2>5. last = 2 => portions[1] = Batch(c[1]) /\ portions[2] = Batch(c[2])
    BY <1>13
  <2> QED
    BY <2>2, <2>3, <2>4, <2>5
<1>16. PICK r : r = Polled(h)
  OBVIOUS
<1>17. /\ r \in Healths /\ r.cursors = after /\ r.evidence = e \o all
       /\ r.caughtUp <=> busy = {}
       /\ r.loaded = h.loaded /\ r.archives = h.archives
  <2>1. r = [h EXCEPT !.evidence = e \o all, !.cursors = after, !.caughtUp = (busy = {})]
    <3>1. r = [h EXCEPT
                !.evidence = @ \o FlattenSeq([i \in 1..last |-> Batch(h.cursors[i])]),
                !.cursors  = Among(SubSeq(after, 1, last), kept)
                             \o SubSeq(after, last + 1, Len(after)),
                !.caughtUp = busy = {}]
      BY <1>0, <1>5, <1>7, <1>9, <1>16, PolledIs
    <3> QED
      BY <1>2, <1>11, <1>12, <1>14, <3>1
  <2>2. e \o all \in Texts
    BY <1>3, <1>15, ConcatProperties DEF Texts
  <2> QED
    BY <1>8, <2>1, <2>2 DEF Healths
<1> DEFINE read == e \o all
<1>24. read = e \o all /\ read \in Texts
  BY <1>3, <1>15, ConcatProperties DEF Texts
<1> HIDE DEF read
<1>18. SUFFICES /\ Len(after) = 2 /\ after[2].at > 0 => after[1].at = Len(Lines(f[1]))
                /\ \A i \in 1..Len(c) : after[i].at <= Len(Lines(f[i]))
                /\ Len(read) = Len(a) + Through(after)
                /\ Begins(read, w)
                /\ busy = {} => Len(read) = Len(w)
  <2>1. Reading(f, r, Len(a))
    <3>1. Len(after) <= Len(f)
      BY <1>1, <1>3, <1>8
    <3> QED
      BY <1>8, <1>17, <1>18, <1>24, <3>1 DEF Reading
  <2>2. busy = {} => read = w
      BY <1>18, <1>24, BeginsPrefix
  <2> QED
    BY <1>16, <1>17, <1>18, <1>24, <2>1, <2>2
<1>19. \A i \in 1..Len(c) : after[i].at <= Len(Lines(f[i])) /\ after[i].at \in Nat
  <2> TAKE i \in 1..Len(c)
  <2>1. i \in Int /\ last \in Int
    BY <1>6
  <2>2. CASE i <= last
    BY <1>4, <1>8, <2>2
  <2>3. CASE i > last
    BY <1>3, <1>4, <1>8, <2>3
  <2> QED
    BY <2>1, <2>2, <2>3
<1>20. Len(a) \in Nat /\ Len(w) \in Nat
  BY LenProperties DEF Texts
<1>21. CASE Len(c) = 0
  <2>1. last = 0 /\ all = << >>
    BY <1>6, <1>15, <1>21
  <2>2. read = e
    BY <1>3, <1>24, <2>1, ConcatEmptySeq DEF Texts
  <2> QED
    BY <1>1, <1>3, <1>8, <1>19, <1>20, <1>21, <2>2 DEF Through
<1>22. CASE Len(c) = 1
  <2>1. last = 1 /\ all = Batch(c[1]) /\ 1 \in 1..Len(c)
    BY <1>6, <1>15, <1>22
  <2>2. PICK l, at, m : l = Lines(f[1]) /\ at = c[1].at /\ m = Amount(c[1])
    OBVIOUS
  <2>3. /\ l \in Texts /\ at \in Nat /\ m \in Nat /\ at + m <= Len(l) /\ Len(l) \in Nat
        /\ all = SubSeq(l, at + 1, at + m) /\ Holds(w, Len(a), l) /\ Len(w) = Len(a) + Len(l)
    BY <1>1, <1>3, <1>4, <1>22, <2>1, <2>2, LenProperties DEF Texts
  <2>4. Len(e) = Len(a) + at
    BY <1>3, <1>22, <2>2 DEF Through
  <2>5. Len(read) = Len(a) + at + m /\ Begins(read, w)
    <3>1. PICK p : p = Len(a)
      OBVIOUS
    <3>2. /\ w \in Texts /\ l \in Texts /\ e \in Texts /\ p \in Nat /\ at \in Nat /\ m \in Nat
          /\ Holds(w, p, l) /\ Begins(e, w) /\ Len(e) = p + at /\ at + m <= Len(l)
          /\ Taken(all, l, at, m)
      BY <1>3, <1>20, <2>3, <2>4, <3>1 DEF Taken
    <3>4. ReadsFrom(w, l, e, p, at, m, all)
      BY <3>2 DEF ReadsFrom
    <3>5. ReadsTo(w, e, p, at, m, all)
      BY <3>4, ReadOn, Zenon
    <3>3. Len(e \o all) = p + at + m /\ Begins(e \o all, w)
      BY <3>5 DEF ReadsTo
    <3> QED
      BY <1>24, <3>1, <3>3
  <2>6. Through(after) = at + m
    BY <1>8, <1>22, <2>1, <2>2 DEF Through
  <2>7. busy = {} => at + m = Len(l)
    <3> SUFFICES ASSUME busy = {} PROVE at + m = Len(l)
      OBVIOUS
    <3>1. ~(Unread(c[1]) > ReadLines)
      BY <1>6, <2>1
    <3>2. m = Unread(c[1]) /\ Unread(c[1]) = Len(l) - at
      BY <1>4, <2>1, <2>2, <3>1 DEF Amount
    <3> QED
      BY <2>3, <3>2
  <2>8. Len(read) = Len(a) + Through(after) /\ (busy = {} => Len(read) = Len(w))
    <3>1. Len(read) = Len(a) + Through(after)
      <4>1. Len(a) + at + m = Len(a) + (at + m)
        BY <1>20, <2>3
      <4> QED
        BY <2>5, <2>6, <4>1
    <3>2. busy = {} => Len(a) + at + m = Len(w)
      BY <1>20, <2>3, <2>7
    <3> QED
      BY <2>5, <3>1, <3>2
  <2> QED
    BY <1>8, <1>19, <1>22, <2>5, <2>8
<1>23. CASE Len(c) = 2
  <2>1. 1 \in 1..Len(c) /\ 2 \in 1..Len(c) /\ Len(f) = 2 /\ last \in 1..2
    <3>1. busy # {} => last >= 1
      BY <1>6
    <3> QED
      BY <1>3, <1>6, <1>23, <3>1
  <2>2. PICK l1, l2, at1, at2, m1, m2 :
          /\ l1 = Lines(f[1]) /\ at1 = c[1].at /\ m1 = Amount(c[1])
          /\ l2 = Lines(f[2]) /\ at2 = c[2].at /\ m2 = Amount(c[2])
    OBVIOUS
  <2>3. /\ l1 \in Texts /\ at1 \in Nat /\ m1 \in Nat /\ at1 + m1 <= Len(l1) /\ Len(l1) \in Nat
        /\ Batch(c[1]) = SubSeq(l1, at1 + 1, at1 + m1) /\ Batch(c[1]) \in Texts
        /\ Unread(c[1]) = Len(l1) - at1
    BY <1>1, <1>3, <1>4, <2>1, <2>2, LenProperties DEF Texts
  <2>4. /\ l2 \in Texts /\ at2 \in Nat /\ m2 \in Nat /\ at2 + m2 <= Len(l2) /\ Len(l2) \in Nat
        /\ Batch(c[2]) = SubSeq(l2, at2 + 1, at2 + m2) /\ Batch(c[2]) \in Texts
        /\ Unread(c[2]) = Len(l2) - at2
    BY <1>1, <1>3, <1>4, <2>1, <2>2, LenProperties DEF Texts
  <2>5. /\ Holds(w, Len(a), l1) /\ Holds(w, Len(a) + Len(l1), l2)
        /\ Len(w) = Len(a) + Len(l1) + Len(l2)
        /\ Len(e) = Len(a) + (at1 + at2)
        /\ at2 > 0 => at1 = Len(l1)
    BY <1>1, <1>3, <1>23, <2>1, <2>2 DEF Through
  <2>6. Through(after) = after[1].at + after[2].at
    BY <1>8, <1>23 DEF Through
  <2>7. PICK b1, b2 : b1 = Batch(c[1]) /\ b2 = Batch(c[2])
    OBVIOUS
  <2>8. CASE 1 \in busy
    <3>1. last = 1 /\ busy # {}
      BY <1>6, <2>1, <2>8
    <3>2. at2 = 0
      <4>1. Unread(c[1]) > ReadLines
        BY <1>6, <2>8
      <4>2. at1 # Len(l1)
        BY <2>3, <4>1, ReadAssumption
      <4> QED
        BY <2>4, <2>5, <4>2
    <3>3. all = SubSeq(l1, at1 + 1, at1 + m1)
      BY <1>15, <2>3, <3>1
    <3>4. Len(read) = Len(a) + at1 + m1 /\ Begins(read, w)
      <4>1. Len(e) = Len(a) + at1
        BY <1>20, <2>3, <2>5, <3>2
      <4>2. PICK p : p = Len(a)
        OBVIOUS
      <4>3. /\ w \in Texts /\ l1 \in Texts /\ e \in Texts /\ p \in Nat /\ at1 \in Nat
            /\ m1 \in Nat /\ Holds(w, p, l1) /\ Begins(e, w) /\ Len(e) = p + at1
            /\ at1 + m1 <= Len(l1) /\ Taken(all, l1, at1, m1)
        BY <1>3, <1>20, <2>3, <2>5, <3>3, <4>1, <4>2 DEF Taken
      <4>5. ReadsFrom(w, l1, e, p, at1, m1, all)
        BY <4>3 DEF ReadsFrom
      <4>6. ReadsTo(w, e, p, at1, m1, all)
        BY <4>5, ReadOn, Zenon
      <4>4. Len(e \o all) = p + at1 + m1 /\ Begins(e \o all, w)
        BY <4>6 DEF ReadsTo
      <4> QED
        BY <1>24, <4>2, <4>4
    <3>5. after[1].at = at1 + m1 /\ after[2].at = 0
      <4>1. after[1] = [file |-> f[1], at |-> c[1].at + Amount(c[1])] /\ after[2] = c[2]
        <5>1. 1 <= last /\ 2 > last
          BY <3>1
        <5> QED
          BY <1>8, <2>1, <5>1
      <4> QED
        <5>1. after[1].at = c[1].at + Amount(c[1])
          BY <4>1
        <5>2. after[2].at = c[2].at
          BY <4>1
        <5> QED
          BY <2>2, <3>2, <5>1, <5>2
    <3>6. Len(read) = Len(a) + Through(after)
      <4>1. at1 \in Nat /\ m1 \in Nat
        BY <2>3
      <4>2. Through(after) = at1 + m1
        BY <2>6, <3>5, <4>1
      <4>3. Len(a) + at1 + m1 = Len(a) + (at1 + m1)
        BY <1>20, <4>1
      <4> QED
        BY <3>4, <4>2, <4>3
    <3> QED
      BY <1>19, <3>1, <3>4, <3>5, <3>6
  <2>9. CASE 1 \notin busy
    <3>1. last = 2 /\ (busy = {} \/ busy = {2})
      <4>1. \A i \in busy : i = 2
        BY <1>6, <1>23, <2>9
      <4> QED
        BY <1>6, <1>23, <4>1
    <3>2. m1 = Len(l1) - at1
      <4>1. ~(Unread(c[1]) > ReadLines)
        BY <1>6, <2>1, <2>9
      <4> QED
        BY <2>2, <2>3, <4>1 DEF Amount
    <3>3. all = b1 \o b2
      BY <1>15, <2>7, <3>1
    <3>4. PICK e1 : e1 = e \o b1
      OBVIOUS
    <3>5. e1 \in Texts /\ Begins(e1, w) /\ Len(e1) = (Len(a) + Len(l1)) + at2
      <4>1. CASE at2 = 0
        <5>1. Len(e) = Len(a) + at1
          BY <1>20, <2>3, <2>5, <4>1
        <5>2. PICK p : p = Len(a)
          OBVIOUS
        <5>3. /\ w \in Texts /\ l1 \in Texts /\ e \in Texts /\ p \in Nat /\ at1 \in Nat
              /\ m1 \in Nat /\ Holds(w, p, l1) /\ Begins(e, w) /\ Len(e) = p + at1
              /\ at1 + m1 <= Len(l1)
          BY <1>3, <1>20, <2>3, <2>5, <5>1, <5>2
        <5>4. Taken(b1, l1, at1, m1)
          BY <2>3, <2>7 DEF Taken
        <5>7. ReadsFrom(w, l1, e, p, at1, m1, b1)
          BY <5>3, <5>4 DEF ReadsFrom
        <5>8. ReadsTo(w, e, p, at1, m1, b1)
          BY <5>7, ReadOn, Zenon
        <5>5. e \o b1 \in Texts /\ Len(e \o b1) = p + at1 + m1 /\ Begins(e \o b1, w)
          BY <5>8 DEF ReadsTo
        <5>6. p + at1 + m1 = (Len(a) + Len(l1)) + at2
          BY <1>20, <2>3, <3>2, <4>1, <5>2
        <5> QED
          BY <3>4, <5>5, <5>6
      <4>2. CASE at2 > 0
        <5>1. at1 = Len(l1) /\ m1 = 0
          BY <2>3, <2>5, <3>2, <4>2
        <5>2. b1 = << >>
          <6>1. b1 \in Seq(Int) /\ Len(b1) = 0
            BY <1>4, <2>1, <2>2, <2>3, <2>7, <5>1 DEF Texts
          <6> QED
            BY <6>1, EmptySeq
        <5>3. e1 = e
          BY <1>3, <3>4, <5>2, ConcatEmptySeq DEF Texts
        <5>4. Len(e) = (Len(a) + Len(l1)) + at2
          BY <1>20, <2>3, <2>4, <2>5, <5>1
        <5> QED
          BY <1>3, <5>3, <5>4
      <4> QED
        BY <2>4, <4>1, <4>2
    <3>6. read = e1 \o b2
      <4>2. Trio(Int, e, b1, b2)
        BY <1>3, <2>3, <2>4, <2>7 DEF Texts, Trio
      <4>1. Regroups(e, b1, b2)
        BY <4>2, Associative, Zenon
      <4>3. (e \o b1) \o b2 = e \o (b1 \o b2)
        BY <4>1 DEF Regroups
      <4> QED
        BY <1>24, <3>3, <3>4, <4>3
    <3>7. Len(a) + Len(l1) \in Nat
      BY <1>20, <2>3
    <3>8. Begins(e1 \o b2, w) /\ Len(e1 \o b2) = (Len(a) + Len(l1)) + at2 + m2
      <4>1. PICK p : p = Len(a) + Len(l1)
        OBVIOUS
      <4>2. /\ w \in Texts /\ l2 \in Texts /\ e1 \in Texts /\ p \in Nat /\ at2 \in Nat
            /\ m2 \in Nat /\ Holds(w, p, l2) /\ Begins(e1, w) /\ Len(e1) = p + at2
            /\ at2 + m2 <= Len(l2)
        BY <2>4, <2>5, <3>5, <3>7, <4>1
      <4>3. Taken(b2, l2, at2, m2)
        BY <2>4, <2>7 DEF Taken
      <4>5. ReadsFrom(w, l2, e1, p, at2, m2, b2)
        BY <4>2, <4>3 DEF ReadsFrom
      <4>6. ReadsTo(w, e1, p, at2, m2, b2)
        BY <4>5, ReadOn, Zenon
      <4>4. Len(e1 \o b2) = p + at2 + m2 /\ Begins(e1 \o b2, w)
        BY <4>6 DEF ReadsTo
      <4> QED
        BY <4>1, <4>4
    <3>9. after[1].at = Len(l1) /\ after[2].at = at2 + m2
      <4>1. after[1].at = at1 + m1 /\ after[2].at = at2 + m2
        BY <1>8, <2>1, <2>2, <3>1
      <4> QED
        BY <2>3, <3>2, <4>1
    <3>10. Len(read) = Len(a) + Through(after)
      <4>1. Len(read) = (Len(a) + Len(l1)) + at2 + m2
        BY <3>6, <3>8
      <4>2. Through(after) = Len(l1) + (at2 + m2)
        BY <2>6, <3>9
      <4> QED
        BY <1>20, <2>3, <2>4, <4>1, <4>2
    <3>11. busy = {} => Len(read) = Len(w)
      <4> SUFFICES ASSUME busy = {} PROVE Len(read) = Len(w)
        OBVIOUS
      <4>1. ~(Unread(c[2]) > ReadLines)
        BY <1>6, <2>1
      <4>2. m2 = Len(l2) - at2
        BY <2>2, <2>4, <4>1 DEF Amount
      <4> QED
        BY <1>20, <2>3, <2>4, <2>5, <3>6, <3>8, <4>2
    <3> QED
      BY <1>19, <2>2, <3>6, <3>8, <3>9, <3>10, <3>11
  <2> QED
    BY <2>8, <2>9
<1> QED
  BY <1>6, <1>21, <1>22, <1>23

\* Nothing is read where nothing is listed.
LEMMA NothingListed ==
  ASSUME TypeOK, ~Listed, NEW k \in 0..MaxRecords, SegmentNumbers = 1..k
  PROVE  Tails(k) = << >> /\ Ahead(k) = << >>
<1> USE ComponentNames
<1>1. k = 0 /\ plain[Month] = NoFile /\ archive[Month] = NoFile
  <2>1. SegmentNumbers = {} /\ k \in Nat
    BY BoundsAssumption DEF Listed
  <2>2. k # 0 => 1 \in 1..k
    BY <2>1
  <2> QED
    BY <2>1, <2>2 DEF Listed
<1>2. Tails(k) = << >>
  <2>1. Newest(k) = NoFile /\ Open(Month) = NoFile
    BY <1>1 DEF Newest, Open
  <2> QED
    BY <2>1, TailsAre DEF One
<1>3. Ahead(k) = << >>
  <2>1. Ahead(k) = FlattenSeq(Sealed(0))
    BY <1>1 DEF Ahead, Newest
  <2>2. Sealed(0) = << >>
    BY DEF Sealed
  <2> QED
    BY <2>1, <2>2, FlattenEmpty
<1> QED
  BY <1>2, <1>3

LEMMA SignedPlaces ==
  ASSUME TypeOK
  PROVE  Signed \in SUBSET (Components \X Nat) /\ \A s \in Signed : s[2] \in 1..Len(text)
<1>1. \A c \in Components \ {Journal} : archive[c] \in 0..Len(text) /\ Len(text) \in Nat
  BY TextType DEF TypeOK, NoFile
<1>2. ASSUME NEW s \in Signed PROVE s \in Components \X Nat /\ s[2] \in 1..Len(text)
  <2>1. PICK c \in Components \ {Journal} : archive[c] # NoFile /\ s = <<c, archive[c]>>
    BY DEF Signed
  <2> QED
    BY <1>1, <2>1 DEF NoFile
<1> QED
  BY <1>2

\* A month that is new, or new again, is read from its archives on.
LEMMA ReplayTails ==
  ASSUME IInv, SeriesInv, SoleInv, NEW k \in 0..MaxRecords, SegmentNumbers = 1..k,
         NEW A \in Seq(Pieces), NEW T \in Seq(Pieces), Parted(A, T, k),
         NEW f \in Seq(Nat), f = Tails(k), NEW a \in Texts, a = Ahead(k),
         NEW w \in Texts, w = CompleteLines(Kept),
         NEW g \in Healths, HealthOf(g), g.loaded => Signed \subseteq g.archives
  PROVE  \E d \in Healths :
           /\ d = Replayed(g) /\ d.archives = Signed /\ d.loaded = (g.loaded \/ Listed)
           /\ Reading(f, d, Len(a)) /\ Begins(d.evidence, w)
<1>1. PICK e : e = IF g.loaded THEN g.evidence
                   ELSE g.evidence \o LinesOf(Among(MonthPieces, Archives))
  OBVIOUS
<1>2. PICK d : d = Replayed(g)
  OBVIOUS
<1>3. d = [g EXCEPT !.archives = Signed, !.loaded = g.loaded \/ Listed, !.evidence = e]
  BY <1>1, <1>2, SignaturesAre DEF Replayed
<1>4. /\ g.loaded => e = g.evidence
      /\ ~g.loaded => e = a /\ g.cursors = << >>
  <2>1. ASSUME ~g.loaded PROVE e = a /\ g.cursors = << >>
    <3>1. g.evidence = << >> /\ g.cursors = << >>
      BY <2>1 DEF HealthOf
    <3>2. LinesOf(Among(MonthPieces, Archives)) = a
      <4>1. Among(MonthPieces, Archives) = A
        BY PieceSets
      <4> QED
        BY <4>1 DEF Parted
    <3>3. << >> \o a = a
      BY ConcatEmptySeq DEF Texts
    <3> QED
      BY <1>1, <2>1, <3>1, <3>2, <3>3
  <2> QED
    BY <1>1, <2>1
<1>5. e \in Texts /\ d \in Healths
  <2>1. g.evidence \in Texts
    BY DEF Healths
  <2>2. e \in Texts
    BY <1>4, <2>1
  <2>3. Signed \in SUBSET (Components \X Nat) /\ (g.loaded \/ Listed) \in BOOLEAN
    BY SignedPlaces DEF IInv, Healths, Listed
  <2> QED
    BY <1>3, <2>2, <2>3 DEF Healths
<1>6. /\ d.archives = Signed /\ d.loaded = (g.loaded \/ Listed)
      /\ d.evidence = e /\ d.cursors = g.cursors
  BY <1>3 DEF Healths
<1>7. Begins(e, w)
  <2>1. CASE g.loaded
    BY <1>4, <2>1 DEF HealthOf
  <2>2. CASE ~g.loaded
    BY <1>4, <2>2, PartLines
  <2> QED
    BY <2>1, <2>2
<1>8. Reading(f, d, Len(a))
  <2>1. CASE g.loaded
    <3>1. Follows(g)
      BY <2>1 DEF HealthOf
    <3>2. Reading(f, g, Len(a))
      BY <3>1 DEF Follows
    <3> QED
      BY <1>4, <1>6, <2>1, <3>2 DEF Reading
  <2>2. CASE ~g.loaded
    <3>1. d.cursors = << >> /\ Len(d.cursors) = 0 /\ d.evidence = a
      BY <1>4, <1>6, <2>2
    <3>2. Len(f) \in Nat /\ Len(a) \in Nat
      BY LenProperties DEF Texts
    <3>3. Len(d.evidence) = Len(a) + Through(d.cursors)
      BY <3>1, <3>2 DEF Through
    <3> QED
      BY <3>1, <3>2, <3>3 DEF Reading
  <2> QED
    BY <2>1, <2>2
<1> QED
  BY <1>2, <1>5, <1>6, <1>7, <1>8

\* A poll keeps what the reader knows, and catches up if it says so.
LEMMA PollFollows ==
  ASSUME IInv, SeriesInv, SoleInv, PlainInv, NEW h \in Healths, HealthOf(h)
  PROVE  \E r \in Healths :
           /\ r = Polled(Discovered(Replayed(Restarted(h)))) /\ HealthOf(r)
           /\ r.caughtUp => r.evidence = CompleteLines(Kept)
<1>0. TypeOK /\ FileInv /\ NumberInv /\ MonthInv
  BY DEF IInv, SeriesInv
<1>1. PICK k \in 0..MaxRecords : SegmentNumbers = 1..k
  BY <1>0 DEF NumberInv
<1>2. PICK A, T \in Seq(Pieces) : Parted(A, T, k)
  BY <1>1, MonthParts
<1>3. PICK f \in Seq(Nat) : f = Tails(k)
  BY <1>0, TailsAre
<1>4. PICK a \in Texts : a = Ahead(k)
  <2>1. Ahead(k) \in Texts
    <3>1. LinesOf(A) \in Texts
      BY <1>0, LinesAre
    <3> QED
      BY <1>2, <3>1 DEF Parted
  <2> QED
    BY <2>1
<1>5. PICK w \in Texts : w = CompleteLines(Kept)
  BY <1>0, KeptType
<1>6. PICK g \in Healths : /\ g = Restarted(h) /\ HealthOf(g)
                           /\ g.loaded => Signed \subseteq g.archives
  <2>1. Signatures = Signed
    BY <1>1, SignaturesAre
  <2>2. CASE h.loaded /\ ~(Signed \subseteq h.archives)
    <3>1. NoHealth \in Healths
      BY EmptySeq DEF NoHealth, Healths, Texts
    <3>2. HealthOf(NoHealth)
      <4>1. Begins(<< >>, w)
        BY LenProperties DEF Begins, Texts
      <4> QED
        BY <1>5, <4>1 DEF HealthOf, NoHealth
    <3> QED
      BY <2>1, <2>2, <3>1, <3>2 DEF Restarted, NoHealth
  <2>3. CASE ~(h.loaded /\ ~(Signed \subseteq h.archives))
    BY <2>1, <2>3 DEF Restarted
  <2> QED
    BY <2>2, <2>3
<1>7. PICK d \in Healths : /\ d = Replayed(g) /\ d.archives = Signed
                           /\ d.loaded = (g.loaded \/ Listed)
                           /\ Reading(f, d, Len(a)) /\ Begins(d.evidence, w)
  BY <1>1, <1>2, <1>3, <1>4, <1>5, <1>6, ReplayTails
<1>8. Len(a) \in Nat
  BY LenProperties DEF Texts
<1>9. PICK o \in Healths : /\ o = Discovered(d) /\ Reading(f, o, Len(a))
                           /\ Len(o.cursors) = Len(f)
                           /\ o.loaded = d.loaded /\ o.archives = d.archives
                           /\ o.evidence = d.evidence
  BY <1>0, <1>1, <1>2, <1>3, <1>7, <1>8, DiscoverTails
<1>10. PICK r \in Healths : /\ r = Polled(o) /\ Reading(f, r, Len(a)) /\ Begins(r.evidence, w)
                            /\ r.loaded = o.loaded /\ r.archives = o.archives
                            /\ r.caughtUp => r.evidence = w
  <2>1. Begins(o.evidence, w)
    BY <1>7, <1>9
  <2> QED
    BY <1>1, <1>2, <1>3, <1>4, <1>5, <1>9, <2>1, PollTails
<1>11. \A s \in r.archives : s[2] \in 1..Len(text)
  BY <1>0, <1>7, <1>9, <1>10, SignedPlaces
<1>12. ASSUME ~r.loaded PROVE r.cursors = << >> /\ r.evidence = << >>
  <2>1. ~Listed
    BY <1>7, <1>9, <1>10, <1>12
  <2>2. f = << >> /\ a = << >>
    BY <1>0, <1>1, <1>3, <1>4, <2>1, NothingListed
  <2>3. Len(r.cursors) <= 0 /\ Len(r.evidence) = 0 + Through(r.cursors)
    BY <1>10, <2>2 DEF Reading
  <2>4. r.cursors \in Seq(Cursors) /\ r.evidence \in Seq(Int) /\ Len(r.cursors) \in Nat
    BY LenProperties DEF Healths, Texts
  <2>5. Len(r.cursors) = 0
    BY <2>3, <2>4
  <2>6. Len(r.evidence) = 0
    BY <2>3, <2>5 DEF Through
  <2> QED
    BY <2>4, <2>5, <2>6, EmptySeq
<1>13. Follows(r)
  <2> SUFFICES ASSUME NEW j \in 0..MaxRecords, SegmentNumbers = 1..j PROVE j = k
    BY <1>3, <1>4, <1>10 DEF Follows
  <2>1. j \in Nat /\ k \in Nat /\ 1..j = 1..k
    BY <1>1, BoundsAssumption
  <2>2. j <= k /\ k <= j
    <3>1. j # 0 => j \in 1..k
      BY <2>1
    <3>2. k # 0 => k \in 1..j
      BY <2>1
    <3> QED
      BY <2>1, <3>1, <3>2
  <2> QED
    BY <2>1, <2>2
<1> QED
  BY <1>5, <1>6, <1>7, <1>9, <1>10, <1>11, <1>12, <1>13 DEF HealthOf

LEMMA HealthStep ==
  ASSUME RInv, RInv', PlainInv, VisitInv, HealthInv, [Next]_vars
  PROVE  HealthInv'
<1> USE DEF RInv
<1>1. PICK h \in Healths : h = health /\ HealthOf(h)
  BY DEF HealthInv
<1>2. CASE PollHealth
  <2>1. PICK r \in Healths : r = Polled(Discovered(Replayed(Restarted(h)))) /\ HealthOf(r)
    BY <1>1, PollFollows
  <2>2. UNCHANGED <<text, plain, archive, receipt>> /\ health' = r
    BY <1>1, <1>2, <2>1 DEF PollHealth, rotationVars, disk
  <2>3. HealthOf(r)'
    BY <2>1, <2>2, StutterHealth
  <2> QED
    BY <2>2, <2>3 DEF HealthInv
<1>3. CASE health' = health
  <2>1. HealthOf(h)'
    <3>1. CASE UNCHANGED rotationVars
      <4>1. UNCHANGED <<text, plain, archive, receipt>>
        BY <3>1 DEF rotationVars, disk
      <4> QED
        BY <1>1, <4>1, StutterHealth
    <3>2. CASE NextRotation
      BY <1>1, <3>2, HealthWriter
    <3> QED
      BY <3>1, <3>2, ReadersRotate
  <2> QED
    BY <1>1, <1>3, <2>1 DEF HealthInv
<1> QED
  BY <1>2, <1>3 DEF Next, vars, ListMonth, OpenMonth, ReadPiece, CloseMonth

LEMMA StutterPlain ==
  PlainInv /\ VisitInv /\ UNCHANGED rotationVars => PlainInv' /\ VisitInv'
<1> SUFFICES ASSUME PlainInv, VisitInv, UNCHANGED rotationVars PROVE PlainInv' /\ VisitInv'
  OBVIOUS
<1>1. UNCHANGED <<text, plain, archive, receipt, pc, series, work, target>>
  BY DEF rotationVars, disk, call
<1>2. SegmentNumbers' = SegmentNumbers
  BY <1>1 DEF SegmentNumbers, Exists
<1> QED
  BY <1>1, <1>2 DEF PlainInv, VisitInv, Compressing

LEMMA InitHealth == Init => PlainInv /\ VisitInv /\ HealthInv
<1> SUFFICES ASSUME Init PROVE PlainInv /\ VisitInv /\ HealthInv
  OBVIOUS
<1>1. RInv /\ InitRotation /\ health = NoHealth
  BY InitReading DEF Init
<1>2. VisitInv /\ PlainInv
  <2>1. \A n \in Components : plain[n] = NoFile /\ archive[n] = NoFile /\ receipt[n] = {}
    BY <1>1 DEF InitRotation
  <2>2. SegmentNumbers = {}
    BY <2>1, ComponentNames DEF SegmentNumbers, Exists, Components
  <2> QED
    BY <1>1, <2>2 DEF VisitInv, PlainInv, InitRotation
<1>3. NoHealth \in Healths
  BY EmptySeq DEF NoHealth, Healths, Texts
<1>4. HealthOf(NoHealth)
  <2>1. PICK w \in Texts : w = CompleteLines(Kept)
    BY <1>1, KeptType DEF RInv, IInv, SeriesInv
  <2>2. Begins(<< >>, w)
    BY LenProperties DEF Begins, Texts
  <2> QED
    BY <2>1, <2>2 DEF HealthOf, NoHealth
<1> QED
  BY <1>1, <1>2, <1>3, <1>4 DEF HealthInv

LEMMA HealthInvariance == Spec => [](RInv /\ PlainInv /\ HealthInv)
<1>1. RInv /\ PlainInv /\ VisitInv /\ [NextRotation]_rotationVars => PlainInv' /\ VisitInv'
  BY ArchiveStep, StutterPlain DEF RInv
<1>2. RInv /\ RInv' /\ PlainInv /\ VisitInv /\ HealthInv /\ [Next]_vars => HealthInv'
  BY HealthStep
<1>3. [Next]_vars => [NextRotation]_rotationVars
  BY ReadersRotate
<1> QED
  BY <1>1, <1>2, <1>3, InitHealth, ReadingInvariance, PTL DEF Spec

\* The monitor's evidence is what the log begins with: no line is skipped and
\* none is read twice, however the files it has open are rotated.
THEOREM EvidenceIsTrue == Spec => []EvidenceIsPrefix
<1>1. ASSUME RInv, HealthInv PROVE EvidenceIsPrefix
  <2>1. Begins(health.evidence, CompleteLines(Kept)) /\ health.evidence \in Texts
    BY <1>1 DEF HealthInv, HealthOf, Healths
  <2>2. CompleteLines(Kept) \in Texts
    BY <1>1, KeptType DEF RInv, IInv, SeriesInv
  <2> QED
    BY <2>1, <2>2, BeginsPrefix DEF EvidenceIsPrefix
<1> QED
  BY <1>1, HealthInvariance, PTL

\* A poll that exhausted its files has the whole log, its archives included.
THEOREM CaughtUpHasAll == Spec => CaughtUpIsComplete
<1>1. ASSUME RInv, PlainInv, HealthInv, [Next]_vars, health' # health, health'.caughtUp
      PROVE  health'.evidence = CompleteLines(Kept)
  <2>1. PollHealth
    BY <1>1 DEF Next, vars, ListMonth, OpenMonth, ReadPiece, CloseMonth
  <2>2. PICK h \in Healths : h = health /\ HealthOf(h)
    BY <1>1 DEF HealthInv
  <2>3. PICK r \in Healths : /\ r = Polled(Discovered(Replayed(Restarted(h))))
                             /\ r.caughtUp => r.evidence = CompleteLines(Kept)
    BY <1>1, <2>2, PollFollows DEF RInv
  <2> QED
    BY <1>1, <2>1, <2>2, <2>3 DEF PollHealth
<1>2. RInv /\ PlainInv /\ HealthInv /\ [Next]_vars
      => [health' # health /\ health'.caughtUp => health'.evidence = CompleteLines(Kept)]_vars
  BY <1>1
<1> QED
  BY <1>2, HealthInvariance, PTL DEF Spec, CaughtUpIsComplete
=============================================================================
