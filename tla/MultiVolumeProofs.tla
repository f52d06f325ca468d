------------------------- MODULE MultiVolumeProofs -------------------------
(***************************************************************************)
(* Theorems about MultiVolume.                                             *)
(***************************************************************************)
EXTENDS MultiVolume, FiniteSetTheorems, SequenceTheorems, TLAPS

-----------------------------------------------------------------------------
(* Sequences of any elements.                                              *)

IsSeq(s) == s \in Seq({s[i] : i \in DOMAIN s})

\* The empty sequence, and one of one element.
LEMMA ShortIsSeq ==
    /\ IsSeq(<<>>) /\ Len(<<>>) = 0 /\ DOMAIN <<>> = {}
    /\ \A x : IsSeq(<<x>>) /\ Len(<<x>>) = 1 /\ <<x>>[1] = x
BY DEF IsSeq

\* Every sequence is one of its own elements.
LEMMA ToItsRange == ASSUME NEW S, NEW s \in Seq(S) PROVE IsSeq(s)
<1>1. Len(s) \in Nat /\ s \in [1 .. Len(s) -> S]
  BY Zenon, LenProperties
<1>2. s \in [1 .. Len(s) -> {s[i] : i \in DOMAIN s}]
  BY Zenon, <1>1
<1> QED BY <1>1, <1>2, SeqDef DEF IsSeq

\* The length and the domain of a sequence.
LEMMA SeqFacts == ASSUME NEW s, IsSeq(s) PROVE Len(s) \in Nat /\ DOMAIN s = 1 .. Len(s)
BY Zenon, LenProperties DEF IsSeq

\* A sequence with one element more.
LEMMA AppendIsSeq ==
    ASSUME NEW s, IsSeq(s), NEW x
    PROVE  /\ IsSeq(Append(s, x)) /\ Len(Append(s, x)) = Len(s) + 1
           /\ \A i \in 1 .. Len(s) : Append(s, x)[i] = s[i]
           /\ Append(s, x)[Len(s) + 1] = x
<1> DEFINE S == {s[i] : i \in DOMAIN s} \cup {x}
<1>1. s \in Seq(S) /\ x \in S
  BY DEF IsSeq
<1> HIDE DEF S
<1>2. Append(s, x) \in Seq(S) /\ Len(Append(s, x)) = Len(s) + 1
      /\ (\A i \in 1 .. Len(s) : Append(s, x)[i] = s[i]) /\ Append(s, x)[Len(s) + 1] = x
  BY <1>1, AppendProperties
<1> QED BY Zenon, <1>2, ToItsRange

\* Two sequences, one after the other.
Joined(s, r, t) ==
    /\ IsSeq(t) /\ Len(t) = Len(s) + Len(r)
    /\ \A i \in 1 .. Len(s) : t[i] = s[i]
    /\ \A i \in 1 .. Len(r) : t[Len(s) + i] = r[i]

\* It is what \o makes of them.
LEMMA ConcatIsSeq == ASSUME NEW s, IsSeq(s), NEW r, IsSeq(r) PROVE Joined(s, r, s \o r)
<1> DEFINE S == {s[i] : i \in DOMAIN s} \cup {r[i] : i \in DOMAIN r}
<1>1. s \in Seq(S) /\ r \in Seq(S)
  BY DEF IsSeq
<1> HIDE DEF S
<1>2. Len(s) \in Nat /\ Len(r) \in Nat
  BY <1>1
<1>3. s \o r \in Seq(S) /\ Len(s \o r) = Len(s) + Len(r)
      /\ \A i \in 1 .. Len(s) + Len(r) : (s \o r)[i] = IF i <= Len(s) THEN s[i] ELSE r[i - Len(s)]
  BY Zenon, <1>1, ConcatProperties
<1>4. ASSUME NEW i \in 1 .. Len(r)
      PROVE  (s \o r)[Len(s) + i] = r[i]
  <2>1. Len(s) + i \in 1 .. Len(s) + Len(r) /\ ~(Len(s) + i <= Len(s)) /\ Len(s) + i - Len(s) = i
    BY <1>2
  <2> QED BY <2>1, <1>3
<1>5. \A i \in 1 .. Len(s) : (s \o r)[i] = s[i]
  BY <1>2, <1>3
<1> QED BY Zenon, <1>3, <1>4, <1>5, ToItsRange DEF Joined

\* A part of a sequence.
LEMMA SubSeqIsSeq ==
    ASSUME NEW s, IsSeq(s), NEW m \in Nat, m >= 1, NEW n \in Nat, n <= Len(s)
    PROVE  /\ IsSeq(SubSeq(s, m, n))
           /\ Len(SubSeq(s, m, n)) = IF m <= n THEN n - m + 1 ELSE 0
           /\ \A i \in 1 .. n - m + 1 : SubSeq(s, m, n)[i] = s[m + i - 1]
<1> DEFINE S == {s[i] : i \in DOMAIN s}
<1>1. s \in Seq(S) /\ Len(s) \in Nat
  BY Zenon, LenProperties DEF IsSeq
<1> HIDE DEF S
<1>2. \A i \in m .. n : s[i] \in S
  BY <1>1, LenProperties
<1>3. /\ SubSeq(s, m, n) \in Seq(S)
      /\ Len(SubSeq(s, m, n)) = IF m <= n THEN n - m + 1 ELSE 0
      /\ \A i \in 1 .. n - m + 1 : SubSeq(s, m, n)[i] = s[m + i - 1]
  BY <1>2, SubSeqProperties
<1> QED BY Zenon, <1>3, ToItsRange

\* A sequence with one element replaced.
Replaced(s, k, x, t) ==
    /\ IsSeq(t) /\ Len(t) = Len(s) /\ t[k] = x
    /\ \A i \in 1 .. Len(s) : i # k => t[i] = s[i]

\* EXCEPT makes it.
LEMMA ExceptIsSeq ==
    ASSUME NEW s, IsSeq(s), NEW k \in 1 .. Len(s), NEW x, NEW t, t = [s EXCEPT ![k] = x]
    PROVE  Replaced(s, k, x, t)
<1> DEFINE S == {s[i] : i \in DOMAIN s} \cup {x}
           e == [s EXCEPT ![k] = x]
<1>1. s \in Seq(S) /\ x \in S
  BY DEF IsSeq
<1> HIDE DEF S
<1>2. Len(s) \in Nat /\ DOMAIN s = 1 .. Len(s)
  BY <1>1
<1>3. e \in Seq(S) /\ Len(e) = Len(s)
  BY <1>1, <1>2
<1>4. e[k] = x /\ \A i \in 1 .. Len(s) : i # k => e[i] = s[i]
  BY Zenon, <1>1, <1>2
<1> QED BY Zenon, <1>3, <1>4, ToItsRange DEF Replaced

-----------------------------------------------------------------------------
(* The places of data.                                                     *)

IsPlace(vs, v, i) == /\ v \in DOMAIN vs /\ i \in DOMAIN vs[v].blocks
                     /\ vs[v].blocks[i].t = "data"

\* What is in Places.
LEMMA PlacesMember ==
    ASSUME NEW vs, NEW x \in Places(vs)
    PROVE  \E v, i : IsPlace(vs, v, i) /\ x = <<v, i>>
BY DEF Places, IsPlace

\* What belongs there.
LEMMA MemberOfPlaces ==
    ASSUME NEW vs, NEW v, NEW i, IsPlace(vs, v, i)
    PROVE  <<v, i>> \in Places(vs)
BY DEF Places, IsPlace

\* The blocks on the volumes vs are the first ones of g.
Laid(vs, g) ==
    /\ IsFiniteSet(Places(vs)) /\ Cardinality(Places(vs)) <= Len(g)
    /\ \A x \in Places(vs) : /\ Cardinality(Upto(Places(vs), x)) \in 1 .. Cardinality(Places(vs))
                             /\ At(vs, x) = g[Cardinality(Upto(Places(vs), x))]
    /\ \A n \in 1 .. Cardinality(Places(vs)) :
         \E x \in Places(vs) : Cardinality(Upto(Places(vs), x)) = n

\* OnTape is then a prefix of g.
LEMMA LaidTape ==
    ASSUME NEW vs, NEW g, IsSeq(g), Laid(vs, g)
    PROVE  OnTape(vs) = SubSeq(g, 1, Cardinality(Places(vs)))
<1> DEFINE n0 == Cardinality(Places(vs))
<1>1. n0 \in Nat /\ n0 <= Len(g)
  BY Zenon, FS_CardinalityType DEF Laid
<1>2. ASSUME NEW n \in 1 .. n0
      PROVE  At(vs, CHOOSE x \in Places(vs) : Cardinality(Upto(Places(vs), x)) = n) = g[n]
  <2>1. \E x \in Places(vs) : Cardinality(Upto(Places(vs), x)) = n
    BY Zenon, <1>2 DEF Laid
  <2> DEFINE c == CHOOSE x \in Places(vs) : Cardinality(Upto(Places(vs), x)) = n
  <2>2. c \in Places(vs) /\ Cardinality(Upto(Places(vs), c)) = n
    BY Zenon, <2>1
  <2> HIDE DEF c
  <2>3. At(vs, c) = g[n]
    BY Zenon, <2>2 DEF Laid
  <2> QED BY Zenon, <2>3 DEF c
<1>3. SubSeq(g, 1, n0) = [n \in 1 .. n0 |-> g[n]]
  <2>1. /\ IsSeq(SubSeq(g, 1, n0)) /\ Len(SubSeq(g, 1, n0)) = n0
        /\ \A i \in 1 .. n0 : SubSeq(g, 1, n0)[i] = g[i]
    BY <1>1, SubSeqIsSeq
  <2>2. DOMAIN SubSeq(g, 1, n0) = 1 .. n0 /\ SubSeq(g, 1, n0) = [n \in 1 .. n0 |-> SubSeq(g, 1, n0)[n]]
    BY <2>1 DEF IsSeq
  <2> QED BY Zenon, <2>1, <2>2
<1> QED BY Zenon, <1>2, <1>3 DEF OnTape

Row(v, len, a, b) == {<<v, len + h>> : h \in a + 1 .. b}

\* Blocks next to each other are as many places.
LEMMA RowCardinality ==
    ASSUME NEW v, NEW len \in Nat, NEW a \in Nat, NEW b \in Nat, a <= b
    PROVE  IsFiniteSet(Row(v, len, a, b)) /\ Cardinality(Row(v, len, a, b)) = b - a
<1> DEFINE row == Row(v, len, a, b)
           f == [h \in a + 1 .. b |-> <<v, len + h>>]
<1>1. f \in Bijection(a + 1 .. b, row)
  <2>1. f \in Surjection(a + 1 .. b, row)
    BY Zenon DEF Surjection, Row
  <2>2. \A h, j \in a + 1 .. b : f[h] = f[j] => h = j
    OBVIOUS
  <2> QED BY Zenon, <2>1, <2>2 DEF Bijection, Injection, Surjection, IsInjective
<1>2. IsFiniteSet(a + 1 .. b) /\ Cardinality(a + 1 .. b) = b - a
  <2>1. a + 1 \in Int /\ b \in Int
    OBVIOUS
  <2>2. IsFiniteSet(a + 1 .. b) /\ Cardinality(a + 1 .. b) = IF a + 1 > b THEN 0 ELSE b - (a + 1) + 1
    BY Zenon, <2>1, FS_Interval
  <2> QED BY <2>2
<1> QED BY <1>1, <1>2, FS_Bijection DEF ExistsBijection

\* ws has the places of vs and, on the last volume v after the first len
\* blocks, the blocks a + 1 to a + e of what was written, the next ones of g.
Extends(vs, ws, v, len, a, e, g) ==
    /\ v \in Nat /\ len \in Nat /\ Cardinality(Places(vs)) + e <= Len(g)
    /\ \A x \in Places(vs) : /\ x[1] \in Nat /\ x[2] \in Nat
                             /\ x[1] < v \/ (x[1] = v /\ x[2] <= len)
                             /\ At(ws, x) = At(vs, x)
    /\ Places(ws) = Places(vs) \cup Row(v, len, a, a + e)
    /\ \A h \in a + 1 .. a + e :
         At(ws, <<v, len + h>>) = g[Cardinality(Places(vs)) + h - a]

\* Then the data stay in the order of g.
LEMMA Extension ==
    ASSUME NEW vs, NEW ws, NEW g, Laid(vs, g), Len(g) \in Nat, NEW v, NEW len,
           NEW a \in Nat, NEW e \in Nat, Extends(vs, ws, v, len, a, e, g)
    PROVE  Laid(ws, g) /\ Cardinality(Places(ws)) = Cardinality(Places(vs)) + e
<1> DEFINE P == Places(vs)
           Q == Places(ws)
           n == Cardinality(P)
           row(b) == Row(v, len, a, b)
<1>1. IsFiniteSet(P) /\ n \in Nat
  BY Zenon, FS_CardinalityType DEF Laid
<1>a. /\ v \in Nat /\ len \in Nat
      /\ \A x \in P : /\ x[1] \in Nat /\ x[2] \in Nat
                      /\ x[1] < v \/ (x[1] = v /\ x[2] <= len)
  BY Zenon DEF Extends
<1>b. Cardinality({}) = 0
  BY Zenon, FS_EmptySet
<1> HIDE DEF P
<1>2. ASSUME NEW b \in a .. a + e
      PROVE  IsFiniteSet(P \cup row(b)) /\ Cardinality(P \cup row(b)) = n + b - a
  <2>0. b \in Nat /\ a <= b
    OBVIOUS
  <2>1. IsFiniteSet(row(b)) /\ Cardinality(row(b)) = b - a
    BY <1>a, <2>0, RowCardinality
  <2>2. P \cap row(b) = {}
    <3>1. ASSUME NEW h \in a + 1 .. b, <<v, len + h>> \in P
          PROVE  FALSE
      <4>1. <<v, len + h>>[1] = v /\ <<v, len + h>>[2] = len + h
        BY Zenon
      <4>2. len + h <= len
        BY <1>a, <3>1, <4>1
      <4> QED BY <1>a, <4>2, <2>0
    <3> QED BY Zenon, <3>1 DEF Row
  <2>3. IsFiniteSet(P \cup row(b)) /\ Cardinality(P \cup row(b)) = n + (b - a) - Cardinality(P \cap row(b))
    BY Zenon, <1>1, <2>1, FS_Union
  <2>4. Cardinality(P \cup row(b)) = n + (b - a) - 0
    BY Zenon, <2>2, <2>3, <1>b
  <2> QED BY <1>1, <2>0, <2>3, <2>4
<1>3. Q = P \cup row(a + e) /\ IsFiniteSet(Q) /\ Cardinality(Q) = n + e
  <2>1. Q = P \cup row(a + e)
    BY Zenon DEF P, Extends
  <2>2. a + e \in a .. a + e /\ n + (a + e) - a = n + e
    BY <1>1
  <2> HIDE DEF Q
  <2> QED BY Zenon, <1>2, <2>1, <2>2
<1> HIDE DEF Q
<1>4. ASSUME NEW x \in P
      PROVE  Upto(Q, x) = Upto(P, x) /\ x \in Q
  <2>1. ASSUME NEW h \in a + 1 .. a + e
        PROVE  ~(v < x[1] \/ (v = x[1] /\ len + h <= x[2]))
    BY <1>a
  <2>2. ASSUME NEW y \in row(a + e)
        PROVE  ~(y[1] < x[1] \/ (y[1] = x[1] /\ y[2] <= x[2]))
    <3>1. PICK h \in a + 1 .. a + e : y = <<v, len + h>>
      BY Zenon DEF Row
    <3> QED BY Zenon, <2>1, <3>1
  <2> QED BY Zenon, <1>3, <2>2 DEF Upto
<1>5. ASSUME NEW h \in a + 1 .. a + e
      PROVE  /\ Upto(Q, <<v, len + h>>) = P \cup row(h) /\ <<v, len + h>> \in Q
             /\ Cardinality(Upto(Q, <<v, len + h>>)) = n + h - a
  <2>1. <<v, len + h>> \in Q
    BY Zenon, <1>3 DEF Row
  <2>2. Upto(Q, <<v, len + h>>) = P \cup row(h)
    <3>1. \A y \in P : y[1] < v \/ (y[1] = v /\ y[2] <= len + h)
      BY <1>a
    <3>2. \A j \in a + 1 .. a + e : (v < v \/ (v = v /\ len + j <= len + h)) <=> j \in a + 1 .. h
      BY <1>a
    <3>3. ASSUME NEW y \in row(a + e)
          PROVE  (y[1] < v \/ (y[1] = v /\ y[2] <= len + h)) <=> y \in row(h)
      <4>1. PICK j \in a + 1 .. a + e : y = <<v, len + j>>
        BY Zenon DEF Row
      <4>2. y \in row(h) <=> j \in a + 1 .. h
        <5>1. \A i \in a + 1 .. h : <<v, len + j>> = <<v, len + i>> => i = j
          BY <1>a
        <5> QED BY Zenon, <4>1, <5>1 DEF Row
      <4> QED BY Zenon, <3>2, <4>1, <4>2
    <3>a. \A j \in a + 1 .. h : j \in a + 1 .. a + e
      OBVIOUS
    <3>4. row(h) \subseteq row(a + e)
      BY Zenon, <3>a DEF Row
    <3>5. <<v, len + h>>[1] = v /\ <<v, len + h>>[2] = len + h
      BY Zenon
    <3> QED BY Zenon, <1>3, <3>1, <3>3, <3>4, <3>5 DEF Upto
  <2>3. h \in a .. a + e
    OBVIOUS
  <2> QED BY Zenon, <2>1, <2>2, <2>3, <1>2
<1>6. ASSUME NEW x \in Q
      PROVE  /\ Cardinality(Upto(Q, x)) \in 1 .. n + e
             /\ At(ws, x) = g[Cardinality(Upto(Q, x))]
  <2>1. CASE x \in P
    <3>1. Cardinality(Upto(P, x)) \in 1 .. n /\ At(vs, x) = g[Cardinality(Upto(P, x))]
      BY Zenon, <2>1 DEF Laid, P
    <3>2. At(ws, x) = At(vs, x)
      BY Zenon, <2>1 DEF P, Extends
    <3>3. Upto(Q, x) = Upto(P, x)
      BY Zenon, <1>4, <2>1
    <3>4. \A c \in 1 .. n : c \in 1 .. n + e
      BY <1>1
    <3> QED BY Zenon, <3>1, <3>2, <3>3, <3>4
  <2>2. CASE x \notin P
    <3>1. PICK h \in a + 1 .. a + e : x = <<v, len + h>>
      BY Zenon, <1>3, <2>2 DEF Row
    <3>2. At(ws, x) = g[n + h - a]
      BY Zenon, <3>1 DEF P, Extends
    <3>3. Cardinality(Upto(Q, x)) = n + h - a
      BY Zenon, <3>1, <1>5
    <3>4. n + h - a \in 1 .. n + e
      BY <1>1
    <3> QED BY Zenon, <3>2, <3>3, <3>4
  <2> QED BY Zenon, <2>1, <2>2
<1>7. ASSUME NEW j \in 1 .. n + e
      PROVE  \E x \in Q : Cardinality(Upto(Q, x)) = j
  <2>1. CASE j <= n
    <3>0. j \in 1 .. n
      BY <1>1, <2>1
    <3>1. PICK x \in P : Cardinality(Upto(P, x)) = j
      BY Zenon, <3>0 DEF Laid, P
    <3> QED BY Zenon, <3>1, <1>4
  <2>2. CASE j > n
    <3>1. j - n + a \in a + 1 .. a + e /\ n + (j - n + a) - a = j
      BY <1>1, <2>2
    <3> QED BY Zenon, <3>1, <1>5
  <2> QED BY <1>1, <2>1, <2>2
<1>8. n + e <= Len(g)
  BY Zenon DEF P, Extends
<1> QED BY Zenon, <1>3, <1>6, <1>7, <1>8 DEF Laid, P, Q

-----------------------------------------------------------------------------
(* The record buffer.                                                      *)

\* The blocks s: a of them are no data, then come the ones of g after the
\* n-th, then others that are no data.
Run(s, a, g, n) ==
    /\ a \in Nat /\ n <= Len(g) /\ a + Len(g) - n <= Len(s)
    /\ \A h \in 1 .. Len(s) :
         IF a < h /\ h <= a + Len(g) - n THEN s[h] = g[n + h - a] ELSE s[h].t # "data"

\* How much data is in the first r blocks, and what is before it in the rest.
InFirst(a, d, r) == IF r <= a THEN 0 ELSE IF r <= a + d THEN r - a ELSE d
Leading(a, r) == IF r <= a THEN a - r ELSE 0

\* The rest of the buffer when r blocks have been written.
Rest(s, a, g, n, r) ==
    LET rest == SubSeq(s, r + 1, Len(s))
        e == InFirst(a, Len(g) - n, r)
    IN  /\ IsSeq(rest) /\ Len(rest) = IF r <= Len(s) THEN Len(s) - r ELSE 0
        /\ e \in Nat /\ n + e <= Len(g)
        /\ Run(rest, Leading(a, r), g, n + e)
        /\ a + Len(g) - n = Len(s) => Leading(a, r) + Len(g) - (n + e) = Len(rest)

\* It holds what was not written.
LEMMA RunRest ==
    ASSUME NEW s, IsSeq(s), NEW g, Len(g) \in Nat, NEW n \in Nat, NEW a, Run(s, a, g, n),
           NEW r \in Nat
    PROVE  Rest(s, a, g, n, r)
<1> DEFINE rest == SubSeq(s, r + 1, Len(s))
           e == InFirst(a, Len(g) - n, r)
           b == Leading(a, r)
<1>1. Len(s) \in Nat /\ a \in Nat /\ n <= Len(g) /\ a + Len(g) - n <= Len(s)
  BY Zenon, SeqFacts DEF Run
<1>2. /\ IsSeq(rest)
      /\ Len(rest) = IF r + 1 <= Len(s) THEN Len(s) - (r + 1) + 1 ELSE 0
      /\ \A i \in 1 .. Len(s) - (r + 1) + 1 : rest[i] = s[(r + 1) + i - 1]
  <2>1. r + 1 \in Nat /\ r + 1 >= 1 /\ Len(s) \in Nat /\ Len(s) <= Len(s)
    BY <1>1
  <2> QED BY <2>1, SubSeqIsSeq
<1>3. Len(rest) = IF r <= Len(s) THEN Len(s) - r ELSE 0
  BY <1>1, <1>2
<1> DEFINE d == Len(g) - n
<1>a. d \in Nat /\ a + d <= Len(s) /\ n + d = Len(g)
  BY <1>1
<1>b. e = InFirst(a, d, r) /\ b = Leading(a, r)
  BY Zenon
<1> HIDE DEF d, b, e, rest
<1>4. /\ e \in Nat /\ e <= d /\ b \in Nat /\ b + d - e <= Len(rest)
      /\ a + d = Len(s) => b + d - e = Len(rest)
      /\ \A h \in 1 .. Len(rest) :
           /\ (b < h /\ h <= b + d - e) <=> (a < h + r /\ h + r <= a + d)
           /\ b < h /\ h <= b + d - e => e + h - b = h + r - a
  <2>1. PICK l \in Nat : l = Len(s)
    BY Zenon, <1>1
  <2>2. PICK k : k = Len(rest)
    BY Zenon
  <2>3. k = IF r <= l THEN l - r ELSE 0
    BY Zenon, <2>1, <2>2, <1>3
  <2>4. a + d <= l
    BY Zenon, <2>1, <1>a
  <2>5. /\ e \in Nat /\ e <= d /\ b \in Nat /\ b + d - e <= k
        /\ a + d = l => b + d - e = k
        /\ \A h \in 1 .. k :
             /\ (b < h /\ h <= b + d - e) <=> (a < h + r /\ h + r <= a + d)
             /\ b < h /\ h <= b + d - e => e + h - b = h + r - a
    <3>1. CASE r <= a
      BY <1>1, <1>a, <1>b, <2>3, <2>4, <3>1 DEF InFirst, Leading
    <3>2. CASE r > a /\ r <= a + d
      BY <1>1, <1>a, <1>b, <2>3, <2>4, <3>2 DEF InFirst, Leading
    <3>3. CASE r > a + d
      BY <1>1, <1>a, <1>b, <2>3, <2>4, <3>3 DEF InFirst, Leading
    <3> QED BY <1>1, <1>a, <3>1, <3>2, <3>3
  <2> QED BY Zenon, <2>1, <2>2, <2>5
<1>6. ASSUME NEW h \in 1 .. Len(rest)
      PROVE  IF b < h /\ h <= b + d - e THEN rest[h] = g[n + e + h - b] ELSE rest[h].t # "data"
  <2>1. h + r \in 1 .. Len(s) /\ rest[h] = s[h + r]
    BY <1>1, <1>2, <1>3
  <2>2. IF a < h + r /\ h + r <= a + Len(g) - n THEN s[h + r] = g[n + (h + r) - a] ELSE s[h + r].t # "data"
    BY Zenon, <2>1 DEF Run
  <2>a. a + Len(g) - n = a + d
    BY Zenon, <1>1 DEF d
  <2>3. CASE b < h /\ h <= b + d - e
    <3>1. a < h + r /\ h + r <= a + d /\ n + (h + r) - a = n + e + h - b
      BY <1>1, <1>4, <2>3
    <3> QED BY Zenon, <2>1, <2>2, <2>a, <2>3, <3>1
  <2>4. CASE ~(b < h /\ h <= b + d - e)
    <3>1. ~(a < h + r /\ h + r <= a + d)
      BY Zenon, <1>4, <2>4
    <3> QED BY Zenon, <2>1, <2>2, <2>a, <2>4, <3>1
  <2> QED BY Zenon, <2>3, <2>4
<1>7. /\ b + Len(g) - (n + e) = b + d - e /\ n + e <= Len(g)
      /\ a + Len(g) - n = a + d
  <2>1. PICK l \in Nat : l = Len(g)
    BY Zenon
  <2>2. e \in Nat /\ e <= d /\ b \in Nat /\ d \in Nat /\ n + d = l /\ a \in Nat
    BY Zenon, <1>1, <1>4, <1>a, <2>1
  <2>3. b + l - (n + e) = b + d - e /\ n + e <= l /\ a + l - n = a + d
    BY <2>2
  <2> QED BY Zenon, <2>1, <2>3
<1>8. Run(rest, b, g, n + e)
  BY Zenon, <1>4, <1>6, <1>7 DEF Run
<1> QED BY Zenon, <1>2, <1>3, <1>4, <1>7, <1>8 DEF rest, e, b, Rest

\* Of the first r blocks of s the ones from a + 1 to a + e are data, those of
\* g after the n-th.
First(s, a, g, n, r, e) ==
    /\ e \in Nat /\ n + e <= Len(g)
    /\ {h \in 1 .. r : s[h].t = "data"} = a + 1 .. a + e
    /\ \A h \in a + 1 .. a + e : s[h] = g[n + h - a]
AllData(g) == \A i \in 1 .. Len(g) : g[i].t = "data"

\* What is in the first r blocks of s.
LEMMA RunFirst ==
    ASSUME NEW s, IsSeq(s), NEW g, Len(g) \in Nat, NEW n \in Nat, NEW a, Run(s, a, g, n),
           AllData(g), NEW r \in Nat, r <= Len(s)
    PROVE  First(s, a, g, n, r, InFirst(a, Len(g) - n, r))
<1> DEFINE e == InFirst(a, Len(g) - n, r)
           d == Len(g) - n
<1>1. Len(s) \in Nat /\ a \in Nat /\ n <= Len(g) /\ a + Len(g) - n <= Len(s)
  BY Zenon, SeqFacts DEF Run
<1>2. d \in Nat /\ a + d <= Len(s) /\ n + d = Len(g) /\ a + Len(g) - n = a + d
  BY <1>1
<1>b. e = InFirst(a, d, r)
  BY Zenon
<1> HIDE DEF e, d
<1>3. /\ e \in Nat /\ e <= d
      /\ \A h \in 1 .. r : (a < h /\ h <= a + d) <=> h \in a + 1 .. a + e
      /\ \A h \in a + 1 .. a + e : h \in 1 .. r
  <2>1. CASE r <= a
    BY <1>1, <1>2, <1>b, <2>1 DEF InFirst
  <2>2. CASE r > a /\ r <= a + d
    BY <1>1, <1>2, <1>b, <2>2 DEF InFirst
  <2>3. CASE r > a + d
    BY <1>1, <1>2, <1>b, <2>3 DEF InFirst
  <2> QED BY <1>1, <1>2, <2>1, <2>2, <2>3
<1>4. ASSUME NEW h \in 1 .. r
      PROVE  IF h \in a + 1 .. a + e THEN s[h] = g[n + h - a] /\ s[h].t = "data"
             ELSE s[h].t # "data"
  <2>1. h \in 1 .. Len(s)
    BY <1>1
  <2>2. IF a < h /\ h <= a + d THEN s[h] = g[n + h - a] ELSE s[h].t # "data"
    BY Zenon, <1>2, <2>1 DEF Run
  <2>3. CASE h \in a + 1 .. a + e
    <3>1. n + h - a \in 1 .. Len(g)
      BY <1>1, <1>2, <1>3, <2>3
    <3>2. s[h] = g[n + h - a]
      BY Zenon, <1>3, <2>2, <2>3
    <3> QED BY Zenon, <3>1, <3>2, <2>3 DEF AllData
  <2>4. CASE h \notin a + 1 .. a + e
    BY Zenon, <1>3, <2>2, <2>4
  <2> QED BY Zenon, <2>3, <2>4
<1>5. n + e <= Len(g)
  BY <1>1, <1>2, <1>3
<1>6. {h \in 1 .. r : s[h].t = "data"} = a + 1 .. a + e
  BY Zenon, <1>3, <1>4
<1>7. First(s, a, g, n, r, e)
  BY Zenon, <1>3, <1>4, <1>5, <1>6 DEF First
<1> QED BY Zenon, <1>7 DEF e

-----------------------------------------------------------------------------
(* The volumes.                                                            *)

VolumesOK(vs) ==
    /\ IsSeq(vs) /\ Len(vs) > 0
    /\ \A v \in 1 .. Len(vs) :
         /\ IsSeq(vs[v].blocks)
         /\ vs[v] = [file |-> vs[v].file, asked |-> vs[v].asked, blocks |-> vs[v].blocks]

\* ws is vs with the first r blocks of s after the len that volume v has.
More(vs, ws, v, len, s, r) ==
    /\ v \in Nat /\ len \in Nat
    /\ \A x \in Places(vs) : /\ x[1] \in Nat /\ x[2] \in Nat
                             /\ x[1] < v \/ (x[1] = v /\ x[2] <= len)
                             /\ At(ws, x) = At(vs, x)
    /\ Places(ws) = Places(vs) \cup {<<v, len + h>> : h \in {h \in 1 .. r : s[h].t = "data"}}
    /\ \A h \in 1 .. r : At(ws, <<v, len + h>>) = s[h]

\* Then what is on the volumes stays the beginning of g.
LEMMA MoreLaid ==
    ASSUME NEW vs, NEW ws, NEW v, NEW len, NEW s, IsSeq(s), NEW g, Len(g) \in Nat,
           AllData(g), Laid(vs, g),
           NEW a, Run(s, a, g, Cardinality(Places(vs))), NEW r \in Nat, r <= Len(s),
           More(vs, ws, v, len, s, r)
    PROVE  /\ Laid(ws, g)
           /\ Cardinality(Places(ws)) =
                Cardinality(Places(vs)) + InFirst(a, Len(g) - Cardinality(Places(vs)), r)
<1> DEFINE n == Cardinality(Places(vs))
           e == InFirst(a, Len(g) - n, r)
<1>1. n \in Nat /\ a \in Nat
  BY Zenon, FS_CardinalityType DEF Laid, Run
<1>2. First(s, a, g, n, r, e)
  BY Zenon, <1>1, RunFirst
<1> HIDE DEF e
<1>3. e \in Nat
  BY Zenon, <1>2 DEF First
<1>4. Places(ws) = Places(vs) \cup Row(v, len, a, a + e)
  BY Zenon, <1>2 DEF More, Row, First
<1>5. \A h \in a + 1 .. a + e : At(ws, <<v, len + h>>) = g[n + h - a]
  <2> SUFFICES ASSUME NEW h \in a + 1 .. a + e PROVE At(ws, <<v, len + h>>) = g[n + h - a]
    BY Zenon
  <2>1. h \in 1 .. r
    BY Zenon, <1>2 DEF First
  <2> QED BY Zenon, <1>2, <2>1 DEF More, First
<1>6. Extends(vs, ws, v, len, a, e, g)
  BY Zenon, <1>2, <1>4, <1>5 DEF More, First, Extends
<1>7. Laid(ws, g) /\ Cardinality(Places(ws)) = n + e
  BY <1>1, <1>3, <1>6, Extension
<1> QED BY Zenon, <1>7 DEF e

\* The places are on the volumes.
LEMMA PlacesBound ==
    ASSUME NEW vs, VolumesOK(vs)
    PROVE  \A x \in Places(vs) : /\ x = <<x[1], x[2]>> /\ x[1] \in 1 .. Len(vs)
                                 /\ x[2] \in 1 .. Len(vs[x[1]].blocks)
<1> SUFFICES ASSUME NEW x \in Places(vs)
             PROVE  /\ x = <<x[1], x[2]>> /\ x[1] \in 1 .. Len(vs)
                    /\ x[2] \in 1 .. Len(vs[x[1]].blocks)
  BY Zenon
<1>1. PICK v, i : IsPlace(vs, v, i) /\ x = <<v, i>>
  BY Zenon, PlacesMember
<1>2. v \in DOMAIN vs /\ i \in DOMAIN vs[v].blocks /\ x = <<v, i>>
  BY Zenon, <1>1 DEF IsPlace
<1>3. v \in 1 .. Len(vs)
  BY Zenon, <1>2, SeqFacts DEF VolumesOK
<1>4. i \in 1 .. Len(vs[v].blocks)
  BY Zenon, <1>2, <1>3, SeqFacts DEF VolumesOK
<1> QED BY Zenon, <1>2, <1>3, <1>4

\* b is the first r blocks of s.
IsFirst(b, s, r) == IsSeq(b) /\ Len(b) = r /\ \A i \in 1 .. r : b[i] = s[i]

\* The volumes after a write, and with one more.
WithMore(vs, b) == [vs EXCEPT ![Len(vs)].blocks = @ \o b]
IsWithMore(vs, b, ws) == ws = WithMore(vs, b)
IsWithNew(vs, w, ws) == ws = Append(vs, w)

\* Blocks written at the end of the last volume.
LEMMA WritesMore ==
    ASSUME NEW vs, VolumesOK(vs), NEW s, NEW r \in Nat, NEW b, IsFirst(b, s, r),
           NEW ws, IsWithMore(vs, b, ws)
    PROVE  /\ VolumesOK(ws) /\ Len(ws) = Len(vs)
           /\ Len(ws[Len(ws)].blocks) = Len(vs[Len(vs)].blocks) + r
           /\ More(vs, ws, Len(vs), Len(vs[Len(vs)].blocks), s, r)
<1> DEFINE v == Len(vs)
           old == vs[v].blocks
           len == Len(old)
<1>1. v \in Nat /\ v > 0 /\ DOMAIN vs = 1 .. v /\ v \in 1 .. v
  BY SeqFacts DEF VolumesOK
<1>2. IsSeq(old) /\ vs[v] = [file |-> vs[v].file, asked |-> vs[v].asked, blocks |-> old]
  BY Zenon, <1>1 DEF VolumesOK
<1>3. len \in Nat /\ DOMAIN old = 1 .. len
  BY Zenon, <1>2, SeqFacts
<1>4. IsSeq(b) /\ Len(b) = r /\ \A i \in 1 .. r : b[i] = s[i]
  BY Zenon DEF IsFirst
<1> DEFINE new == old \o b
           w == [file |-> vs[v].file, asked |-> vs[v].asked, blocks |-> new]
<1>5. /\ IsSeq(new) /\ Len(new) = len + r
      /\ \A i \in 1 .. len : new[i] = old[i]
      /\ \A i \in 1 .. r : new[len + i] = s[i]
  <2>1. Joined(old, b, new)
    BY Zenon, <1>2, <1>4, ConcatIsSeq
  <2> HIDE DEF old, new
  <2> QED BY Zenon, <1>4, <2>1 DEF Joined
<1>6. DOMAIN new = 1 .. len + r
  BY Zenon, <1>5, SeqFacts
<1> HIDE DEF old, new, len
<1>7. ws = [vs EXCEPT ![v] = w]
  <2>1. ws = [vs EXCEPT ![v] = [vs[v] EXCEPT !.blocks = new]]
    BY Zenon DEF new, old, IsWithMore, WithMore
  <2>2. [vs[v] EXCEPT !.blocks = new] = w
    BY <1>2
  <2> QED BY Zenon, <2>1, <2>2
<1> HIDE DEF w
<1>8. /\ IsSeq(ws) /\ Len(ws) = v /\ ws[v] = w
      /\ \A i \in 1 .. v : i # v => ws[i] = vs[i]
  <2>1. IsSeq(vs) /\ v \in 1 .. Len(vs)
    BY Zenon, <1>1 DEF VolumesOK
  <2>2. Replaced(vs, v, w, ws)
    BY Zenon, <1>7, <2>1, ExceptIsSeq
  <2> QED BY Zenon, <2>2 DEF Replaced
<1>9. DOMAIN ws = 1 .. v
  BY Zenon, <1>8, SeqFacts
<1>a. w.blocks = new /\ w = [file |-> w.file, asked |-> w.asked, blocks |-> w.blocks]
  BY Zenon DEF w
<1>b. VolumesOK(ws)
  BY Zenon, <1>1, <1>5, <1>8, <1>a DEF VolumesOK
<1>c. \A x \in Places(vs) : /\ x = <<x[1], x[2]>> /\ x[1] \in 1 .. v
                            /\ x[2] \in 1 .. Len(vs[x[1]].blocks)
  BY Zenon, PlacesBound
<1>d. ASSUME NEW x \in Places(vs)
      PROVE  /\ x[1] \in Nat /\ x[2] \in Nat
             /\ x[1] < v \/ (x[1] = v /\ x[2] <= len)
             /\ At(ws, x) = At(vs, x)
  <2>1. CASE x[1] = v
    <3>1. x[2] \in 1 .. len
      BY Zenon, <1>c, <2>1 DEF old, len
    <3>2. ws[v].blocks[x[2]] = vs[v].blocks[x[2]]
      BY Zenon, <3>1, <1>5, <1>8, <1>a DEF old
    <3> QED BY <1>1, <1>3, <2>1, <3>1, <3>2 DEF At
  <2>2. CASE x[1] # v
    <3>1. x[1] < v /\ x[1] \in 1 .. v /\ x[1] \in Nat
      BY <1>1, <1>c, <2>2
    <3>2. x[2] \in Nat
      BY <3>1, <1>c, SeqFacts DEF VolumesOK
    <3>3. ws[x[1]] = vs[x[1]]
      BY Zenon, <1>8, <2>2, <3>1
    <3> QED BY Zenon, <3>1, <3>2, <3>3 DEF At
  <2> QED BY Zenon, <2>1, <2>2
<1>e. \A h \in 1 .. r : At(ws, <<v, len + h>>) = s[h]
  BY Zenon, <1>5, <1>8, <1>a DEF At
<1> DEFINE added == {<<v, len + h>> : h \in {h \in 1 .. r : s[h].t = "data"}}
<1>f. ASSUME NEW x \in Places(ws)
      PROVE  x \in Places(vs) \cup added
  <2>1. PICK u, i : IsPlace(ws, u, i) /\ x = <<u, i>>
    BY Zenon, PlacesMember
  <2>2. /\ u \in DOMAIN ws /\ i \in DOMAIN ws[u].blocks
        /\ ws[u].blocks[i].t = "data" /\ x = <<u, i>>
    BY Zenon, <2>1 DEF IsPlace
  <2>3. CASE u # v
    <3>1. u \in DOMAIN vs /\ ws[u] = vs[u]
      BY Zenon, <1>1, <1>8, <1>9, <2>2, <2>3
    <3> QED BY Zenon, <2>2, <3>1, MemberOfPlaces DEF IsPlace
  <2>4. CASE u = v
    <3>1. i \in 1 .. len + r /\ new[i].t = "data"
      BY Zenon, <1>6, <1>8, <1>a, <2>2, <2>4
    <3>2. CASE i <= len
      <4>1. i \in 1 .. len
        BY <1>3, <3>1, <3>2
      <4>2. v \in DOMAIN vs /\ i \in DOMAIN vs[v].blocks /\ vs[v].blocks[i].t = "data"
        BY Zenon, <4>1, <1>1, <1>3, <1>5, <3>1 DEF old
      <4> QED BY Zenon, <4>2, <2>2, <2>4, MemberOfPlaces DEF IsPlace
    <3>3. CASE i > len
      <4>1. i - len \in 1 .. r /\ len + (i - len) = i
        BY <1>3, <3>1, <3>3
      <4>2. s[i - len].t = "data"
        BY Zenon, <4>1, <1>5, <3>1
      <4> QED BY Zenon, <4>1, <4>2, <2>2, <2>4
    <3> QED BY <1>3, <3>1, <3>2, <3>3
  <2> QED BY Zenon, <2>3, <2>4
<1>g. ASSUME NEW x \in Places(vs)
      PROVE  x \in Places(ws)
  <2>1. PICK u, i : IsPlace(vs, u, i) /\ x = <<u, i>>
    BY Zenon, PlacesMember
  <2>2. /\ u \in DOMAIN vs /\ i \in DOMAIN vs[u].blocks
        /\ vs[u].blocks[i].t = "data" /\ x = <<u, i>>
    BY Zenon, <2>1 DEF IsPlace
  <2>3. CASE u # v
    <3>1. u \in DOMAIN ws /\ ws[u] = vs[u]
      BY Zenon, <1>1, <1>8, <1>9, <2>2, <2>3
    <3> QED BY Zenon, <2>2, <3>1, MemberOfPlaces DEF IsPlace
  <2>4. CASE u = v
    <3>1. i \in 1 .. len /\ new[i] = old[i]
      BY Zenon, <1>3, <1>5, <2>2, <2>4 DEF old
    <3>2. i \in 1 .. len + r
      BY <1>3, <3>1
    <3>3. u \in DOMAIN ws /\ i \in DOMAIN ws[u].blocks /\ ws[u].blocks[i].t = "data"
      BY Zenon, <1>1, <1>6, <1>8, <1>9, <1>a, <2>2, <2>4, <3>1, <3>2 DEF old
    <3> QED BY Zenon, <2>2, <3>3, MemberOfPlaces DEF IsPlace
  <2> QED BY Zenon, <2>3, <2>4
<1>h. ASSUME NEW h \in 1 .. r, s[h].t = "data"
      PROVE  <<v, len + h>> \in Places(ws)
  <2>1. len + h \in 1 .. len + r
    BY <1>3
  <2>2. v \in DOMAIN ws /\ len + h \in DOMAIN ws[v].blocks /\ ws[v].blocks[len + h].t = "data"
    BY Zenon, <2>1, <1>1, <1>5, <1>6, <1>8, <1>9, <1>a, <1>h
  <2> QED BY Zenon, <2>2, MemberOfPlaces DEF IsPlace
<1>i. Places(ws) = Places(vs) \cup added
  BY Zenon, <1>f, <1>g, <1>h
<1>j. More(vs, ws, v, len, s, r)
  BY Zenon, <1>1, <1>3, <1>d, <1>e, <1>i DEF More
<1>k. Len(ws[Len(ws)].blocks) = len + r
  BY Zenon, <1>5, <1>8, <1>a
<1> QED BY Zenon, <1>8, <1>b, <1>j, <1>k DEF len, old

\* Blocks written on a new volume.
LEMMA AppendMore ==
    ASSUME NEW vs, VolumesOK(vs), NEW s, NEW r \in Nat, NEW b, IsFirst(b, s, r),
           NEW w, w = [file |-> w.file, asked |-> w.asked, blocks |-> b],
           NEW ws, IsWithNew(vs, w, ws)
    PROVE  /\ VolumesOK(ws) /\ Len(ws) = Len(vs) + 1
           /\ Len(ws[Len(ws)].blocks) = r
           /\ More(vs, ws, Len(vs) + 1, 0, s, r)
<1> DEFINE v == Len(vs) + 1
<1>1. Len(vs) \in Nat /\ v \in Nat /\ v > 0 /\ DOMAIN vs = 1 .. Len(vs) /\ v \in 1 .. v
  BY SeqFacts DEF VolumesOK
<1>4. IsSeq(b) /\ Len(b) = r /\ \A i \in 1 .. r : b[i] = s[i]
  BY Zenon DEF IsFirst
<1>5. w.blocks = b /\ w = [file |-> w.file, asked |-> w.asked, blocks |-> w.blocks]
  OBVIOUS
<1>6. DOMAIN b = 1 .. r
  BY Zenon, <1>4, SeqFacts
<1>8. /\ IsSeq(ws) /\ Len(ws) = v /\ ws[v] = w
      /\ \A i \in 1 .. Len(vs) : ws[i] = vs[i]
  BY <1>1, AppendIsSeq DEF VolumesOK, IsWithNew
<1>9. DOMAIN ws = 1 .. v
  BY Zenon, <1>8, SeqFacts
<1>b. VolumesOK(ws)
  <2>1. ASSUME NEW u \in 1 .. v
        PROVE  /\ IsSeq(ws[u].blocks)
               /\ ws[u] = [file |-> ws[u].file, asked |-> ws[u].asked, blocks |-> ws[u].blocks]
    <3>1. CASE u = v
      BY Zenon, <1>4, <1>5, <1>8, <3>1
    <3>2. CASE u # v
      <4>1. u \in 1 .. Len(vs)
        BY <1>1, <3>2
      <4> QED BY Zenon, <4>1, <1>8 DEF VolumesOK
    <3> QED BY Zenon, <3>1, <3>2
  <2> QED BY Zenon, <1>1, <1>8, <2>1 DEF VolumesOK
<1>c. \A x \in Places(vs) : /\ x = <<x[1], x[2]>> /\ x[1] \in 1 .. Len(vs)
                            /\ x[2] \in 1 .. Len(vs[x[1]].blocks)
  BY Zenon, PlacesBound
<1>d. ASSUME NEW x \in Places(vs)
      PROVE  /\ x[1] \in Nat /\ x[2] \in Nat /\ x[1] < v /\ At(ws, x) = At(vs, x)
  <2>1. x[1] < v /\ x[1] \in 1 .. Len(vs) /\ x[1] \in Nat
    BY <1>1, <1>c
  <2>2. x[2] \in Nat
    BY <2>1, <1>c, SeqFacts DEF VolumesOK
  <2> QED BY Zenon, <1>8, <2>1, <2>2 DEF At
<1>e. \A h \in 1 .. r : At(ws, <<v, 0 + h>>) = s[h]
  BY <1>4, <1>5, <1>8 DEF At
<1> DEFINE added == {<<v, 0 + h>> : h \in {h \in 1 .. r : s[h].t = "data"}}
<1>f. ASSUME NEW x \in Places(ws)
      PROVE  x \in Places(vs) \cup added
  <2>1. PICK u, i : IsPlace(ws, u, i) /\ x = <<u, i>>
    BY Zenon, PlacesMember
  <2>2. /\ u \in DOMAIN ws /\ i \in DOMAIN ws[u].blocks
        /\ ws[u].blocks[i].t = "data" /\ x = <<u, i>>
    BY Zenon, <2>1 DEF IsPlace
  <2>3. CASE u # v
    <3>1. u \in DOMAIN vs /\ ws[u] = vs[u]
      BY <1>1, <1>8, <1>9, <2>2, <2>3
    <3> QED BY Zenon, <2>2, <3>1, MemberOfPlaces DEF IsPlace
  <2>4. CASE u = v
    <3>1. i \in 1 .. r /\ s[i].t = "data" /\ 0 + i = i
      BY <1>4, <1>5, <1>6, <1>8, <2>2, <2>4
    <3> QED BY Zenon, <2>2, <2>4, <3>1
  <2> QED BY Zenon, <2>3, <2>4
<1>g. ASSUME NEW x \in Places(vs)
      PROVE  x \in Places(ws)
  <2>1. PICK u, i : IsPlace(vs, u, i) /\ x = <<u, i>>
    BY Zenon, PlacesMember
  <2>2. u \in DOMAIN ws /\ ws[u] = vs[u]
    BY <1>1, <1>8, <1>9, <2>1 DEF IsPlace
  <2> QED BY Zenon, <2>1, <2>2, MemberOfPlaces DEF IsPlace
<1>h. ASSUME NEW h \in 1 .. r, s[h].t = "data"
      PROVE  <<v, 0 + h>> \in Places(ws)
  <2>1. 0 + h = h /\ v \in DOMAIN ws /\ h \in DOMAIN ws[v].blocks /\ ws[v].blocks[h].t = "data"
    BY <1>1, <1>4, <1>5, <1>6, <1>8, <1>9, <1>h
  <2> QED BY Zenon, <2>1, MemberOfPlaces DEF IsPlace
<1>i. Places(ws) = Places(vs) \cup added
  BY Zenon, <1>f, <1>g, <1>h
<1>j. More(vs, ws, v, 0, s, r)
  BY Zenon, <1>1, <1>d, <1>e, <1>i DEF More
<1> QED BY Zenon, <1>4, <1>5, <1>8, <1>b, <1>j

\* SubSeq takes the first blocks.
LEMMA SubSeqIsFirst ==
    ASSUME NEW s, IsSeq(s), NEW r \in Nat, r <= Len(s)
    PROVE  IsFirst(SubSeq(s, 1, r), s, r)
<1> DEFINE b == SubSeq(s, 1, r)
<1>1. 1 \in Nat /\ 1 >= 1
  OBVIOUS
<1>2. /\ IsSeq(b) /\ Len(b) = IF 1 <= r THEN r - 1 + 1 ELSE 0
      /\ \A i \in 1 .. r - 1 + 1 : b[i] = s[1 + i - 1]
  BY <1>1, SubSeqIsSeq
<1> HIDE DEF b
<1>3. IsFirst(b, s, r)
  BY <1>2 DEF IsFirst
<1> QED BY Zenon, <1>3 DEF b

-----------------------------------------------------------------------------
(* The inductive invariant.                                                *)

N(vs) == Cardinality(Places(vs))

\* The buffer holds what was given and is not yet on the volumes.
Buffered(s, vs, g, e) ==
    \E a \in Nat : Run(s, a, g, N(vs)) /\ (e = 0 => a + Len(g) - N(vs) = Len(s))

\* What is on the current volume fits on its medium.
Fits(vs) == Len(vs) <= Len(inp.room) => Len(vs[Len(vs)].blocks) <= inp.room[Len(vs)]

TInv ==
    /\ inp \in Inputs
    /\ IsSeq(given) /\ AllData(given)
    /\ eot \in 0 .. 2 /\ (eot > 0 => AllGiven)
    /\ IsSeq(buf) /\ Len(buf) <= inp.bf
    /\ VolumesOK(vols) /\ (phase = "write" => Fits(vols))
    /\ Laid(vols, given)
    /\ Buffered(buf, vols, given, eot)

\* The input.
LEMMA InputFacts ==
    ASSUME inp \in Inputs
    PROVE  /\ inp.bf \in Nat /\ inp.bf > 0 /\ IsSeq(inp.room) /\ Len(inp.room) \in Nat
           /\ \A i \in 1 .. Len(inp.room) : inp.room[i] \in Nat
<1>1. inp.bf \in Nat \ {0} /\ inp.room \in Seq(Nat)
  BY Zenon, InputsAssumption
<1>2. IsSeq(inp.room)
  BY Zenon, <1>1, ToItsRange
<1> QED BY <1>1, <1>2, LenProperties

\* Blocks that are no data, before the ones of the buffer or after them.
LEMMA RunAround ==
    ASSUME NEW s, IsSeq(s), NEW t, IsSeq(t), NEW g, Len(g) \in Nat, NEW n \in Nat, NEW a
    PROVE  /\ Run(s, a, g, n) /\ (\A i \in 1 .. Len(t) : t[i].t # "data") => Run(s \o t, a, g, n)
           /\ Run(s, a, g, n) /\ (\A i \in 1 .. Len(t) : t[i].t # "data") => Run(t \o s, Len(t) + a, g, n)
<1> SUFFICES ASSUME Run(s, a, g, n), \A i \in 1 .. Len(t) : t[i].t # "data"
             PROVE  Run(s \o t, a, g, n) /\ Run(t \o s, Len(t) + a, g, n)
  BY Zenon
<1>1. Len(s) \in Nat /\ Len(t) \in Nat /\ a \in Nat /\ n <= Len(g) /\ a + Len(g) - n <= Len(s)
  BY Zenon, SeqFacts DEF Run
<1>2. \A h \in 1 .. Len(s) :
        IF a < h /\ h <= a + Len(g) - n THEN s[h] = g[n + h - a] ELSE s[h].t # "data"
  BY Zenon DEF Run
<1>3. Run(s \o t, a, g, n)
  <2> DEFINE r == s \o t
  <2>1. Joined(s, t, r)
    BY Zenon, ConcatIsSeq
  <2> HIDE DEF r
  <2>2. ASSUME NEW h \in 1 .. Len(r)
        PROVE  IF a < h /\ h <= a + Len(g) - n THEN r[h] = g[n + h - a] ELSE r[h].t # "data"
    <3>1. CASE h \in 1 .. Len(s)
      BY Zenon, <1>2, <2>1, <3>1 DEF Joined
    <3>2. CASE h \notin 1 .. Len(s)
      <4>1. h - Len(s) \in 1 .. Len(t) /\ Len(s) + (h - Len(s)) = h /\ ~(h <= a + Len(g) - n)
        BY <1>1, <2>1, <3>2 DEF Joined
      <4>2. r[h] = t[h - Len(s)]
        BY Zenon, <2>1, <4>1 DEF Joined
      <4> QED BY Zenon, <4>1, <4>2
    <3> QED BY Zenon, <3>1, <3>2
  <2>3. a + Len(g) - n <= Len(r)
    BY <1>1, <2>1 DEF Joined
  <2>4. Run(r, a, g, n)
    BY Zenon, <1>1, <2>2, <2>3 DEF Run
  <2> QED BY Zenon, <2>4 DEF r
<1>4. Run(t \o s, Len(t) + a, g, n)
  <2> DEFINE r == t \o s
             b == Len(t) + a
  <2>1. Joined(t, s, r)
    BY Zenon, ConcatIsSeq
  <2> HIDE DEF r
  <2>2. ASSUME NEW h \in 1 .. Len(r)
        PROVE  IF b < h /\ h <= b + Len(g) - n THEN r[h] = g[n + h - b] ELSE r[h].t # "data"
    <3>1. CASE h \in 1 .. Len(t)
      <4>1. r[h] = t[h] /\ ~(b < h)
        BY <1>1, <2>1, <3>1 DEF Joined
      <4> QED BY Zenon, <3>1, <4>1
    <3>2. CASE h \notin 1 .. Len(t)
      <4> DEFINE j == h - Len(t)
      <4>1. /\ j \in 1 .. Len(s) /\ Len(t) + j = h /\ n + h - b = n + j - a
            /\ (b < h /\ h <= b + Len(g) - n) <=> (a < j /\ j <= a + Len(g) - n)
        BY <1>1, <2>1, <3>2 DEF Joined
      <4> HIDE DEF j
      <4>2. r[h] = s[j]
        BY Zenon, <2>1, <4>1 DEF Joined
      <4>3. IF a < j /\ j <= a + Len(g) - n THEN s[j] = g[n + j - a] ELSE s[j].t # "data"
        BY Zenon, <1>2, <4>1
      <4> HIDE DEF b
      <4> QED BY Zenon, <4>1, <4>2, <4>3
    <3> QED BY Zenon, <3>1, <3>2
  <2>3. b \in Nat /\ b + Len(g) - n <= Len(r)
    BY <1>1, <2>1 DEF Joined
  <2>4. Run(r, b, g, n)
    BY Zenon, <1>1, <2>2, <2>3 DEF Run
  <2> QED BY Zenon, <2>4 DEF r
<1> QED BY Zenon, <1>3, <1>4

\* A record: the buffer and zero blocks up to bf.
LEMMA RecordFacts ==
    ASSUME inp \in Inputs, NEW s, IsSeq(s), Len(s) <= inp.bf
    PROVE  /\ IsSeq(Record(s)) /\ Len(Record(s)) = inp.bf
           /\ \A g, n, a : /\ Len(g) \in Nat /\ n \in Nat /\ Run(s, a, g, n)
                           => Run(Record(s), a, g, n)
<1> DEFINE t == [j \in 1 .. inp.bf - Len(s) |-> Zero]
<1>1. inp.bf \in Nat /\ Len(s) \in Nat
  BY Zenon, InputFacts, SeqFacts
<1>2. inp.bf - Len(s) \in Nat
  BY <1>1
<1>3. /\ IsSeq(t) /\ Len(t) = inp.bf - Len(s)
      /\ \A i \in 1 .. Len(t) : t[i].t # "data"
  <2>1. PICK k \in Nat : k = inp.bf - Len(s)
    BY Zenon, <1>2
  <2>2. t \in [1 .. k -> {Zero}] /\ t = [j \in 1 .. k |-> Zero]
    BY Zenon, <2>1
  <2> HIDE DEF t
  <2>3. t \in Seq({Zero}) /\ Len(t) = k
    BY <2>1, <2>2
  <2>4. \A i \in 1 .. k : t[i] = Zero
    BY Zenon, <2>2
  <2>5. Zero.t # "data"
    BY Zenon DEF Zero
  <2> QED BY Zenon, <2>1, <2>3, <2>4, <2>5, ToItsRange
<1> HIDE DEF t
<1>4. Record(s) = s \o t
  BY Zenon DEF Record, t
<1>5. Joined(s, t, Record(s))
  BY Zenon, <1>3, <1>4, ConcatIsSeq
<1>6. Len(Record(s)) = inp.bf
  BY <1>1, <1>3, <1>5 DEF Joined
<1>7. ASSUME NEW g, NEW n, NEW a, Len(g) \in Nat, n \in Nat, Run(s, a, g, n)
      PROVE  Run(Record(s), a, g, n)
  BY Zenon, <1>3, <1>4, <1>7, RunAround
<1> QED BY Zenon, <1>5, <1>6, <1>7 DEF Joined

\* How much data the first r blocks hold.
LEMMA InFirstFacts ==
    ASSUME NEW a \in Nat, NEW d \in Nat, NEW r \in Nat
    PROVE  InFirst(a, d, r) \in Nat /\ (a + d <= r => InFirst(a, d, r) = d)
BY DEF InFirst

\* Nothing is left of an empty buffer.
LEMMA RunNothing == ASSUME NEW g, Len(g) \in Nat PROVE Run(<<>>, 0, g, Len(g))
BY ShortIsSeq DEF Run

\* A block of data is given.
LEMMA RunPut ==
    ASSUME NEW s, IsSeq(s), NEW g, IsSeq(g), NEW n \in Nat, NEW a \in Nat, Run(s, a, g, n),
           a + Len(g) - n = Len(s), NEW b
    PROVE  /\ Run(Append(s, b), a, Append(g, b), n)
           /\ a + Len(Append(g, b)) - n = Len(Append(s, b))
<1>1. PICK s2 : s2 = Append(s, b)
  BY Zenon
<1>2. PICK g2 : g2 = Append(g, b)
  BY Zenon
<1>3. /\ Len(s2) = Len(s) + 1 /\ s2[Len(s) + 1] = b
      /\ \A i \in 1 .. Len(s) : s2[i] = s[i]
  BY Zenon, <1>1, AppendIsSeq
<1>4. /\ Len(g2) = Len(g) + 1 /\ g2[Len(g) + 1] = b
      /\ \A i \in 1 .. Len(g) : g2[i] = g[i]
  BY Zenon, <1>2, AppendIsSeq
<1>5. Len(s) \in Nat /\ Len(g) \in Nat /\ n <= Len(g)
  BY Zenon, SeqFacts DEF Run
<1>6. a + Len(g2) - n = Len(s) + 1
  BY <1>4, <1>5
<1>7. ASSUME NEW h \in 1 .. Len(s2)
      PROVE  IF a < h /\ h <= a + Len(g2) - n THEN s2[h] = g2[n + h - a] ELSE s2[h].t # "data"
  <2>1. CASE h = Len(s) + 1
    <3>1. n + h - a = Len(g) + 1
      BY <1>5, <2>1
    <3>2. a < h
      BY <1>5, <2>1
    <3>3. h <= a + Len(g2) - n
      BY <1>5, <1>6, <2>1
    <3>4. s2[h] = b /\ g2[n + h - a] = b
      BY Zenon, <1>3, <1>4, <2>1, <3>1
    <3> QED BY Zenon, <3>2, <3>3, <3>4
  <2>2. CASE h # Len(s) + 1
    <3>1. h \in 1 .. Len(s)
      BY <1>3, <1>5, <2>2
    <3>2. IF a < h /\ h <= a + Len(g) - n THEN s[h] = g[n + h - a] ELSE s[h].t # "data"
      BY Zenon, <3>1 DEF Run
    <3>3. h <= a + Len(g) - n /\ h <= a + Len(g2) - n
      BY <1>5, <1>6, <3>1
    <3>4. a < h => n + h - a \in 1 .. Len(g)
      BY <1>5, <3>1
    <3> QED BY Zenon, <1>3, <1>4, <3>1, <3>2, <3>3, <3>4
  <2> QED BY Zenon, <2>1, <2>2
<1>8. n <= Len(g2) /\ a + Len(g2) - n <= Len(s2) /\ a + Len(g2) - n = Len(s2)
  BY <1>3, <1>4, <1>5, <1>6
<1>9. Run(s2, a, g2, n)
  BY Zenon, <1>7, <1>8 DEF Run
<1> QED BY Zenon, <1>1, <1>2, <1>8, <1>9

\* A block that is no data is given.
LEMMA RunZero ==
    ASSUME NEW s, IsSeq(s), NEW g, Len(g) \in Nat, NEW n \in Nat, NEW a \in Nat, Run(s, a, g, n),
           NEW b, b.t # "data"
    PROVE  Run(Append(s, b), a, g, n)
<1>1. PICK s2 : s2 = Append(s, b)
  BY Zenon
<1>2. /\ Len(s2) = Len(s) + 1 /\ s2[Len(s) + 1] = b
      /\ \A i \in 1 .. Len(s) : s2[i] = s[i]
  BY <1>1, AppendIsSeq
<1>3. Len(s) \in Nat /\ n <= Len(g) /\ a + Len(g) - n <= Len(s)
  BY Zenon, SeqFacts DEF Run
<1>4. ASSUME NEW h \in 1 .. Len(s2)
      PROVE  IF a < h /\ h <= a + Len(g) - n THEN s2[h] = g[n + h - a] ELSE s2[h].t # "data"
  <2>1. CASE h = Len(s) + 1
    <3>1. ~(h <= a + Len(g) - n)
      BY <1>3, <2>1
    <3> QED BY Zenon, <1>2, <2>1, <3>1
  <2>2. CASE h # Len(s) + 1
    <3>1. h \in 1 .. Len(s)
      BY <1>2, <1>3, <2>2
    <3> QED BY Zenon, <1>2, <3>1 DEF Run
  <2> QED BY Zenon, <2>1, <2>2
<1>5. a + Len(g) - n <= Len(s2)
  BY <1>2, <1>3
<1>6. Run(s2, a, g, n)
  BY Zenon, <1>3, <1>4, <1>5 DEF Run
<1> QED BY Zenon, <1>1, <1>6

-----------------------------------------------------------------------------
(* The steps.                                                              *)

\* Initially nothing is written, and the buffer has at most a label.
LEMMA InitT == ASSUME Init PROVE TInv /\ N(vols) = 0
<1>1. inp \in Inputs /\ given = <<>> /\ eot = 0 /\ phase = "write"
      /\ vols = <<[file |-> 1, asked |-> FALSE, blocks |-> <<>>]>>
      /\ buf = IF inp.label THEN <<Label(1)>> ELSE <<>>
  BY Zenon DEF Init
<1>2. /\ IsSeq(vols) /\ Len(vols) = 1 /\ vols[1] = [file |-> 1, asked |-> FALSE, blocks |-> <<>>]
      /\ DOMAIN vols = 1 .. 1
  BY Zenon, <1>1, ShortIsSeq, SeqFacts
<1>3. VolumesOK(vols) /\ vols[1].blocks = <<>> /\ Len(vols[1].blocks) = 0
  BY <1>2, ShortIsSeq DEF VolumesOK
<1>4. Places(vols) = {}
  <2>1. \A v, i : ~IsPlace(vols, v, i)
    BY <1>2, <1>3, ShortIsSeq DEF IsPlace
  <2> QED BY Zenon, <2>1, PlacesMember
<1>5. IsFiniteSet({}) /\ Cardinality({}) = 0
  BY Zenon, FS_EmptySet
<1>6. N(vols) = 0
  BY Zenon, <1>4, <1>5 DEF N
<1>7. IsSeq(given) /\ Len(given) = 0 /\ AllData(given)
  BY <1>1, ShortIsSeq DEF AllData
<1>8. Laid(vols, given)
  BY <1>4, <1>5, <1>7 DEF Laid
<1>9. /\ IsSeq(buf) /\ Len(buf) \in 0 .. 1 /\ \A h \in 1 .. Len(buf) : buf[h].t # "data"
  <2>1. Label(1).t # "data"
    BY Zenon DEF Label
  <2>2. CASE buf = <<>>
    BY <2>2, ShortIsSeq
  <2>3. CASE buf = <<Label(1)>>
    <3>1. IsSeq(buf) /\ Len(buf) = 1 /\ buf[1] = Label(1)
      BY Zenon, <2>3, ShortIsSeq
    <3> QED BY <2>1, <3>1
  <2> QED BY Zenon, <1>1, <2>2, <2>3
<1>10. Run(buf, Len(buf), given, 0)
  BY <1>7, <1>9 DEF Run
<1>11. Buffered(buf, vols, given, eot)
  <2>1. Len(buf) \in Nat /\ Len(buf) + Len(given) - N(vols) = Len(buf)
    BY <1>6, <1>7, <1>9
  <2> QED BY Zenon, <1>6, <1>10, <2>1 DEF Buffered
<1>12. Fits(vols)
  BY <1>1, <1>2, <1>3, InputFacts DEF Fits
<1>13. Len(buf) <= inp.bf
  BY <1>1, <1>9, InputFacts
<1>14. eot \in 0 .. 2 /\ ~(eot > 0)
  BY <1>1
<1> QED BY Zenon, <1>1, <1>3, <1>6, <1>7, <1>8, <1>9, <1>11, <1>12, <1>13, <1>14 DEF TInv

\* A block is given.
LEMMA PutBlockT == ASSUME TInv, PutBlock PROVE TInv'
<1>1. PICK b : b = NextBlock
  BY Zenon
<1>2. /\ phase = "write" /\ ~AllGiven /\ Len(buf) < inp.bf
      /\ given' = Append(given, b) /\ buf' = Append(buf, b)
      /\ inp' = inp /\ eot' = eot /\ vols' = vols /\ phase' = phase
  BY Zenon, <1>1 DEF PutBlock
<1>3. b.t = "data"
  BY Zenon, <1>1 DEF NextBlock, Block
<1>4. /\ IsSeq(given) /\ AllData(given) /\ IsSeq(buf) /\ eot = 0 /\ Laid(vols, given)
      /\ VolumesOK(vols) /\ Fits(vols) /\ inp \in Inputs
  BY <1>2 DEF TInv
<1>5. PICK a \in Nat : Run(buf, a, given, N(vols)) /\ a + Len(given) - N(vols) = Len(buf)
  BY Zenon, <1>4 DEF TInv, Buffered
<1>6. PICK n \in Nat : n = N(vols)
  BY Zenon, <1>4, FS_CardinalityType DEF Laid, N
<1>7. Len(given) \in Nat /\ Len(buf) \in Nat /\ n <= Len(given)
  BY Zenon, <1>4, <1>5, <1>6, SeqFacts DEF Run
<1>8. /\ IsSeq(given') /\ Len(given') = Len(given) + 1 /\ given'[Len(given) + 1] = b
      /\ \A i \in 1 .. Len(given) : given'[i] = given[i]
  BY Zenon, <1>2, <1>4, AppendIsSeq
<1>9. /\ IsSeq(buf') /\ Len(buf') = Len(buf) + 1 /\ buf'[Len(buf) + 1] = b
      /\ \A i \in 1 .. Len(buf) : buf'[i] = buf[i]
  BY Zenon, <1>2, <1>4, AppendIsSeq
<1>10. AllData(given')
  <2>1. ASSUME NEW i \in 1 .. Len(given') PROVE given'[i].t = "data"
    <3>1. CASE i = Len(given) + 1
      BY Zenon, <1>3, <1>8, <3>1
    <3>2. CASE i # Len(given) + 1
      <4>1. i \in 1 .. Len(given)
        BY <1>7, <1>8, <3>2
      <4> QED BY Zenon, <1>4, <1>8, <4>1 DEF AllData
    <3> QED BY Zenon, <3>1, <3>2
  <2> QED BY Zenon, <2>1 DEF AllData
<1>11. Laid(vols, given')
  <2>1. ASSUME NEW x \in Places(vols)
        PROVE  At(vols, x) = given'[Cardinality(Upto(Places(vols), x))]
    <3>1. PICK c : c = Cardinality(Upto(Places(vols), x))
      BY Zenon
    <3>2. c \in 1 .. n /\ At(vols, x) = given[c]
      BY Zenon, <1>4, <1>6, <3>1 DEF Laid, N
    <3>3. c \in 1 .. Len(given)
      BY <1>7, <3>2
    <3> QED BY Zenon, <1>8, <3>1, <3>2, <3>3
  <2>2. Cardinality(Places(vols)) <= Len(given')
    BY <1>6, <1>7, <1>8 DEF N
  <2> QED BY Zenon, <1>4, <2>1, <2>2 DEF Laid
<1>12. a + Len(given) - n = Len(buf) /\ Run(buf, a, given, n)
  BY Zenon, <1>5, <1>6
<1>13. Run(buf', a, given', n) /\ a + Len(given') - n = Len(buf')
  BY <1>2, <1>4, <1>12, RunPut
<1>14. Buffered(buf', vols, given', eot')
  BY Zenon, <1>6, <1>13 DEF Buffered
<1>15. Len(buf') <= inp.bf
  BY <1>2, <1>4, <1>7, <1>9, InputFacts
<1>16. Fits(vols)'
  BY Zenon, <1>2, <1>4 DEF Fits
<1>17. eot' \in 0 .. 2 /\ ~(eot' > 0)
  BY <1>2, <1>4
<1> QED BY Zenon, <1>2, <1>4, <1>8, <1>9, <1>10, <1>11, <1>14, <1>15, <1>16, <1>17 DEF TInv

\* A zero block is given.
LEMMA PutZeroT == ASSUME TInv, PutZero PROVE TInv'
<1>1. /\ phase = "write" /\ AllGiven /\ eot < 2 /\ Len(buf) < inp.bf
      /\ eot' = eot + 1 /\ buf' = Append(buf, Zero)
      /\ inp' = inp /\ given' = given /\ vols' = vols /\ phase' = phase
  BY Zenon DEF PutZero
<1>2. /\ IsSeq(given) /\ AllData(given) /\ IsSeq(buf) /\ eot \in 0 .. 2 /\ Laid(vols, given)
      /\ VolumesOK(vols) /\ Fits(vols) /\ inp \in Inputs
  BY Zenon, <1>1 DEF TInv
<1>3. PICK a \in Nat : Run(buf, a, given, N(vols))
  BY Zenon DEF TInv, Buffered
<1>4. PICK n \in Nat : n = N(vols)
  BY Zenon, <1>2, FS_CardinalityType DEF Laid, N
<1>5. Len(given) \in Nat /\ Len(buf) \in Nat /\ n <= Len(given) /\ a + Len(given) - n <= Len(buf)
  BY Zenon, <1>2, <1>3, <1>4, SeqFacts DEF Run
<1>6. /\ IsSeq(buf') /\ Len(buf') = Len(buf) + 1 /\ buf'[Len(buf) + 1] = Zero
      /\ \A i \in 1 .. Len(buf) : buf'[i] = buf[i]
  BY Zenon, <1>1, <1>2, AppendIsSeq
<1>7. Zero.t # "data"
  BY Zenon DEF Zero
<1>8. Run(buf', a, given, n)
  BY Zenon, <1>1, <1>2, <1>3, <1>4, <1>5, <1>7, RunZero
<1>9. eot' \in 0 .. 2 /\ eot' # 0
  BY <1>1, <1>2
<1>10. Buffered(buf', vols, given, eot')
  BY Zenon, <1>4, <1>8, <1>9 DEF Buffered
<1>11. Len(buf') <= inp.bf
  BY <1>1, <1>2, <1>5, <1>6, InputFacts
<1>12. Fits(vols)' /\ AllGiven'
  BY Zenon, <1>1, <1>2 DEF Fits, AllGiven, NextBlock
<1> QED BY Zenon, <1>1, <1>2, <1>6, <1>9, <1>10, <1>11, <1>12 DEF TInv

\* The volumes have more of what was given.
Grown == /\ given' = given /\ Laid(vols', given) /\ N(vols) <= N(vols')

\* The first r blocks of the record are written at the end of the volume.
LEMMA WrittenT ==
    ASSUME TInv, NEW a \in Nat, Run(buf, a, given, N(vols)), NEW r \in Nat, r <= inp.bf,
           NEW b, IsFirst(b, Record(buf), r), Writes(b)
    PROVE  /\ VolumesOK(vols') /\ Len(vols') = Len(vols)
           /\ Len(vols'[Len(vols)].blocks) = Len(vols[Len(vols)].blocks) + r
           /\ Laid(vols', given)
           /\ N(vols') = N(vols) + InFirst(a, Len(given) - N(vols), r)
           /\ N(vols) <= N(vols')
<1>1. /\ VolumesOK(vols) /\ IsSeq(given) /\ AllData(given) /\ Laid(vols, given) /\ IsSeq(buf)
      /\ inp \in Inputs /\ Len(buf) <= inp.bf
  BY Zenon DEF TInv
<1>2. N(vols) \in Nat /\ Len(given) \in Nat /\ N(vols) <= Len(given)
  BY Zenon, <1>1, FS_CardinalityType, SeqFacts DEF Laid, N
<1>3. /\ IsSeq(Record(buf)) /\ Len(Record(buf)) = inp.bf
      /\ Run(Record(buf), a, given, N(vols))
  BY Zenon, <1>1, <1>2, RecordFacts
<1>4. IsWithMore(vols, b, vols')
  BY Zenon DEF Writes, IsWithMore, WithMore
<1>5. /\ VolumesOK(vols') /\ Len(vols') = Len(vols)
      /\ Len(vols'[Len(vols')].blocks) = Len(vols[Len(vols)].blocks) + r
      /\ More(vols, vols', Len(vols), Len(vols[Len(vols)].blocks), Record(buf), r)
  BY Zenon, <1>1, <1>4, WritesMore
<1>6. /\ Laid(vols', given)
      /\ N(vols') = N(vols) + InFirst(a, Len(given) - N(vols), r)
  <2>1. r <= Len(Record(buf)) /\ Run(Record(buf), a, given, Cardinality(Places(vols)))
    BY Zenon, <1>3 DEF N
  <2> QED BY <1>1, <1>2, <1>3, <1>5, <2>1, MoreLaid DEF N
<1>7. Len(given) - N(vols) \in Nat
  BY <1>2
<1>8. InFirst(a, Len(given) - N(vols), r) \in Nat
  BY Zenon, <1>7, InFirstFacts
<1> QED BY <1>2, <1>5, <1>6, <1>8

\* A record is written.
LEMMA FlushWriteT == ASSUME TInv, FlushWrite PROVE TInv' /\ Grown
<1>1. /\ phase = "write" /\ Room >= inp.bf /\ Writes(Record(buf)) /\ buf' = <<>>
      /\ inp' = inp /\ given' = given /\ eot' = eot /\ phase' = phase
  BY Zenon DEF FlushWrite, FlushDue
<1>2. /\ IsSeq(given) /\ AllData(given) /\ IsSeq(buf) /\ eot \in 0 .. 2 /\ Laid(vols, given)
      /\ VolumesOK(vols) /\ Fits(vols) /\ inp \in Inputs /\ Len(buf) <= inp.bf
      /\ (eot > 0 => AllGiven)
  BY Zenon, <1>1 DEF TInv
<1>3. PICK a \in Nat : Run(buf, a, given, N(vols))
  BY Zenon DEF TInv, Buffered
<1>4. N(vols) \in Nat /\ Len(given) \in Nat /\ Len(buf) \in Nat /\ inp.bf \in Nat
      /\ N(vols) <= Len(given) /\ a + Len(given) - N(vols) <= Len(buf)
  BY Zenon, <1>2, <1>3, FS_CardinalityType, SeqFacts, InputFacts DEF Laid, N, Run
<1>5. IsFirst(Record(buf), Record(buf), inp.bf)
  BY Zenon, <1>2, RecordFacts DEF IsFirst
<1>6. /\ VolumesOK(vols') /\ Len(vols') = Len(vols)
      /\ Len(vols'[Len(vols)].blocks) = Len(vols[Len(vols)].blocks) + inp.bf
      /\ Laid(vols', given)
      /\ N(vols') = N(vols) + InFirst(a, Len(given) - N(vols), inp.bf)
      /\ N(vols) <= N(vols')
  <2>1. inp.bf <= inp.bf
    BY <1>4
  <2> QED BY Zenon, <1>1, <1>3, <1>4, <1>5, <2>1, WrittenT
<1>7. N(vols') = Len(given)
  <2>1. Len(given) - N(vols) \in Nat /\ a + (Len(given) - N(vols)) <= inp.bf
    BY <1>2, <1>4
  <2>2. InFirst(a, Len(given) - N(vols), inp.bf) = Len(given) - N(vols)
    BY Zenon, <1>4, <2>1, InFirstFacts
  <2> QED BY <1>4, <1>6, <2>2
<1>8. Buffered(buf', vols', given, eot)
  <2>1. Run(buf', 0, given, Len(given))
    BY Zenon, <1>1, <1>4, RunNothing
  <2>2. 0 \in Nat /\ 0 + Len(given) - Len(given) = Len(buf')
    BY <1>1, <1>4, ShortIsSeq
  <2> QED BY Zenon, <1>7, <2>1, <2>2 DEF Buffered
<1>9. Fits(vols)'
  <2> SUFFICES ASSUME Len(vols) <= Len(inp.room)
               PROVE  Len(vols'[Len(vols)].blocks) <= inp.room[Len(vols)]
    BY Zenon, <1>1, <1>6 DEF Fits
  <2>1. Len(vols) \in 1 .. Len(inp.room) /\ inp.room[Len(vols)] \in Nat
    BY <1>2, InputFacts, SeqFacts DEF VolumesOK
  <2>2. Room = inp.room[Len(vols)] - Len(vols[Len(vols)].blocks)
    <3>1. ~(Len(vols) > Len(inp.room))
      BY <1>2, <2>1, InputFacts
    <3> QED BY Zenon, <3>1 DEF Room, Volume
  <2>3. Len(vols[Len(vols)].blocks) \in Nat
    BY <1>2, SeqFacts DEF VolumesOK
  <2>4. Len(vols'[Len(vols)].blocks) = Len(vols[Len(vols)].blocks) + inp.bf
    BY Zenon, <1>6
  <2>5. inp.bf <= inp.room[Len(vols)] - Len(vols[Len(vols)].blocks)
    BY Zenon, <1>1, <1>4, <2>2
  <2> QED BY <1>4, <2>1, <2>3, <2>4, <2>5
<1>10. eot > 0 => AllGiven'
  BY Zenon, <1>1, <1>2 DEF AllGiven, NextBlock
<1>11. IsSeq(buf') /\ Len(buf') <= inp.bf
  BY <1>1, <1>4, ShortIsSeq
<1> QED BY Zenon, <1>1, <1>2, <1>6, <1>8, <1>9, <1>10, <1>11 DEF TInv, Grown

\* The medium takes a part of the record.
LEMMA VolumeFullT == ASSUME TInv, VolumeFull PROVE TInv' /\ Grown
<1>1. /\ phase = "write" /\ Room < inp.bf /\ Writes(Taken) /\ buf' = NotTaken
      /\ inp' = inp /\ given' = given /\ eot' = eot /\ phase' \in {"open", "crash"}
  BY Zenon DEF VolumeFull, FlushDue
<1>2. /\ IsSeq(given) /\ AllData(given) /\ IsSeq(buf) /\ eot \in 0 .. 2 /\ Laid(vols, given)
      /\ VolumesOK(vols) /\ Fits(vols) /\ inp \in Inputs /\ Len(buf) <= inp.bf
      /\ (eot > 0 => AllGiven)
  BY Zenon, <1>1 DEF TInv
<1>3. PICK a \in Nat : Run(buf, a, given, N(vols)) /\ (eot = 0 => a + Len(given) - N(vols) = Len(buf))
  BY Zenon DEF TInv, Buffered
<1>4. N(vols) \in Nat /\ Len(given) \in Nat /\ Len(buf) \in Nat /\ inp.bf \in Nat
      /\ N(vols) <= Len(given)
  BY Zenon, <1>2, <1>3, FS_CardinalityType, SeqFacts, InputFacts DEF Laid, N, Run
<1>5. Room \in Nat
  <2>1. Len(vols) <= Len(inp.room) /\ Len(vols) \in 1 .. Len(inp.room)
    <3>1. Len(vols) \in Nat /\ Len(vols) > 0 /\ Len(inp.room) \in Nat
      BY Zenon, <1>2, InputFacts, SeqFacts DEF VolumesOK
    <3>2. CASE Len(vols) > Len(inp.room)
      BY <1>1, <1>4, <3>2 DEF Room
    <3> QED BY <3>1, <3>2
  <2>2. inp.room[Len(vols)] \in Nat /\ Len(vols[Len(vols)].blocks) \in Nat
    BY <1>2, <2>1, InputFacts, SeqFacts DEF VolumesOK
  <2>3. Room = inp.room[Len(vols)] - Len(vols[Len(vols)].blocks)
    <3>1. ~(Len(vols) > Len(inp.room))
      BY <1>2, <2>1, InputFacts
    <3> QED BY Zenon, <3>1 DEF Room, Volume
  <2> QED BY <1>2, <2>1, <2>2, <2>3 DEF Fits
<1>6. PICK r \in Nat : r = Room
  BY Zenon, <1>5
<1>7. IsFirst(Taken, Record(buf), r)
  <2>1. IsSeq(Record(buf)) /\ r <= Len(Record(buf))
    BY <1>1, <1>2, <1>4, <1>6, RecordFacts
  <2> QED BY Zenon, <1>6, <2>1, SubSeqIsFirst DEF Taken
<1>8. /\ VolumesOK(vols') /\ Laid(vols', given)
      /\ N(vols') = N(vols) + InFirst(a, Len(given) - N(vols), r)
      /\ N(vols) <= N(vols')
  <2>1. r <= inp.bf
    BY <1>1, <1>4, <1>6
  <2> QED BY Zenon, <1>1, <1>3, <1>7, <2>1, WrittenT
<1>9. Rest(buf, a, given, N(vols), r)
  BY Zenon, <1>2, <1>3, <1>4, RunRest
<1>10. /\ IsSeq(buf') /\ Len(buf') = IF r <= Len(buf) THEN Len(buf) - r ELSE 0
       /\ Run(buf', Leading(a, r), given, N(vols'))
       /\ a + Len(given) - N(vols) = Len(buf) =>
            Leading(a, r) + Len(given) - N(vols') = Len(buf')
  <2>1. buf' = SubSeq(buf, r + 1, Len(buf))
    BY Zenon, <1>1, <1>6 DEF NotTaken
  <2> QED BY Zenon, <1>8, <1>9, <2>1 DEF Rest
<1>11. Leading(a, r) \in Nat
  BY Zenon, <1>10 DEF Run
<1>12. Buffered(buf', vols', given, eot)
  BY Zenon, <1>3, <1>10, <1>11 DEF Buffered
<1>13. Len(buf') <= inp.bf
  BY <1>2, <1>4, <1>10
<1>14. eot > 0 => AllGiven'
  BY Zenon, <1>1, <1>2 DEF AllGiven, NextBlock
<1> QED BY Zenon, <1>1, <1>2, <1>8, <1>10, <1>12, <1>13, <1>14 DEF TInv, Grown

\* The label and the continuation header are no data.
LEMMA TagFacts ==
    ASSUME NEW k
    PROVE  IsSeq(VolumeTag(k)) /\ \A i \in 1 .. Len(VolumeTag(k)) : VolumeTag(k)[i].t # "data"
<1> DEFINE s == IF inp.label THEN <<Label(Len(vols) + 1)>> ELSE <<>>
           t == IF k = 0 THEN <<>>
                ELSE <<Continued(maps[k].m, inp.size[maps[k].m] - maps[k].left, maps[k].left)>>
<1>1. Label(Len(vols) + 1).t # "data"
      /\ Continued(maps[k].m, inp.size[maps[k].m] - maps[k].left, maps[k].left).t # "data"
  BY Zenon DEF Label, Continued
<1>2. \A x : x.t # "data" => IsSeq(<<x>>) /\ \A i \in 1 .. Len(<<x>>) : <<x>>[i].t # "data"
  BY ShortIsSeq
<1>3. IsSeq(<<>>) /\ \A i \in 1 .. Len(<<>>) : <<>>[i].t # "data"
  BY ShortIsSeq
<1>4. IsSeq(s) /\ \A i \in 1 .. Len(s) : s[i].t # "data"
  BY Zenon, <1>1, <1>2, <1>3
<1>5. IsSeq(t) /\ \A i \in 1 .. Len(t) : t[i].t # "data"
  BY Zenon, <1>1, <1>2, <1>3
<1>6. VolumeTag(k) = s \o t
  BY Zenon DEF VolumeTag
<1> HIDE DEF s, t
<1>7. PICK u : u = VolumeTag(k)
  BY Zenon
<1>8. Joined(s, t, u) /\ Len(s) \in Nat /\ Len(t) \in Nat
  BY Zenon, <1>4, <1>5, <1>6, <1>7, ConcatIsSeq, SeqFacts
<1>9. ASSUME NEW i \in 1 .. Len(u) PROVE u[i].t # "data"
  <2>1. CASE i \in 1 .. Len(s)
    BY Zenon, <1>4, <1>8, <2>1 DEF Joined
  <2>2. CASE i \notin 1 .. Len(s)
    <3>1. i - Len(s) \in 1 .. Len(t) /\ Len(s) + (i - Len(s)) = i
      BY <1>8, <2>2 DEF Joined
    <3>2. u[i] = t[i - Len(s)]
      BY Zenon, <1>8, <3>1 DEF Joined
    <3> QED BY Zenon, <1>5, <3>1, <3>2
  <2> QED BY Zenon, <2>1, <2>2
<1> QED BY Zenon, <1>7, <1>8, <1>9 DEF Joined

\* Whole records of l blocks.
LEMMA WholeRecords ==
    ASSUME NEW l \in Nat, NEW bf \in Nat, bf > 0, NEW full, full = (l \div bf) * bf
    PROVE  full \in Nat /\ full <= l /\ l - full < bf
<1>1. PICK q \in Nat : q = l \div bf
  OBVIOUS
<1>2. q * bf <= l /\ l < q * bf + bf
  BY <1>1
<1>3. q * bf \in Nat
  BY <1>1
<1> QED BY <1>1, <1>2, <1>3

\* The next volume is opened: its headers and what was left of the record.
LEMMA OpenVolumeT == ASSUME TInv, OpenVolume PROVE TInv' /\ Grown
<1>1. PICK tag : tag = VolumeTag(Locate(maps, status))
  BY Zenon
<1>2. PICK all : all = tag \o buf
  BY Zenon
<1>3. PICK full : full = (Len(all) \div inp.bf) * inp.bf
  BY Zenon
<1>4. PICK w : w = [file |-> cursor, asked |-> asked, blocks |-> SubSeq(all, 1, full)]
  BY Zenon
<1>5. /\ vols' = Append(vols, w) /\ buf' = SubSeq(all, full + 1, Len(all))
      /\ phase' = IF full > (IF Len(vols) >= Len(inp.room) THEN full ELSE inp.room[Len(vols) + 1])
                  THEN "fatal" ELSE "write"
      /\ inp' = inp /\ given' = given /\ eot' = eot
  BY Zenon, <1>1, <1>2, <1>3, <1>4 DEF OpenVolume
<1>6. /\ IsSeq(given) /\ AllData(given) /\ IsSeq(buf) /\ eot \in 0 .. 2 /\ Laid(vols, given)
      /\ VolumesOK(vols) /\ inp \in Inputs
      /\ (eot > 0 => AllGiven)
  BY Zenon DEF TInv
<1>7. PICK a \in Nat : Run(buf, a, given, N(vols)) /\ (eot = 0 => a + Len(given) - N(vols) = Len(buf))
  BY Zenon DEF TInv, Buffered
<1>8. N(vols) \in Nat /\ Len(given) \in Nat /\ Len(buf) \in Nat /\ inp.bf \in Nat /\ inp.bf > 0
      /\ N(vols) <= Len(given) /\ Len(vols) \in Nat
  BY Zenon, <1>6, <1>7, FS_CardinalityType, SeqFacts, InputFacts DEF Laid, N, Run, VolumesOK
<1>9. IsSeq(tag) /\ \A i \in 1 .. Len(tag) : tag[i].t # "data"
  BY Zenon, <1>1, TagFacts
<1>10. /\ IsSeq(all) /\ Len(all) = Len(tag) + Len(buf) /\ Len(tag) \in Nat /\ Len(all) \in Nat
  BY Zenon, <1>2, <1>6, <1>9, ConcatIsSeq, SeqFacts DEF Joined
<1>11. Run(all, Len(tag) + a, given, N(vols))
  BY Zenon, <1>2, <1>6, <1>7, <1>8, <1>9, RunAround
<1>12. full \in Nat /\ full <= Len(all) /\ Len(all) - full < inp.bf
  BY Zenon, <1>3, <1>8, <1>10, WholeRecords
<1>13. PICK b : b = SubSeq(all, 1, full)
  BY Zenon
<1>14. IsFirst(b, all, full)
  BY Zenon, <1>10, <1>12, <1>13, SubSeqIsFirst
<1>15. w = [file |-> w.file, asked |-> w.asked, blocks |-> b]
  BY Zenon, <1>4, <1>13
<1>16. IsWithNew(vols, w, vols')
  BY Zenon, <1>5 DEF IsWithNew
<1>17. /\ VolumesOK(vols') /\ Len(vols') = Len(vols) + 1
       /\ Len(vols'[Len(vols')].blocks) = full
       /\ More(vols, vols', Len(vols) + 1, 0, all, full)
  BY Zenon, <1>6, <1>12, <1>14, <1>15, <1>16, AppendMore
<1>18. PICK c \in Nat : c = Len(tag) + a
  BY <1>10
<1>19. /\ Laid(vols', given)
       /\ N(vols') = N(vols) + InFirst(c, Len(given) - N(vols), full)
  <2>1. Run(all, c, given, Cardinality(Places(vols)))
    BY Zenon, <1>11, <1>18 DEF N
  <2> QED BY <1>6, <1>8, <1>10, <1>12, <1>17, <2>1, MoreLaid DEF N
<1>20. Rest(all, c, given, N(vols), full)
  BY Zenon, <1>8, <1>10, <1>11, <1>12, <1>18, RunRest
<1>21. /\ IsSeq(buf') /\ Len(buf') = IF full <= Len(all) THEN Len(all) - full ELSE 0
       /\ Run(buf', Leading(c, full), given, N(vols'))
       /\ c + Len(given) - N(vols) = Len(all) =>
            Leading(c, full) + Len(given) - N(vols') = Len(buf')
  BY Zenon, <1>5, <1>19, <1>20 DEF Rest
<1>22. Leading(c, full) \in Nat
  BY Zenon, <1>21 DEF Run
<1>23. eot = 0 => c + Len(given) - N(vols) = Len(all)
  BY <1>7, <1>8, <1>10, <1>18
<1>24. Buffered(buf', vols', given, eot)
  BY Zenon, <1>21, <1>22, <1>23 DEF Buffered
<1>25. Len(buf') <= inp.bf
  BY <1>8, <1>10, <1>12, <1>21
<1>26. eot > 0 => AllGiven'
  BY Zenon, <1>5, <1>6 DEF AllGiven, NextBlock
<1>27. phase' = "write" => Fits(vols)'
  <2> SUFFICES ASSUME phase' = "write", Len(vols) + 1 <= Len(inp.room)
               PROVE  full <= inp.room[Len(vols) + 1]
    BY Zenon, <1>5, <1>17 DEF Fits
  <2>1. Len(vols) + 1 \in 1 .. Len(inp.room) /\ ~(Len(vols) >= Len(inp.room))
    BY <1>6, <1>8, InputFacts
  <2>2. inp.room[Len(vols) + 1] \in Nat
    BY Zenon, <1>6, <2>1, InputFacts
  <2>3. ~(full > inp.room[Len(vols) + 1])
    BY Zenon, <1>5, <2>1
  <2> QED BY <1>12, <2>2, <2>3
<1>28. N(vols) <= N(vols')
  <2>1. Len(given) - N(vols) \in Nat
    BY <1>8
  <2>2. InFirst(c, Len(given) - N(vols), full) \in Nat
    BY Zenon, <1>12, <2>1, InFirstFacts
  <2> QED BY <1>8, <1>19, <2>2
<1> QED BY Zenon, <1>5, <1>6, <1>17, <1>19, <1>21, <1>24, <1>25, <1>26, <1>27, <1>28 DEF TInv, Grown

\* The other steps leave the writer's side as it is, or close the archive.
LEMMA OthersT ==
    ASSUME TInv, UNCHANGED <<inp, given, eot, buf, vols>>, phase' = phase \/ phase' # "write"
    PROVE  TInv'
<1>1. (phase' = "write" => Fits(vols)') /\ (eot > 0 => AllGiven')
  BY Zenon DEF TInv, Fits, AllGiven, NextBlock
<1> QED BY Zenon, <1>1 DEF TInv

\* What each step does to the blocks given and to the volumes.
Kept == UNCHANGED <<given, vols>>
Given == vols' = vols /\ \E b : given' = Append(given, b)

\* The invariant is inductive.
LEMMA StepT == ASSUME TInv, [Next]_vars PROVE TInv' /\ (Kept \/ Given \/ Grown)
<1>1. CASE PutBlock
  BY Zenon, <1>1, PutBlockT DEF PutBlock, Given
<1>2. CASE PutZero
  BY Zenon, <1>2, PutZeroT DEF PutZero, Kept
<1>3. CASE FlushWrite
  BY Zenon, <1>3, FlushWriteT
<1>4. CASE VolumeFull
  BY Zenon, <1>4, VolumeFullT
<1>5. CASE OpenVolume
  BY Zenon, <1>5, OpenVolumeT
<1>6. CASE OpenFails
  BY Zenon, <1>6, OthersT DEF OpenFails, Kept
<1>7. CASE Close
  <2>1. UNCHANGED <<inp, given, eot, buf, vols>> /\ phase' = "read"
    BY Zenon, <1>7 DEF Close, writer
  <2> QED BY Zenon, <2>1, OthersT DEF Kept
<1>8. CASE ReadHeader
  <2>1. UNCHANGED <<inp, given, eot, buf, vols>> /\ phase = "read"
    BY Zenon, <1>8 DEF ReadHeader, writer
  <2>2. phase' \in {phase, "done"}
    BY Zenon, <1>8 DEF ReadHeader
  <2> QED BY Zenon, <2>1, <2>2, OthersT DEF Kept
<1>9. CASE ReadData \/ TryNewVolume
  <2>1. UNCHANGED <<inp, given, eot, buf, vols>> /\ phase' = phase
    BY Zenon, <1>9 DEF ReadData, TryNewVolume, writer
  <2> QED BY Zenon, <2>1, OthersT DEF Kept
<1>10. CASE Quit
  <2>1. UNCHANGED <<inp, given, eot, buf, vols>> /\ phase' = "quit"
    BY Zenon, <1>10 DEF Quit, writer
  <2> QED BY Zenon, <2>1, OthersT DEF Kept
<1>11. CASE Done \/ UNCHANGED vars
  <2>1. UNCHANGED <<inp, given, eot, buf, vols>> /\ phase' = phase
    BY Zenon, <1>11 DEF Done, vars, writer
  <2> QED BY Zenon, <2>1, OthersT DEF Kept
<1> QED BY Zenon, <1>1, <1>2, <1>3, <1>4, <1>5, <1>6, <1>7, <1>8, <1>9, <1>10, <1>11 DEF Next

\* What is on the tape of the abstract specification.
LEMMA TapeIs ==
    ASSUME NEW vs, NEW g, IsSeq(g), Laid(vs, g)
    PROVE  /\ OnTape(vs) = SubSeq(g, 1, N(vs)) /\ Len(OnTape(vs)) = N(vs)
           /\ N(vs) \in Nat /\ N(vs) <= Len(g)
<1>1. N(vs) \in Nat /\ N(vs) <= Len(g)
  BY Zenon, FS_CardinalityType DEF Laid, N
<1>2. OnTape(vs) = SubSeq(g, 1, N(vs))
  BY Zenon, LaidTape DEF N
<1>3. Len(SubSeq(g, 1, N(vs))) = N(vs)
  BY Zenon, <1>1, SubSeqIsFirst DEF IsFirst
<1> QED BY Zenon, <1>1, <1>2, <1>3

\* Each step is one of the tape.
LEMMA TapeStep == ASSUME TInv, TInv', Kept \/ Given \/ Grown PROVE [T!Next]_<<given, OnTape(vols)>>
<1>1. IsSeq(given) /\ Laid(vols, given)
  BY Zenon DEF TInv
<1>2. CASE Kept
  BY Zenon, <1>2 DEF Kept
<1>3. CASE Given
  <2>1. PICK b : given' = Append(given, b)
    BY Zenon, <1>3 DEF Given
  <2>2. /\ IsSeq(given') /\ Len(given') = Len(given) + 1 /\ Len(given) \in Nat
        /\ \A i \in 1 .. Len(given) : given'[i] = given[i]
    BY <1>1, <2>1, AppendIsSeq, SeqFacts
  <2>3. IsFirst(SubSeq(given', 1, Len(given)), given', Len(given))
    BY <2>2, SubSeqIsFirst
  <2>4. SubSeq(given', 1, Len(given)) = given
    <3> DEFINE s == SubSeq(given', 1, Len(given))
    <3>1. IsSeq(s) /\ Len(s) = Len(given) /\ \A i \in 1 .. Len(given) : s[i] = given[i]
      BY Zenon, <2>2, <2>3 DEF IsFirst
    <3> HIDE DEF s
    <3>2. DOMAIN s = 1 .. Len(given) /\ DOMAIN given = 1 .. Len(given)
      BY Zenon, <1>1, <3>1, SeqFacts
    <3>3. s = [i \in 1 .. Len(given) |-> s[i]] /\ given = [i \in 1 .. Len(given) |-> given[i]]
      BY <1>1, <3>1, <3>2 DEF IsSeq
    <3>4. s = given
      BY Zenon, <3>1, <3>3
    <3> QED BY Zenon, <3>4 DEF s
  <2> QED BY Zenon, <1>3, <2>2, <2>4 DEF T!Next, T!Give, Given
<1>4. CASE Grown
  <2>1. /\ OnTape(vols)' = SubSeq(given, 1, N(vols')) /\ Len(OnTape(vols)) = N(vols)
        /\ N(vols) \in Nat /\ N(vols') \in Nat /\ N(vols') <= Len(given) /\ N(vols) <= N(vols')
        /\ given' = given /\ Len(given) \in Nat
    BY Zenon, <1>1, <1>4, TapeIs, SeqFacts DEF Grown
  <2>2. N(vols') \in Len(OnTape(vols)) .. Len(given)
    BY <2>1
  <2> QED BY Zenon, <2>1, <2>2 DEF T!Next, T!Commit
<1> QED BY Zenon, <1>2, <1>3, <1>4

\* The buffer with its volumes implements a tape without end, for all members,
\* blocking factors, media, labels and file names (flush_write, new_volume in
\* src/buffer.c): whatever the change of volume interrupts, each block given
\* reaches the volumes once, and in its order.
THEOREM Refinement == Spec => OneTape
<1>1. Init => T!Init
  <2> SUFFICES ASSUME Init PROVE given = <<>> /\ OnTape(vols) = <<>>
    BY Zenon DEF T!Init
  <2>1. TInv /\ N(vols) = 0 /\ given = <<>>
    BY Zenon, InitT DEF Init
  <2>2. OnTape(vols) = SubSeq(given, 1, 0)
    BY Zenon, <2>1, TapeIs DEF TInv
  <2> QED BY <2>1, <2>2
<1>2. Init => TInv
  BY Zenon, InitT
<1>3. TInv /\ [Next]_vars => TInv'
  BY Zenon, StepT
<1>4. TInv /\ TInv' /\ [Next]_vars => [T!Next]_<<given, OnTape(vols)>>
  BY Zenon, StepT, TapeStep
<1> QED BY <1>1, <1>2, <1>3, <1>4, PTL DEF Spec, OneTape, T!Spec

-----------------------------------------------------------------------------
(* The files of the volumes.                                               *)

\* Until the names have all been used, volume v is in file v; then the user is
\* asked for each.
FInv ==
    /\ IsSeq(vols) /\ Len(vols) > 0 /\ cursor \in Nat /\ looped \in BOOLEAN /\ asked \in BOOLEAN
    /\ ~looped => /\ \A v \in 1 .. Len(vols) : vols[v].file = v
                  /\ phase = "write" => cursor = Len(vols)
                  /\ phase = "open" => cursor = Len(vols) + 1
    /\ phase = "open" /\ looped => asked
    /\ AskedBeforeReuse

\* A write changes no file name.
LEMMA WriteFiles ==
    ASSUME FInv, NEW b, Writes(b)
    PROVE  /\ IsSeq(vols') /\ Len(vols') = Len(vols)
           /\ \A v \in 1 .. Len(vols) : vols'[v].file = vols[v].file /\ vols'[v].asked = vols[v].asked
           /\ AskedBeforeReuse'
<1> DEFINE k == Len(vols)
           x == [vols[k] EXCEPT !.blocks = @ \o b]
<1>1. IsSeq(vols) /\ k \in Nat /\ k \in 1 .. k /\ DOMAIN vols = 1 .. k
  BY SeqFacts DEF FInv
<1>2. vols' = [vols EXCEPT ![k] = x]
  BY Zenon DEF Writes
<1>3. x.file = vols[k].file /\ x.asked = vols[k].asked
  OBVIOUS
<1> HIDE DEF x
<1>4. Replaced(vols, k, x, vols')
  BY Zenon, <1>1, <1>2, ExceptIsSeq
<1>5. \A v \in 1 .. k : vols'[v].file = vols[v].file /\ vols'[v].asked = vols[v].asked
  BY Zenon, <1>1, <1>3, <1>4 DEF Replaced
<1>6. IsSeq(vols') /\ Len(vols') = k /\ DOMAIN vols' = 1 .. k
  BY Zenon, <1>4, SeqFacts DEF Replaced
<1>7. AskedBeforeReuse'
  BY Zenon, <1>1, <1>5, <1>6 DEF FInv, AskedBeforeReuse
<1> QED BY Zenon, <1>5, <1>6, <1>7

\* The invariant is inductive.
LEMMA StepF == ASSUME FInv, [Next]_vars PROVE FInv'
<1>0. Len(vols) \in Nat /\ DOMAIN vols = 1 .. Len(vols)
  BY Zenon, SeqFacts DEF FInv
<1>1. CASE FlushWrite
  <2>1. Writes(Record(buf)) /\ UNCHANGED <<cursor, looped, asked, phase>>
    BY Zenon, <1>1 DEF FlushWrite
  <2> QED BY Zenon, <2>1, WriteFiles DEF FInv
<1>2. CASE VolumeFull
  <2>1. /\ Writes(Taken) /\ cursor' = NextCursor /\ looped' = Looped /\ asked' = Looped
        /\ phase = "write" /\ phase' \in {"open", "crash"}
    BY Zenon, <1>2 DEF VolumeFull, FlushDue
  <2>2. cursor' \in Nat /\ (cursor' # 1 => cursor' = cursor + 1)
    BY <2>1 DEF NextCursor, FInv
  <2>3. looped' \in BOOLEAN /\ (~looped' => ~looped /\ cursor' = cursor + 1)
    BY Zenon, <2>1, <2>2 DEF Looped, FInv
  <2>4. asked' = looped'
    BY Zenon, <2>1
  <2>5. /\ IsSeq(vols') /\ Len(vols') = Len(vols) /\ AskedBeforeReuse'
        /\ \A v \in 1 .. Len(vols) : vols'[v].file = vols[v].file
    BY Zenon, <2>1, WriteFiles
  <2>6. ~looped' => /\ \A v \in 1 .. Len(vols') : vols'[v].file = v
                    /\ cursor' = Len(vols') + 1
    BY Zenon, <2>1, <2>3, <2>5 DEF FInv
  <2>7. phase' # "write"
    BY Zenon, <2>1
  <2>8. Len(vols') > 0
    BY Zenon, <2>5 DEF FInv
  <2> QED BY Zenon, <2>2, <2>3, <2>4, <2>5, <2>6, <2>7, <2>8 DEF FInv
<1>3. CASE OpenVolume
  <2>0. PICK s : vols' = Append(vols, [file |-> cursor, asked |-> asked, blocks |-> s])
    BY Zenon, <1>3 DEF OpenVolume
  <2>1. PICK w : vols' = Append(vols, w) /\ w.file = cursor /\ w.asked = asked
    BY <2>0
  <2>2. phase = "open" /\ UNCHANGED <<cursor, looped, asked>> /\ phase' \in {"fatal", "write"}
    BY Zenon, <1>3 DEF OpenVolume
  <2>3. /\ IsSeq(vols') /\ Len(vols') = Len(vols) + 1 /\ vols'[Len(vols) + 1] = w
        /\ \A v \in 1 .. Len(vols) : vols'[v] = vols[v]
    BY <2>1, AppendIsSeq DEF FInv
  <2>4. DOMAIN vols' = 1 .. Len(vols) + 1
    BY Zenon, <2>3, SeqFacts
  <2>5. ~looped => \A v \in 1 .. Len(vols) + 1 : vols'[v].file = v
    <3> SUFFICES ASSUME ~looped, NEW v \in 1 .. Len(vols) + 1 PROVE vols'[v].file = v
      BY Zenon
    <3>1. CASE v = Len(vols) + 1
      BY Zenon, <2>1, <2>2, <2>3, <3>1 DEF FInv
    <3>2. CASE v # Len(vols) + 1
      <4>1. v \in 1 .. Len(vols)
        BY <1>0, <3>2
      <4> QED BY Zenon, <2>3, <4>1 DEF FInv
    <3> QED BY Zenon, <3>1, <3>2
  <2>6. AskedBeforeReuse'
    <3> SUFFICES ASSUME NEW v \in 1 .. Len(vols) + 1, NEW u \in 1 .. Len(vols) + 1,
                        v < u, vols'[v].file = vols'[u].file
                 PROVE  vols'[u].asked
      BY Zenon, <2>4 DEF AskedBeforeReuse
    <3>1. v \in 1 .. Len(vols)
      BY <1>0
    <3>2. CASE u = Len(vols) + 1
      <4>1. CASE looped
        BY Zenon, <2>1, <2>2, <2>3, <3>2, <4>1 DEF FInv
      <4>2. CASE ~looped
        BY <2>5, <4>2
      <4> QED BY Zenon, <4>1, <4>2
    <3>3. CASE u # Len(vols) + 1
      <4>1. u \in 1 .. Len(vols)
        BY <1>0, <3>3
      <4> QED BY Zenon, <1>0, <2>3, <3>1, <4>1 DEF FInv, AskedBeforeReuse
    <3> QED BY Zenon, <3>2, <3>3
  <2> QED BY <1>0, <2>2, <2>3, <2>5, <2>6 DEF FInv
<1>4. CASE OpenFails
  BY Zenon, <1>4 DEF OpenFails, FInv, AskedBeforeReuse
<1>5. CASE PutBlock \/ PutZero
  BY Zenon, <1>5 DEF PutBlock, PutZero, FInv, AskedBeforeReuse
<1>6. CASE Close
  BY Zenon, <1>6 DEF Close, writer, FInv, AskedBeforeReuse
<1>7. CASE ReadHeader
  <2>1. UNCHANGED <<vols, cursor, looped, asked>> /\ phase = "read"
    BY Zenon, <1>7 DEF ReadHeader, writer
  <2>2. phase' \in {"read", "done"}
    BY Zenon, <1>7 DEF ReadHeader
  <2> QED BY Zenon, <2>1, <2>2 DEF FInv, AskedBeforeReuse
<1>8. CASE ReadData \/ TryNewVolume
  BY Zenon, <1>8 DEF ReadData, TryNewVolume, writer, FInv, AskedBeforeReuse
<1>9. CASE Quit
  BY Zenon, <1>9 DEF Quit, writer, FInv, AskedBeforeReuse
<1>10. CASE Done \/ UNCHANGED vars
  BY <1>10 DEF Done, vars, writer, FInv, AskedBeforeReuse
<1> QED BY Zenon, <1>1, <1>2, <1>3, <1>4, <1>5, <1>6, <1>7, <1>8, <1>9, <1>10 DEF Next

\* No file that holds a volume is opened for another one before the user was
\* asked to change it (new_volume in src/buffer.c), for any number of names.
THEOREM ReuseAsked == Spec => []AskedBeforeReuse
<1>1. Init => FInv
  <2> SUFFICES ASSUME Init PROVE FInv
    BY Zenon
  <2>1. /\ IsSeq(vols) /\ Len(vols) = 1 /\ vols[1].file = 1
    BY Zenon, ShortIsSeq DEF Init
  <2>2. DOMAIN vols = 1 .. 1
    BY Zenon, <2>1, SeqFacts
  <2>3. AskedBeforeReuse
    BY <2>2 DEF AskedBeforeReuse
  <2>4. cursor = 1 /\ looped = FALSE /\ asked = FALSE /\ phase = "write"
    BY Zenon DEF Init
  <2>5. \A v \in 1 .. Len(vols) : vols[v].file = v
    BY <2>1
  <2>6. Len(vols) > 0 /\ cursor \in Nat /\ cursor = Len(vols)
    BY <2>1, <2>4
  <2>7. ~looped /\ looped \in BOOLEAN /\ asked \in BOOLEAN /\ phase # "open"
    BY Zenon, <2>4
  <2> QED BY Zenon, <2>1, <2>3, <2>5, <2>6, <2>7 DEF FInv
<1>2. FInv /\ [Next]_vars => FInv'
  BY Zenon, StepF
<1>3. FInv => AskedBeforeReuse
  BY Zenon DEF FInv
<1> QED BY <1>1, <1>2, <1>3, PTL DEF Spec
=============================================================================
