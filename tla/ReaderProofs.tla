---------------------------- MODULE ReaderProofs ----------------------------
(***************************************************************************)
(* Lemmas on the record buffer and on the reading of an archive.           *)
(***************************************************************************)
EXTENDS Reader, SequenceTheorems, TLAPS

\* A read returns at most a record, blocks of the file only, and less than a
\* record only at the end of the file.
LEMMA ReadCountBounds ==
    ASSUME NEW S, NEW d \in Seq(S), NEW p \in Nat
    PROVE  /\ ReadCount(d, p) \in 0..BF
           /\ ReadCount(d, p) > 0 => p + ReadCount(d, p) <= Len(d)
           /\ ReadCount(d, p) < BF => p + ReadCount(d, p) >= Len(d)
BY BFAssumption, LenProperties DEF ReadCount

\* Writing blocks over a file replaces those blocks and no other.
LEMMA OverwriteEffect ==
    ASSUME NEW S, Zero \in S, NEW d \in Seq(S), NEW p \in Nat, NEW r \in Seq(S)
    PROVE  /\ Overwrite(d, p, r) \in Seq(S)
           /\ Len(Overwrite(d, p, r)) >= Len(d)
           /\ Len(Overwrite(d, p, r)) >= p + Len(r)
           /\ \A i \in 1..Len(Overwrite(d, p, r)) :
                Overwrite(d, p, r)[i] =
                  IF i > p /\ i <= p + Len(r) THEN r[i - p]
                  ELSE IF i <= Len(d) THEN d[i] ELSE Zero
<1> DEFINE n == IF p + Len(r) > Len(d) THEN p + Len(r) ELSE Len(d)
           e(i) == IF i > p /\ i <= p + Len(r) THEN r[i - p]
                   ELSE IF i <= Len(d) THEN d[i] ELSE Zero
<1>1. n \in Nat /\ n >= Len(d) /\ n >= p + Len(r)
  BY LenProperties
<1>2. \A i \in 1..n : e(i) \in S
  BY LenProperties
<1>3. [i \in 1..n |-> e(i)] \in Seq(S)
  <2> HIDE DEF n, e
  <2> QED BY <1>1, <1>2, IsASeq
<1>4. Overwrite(d, p, r) = [i \in 1..n |-> e(i)]
  BY DEF Overwrite
<1>5. Len([i \in 1..n |-> e(i)]) = n
  <2> HIDE DEF n, e
  <2> QED BY <1>1, <1>3, LenProperties
<1> QED BY <1>1, <1>3, <1>4, <1>5

\* The buffer is a sequence of BF blocks.
LEMMA RecordIsSeq ==
    ASSUME NEW S, NEW r \in [1..BF -> S]
    PROVE  r \in Seq(S) /\ Len(r) = BF
<1>1. r \in Seq(S)
  BY BFAssumption, SeqDef
<1> QED BY <1>1, BFAssumption, LenProperties

\* A part of a sequence, or of the buffer.
LEMMA SubSeqType ==
    ASSUME NEW S, NEW s \in Seq(S), NEW m \in Nat, NEW n \in Nat,
           m >= 1, n <= Len(s)
    PROVE  /\ SubSeq(s, m, n) \in Seq(S)
           /\ Len(SubSeq(s, m, n)) = IF m <= n THEN n - m + 1 ELSE 0
           /\ \A i \in 1..n - m + 1 : SubSeq(s, m, n)[i] = s[m + i - 1]
<1>1. \A i \in m..n : s[i] \in S
  BY LenProperties
<1> QED BY <1>1, SubSeqProperties

\* The products with BF that the proofs need.
LEMMA Times ==
    /\ \A a \in Int : a * BF \in Int
    /\ \A a, b \in Int : (a + b) * BF = a * BF + b * BF
    /\ \A a, b \in Int : (a - b) * BF = a * BF - b * BF
    /\ \A a, b \in Int : a <= b => a * BF <= b * BF
    /\ \A a, b \in Int : a * BF < b * BF => a < b
    /\ 0 * BF = 0 /\ 1 * BF = BF
    /\ \A a \in Int : (-a) * BF = -(a * BF)
    /\ \A a \in Int : (a * BF) \div BF = a
BY BFAssumption

\* The member a header belongs to.
LEMMA HeaderMember ==
    ASSUME input \in Inputs, rec \in [1..BF -> Block(Len(Arch))],
           cur \in 0..BF - 1, Header # Zero
    PROVE  /\ Header.m \in 1..Len(Arch) /\ Member \in MemberType
           /\ Member.frac <= Member.size /\ Member.name \in Names
<1>1. Header \in Block(Len(Arch))
  BY BFAssumption DEF Header
<1>2. Header.m \in 1..Len(Arch)
  BY <1>1 DEF Block, MemberBlock
<1>3. Arch \in Seq(MemberType)
  BY ArchivesAssumption DEF Arch
<1>4. Member \in MemberType
  BY <1>2, <1>3, LenProperties DEF Member
<1>5. Member.frac <= Member.size
  BY <1>2, ArchivesAssumption DEF Member, Arch
<1>6. Member.name \in Names
  BY <1>2 DEF Member, Names
<1> QED BY <1>2, <1>4, <1>5, <1>6

\* Skipping a member moves over a whole number of records.
LEMMA SkimEffect ==
    ASSUME input \in Inputs, rec \in [1..BF -> Block(Len(Arch))],
           cur \in Nat, end \in 0..BF, cur < end, Header # Zero,
           pos \in Nat, records_read \in Nat, SkimMember
    PROVE  \E n \in Nat :
              /\ cur' = IF n > 0 THEN end ELSE cur + 1
              /\ pos' = pos + n * BF
              /\ records_read' = records_read + n
              /\ record_start_block' = record_start_block + n * BF
              /\ todo' \in Nat
<1> DEFINE skip == BF - (cur + 1)
           rest == Member.size - Member.frac - skip
           nrec == IF ~input.filter /\ end = BF /\ Member.size > skip
                   THEN rest \div BF ELSE 0
           nblk == IF nrec > 0 THEN skip + nrec * BF ELSE 0
<1>1. BF \in Nat \ {0} /\ skip \in Nat /\ skip < BF
  BY BFAssumption
<1>2. Member.size \in Nat /\ Member.frac \in {0, 1} /\ Member.frac <= Member.size
  BY <1>1, HeaderMember DEF MemberType
<1>3. rest \in Int /\ (Member.size > skip => rest >= 0)
  BY <1>1, <1>2
<1>4. /\ rest \div BF \in Int /\ (rest \div BF) * BF <= rest
      /\ rest >= 0 => rest \div BF >= 0
  <2> HIDE DEF rest
  <2> QED BY <1>1, <1>3
<1>5. nrec \in Nat /\ (nrec > 0 => nrec * BF <= rest)
  BY <1>1, <1>3, <1>4
<1>6. /\ cur' = IF nrec > 0 THEN end ELSE cur + 1
      /\ pos' = pos + nrec * BF
      /\ records_read' = records_read + nblk \div BF
      /\ record_start_block' = record_start_block + nrec * BF
      /\ todo' = Member.size - nblk
  BY DEF SkimMember
<1>7. nrec * BF \in Nat
  <2> HIDE DEF nrec
  <2> QED BY <1>1, <1>5
<1>8. todo' \in Nat
  <2> HIDE DEF nrec
  <2> QED BY <1>1, <1>2, <1>5, <1>6, <1>7
<1>9. nblk \div BF = nrec
  <2>1. CASE nrec > 0
    <3> HIDE DEF nrec, skip
    <3>1. nblk = skip + nrec * BF
      BY <2>1
    <3>2. (skip + nrec * BF) \div BF = nrec
      BY <1>1, <1>5
    <3> QED BY <3>1, <3>2
  <2>2. CASE nrec = 0
    <3> HIDE DEF nrec
    <3> QED BY <1>1, <2>2
  <2> QED BY <1>5, <2>1, <2>2
<1> HIDE DEF nrec, nblk
<1> QED BY <1>5, <1>6, <1>8, <1>9
=============================================================================
