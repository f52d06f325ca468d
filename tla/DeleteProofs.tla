---------------------------- MODULE DeleteProofs ----------------------------
(***************************************************************************)
(* tar --delete never writes over what it has still to read, for every     *)
(* blocking factor and every archive, as long as no pax header of it ends  *)
(* at a block boundary (write_recent_bytes makes those one block longer).  *)
(***************************************************************************)
EXTENDS Delete, ReaderProofs

ABlock == Block(Len(Arch))
Original == ArchiveBlocks(input)

\* Every extended header is written back no longer than it was read.
Plain == \A j \in 1..Len(Arch) : Arch[j].kind = "pax" => ~Arch[j].exact

\* Of the archive o, what is after offset p is still in the file d, and n
\* records have been read.
Unread(o, d, p, n) ==
    /\ \A i \in p + 1..Len(o) : i <= Len(d) /\ d[i] = o[i]
    /\ p = n * BF \/ p >= Len(o)

Live == pc \notin {"eot", "truncate", "done"}

\* w records written and b blocks more are not above block c of record r.
Fits(w, b, r, c) == w * BF + b <= (r - 1) * BF + c

\* The blocks written, or waiting to be, are not more than those consumed.
Room ==
    phase = 2 /\ Live =>
        Fits(records_written + records_skipped, Len(newrec) + Len(recent),
             records_read, cur)

Control ==
    /\ phase = 1 =>
         /\ pc \in {"header", "skim", "done", "fatal"}
         /\ records_written = 0 /\ recent = <<>> /\ cur <= end
         /\ cur < end => records_read >= 1
    /\ phase = 2 => records_read >= 1 /\ pc # "skim"
    /\ pc \in {"skim", "ext", "flush", "emit"} => cur <= end
    /\ pc = "emit" => recent # <<>>
    /\ pc \in {"copy", "move"} => kept <= todo /\ kept <= BF - cur
    /\ pc = "truncate" /\ ~input.filter => pos <= Len(disk)

Inv ==
    /\ TypeOK
    /\ input \in Inputs
    /\ Control
    /\ Plain => Room /\ UnreadIntact

-----------------------------------------------------------------------------
LEMMA OriginalType ==
    ASSUME input \in Inputs
    PROVE  /\ Original \in Seq(ABlock) /\ Len(Original) \in Nat /\ Zero \in ABlock
           /\ Arch \in Seq(MemberType) /\ Len(Arch) \in Nat
<1>1. Original \in Seq(ABlock) /\ Arch \in Seq(MemberType)
  BY Zenon, ArchivesAssumption DEF Original, ABlock, Arch
<1> QED BY Zenon, <1>1, LenProperties DEF ABlock, Block

\* move_archive stays inside the file's offsets, is exact from a record
\* boundary, and never moves back when asked to move forward.
LEMMA MoveType ==
    ASSUME NEW p \in Nat, NEW c \in Int
    PROVE  /\ MoveArchive(p, c) \in Nat
           /\ c >= 0 => MoveArchive(p, c) >= p
<1> DEFINE s == ((p + BF - 1) \div BF) * BF
<1>1. s \in Nat /\ s >= p
  BY BFAssumption
<1>2. c * BF \in Int /\ (c >= 0 => c * BF >= 0)
  BY BFAssumption
<1>3. MoveArchive(p, c) = IF c = 0 \/ s + c * BF < 0 THEN p ELSE s + c * BF
  BY Zenon DEF MoveArchive
<1> HIDE DEF s
<1> QED BY <1>1, <1>2, <1>3

LEMMA MoveAligned ==
    ASSUME NEW a \in Nat, NEW c \in Int, a + c >= 0
    PROVE  MoveArchive(a * BF, c) = (a + c) * BF
<1> DEFINE s == ((a * BF + BF - 1) \div BF) * BF
<1>1. (a * BF + BF - 1) \div BF = a
  BY BFAssumption
<1>2. s = a * BF
  BY Zenon, <1>1
<1>3. /\ s + c * BF = (a + c) * BF /\ (a + c) * BF >= 0 /\ (a + c) * BF \in Int
      /\ c = 0 => (a + c) * BF = a * BF
  BY <1>2, Times, BFAssumption
<1>4. MoveArchive(a * BF, c) = IF c = 0 \/ s + c * BF < 0 THEN a * BF ELSE s + c * BF
  BY Zenon DEF MoveArchive
<1> HIDE DEF s
<1> QED BY <1>2, <1>3, <1>4

\* Two moves, over a record written in between, end where they began or
\* after it.
LEMMA MoveBack ==
    ASSUME NEW p \in Nat, NEW c \in Int, c <= -1
    PROVE  MoveArchive(MoveArchive(p, c) + BF, -(c + 1)) >= p
<1> DEFINE u == (p + BF - 1) \div BF
           q == MoveArchive(p, c)
<1>1. u \in Nat /\ u * BF >= p /\ u * BF \in Nat
  BY BFAssumption
<1>2. /\ c * BF \in Int /\ u * BF + c * BF = (u + c) * BF
      /\ (u + c) * BF >= 0 => u + c >= 0
  BY <1>1, Times, BFAssumption
<1>3. q = IF u * BF + c * BF < 0 THEN p ELSE u * BF + c * BF
  BY DEF MoveArchive
<1> HIDE DEF u, q
<1>4. CASE u * BF + c * BF < 0
  <2>1. q = p
    BY Zenon, <1>3, <1>4
  <2>2. p + BF \in Nat /\ -(c + 1) \in Int /\ -(c + 1) >= 0
    BY BFAssumption
  <2>3. /\ MoveArchive(p + BF, -(c + 1)) \in Nat
        /\ MoveArchive(p + BF, -(c + 1)) >= p + BF
    BY Zenon, <2>2, MoveType
  <2> QED BY <2>1, <2>3, BFAssumption DEF q
<1>5. CASE ~(u * BF + c * BF < 0)
  <2>1. q + BF = (u + c + 1) * BF /\ u + c + 1 \in Nat
    BY <1>1, <1>2, <1>3, <1>5, Times, BFAssumption
  <2>2. MoveArchive((u + c + 1) * BF, -(c + 1)) = (u + c + 1 + (-(c + 1))) * BF
    BY <1>1, <2>1, MoveAligned
  <2>3. u + c + 1 + (-(c + 1)) = u
    BY <1>1
  <2> QED BY Zenon, <1>1, <2>1, <2>2, <2>3 DEF q
<1> QED BY Zenon, <1>4, <1>5

\* A record written c records before the offset, and the move back, leave
\* what is unread as it is.
LEMMA WriteBelow ==
    ASSUME NEW S, Zero \in S, NEW o \in Seq(S), NEW d \in Seq(S), NEW p \in Nat,
           NEW n \in Nat, NEW c \in Int, c <= -1, n + c >= 0,
           NEW r \in Seq(S), Len(r) = BF, Unread(o, d, p, n)
    PROVE  Unread(o, Overwrite(d, MoveArchive(p, c), r),
                  MoveArchive(MoveArchive(p, c) + BF, -(c + 1)), n)
<1> DEFINE q == MoveArchive(p, c)
           e == Overwrite(d, q, r)
           b == MoveArchive(q + BF, -(c + 1))
           L == Len(o)
<1>1. L \in Nat /\ Len(d) \in Nat /\ BF \in Nat \ {0} /\ q \in Nat
  BY Zenon, BFAssumption, LenProperties, MoveType
<1>2. b \in Nat
  <2>1. q + BF \in Nat /\ -(c + 1) \in Int
    BY <1>1
  <2> HIDE DEF q
  <2> QED BY Zenon, <2>1, MoveType
<1>3. CASE p >= L
  <2>1. b >= p
    BY Zenon, MoveBack
  <2> HIDE DEF b, L, e
  <2>2. b >= L
    BY <1>1, <1>2, <1>3, <2>1
  <2>3. \A i \in b + 1..L : FALSE
    BY <1>1, <1>2, <2>2
  <2> QED BY Zenon, <2>2, <2>3 DEF Unread, b, L, e
<1>4. CASE p = n * BF
  <2>1. q = (n + c) * BF
    BY Zenon, <1>4, MoveAligned
  <2>2. q + BF = (n + c + 1) * BF
    BY <1>1, <2>1, Times
  <2>3. b = p
    <3>1. n + c + 1 \in Nat /\ -(c + 1) \in Int /\ n + c + 1 + (-(c + 1)) = n
      OBVIOUS
    <3> DEFINE a == n + c + 1
               k == -(c + 1)
    <3>2. a \in Nat /\ k \in Int /\ a + k >= 0 /\ a + k = n /\ b = MoveArchive(a * BF, k)
      BY <2>2, <3>1
    <3> HIDE DEF a, k, b
    <3>3. MoveArchive(a * BF, k) = (a + k) * BF
      BY Zenon, <3>2, MoveAligned
    <3> QED BY Zenon, <1>4, <3>2, <3>3
  <2>4. q + BF <= p
    <3>1. n + c + 1 \in Int /\ n + c + 1 <= n
      OBVIOUS
    <3>2. (n + c + 1) * BF <= n * BF
      BY <1>1, <3>1, Times
    <3> QED BY Zenon, <1>4, <2>2, <3>2
  <2> HIDE DEF b, q, L
  <2>5. /\ e \in Seq(S) /\ Len(e) >= Len(d)
        /\ \A i \in 1..Len(e) :
             e[i] = IF i > q /\ i <= q + Len(r) THEN r[i - q]
                    ELSE IF i <= Len(d) THEN d[i] ELSE Zero
    <3>1. q \in Nat
      BY Zenon, <1>1
    <3>2. /\ Overwrite(d, q, r) \in Seq(S)
          /\ Len(Overwrite(d, q, r)) >= Len(d)
          /\ Len(Overwrite(d, q, r)) >= q + Len(r)
          /\ \A i \in 1..Len(Overwrite(d, q, r)) :
               Overwrite(d, q, r)[i] =
                 IF i > q /\ i <= q + Len(r) THEN r[i - q]
                 ELSE IF i <= Len(d) THEN d[i] ELSE Zero
      BY ONLY Zero \in S, d \in Seq(S), r \in Seq(S), <3>1, OverwriteEffect
    <3> QED BY Zenon, <3>2
  <2> HIDE DEF e
  <2>6. Len(e) \in Nat
    BY Zenon, <2>5, LenProperties
  <2>7. \A i \in p + 1..L : i <= Len(d) /\ d[i] = o[i]
    BY Zenon DEF Unread, L
  <2>8. ASSUME NEW i \in p + 1..L
        PROVE  i <= Len(e) /\ e[i] = o[i]
    <3>1. i <= Len(d) /\ d[i] = o[i] /\ i \in Int
      BY <1>1, <2>7
    <3>2. i \in 1..Len(e) /\ i > q + Len(r)
      BY <1>1, <2>4, <2>5, <2>6, <3>1
    <3> QED BY <1>1, <2>5, <3>1, <3>2
  <2> QED BY Zenon, <1>4, <2>3, <2>8 DEF Unread, L, b, e, q
<1> QED BY Zenon, <1>3, <1>4 DEF Unread

\* write_record, when tar is not a filter.
LEMMA WriteRecordInPlace ==
    ASSUME NEW r, NEW back \in BOOLEAN, WriteRecord(r, back), ~input.filter
    PROVE  LET k == records_written + records_skipped - records_read
               p == MoveArchive(pos, k)
           IN  /\ disk' = Overwrite(disk, p, r)
               /\ back => pos' = MoveArchive(p + BF, -(k + 1))
<1> DEFINE k == records_written + records_skipped - records_read
           p == MoveArchive(pos, k)
<1>1. IF input.filter
      THEN out' = out \o r /\ UNCHANGED <<disk, pos>>
      ELSE /\ disk' = Overwrite(disk, p, r)
           /\ pos' = IF back THEN MoveArchive(p + BF, -(k + 1)) ELSE p + BF
           /\ out' = out
  BY Zenon DEF WriteRecord, BackToRead
<1> HIDE DEF k, p
<1>2. /\ disk' = Overwrite(disk, p, r)
      /\ pos' = IF back THEN MoveArchive(p + BF, -(k + 1)) ELSE p + BF
  BY Zenon, <1>1
<1> QED BY Zenon, <1>2 DEF k, p

\* write_record: types, and what it leaves alone.
LEMMA WriteRecordTypes ==
    ASSUME Inv, NEW r \in Seq(ABlock), Len(r) = BF, NEW back \in BOOLEAN,
           WriteRecord(r, back)
    PROVE  /\ disk' \in Seq(ABlock) /\ pos' \in Nat /\ out' \in Seq(ABlock)
           /\ records_written' = records_written + 1
           /\ ~input.filter /\ ~back => pos' <= Len(disk')
<1> DEFINE ahead == records_written + records_skipped - records_read
           p == MoveArchive(pos, ahead)
<1>1. /\ disk \in Seq(ABlock) /\ pos \in Nat /\ out \in Seq(ABlock)
      /\ ahead \in Int /\ BF \in Nat /\ Zero \in ABlock
  BY BFAssumption, OriginalType DEF Inv, TypeOK, IoTypeOK, ABlock
<1>2. p \in Nat
  <2> HIDE DEF ahead
  <2> QED BY Zenon, <1>1, MoveType
<1>3. /\ records_written' = records_written + 1
      /\ IF input.filter
         THEN out' = out \o r /\ UNCHANGED <<disk, pos>>
         ELSE /\ disk' = Overwrite(disk, p, r)
              /\ pos' = IF back THEN MoveArchive(p + BF, -(ahead + 1)) ELSE p + BF
              /\ out' = out
  BY Zenon DEF WriteRecord, BackToRead
<1> HIDE DEF p
<1>4. CASE input.filter
  BY Zenon, <1>1, <1>3, <1>4, ConcatProperties
<1>5. CASE ~input.filter
  <2>1. disk' \in Seq(ABlock) /\ Len(disk') >= p + BF
    BY <1>1, <1>2, <1>3, <1>5, OverwriteEffect
  <2>2. p + BF \in Nat /\ -(ahead + 1) \in Int
    BY <1>1, <1>2
  <2>3. MoveArchive(p + BF, -(ahead + 1)) \in Nat
    <3> HIDE DEF ahead
    <3> QED BY Zenon, <2>2, MoveType
  <2> QED BY Zenon, <1>1, <1>3, <1>5, <2>1, <2>2, <2>3
<1> QED BY Zenon, <1>3, <1>4, <1>5

-----------------------------------------------------------------------------
\* The types, spelled out: numbers, then sequences.
LEMMA Numbers ==
    ASSUME Inv
    PROVE  /\ BF \in Nat \ {0} /\ cur \in Nat /\ cur <= BF /\ end \in Nat /\ end <= BF
           /\ pos \in Nat /\ records_read \in Nat /\ records_written \in Nat
           /\ records_skipped \in Nat /\ record_start_block \in Nat
           /\ todo \in Nat /\ kept \in Nat /\ kept <= BF /\ zeros \in Nat
           /\ Len(newrec) \in Nat /\ Len(newrec) < BF /\ Len(recent) \in Nat
<1>1. /\ BF \in Nat \ {0} /\ cur \in 0..BF /\ end \in 0..BF /\ kept \in 0..BF
      /\ pos \in Nat /\ records_read \in Nat /\ records_written \in Nat
      /\ records_skipped \in Nat /\ record_start_block \in Nat
      /\ todo \in Nat /\ zeros \in Nat /\ Len(newrec) < BF
      /\ newrec \in Seq(ABlock) /\ recent \in Seq(ABlock)
  BY Zenon, BFAssumption DEF Inv, TypeOK, IoTypeOK, ABlock
<1>2. Len(newrec) \in Nat /\ Len(recent) \in Nat
  BY Zenon, <1>1, LenProperties
<1> QED BY <1>1, <1>2

LEMMA SeqTypes ==
    ASSUME Inv
    PROVE  /\ disk \in Seq(ABlock) /\ out \in Seq(ABlock) /\ rec \in [1..BF -> ABlock]
           /\ rec \in Seq(ABlock) /\ Len(rec) = BF
           /\ newrec \in Seq(ABlock) /\ recent \in Seq(ABlock)
           /\ input \in Inputs /\ Zero \in ABlock
<1>1. /\ disk \in Seq(ABlock) /\ out \in Seq(ABlock) /\ rec \in [1..BF -> ABlock]
      /\ newrec \in Seq(ABlock) /\ recent \in Seq(ABlock) /\ input \in Inputs
  BY Zenon DEF Inv, TypeOK, IoTypeOK, ABlock
<1>2. rec \in Seq(ABlock) /\ Len(rec) = BF
  BY Zenon, <1>1, RecordIsSeq
<1>3. Zero \in ABlock
  BY Zenon DEF ABlock, Block
<1> QED BY Zenon, <1>1, <1>2, <1>3

\* Reading a record, passing over blocks, and writing a record.
LEMMA FitsRules ==
    ASSUME NEW w \in Nat, NEW b \in Nat, NEW r \in Nat, NEW c \in Nat, c <= BF,
           Fits(w, b, r, c)
    PROVE  /\ Fits(w, b, r + 1, 0)
           /\ \A b2, c2 \in Nat : b2 + c <= b + c2 => Fits(w, b2, r, c2)
           /\ b >= BF => w + 1 <= r /\ Fits(w + 1, b - BF, r, c)
<1>1. BF \in Nat \ {0} /\ w * BF \in Int /\ (r - 1) * BF \in Int
  BY BFAssumption, Times
<1>2. /\ (r + 1 - 1) * BF = (r - 1) * BF + BF /\ (w + 1) * BF = w * BF + BF
      /\ (r - 1) * BF + BF = r * BF /\ r * BF \in Int
  BY BFAssumption
<1>3. w * BF + b <= (r - 1) * BF + c
  BY Zenon DEF Fits
<1>4. Fits(w, b, r + 1, 0)
  BY <1>1, <1>2, <1>3 DEF Fits
<1>5. \A b2, c2 \in Nat : b2 + c <= b + c2 => Fits(w, b2, r, c2)
  BY <1>1, <1>3 DEF Fits
<1>6. ASSUME b >= BF
      PROVE  w + 1 <= r /\ Fits(w + 1, b - BF, r, c)
  <2>1. w * BF < r * BF + 1 * BF
    BY <1>1, <1>2, <1>3, <1>6
  <2>2. w * BF <= (r - 1) * BF
    BY <1>1, <1>3, <1>6
  <2>3. r * BF = (r - 1) * BF + 1 * BF
    BY <1>1, <1>2
  <2>4. w * BF < r * BF
    BY <1>1, <1>2, <2>2, <2>3
  <2>5. w < r
    BY <2>4, Times
  <2> QED BY <1>1, <1>2, <1>3, <1>6, <2>5 DEF Fits
<1> QED BY Zenon, <1>4, <1>5, <1>6

\* Room, with its parts named.
LEMMA RoomNow ==
    ASSUME Inv, Plain, phase = 2, Live
    PROVE  /\ Fits(records_written + records_skipped, Len(newrec) + Len(recent),
                   records_read, cur)
           /\ records_written + records_skipped \in Nat
           /\ Len(newrec) + Len(recent) \in Nat /\ records_read \in Nat
           /\ cur \in Nat /\ cur <= BF
<1>1. Room
  BY Zenon DEF Inv
<1>2. /\ records_written + records_skipped \in Nat
      /\ Len(newrec) + Len(recent) \in Nat /\ records_read \in Nat
      /\ cur \in Nat /\ cur <= BF
  BY Numbers
<1> QED BY Zenon, <1>1, <1>2 DEF Room

\* A step that neither reads nor writes the file.
LEMMA BufferStep ==
    ASSUME Inv, Live, UNCHANGED <<disk, pos, records_read, input>>,
           TypeOK', Control', Plain => Room'
    PROVE  Inv'
<1>1. UNCHANGED <<Plain, Original>>
  BY Zenon DEF Plain, Original, Arch
<1>2. Plain => UnreadIntact'
  BY Zenon DEF Inv, UnreadIntact, Live
<1> QED BY Zenon, <1>1, <1>2 DEF Inv

\* flush_read keeps the types and what is unread.
LEMMA FlushReadEffect ==
    ASSUME Inv, NEW e \in 0..BF, FlushRead(e)
    PROVE  /\ out' \in Seq(ABlock) /\ rec' \in [1..BF -> ABlock] /\ end' \in 0..BF
           /\ pos' \in Nat /\ records_read' = records_read + 1
           /\ Unread(Original, disk, pos, records_read) =>
                Unread(Original, disk, pos', records_read')
<1> DEFINE n == ReadCount(disk, pos)
           L == Len(Original)
<1>1. /\ BF \in Nat \ {0} /\ pos \in Nat /\ records_read \in Nat
      /\ disk \in Seq(ABlock) /\ out \in Seq(ABlock) /\ rec \in [1..BF -> ABlock]
      /\ rec \in Seq(ABlock)
  BY Zenon, Numbers, SeqTypes
<1>2. /\ n \in 0..BF /\ Len(disk) \in Nat
      /\ n > 0 => pos + n <= Len(disk)
      /\ n < BF => pos + n >= Len(disk)
  BY Zenon, <1>1, ReadCountBounds, LenProperties
<1>3. /\ out' \in {out, out \o rec} /\ pos' = pos + n
      /\ end' \in {e, n} /\ records_read' = records_read + 1
      /\ rec' = [i \in 1..BF |-> IF i <= n THEN disk[pos + i] ELSE rec[i]]
  BY Zenon DEF FlushRead
<1> HIDE DEF n
<1>4. rec' \in [1..BF -> ABlock]
  BY <1>1, <1>2, <1>3, LenProperties
<1>5. out' \in Seq(ABlock)
  BY <1>1, <1>3, ConcatProperties
<1>6. ASSUME Unread(Original, disk, pos, records_read)
      PROVE  Unread(Original, disk, pos', records_read')
  <2>1. L \in Nat
    BY Zenon, OriginalType DEF Inv
  <2> HIDE DEF L
  <2>2. \A i \in pos + 1..L : i <= Len(disk) /\ disk[i] = Original[i]
    BY Zenon, <1>6 DEF Unread, L
  <2>3. pos + n + 1..L \subseteq pos + 1..L
    BY <1>1, <1>2, <2>1
  <2>4. pos + n = (records_read + 1) * BF \/ pos + n >= L
    <3>1. CASE pos >= L
      BY <1>1, <1>2, <2>1, <3>1
    <3>2. CASE n < BF /\ pos < L
      <4>1. L \in pos + 1..L
        BY <1>1, <2>1, <3>2
      <4>2. L <= Len(disk)
        BY Zenon, <2>2, <4>1
      <4> QED BY <1>1, <1>2, <2>1, <3>2, <4>2
    <3>3. CASE n = BF /\ pos = records_read * BF
      <4>1. (records_read + 1) * BF = records_read * BF + 1 * BF
        BY <1>1, Times
      <4> QED BY <1>1, <3>3, <4>1
    <3>4. pos = records_read * BF \/ pos >= L
      BY Zenon, <1>6 DEF Unread, L
    <3> QED BY <1>1, <1>2, <2>1, <3>1, <3>2, <3>3, <3>4
  <2> QED BY Zenon, <1>3, <2>2, <2>3, <2>4 DEF Unread, L
<1> QED BY <1>1, <1>2, <1>3, <1>4, <1>5, <1>6

\* A step that reads a record.
LEMMA ReadStep ==
    ASSUME Inv, Live, Live', UNCHANGED <<disk, input, records_written>>,
           NEW e \in 0..BF, FlushRead(e), TypeOK', Control', Plain => Room'
    PROVE  Inv'
<1>1. UNCHANGED <<Plain, Original>>
  BY Zenon DEF Plain, Original, Arch
<1>2. Plain => UnreadIntact'
  <2>1. Plain /\ ~input.filter => Unread(Original, disk, pos, records_read)
    BY Zenon DEF Inv, UnreadIntact, Live, Unread, Original
  <2>2. Plain /\ ~input.filter => Unread(Original, disk, pos', records_read')
    BY Zenon, <2>1, FlushReadEffect
  <2> QED BY Zenon, <2>2, <1>1 DEF UnreadIntact, Unread, Original
<1> QED BY Zenon, <1>1, <1>2 DEF Inv

-----------------------------------------------------------------------------
LEMMA InitInv == Init => Inv
<1> SUFFICES ASSUME Init PROVE Inv
  BY Zenon
<1> USE DEF Init, ReadInit, OpenForUpdate
<1>1. /\ input \in Inputs /\ to_stdout \in BOOLEAN /\ disk = Original
      /\ disk \in Seq(ABlock) /\ Zero \in ABlock
  BY Zenon, OriginalType, ArchivesAssumption DEF Original
<1>2. TypeOK
  <2>1. out \in Seq(ABlock) /\ newrec \in Seq(ABlock) /\ recent \in Seq(ABlock)
    BY Zenon, EmptySeq
  <2>2. rec \in [1..BF -> ABlock]
    BY Zenon, <1>1
  <2>3. cur \in 0..BF /\ end \in 0..BF /\ kept \in 0..BF /\ Len(newrec) < BF
    BY BFAssumption, EmptySeq
  <2>4. IoTypeOK(ABlock)
    BY Zenon, <1>1, <2>1, <2>2, <2>3 DEF IoTypeOK
  <2> QED BY Zenon, <2>1, <2>3, <2>4 DEF TypeOK, ABlock
<1>3. Control
  BY DEF Control
<1>4. Room
  BY DEF Room
<1>5. UnreadIntact
  <2>1. Len(Original) \in Nat /\ 0 * BF = 0
    BY <1>1, OriginalType, BFAssumption
  <2> QED BY <1>1, <2>1 DEF UnreadIntact, Original
<1> QED BY Zenon, <1>1, <1>2, <1>3, <1>4, <1>5 DEF Inv

\* The member of the current header.
LEMMA HeaderType ==
    ASSUME Inv, cur < end, Header # Zero
    PROVE  /\ cur + 1 <= BF /\ Header \in ABlock /\ Header.m \in 1..Len(Arch)
           /\ Member \in MemberType /\ Member.name \in Names
           /\ Member.size \in Nat /\ Member.ext \in Nat
<1>1. cur \in 0..BF - 1 /\ cur + 1 \in 1..BF /\ cur + 1 <= BF
  BY Numbers
<1>2. rec \in [1..BF -> ABlock] /\ input \in Inputs
  BY Zenon, SeqTypes
<1>3. Header \in ABlock
  BY Zenon, <1>1, <1>2 DEF Header
<1> QED BY Zenon, <1>1, <1>2, <1>3, HeaderMember DEF ABlock, MemberType

\* The counts of found names.
LEMMA CountType ==
    ASSUME Inv, Count
    PROVE  found' \in [Names -> Nat]
<1>1. found \in [Names -> Nat]
  BY Zenon DEF Inv, TypeOK
<1> DEFINE n == Member.name
<1>2. found' = [found EXCEPT ![n] = @ + 1] \/ found' = found
  BY Zenon DEF Count
<1> HIDE DEF n
<1> QED BY <1>1, <1>2

LEMMA NextRecordInv == Inv /\ NextRecord => Inv'
<1> SUFFICES ASSUME Inv, NextRecord PROVE Inv'
  BY Zenon
<1>0. FlushRead(BF) /\ hit_eof' \in BOOLEAN
  BY Zenon DEF NextRecord, ReadRecord, FindNextBlock, FlushForRead, delVars
<1>1. /\ pc \in {"header", "skim", "ext"} /\ cur = end
      /\ cur' = 0 /\ record_start_block' = record_start_block + end
      /\ UNCHANGED <<disk, to_stdout, records_written, input, pc, todo>>
      /\ UNCHANGED <<phase, found, records_skipped, newrec, recent, kept, zeros>>
  BY Zenon DEF NextRecord, ReadRecord, FindNextBlock, FlushForRead, delVars
<1>2. BF \in 0..BF /\ BF \in Nat \ {0} /\ cur \in Nat /\ end \in Nat
  BY Numbers
<1>3. /\ out' \in Seq(ABlock) /\ rec' \in [1..BF -> ABlock] /\ end' \in 0..BF
      /\ pos' \in Nat /\ records_read' = records_read + 1
  BY Zenon, <1>0, <1>2, FlushReadEffect
<1>4. TypeOK'
  <2>1. UNCHANGED <<ABlock, Names, Len(Arch)>>
    BY Zenon, <1>1 DEF ABlock, Names, Arch
  <2>2. cur' \in 0..BF /\ record_start_block' \in Nat /\ records_read' \in Nat
    <3>1. records_read \in Nat /\ record_start_block \in Nat
      BY Zenon, Numbers
    <3>2. records_read' \in Nat
      BY ONLY <1>3, <3>1
    <3>3. record_start_block' \in Nat
      BY ONLY <1>1, <1>2, <3>1
    <3> QED BY ONLY <1>1, <1>2, <3>2, <3>3
  <2>3. IoTypeOK(Block(Len(Arch)))'
    BY Zenon, <1>0, <1>1, <1>3, <2>1, <2>2 DEF Inv, TypeOK, IoTypeOK, ABlock
  <2> QED BY Zenon, <1>1, <2>1, <2>3 DEF Inv, TypeOK
<1>5. Control'
  <2>1. records_read' >= 1 /\ cur' <= end'
    BY <1>1, <1>2, <1>3, Numbers
  <2> QED BY Zenon, <1>1, <2>1 DEF Inv, Control
<1>6. Plain => Room'
  <2> SUFFICES ASSUME Plain, phase' = 2, Live' PROVE Room'
    BY Zenon DEF Room
  <2>1. Fits(records_written + records_skipped, Len(newrec) + Len(recent),
             records_read + 1, 0)
    BY Zenon, <1>1, RoomNow, FitsRules DEF Live
  <2> QED BY Zenon, <1>1, <1>3, <2>1 DEF Room
<1>7. Live /\ Live'
  BY Zenon, <1>1 DEF Live
<1> QED BY Zenon, <1>0, <1>1, <1>2, <1>4, <1>5, <1>6, <1>7, ReadStep

\* The types after a step that leaves the file and the buffer alone.
LEMMA TypeStep ==
    ASSUME Inv,
           UNCHANGED <<disk, pos, out, rec, end, hit_eof, record_start_block,
                       records_read, records_written, input, zeros>>,
           cur' \in 0..BF, to_stdout' \in BOOLEAN, phase' \in {1, 2},
           pc' \in {"header", "skim", "ext", "next", "flush", "emit", "copy", "move",
                    "eot", "truncate", "done", "fatal", "abort"},
           found' \in [Names -> Nat], records_skipped' \in Nat,
           newrec' \in Seq(ABlock), Len(newrec') < BF, recent' \in Seq(ABlock),
           todo' \in Nat, kept' \in 0..BF
    PROVE  TypeOK'
<1>1. UNCHANGED <<Names, Len(Arch), ABlock>>
  BY Zenon DEF Names, Arch, ABlock
<1>2. IoTypeOK(Block(Len(Arch)))'
  BY Zenon, <1>1 DEF Inv, TypeOK, IoTypeOK
<1> QED BY Zenon, <1>1, <1>2 DEF Inv, TypeOK, ABlock

\* The same for the variables that most steps leave alone.
LEMMA SameTypes ==
    ASSUME Inv
    PROVE  /\ cur \in 0..BF /\ to_stdout \in BOOLEAN /\ phase \in {1, 2}
           /\ found \in [Names -> Nat] /\ records_skipped \in Nat
           /\ newrec \in Seq(ABlock) /\ Len(newrec) < BF /\ recent \in Seq(ABlock)
           /\ todo \in Nat /\ kept \in 0..BF /\ <<>> \in Seq(ABlock)
BY Zenon, EmptySeq DEF Inv, TypeOK, IoTypeOK, ABlock

\* A step that ends, or goes on to write the end of the archive, and changes
\* nothing but pc.
LEMMA StopInv ==
    ASSUME Inv, UNCHANGED <<ioVars, input, todo, delVars>>, Live,
           \/ pc' \in {"fatal", "abort"}
           \/ pc' = "done" /\ phase = 1
           \/ pc' = "eot" /\ phase = 2,
           pc' = "abort" => phase = 2
    PROVE  Inv'
<1>1. /\ UNCHANGED <<disk, pos, out, rec, end, hit_eof, record_start_block,
                     records_read, records_written, input, zeros>>
      /\ UNCHANGED <<cur, to_stdout, phase, found, records_skipped, newrec, recent,
                     todo, kept>>
  BY Zenon DEF ioVars, delVars
<1>2. TypeOK'
  BY Zenon, <1>1, SameTypes, TypeStep
<1>3. Control'
  BY <1>1 DEF Inv, Control
<1>4. Plain => Room'
  BY Zenon, <1>1 DEF Inv, Room, Live
<1> QED BY Zenon, <1>1, <1>2, <1>3, <1>4, BufferStep

LEMMA Further ==
    ASSUME NEW p \in Nat, NEW q \in Nat, q >= p, NEW n \in Nat
    PROVE  \A i \in q + 1..n : i \in p + 1..n
OBVIOUS

LEMMA PassMemberInv == Inv /\ PassMember => Inv'
<1> SUFFICES ASSUME Inv, PassMember PROVE Inv'
  BY Zenon
<1>1. /\ pc = "header" /\ phase = 1 /\ cur < end /\ Header # Zero /\ pc' = "skim"
      /\ UNCHANGED <<disk, out, rec, end, hit_eof, to_stdout, records_written,
                     input, phase, records_skipped, newrec, recent, kept, zeros>>
  BY Zenon DEF PassMember, SkimMember, HaveBlock, IsHeader
<1>2. Count /\ SkimMember
  BY Zenon DEF PassMember
<1>3. PICK n \in Nat :
              /\ cur' = IF n > 0 THEN end ELSE cur + 1
              /\ pos' = pos + n * BF
              /\ records_read' = records_read + n
              /\ record_start_block' = record_start_block + n * BF
              /\ todo' \in Nat
  <2>1. /\ cur \in Nat /\ end \in 0..BF /\ pos \in Nat /\ records_read \in Nat
    BY Numbers
  <2>2. input \in Inputs /\ rec \in [1..BF -> Block(Len(Arch))]
    BY Zenon, SeqTypes DEF ABlock
  <2> QED BY Zenon, <1>1, <1>2, <2>1, <2>2, SkimEffect
<1>4. n * BF \in Nat /\ records_read \in Nat /\ (records_read + n) * BF = records_read * BF + n * BF
  BY <1>3, Numbers, Times
<1>5. /\ cur' \in 0..BF /\ cur' <= end /\ pos' \in Nat /\ pos' >= pos
      /\ records_read' \in Nat /\ records_read' >= records_read
      /\ record_start_block' \in Nat
  <2>1. cur < end
    BY Zenon, <1>1
  <2>2. /\ pos' \in Nat /\ pos' >= pos /\ records_read' \in Nat
        /\ records_read' >= records_read /\ record_start_block' \in Nat
    <3> DEFINE m == n * BF
    <3>1. /\ m \in Nat /\ pos' = pos + m /\ records_read' = records_read + n
          /\ record_start_block' = record_start_block + m
      BY Zenon, <1>3, <1>4
    <3> HIDE DEF m
    <3>2. pos \in Nat /\ records_read \in Nat /\ record_start_block \in Nat
      BY Zenon, Numbers
    <3> QED BY <3>1, <3>2
  <2>3. cur' = end \/ cur' = cur + 1
    BY Zenon, <1>3
  <2>4. cur' \in 0..BF /\ cur' <= end
    BY <2>1, <2>3, Numbers
  <2> QED BY Zenon, <2>2, <2>4
<1>6. TypeOK'
  <2>1. UNCHANGED <<Names, Len(Arch), ABlock>>
    BY Zenon, <1>1 DEF Names, Arch, ABlock
  <2>2. IoTypeOK(Block(Len(Arch)))'
    BY Zenon, <1>1, <1>5, <2>1 DEF Inv, TypeOK, IoTypeOK
  <2>3. found' \in [Names -> Nat]
    BY Zenon, <1>2, CountType
  <2> QED BY Zenon, <1>1, <1>3, <2>1, <2>2, <2>3 DEF Inv, TypeOK
<1>7. Control'
  <2>1. records_read' >= 1
    BY <1>1, <1>5, Numbers DEF Inv, Control
  <2> QED BY <1>1, <1>5, <2>1 DEF Inv, Control
<1>8. Room'
  BY <1>1 DEF Room
<1>9. UNCHANGED <<Plain, Original>>
  BY Zenon, <1>1 DEF Plain, Original, Arch
<1>10. Plain => UnreadIntact'
  <2> SUFFICES ASSUME Plain, ~input.filter PROVE Unread(Original, disk, pos', records_read')
    BY Zenon, <1>1, <1>9 DEF UnreadIntact, Unread, Original
  <2>1. Unread(Original, disk, pos, records_read)
    BY Zenon, <1>1 DEF Inv, UnreadIntact, Unread, Original
  <2>2. Len(Original) \in Nat /\ pos \in Nat
    BY Zenon, SeqTypes, OriginalType, Numbers
  <2>3. \A i \in pos' + 1..Len(Original) : i \in pos + 1..Len(Original)
    BY Zenon, <1>5, <2>2, Further
  <2>4. pos' = records_read' * BF \/ pos' >= Len(Original)
    BY <1>3, <1>4, <1>5, <2>1, <2>2 DEF Unread
  <2> QED BY Zenon, <2>1, <2>3, <2>4 DEF Unread
<1> QED BY Zenon, <1>1, <1>6, <1>7, <1>8, <1>9, <1>10 DEF Inv

\* The blocks at hand of those to do.
LEMMA HereBounds ==
    ASSUME Inv, cur <= end
    PROVE  /\ Here \in Nat /\ todo - Here \in Nat /\ cur + Here \in Nat
           /\ cur + Here \in 0..BF /\ cur + Here <= end /\ cur + Here >= cur
<1>1. /\ cur \in Nat /\ end \in Nat /\ end <= BF /\ BF \in Nat /\ todo \in Nat
  BY Zenon, Numbers
<1>2. Here \in Nat /\ Here <= todo /\ Here <= end - cur
  BY <1>1 DEF Here
<1> HIDE DEF Here
<1> QED BY <1>1, <1>2

\* A part of the buffer.
LEMMA PartType ==
    ASSUME Inv, NEW n \in Nat, cur + n <= BF
    PROVE  /\ SubSeq(rec, cur + 1, cur + n) \in Seq(ABlock)
           /\ Len(SubSeq(rec, cur + 1, cur + n)) = n
<1> DEFINE a == cur + 1
           b == cur + n
<1>1. a \in Nat /\ b \in Nat /\ a >= 1 /\ b <= BF
  BY Numbers
<1>2. (IF a <= b THEN b - a + 1 ELSE 0) = n
  <2>1. cur \in Nat
    BY Zenon, Numbers
  <2> QED BY <2>1
<1>3. rec \in Seq(ABlock) /\ Len(rec) = BF
  BY Zenon, SeqTypes
<1> HIDE DEF a, b
<1>4. /\ SubSeq(rec, a, b) \in Seq(ABlock)
      /\ Len(SubSeq(rec, a, b)) = IF a <= b THEN b - a + 1 ELSE 0
  BY <1>1, <1>3, SubSeqType
<1> QED BY <1>2, <1>4 DEF a, b

LEMMA SkimBlocksInv == Inv /\ SkimBlocks => Inv'
<1> SUFFICES ASSUME Inv, SkimBlocks PROVE Inv'
  BY Zenon
<1>1. /\ pc = "skim" /\ pc' \in {"skim", "header"}
      /\ cur' = cur + Here /\ todo' = todo - Here
      /\ UNCHANGED <<disk, pos, out, rec, end, hit_eof, record_start_block,
                     records_read, records_written, input, zeros>>
      /\ UNCHANGED <<to_stdout, phase, found, records_skipped, newrec, recent, kept>>
  BY Zenon DEF SkimBlocks, PassHere, delVars
<1>2. phase = 1 /\ cur <= end
  BY Zenon, <1>1, SameTypes DEF Inv, Control
<1>3. cur' \in 0..BF /\ todo' \in Nat /\ cur' <= end /\ cur' >= cur
  BY Zenon, <1>1, <1>2, HereBounds
<1>4. TypeOK'
  BY Zenon, <1>1, <1>3, SameTypes, TypeStep
<1>5. Control'
  <2>1. cur' < end => records_read >= 1
    BY <1>2, <1>3, Numbers DEF Inv, Control
  <2> QED BY Zenon, <1>1, <1>2, <1>3, <2>1 DEF Inv, Control
<1>6. Room'
  BY <1>1, <1>2 DEF Room
<1> QED BY Zenon, <1>1, <1>4, <1>5, <1>6, BufferStep DEF Live

LEMMA BeginEffect ==
    ASSUME Inv, cur < end, phase = 1, NEW next, BeginRewrite(next)
    PROVE  /\ records_skipped' \in Nat /\ records_skipped' = records_read - 1
           /\ newrec' \in Seq(ABlock) /\ Len(newrec') = cur /\ Len(newrec') < BF
           /\ records_read >= 1 /\ records_written = 0 /\ Len(recent) = 0
           /\ phase' = 2 /\ to_stdout' = FALSE /\ pc' = next
<1>1. records_read >= 1 /\ records_written = 0 /\ recent = <<>>
  BY Zenon DEF Inv, Control
<1>2. /\ phase' = 2 /\ to_stdout' = FALSE /\ pc' = next
      /\ records_skipped' = records_read - 1 /\ newrec' = SubSeq(rec, 1, cur)
  BY Zenon DEF BeginRewrite, RecordsSkipped, SavedBlocks
<1>3. cur \in Nat /\ cur < BF /\ 1 \in Nat
  BY Numbers
<1>4. newrec' \in Seq(ABlock) /\ Len(newrec') = IF 1 <= cur THEN cur - 1 + 1 ELSE 0
  <2>1. rec \in Seq(ABlock) /\ cur <= Len(rec)
    BY Zenon, <1>3, SeqTypes, Numbers
  <2> QED BY <1>2, <1>3, <2>1, SubSeqType
<1>5. Len(newrec') = cur
  BY <1>3, <1>4
<1> QED BY <1>1, <1>2, <1>3, <1>4, <1>5, Numbers

\* The blocks before the header and those skipped are all that was consumed.
LEMMA BeginFits ==
    ASSUME NEW r \in Nat, NEW c \in Nat, NEW c2 \in Nat, c <= c2
    PROVE  Fits(0 + (r - 1), c + 0, r, c2)
<1>1. 0 + (r - 1) = r - 1 /\ c + 0 = c /\ (r - 1) * BF \in Int
  BY Times
<1> QED BY <1>1 DEF Fits

LEMMA BeginInv == Inv /\ (BeginAtMember \/ BeginAtExtended) => Inv'
<1> SUFFICES ASSUME Inv, BeginAtMember \/ BeginAtExtended PROVE Inv'
  BY Zenon
<1>1. /\ pc = "header" /\ phase = 1 /\ cur < end /\ Header # Zero
      /\ UNCHANGED <<disk, pos, out, rec, end, hit_eof, record_start_block,
                     records_read, records_written, input, zeros>>
      /\ UNCHANGED <<recent, kept>>
  BY Zenon DEF BeginAtMember, BeginAtExtended, HaveBlock, IsHeader, IsExtHeader
<1>2. PICK next \in {"flush", "next"} : BeginRewrite(next)
  BY Zenon DEF BeginAtMember, BeginAtExtended
<1>3. /\ records_skipped' \in Nat /\ records_skipped' = records_read - 1
      /\ newrec' \in Seq(ABlock) /\ Len(newrec') = cur /\ Len(newrec') < BF
      /\ records_read >= 1 /\ records_written = 0 /\ Len(recent) = 0
      /\ phase' = 2 /\ to_stdout' = FALSE /\ pc' = next
  BY Zenon, <1>1, <1>2, BeginEffect
<1>4. (cur' = cur + 1 /\ todo' = Member.size) \/ (cur' = cur /\ todo' = todo)
  BY Zenon DEF BeginAtMember, BeginAtExtended
<1>5. found' \in [Names -> Nat]
  <2>1. Count \/ found' = found
    BY Zenon DEF BeginAtMember, BeginAtExtended
  <2> QED BY Zenon, <2>1, CountType, SameTypes
<1>6. cur' \in Nat /\ cur <= cur' /\ cur' <= end /\ cur' \in 0..BF /\ todo' \in Nat
  <2>1. cur < end
    BY Zenon, <1>1
  <2>2. cur' = cur + 1 \/ cur' = cur
    BY Zenon, <1>4
  <2>3. Member.size \in Nat
    BY Zenon, <1>1, HeaderType
  <2>4. todo' \in Nat
    BY Zenon, <1>4, <2>3, Numbers
  <2> QED BY <2>1, <2>2, <2>4, Numbers
<1>7. TypeOK'
  <2>1. kept' \in 0..BF /\ recent' \in Seq(ABlock)
    BY Zenon, <1>1, SameTypes
  <2> QED BY Zenon, <1>1, <1>2, <1>3, <1>5, <1>6, <2>1, TypeStep
<1>8. Control'
  BY <1>1, <1>2, <1>3, <1>6 DEF Control
<1>9. Room'
  <2>1. Fits(0 + (records_read - 1), cur + 0, records_read, cur')
    BY Zenon, <1>6, Numbers, BeginFits
  <2> QED BY Zenon, <1>1, <1>3, <2>1 DEF Room
<1> QED BY Zenon, <1>1, <1>7, <1>8, <1>9, BufferStep DEF Live

\* A step that moves current_block inside the buffer and queues no more blocks
\* than it passes over.
LEMMA PassInv ==
    ASSUME Inv, Live, pc # "skim",
           UNCHANGED <<disk, pos, out, rec, end, hit_eof, record_start_block,
                       records_read, records_written, input, zeros>>,
           UNCHANGED <<to_stdout, phase, records_skipped, newrec, kept>>,
           pc' \in {"header", "next", "flush", "emit", "ext"},
           found' \in [Names -> Nat], recent' \in Seq(ABlock), todo' \in Nat,
           cur' \in Nat, cur <= cur', cur' <= BF,
           Len(recent') \in Nat,
           Plain => Len(recent') + cur <= Len(recent) + cur',
           pc' \in {"ext", "flush", "emit"} => phase = 2 /\ cur' <= end,
           phase = 1 => cur' <= end /\ recent' = <<>> /\ pc' = "header",
           phase = 1 => records_read >= 1,
           pc' = "emit" => recent' # <<>>
    PROVE  Inv'
<1>1. cur' \in 0..BF
  BY BFAssumption
<1>2. TypeOK'
  BY Zenon, <1>1, SameTypes, TypeStep
<1>3. Control'
  BY Zenon DEF Inv, Control
<1>4. Plain => Room'
  <2> SUFFICES ASSUME Plain, phase = 2 PROVE Room'
    BY Zenon DEF Room
  <2>1. Len(newrec) + Len(recent') \in Nat
    BY Numbers
  <2>2. Len(newrec) + Len(recent') + cur <= Len(newrec) + Len(recent) + cur'
    <3>1. \A n, a, b, c, d \in Nat : a + c <= b + d => n + a + c <= n + b + d
      OBVIOUS
    <3> QED BY Zenon, <3>1, Numbers
  <2>3. Fits(records_written + records_skipped, Len(newrec) + Len(recent'),
             records_read, cur')
    BY Zenon, <2>1, <2>2, RoomNow, FitsRules
  <2> QED BY Zenon, <2>3 DEF Room
<1> QED BY Zenon, <1>2, <1>3, <1>4, BufferStep

LEMMA StopsInv ==
    ASSUME Inv, SkimEOF \/ EndOfArchive \/ CopyAbort \/ StaleBlock
    PROVE  Inv'
<1>1. UNCHANGED <<ioVars, input, todo, delVars>>
  BY Zenon DEF SkimEOF, EndOfArchive, CopyAbort, StaleBlock, delVars
<1>2. phase \in {1, 2}
  BY Zenon, SameTypes
<1>3. CASE SkimEOF
  BY Zenon, <1>1, <1>3, StopInv DEF SkimEOF, Live
<1>4. CASE EndOfArchive
  BY Zenon, <1>1, <1>2, <1>4, StopInv DEF EndOfArchive, Live
<1>5. CASE CopyAbort
  <2>1. pc \in {"copy", "move"} /\ pc' = "abort"
    BY Zenon, <1>5 DEF CopyAbort
  <2>2. phase = 2
    BY Zenon, <1>2, <2>1 DEF Inv, Control
  <2> QED BY Zenon, <1>1, <2>1, <2>2, StopInv DEF Live
<1>6. CASE StaleBlock
  <2>1. pc = "header" /\ cur > end /\ pc' \in {"eot", "abort"}
    BY Zenon, <1>6 DEF StaleBlock
  <2>2. phase = 2
    <3>1. phase = 1 => cur <= end
      BY Zenon DEF Inv, Control
    <3>2. ~(cur <= end)
      BY <2>1, Numbers
    <3> QED BY Zenon, <1>2, <3>1, <3>2
  <2> QED BY Zenon, <1>1, <2>1, <2>2, StopInv DEF Live
<1> QED BY Zenon, <1>3, <1>4, <1>5, <1>6

LEMMA NonHeaderInv == Inv /\ NonHeader => Inv'
<1> SUFFICES ASSUME Inv, NonHeader PROVE Inv'
  BY Zenon
<1>1. /\ pc = "header" /\ cur < end /\ cur' = cur + 1 /\ recent' = <<>>
      /\ pc' = (IF phase = 1 THEN "header" ELSE "next")
      /\ UNCHANGED <<disk, pos, out, rec, end, hit_eof, record_start_block,
                     records_read, records_written, input, zeros>>
      /\ UNCHANGED <<to_stdout, phase, found, records_skipped, newrec, todo, kept>>
  BY Zenon DEF NonHeader, HaveBlock, PassBlock
<1>2. /\ cur' \in Nat /\ cur <= cur' /\ cur' <= BF /\ cur' <= end
      /\ Len(recent') = 0 /\ Len(recent') \in Nat
      /\ Len(recent') + cur <= Len(recent) + cur'
  <2>1. cur < end /\ cur' = cur + 1 /\ Len(recent') = 0
    BY Zenon, <1>1, EmptySeq
  <2> QED BY <2>1, Numbers, SMTT(30)
<1>3. phase = 1 => records_read >= 1
  BY Zenon, <1>1 DEF Inv, Control
<1> QED BY Zenon, <1>1, <1>2, <1>3, SameTypes, PassInv DEF Live

LEMMA ExtendedHeaderInv == Inv /\ ExtendedHeader => Inv'
<1> SUFFICES ASSUME Inv, ExtendedHeader PROVE Inv'
  BY Zenon
<1>1. /\ pc = "header" /\ phase = 2 /\ cur < end /\ Header # Zero /\ pc' = "ext"
      /\ recent' = <<>> /\ todo' = Member.ext
      /\ UNCHANGED <<disk, pos, out, rec, end, hit_eof, record_start_block,
                     records_read, records_written, input, zeros>>
      /\ UNCHANGED <<cur, to_stdout, phase, found, records_skipped, newrec, kept>>
  BY Zenon DEF ExtendedHeader, BeginExtended, HaveBlock, IsExtHeader, ioVars
<1>2. todo' \in Nat
  BY Zenon, <1>1, HeaderType
<1>3. /\ cur' \in Nat /\ cur <= cur' /\ cur' <= BF /\ cur' <= end
      /\ Len(recent') \in Nat /\ Len(recent') + cur <= Len(recent) + cur'
  <2>1. cur < end /\ cur' = cur /\ Len(recent') = 0
    BY Zenon, <1>1, EmptySeq
  <2> QED BY <2>1, Numbers
<1> QED BY <1>1, <1>2, <1>3, SameTypes, PassInv DEF Live

LEMMA ReadExtendedInv == Inv /\ ReadExtended => Inv'
<1> SUFFICES ASSUME Inv, ReadExtended PROVE Inv'
  BY Zenon
<1> DEFINE part == SubSeq(rec, cur + 1, cur + Here)
<1>1. /\ pc = "ext" /\ pc' \in {"ext", "header"}
      /\ recent' = recent \o part
      /\ cur' = cur + Here /\ todo' = todo - Here
      /\ UNCHANGED <<disk, pos, out, rec, end, hit_eof, record_start_block,
                     records_read, records_written, input, zeros>>
      /\ UNCHANGED <<to_stdout, phase, found, records_skipped, newrec, kept>>
  BY Zenon DEF ReadExtended, PassHere
<1>2. phase = 2 /\ cur <= end
  BY Zenon, <1>1, SameTypes DEF Inv, Control
<1>3. /\ Here \in Nat /\ todo - Here \in Nat /\ cur + Here \in Nat
      /\ cur + Here \in 0..BF /\ cur + Here <= end /\ cur + Here >= cur
  BY Zenon, <1>2, HereBounds
<1>4. part \in Seq(ABlock) /\ Len(part) = Here
  BY <1>3, PartType
<1>5. recent' \in Seq(ABlock) /\ Len(recent') = Len(recent) + Here
  <2> HIDE DEF part
  <2> QED BY Zenon, <1>1, <1>4, SeqTypes, ConcatProperties
<1>6. /\ cur' \in Nat /\ cur <= cur' /\ cur' <= BF /\ cur' <= end /\ todo' \in Nat
      /\ Len(recent') \in Nat /\ Len(recent') + cur <= Len(recent) + cur'
  <2> HIDE DEF Here
  <2>1. cur \in Nat /\ end \in Nat /\ end <= BF /\ BF \in Nat /\ Len(recent) \in Nat
    BY Zenon, Numbers
  <2>2. Len(recent) + Here \in Nat /\ Len(recent) + Here + cur <= Len(recent) + (cur + Here)
    BY <1>3, <2>1
  <2>3. cur + Here <= BF
    BY <1>3, <2>1
  <2> QED BY Zenon, <1>1, <1>3, <1>5, <2>2, <2>3
<1> QED BY <1>1, <1>2, <1>5, <1>6, SameTypes, PassInv DEF Live

LEMMA ExtendedEOFInv == Inv /\ ExtendedEOF => Inv'
<1> SUFFICES ASSUME Inv, ExtendedEOF PROVE Inv'
  BY Zenon
<1>1. /\ pc = "ext" /\ pc' \in {"header", "fatal"}
      /\ UNCHANGED <<ioVars, input, todo, delVars>>
  BY Zenon DEF ExtendedEOF, delVars
<1>2. phase = 2 /\ cur <= end
  BY Zenon, <1>1, SameTypes DEF Inv, Control
<1>3. CASE pc' = "fatal"
  BY Zenon, <1>1, <1>3, StopInv DEF Live
<1>4. CASE pc' = "header"
  <2>1. /\ UNCHANGED <<disk, pos, out, rec, end, hit_eof, record_start_block,
                       records_read, records_written, input, zeros>>
        /\ UNCHANGED <<to_stdout, phase, records_skipped, newrec, kept>>
        /\ UNCHANGED <<cur, found, recent, todo>>
    BY Zenon, <1>1 DEF ioVars, delVars
  <2>2. cur \in Nat /\ cur <= BF /\ Len(recent) \in Nat /\ cur <= cur
        /\ Len(recent) + cur <= Len(recent) + cur
    BY Numbers
  <2> QED BY <1>1, <1>2, <1>4, <2>1, <2>2, SameTypes, PassInv DEF Live
<1> QED BY Zenon, <1>1, <1>3, <1>4

LEMMA CopyDoneInv == Inv /\ CopyDone => Inv'
<1> SUFFICES ASSUME Inv, CopyDone PROVE Inv'
  BY Zenon
<1>1. /\ pc = "copy" /\ pc' = "next"
      /\ UNCHANGED <<disk, pos, out, rec, end, hit_eof, record_start_block,
                     records_read, records_written, input, zeros>>
      /\ UNCHANGED <<to_stdout, phase, records_skipped, newrec, kept>>
      /\ UNCHANGED <<cur, found, recent, todo>>
  BY Zenon DEF CopyDone, ioVars
<1>2. phase = 2
  BY Zenon, <1>1, SameTypes DEF Inv, Control
<1>3. cur \in Nat /\ cur <= BF /\ Len(recent) \in Nat /\ cur <= cur
      /\ Len(recent) + cur <= Len(recent) + cur
  BY Numbers
<1> QED BY <1>1, <1>2, <1>3, SameTypes, PassInv DEF Live

\* A step that reads the next record to its buffer and starts at its begin.
LEMMA RefillInv ==
    ASSUME Inv, Live, Live', NEW e \in 0..BF, FlushRead(e), cur' = 0,
           UNCHANGED <<disk, to_stdout, records_written, input, phase, found,
                       records_skipped, newrec, zeros>>,
           pc' \in {"header", "skim", "ext", "next", "flush", "emit", "copy", "move"},
           hit_eof' \in BOOLEAN, record_start_block' \in Nat,
           recent' \in Seq(ABlock), Len(recent') <= Len(recent),
           todo' \in Nat, kept' \in 0..BF, Control'
    PROVE  Inv'
<1>1. /\ out' \in Seq(ABlock) /\ rec' \in [1..BF -> ABlock] /\ end' \in 0..BF
      /\ pos' \in Nat /\ records_read' = records_read + 1
  BY Zenon, FlushReadEffect
<1>2. TypeOK'
  <2>1. UNCHANGED <<ABlock, Names, Len(Arch)>>
    BY Zenon DEF ABlock, Names, Arch
  <2>2. cur' \in 0..BF /\ records_read' \in Nat
    <3>1. cur' \in 0..BF
      BY ONLY cur' = 0, BFAssumption
    <3>2. records_read \in Nat
      BY Zenon, Numbers
    <3> QED BY ONLY <1>1, <3>1, <3>2
  <2>3. IoTypeOK(Block(Len(Arch)))'
    BY Zenon, <1>1, <2>1, <2>2 DEF Inv, TypeOK, IoTypeOK, ABlock
  <2> QED BY Zenon, <2>1, <2>3 DEF Inv, TypeOK, ABlock
<1>3. Plain => Room'
  <2> SUFFICES ASSUME Plain, phase' = 2, Live' PROVE Room'
    BY Zenon DEF Room
  <2> DEFINE w == records_written + records_skipped
             b == Len(newrec) + Len(recent)
             b2 == Len(newrec) + Len(recent')
  <2>1. Len(recent') \in Nat
    BY Zenon, LenProperties
  <2>2. b2 \in Nat /\ b2 + 0 <= b + 0 /\ b \in Nat
    BY <2>1, Numbers, SMTT(30)
  <2>3. Fits(w, b, records_read + 1, 0) /\ w \in Nat /\ records_read + 1 \in Nat
    <3>1. /\ Fits(w, b, records_read, cur) /\ w \in Nat /\ b \in Nat
          /\ records_read \in Nat /\ cur \in Nat /\ cur <= BF
      BY Zenon, RoomNow
    <3> HIDE DEF w, b
    <3> QED BY ONLY <3>1, FitsRules
  <2> HIDE DEF b, b2, w
  <2>4. 0 \in Nat /\ 0 <= BF
    BY BFAssumption
  <2>5. Fits(w, b2, records_read + 1, 0)
    BY Zenon, <2>2, <2>3, <2>4, FitsRules
  <2> QED BY Zenon, <1>1, <2>5 DEF Room, w, b2
<1> QED BY Zenon, <1>2, <1>3, ReadStep

LEMMA TopOfLoopInv == Inv /\ TopOfLoop => Inv'
<1> SUFFICES ASSUME Inv, TopOfLoop PROVE Inv'
  BY Zenon
<1>1. /\ pc = "next" /\ pc' = "header" /\ recent' = <<>>
      /\ UNCHANGED <<hit_eof, input, phase, found, records_skipped, newrec, todo,
                     kept, zeros>>
  BY Zenon DEF TopOfLoop
<1>2. phase = 2 /\ records_read >= 1
  BY Zenon, <1>1, SameTypes DEF Inv, Control
<1>3. /\ Len(recent') = 0 /\ recent' \in Seq(ABlock) /\ Len(recent') \in Nat
      /\ Len(recent') <= Len(recent)
  <2>1. Len(recent') = 0 /\ recent' \in Seq(ABlock)
    BY Zenon, <1>1, EmptySeq
  <2> QED BY <2>1, Numbers
<1>4. CASE cur = end
  <2>1. /\ FlushRead(BF) /\ cur' = 0 /\ record_start_block' = record_start_block + end
        /\ UNCHANGED <<disk, to_stdout, records_written>>
    BY Zenon, <1>4 DEF TopOfLoop, FlushForRead
  <2>2. BF \in 0..BF /\ record_start_block + end \in Nat
    BY Numbers
  <2>3. records_read' = records_read + 1
    BY Zenon, <2>1, <2>2, FlushReadEffect
  <2>4. records_read' >= 1
    BY <2>3, Numbers
  <2>5. Control'
    BY <1>1, <1>2, <2>4 DEF Control
  <2>6. hit_eof' \in BOOLEAN /\ todo' \in Nat /\ kept' \in 0..BF
    BY Zenon, <1>1 DEF Inv, TypeOK, IoTypeOK
  <2>7. record_start_block' \in Nat
    BY Zenon, <2>1, <2>2
  <2> QED BY Zenon, <1>1, <1>3, <2>1, <2>2, <2>5, <2>6, <2>7, RefillInv DEF Live
<1>5. CASE cur # end
  <2>1. UNCHANGED <<disk, pos, out, rec, cur, end, to_stdout, record_start_block,
                    records_read, records_written>>
    BY Zenon, <1>5 DEF TopOfLoop
  <2>2. /\ cur' \in Nat /\ cur <= cur' /\ cur' <= BF
        /\ Len(recent') + cur <= Len(recent) + cur'
    <3>1. cur' = cur /\ Len(recent') = 0
      BY Zenon, <1>3, <2>1
    <3> QED BY <3>1, Numbers
  <2> QED BY <1>1, <1>2, <1>3, <2>1, <2>2, SameTypes, PassInv DEF Live
<1> QED BY Zenon, <1>4, <1>5

LEMMA FlushFileInv == Inv /\ FlushFile => Inv'
<1> SUFFICES ASSUME Inv, FlushFile PROVE Inv'
  BY Zenon
<1>1. /\ pc = "flush" /\ pc' \in {"flush", "next"}
      /\ UNCHANGED <<hit_eof, input, phase, found, records_skipped, newrec, recent,
                     kept, zeros>>
  BY Zenon DEF FlushFile
<1>2. phase = 2 /\ records_read >= 1 /\ cur <= end
  BY Zenon, <1>1, SameTypes DEF Inv, Control
<1>3. recent' \in Seq(ABlock) /\ Len(recent') \in Nat /\ Len(recent') <= Len(recent)
  <2>1. recent' = recent /\ recent \in Seq(ABlock)
    BY Zenon, <1>1, SeqTypes
  <2> QED BY <2>1, Numbers
<1>4. CASE end - cur <= todo
  <2>1. /\ FlushRead(BF) /\ cur' = 0 /\ record_start_block' = record_start_block + end
        /\ UNCHANGED <<disk, to_stdout, records_written>>
    BY Zenon, <1>4 DEF FlushFile, FlushForRead
  <2>2. BF \in 0..BF /\ record_start_block + end \in Nat /\ todo - (end - cur) \in Nat
    BY <1>2, <1>4, Numbers
  <2>3. records_read' = records_read + 1 /\ end' \in 0..BF
    BY Zenon, <2>1, <2>2, FlushReadEffect
  <2>4. records_read' >= 1 /\ cur' <= end'
    BY <2>1, <2>3, Numbers, SMTT(30)
  <2>5. Control'
    BY <1>1, <1>2, <2>4 DEF Control
  <2>6. hit_eof' \in BOOLEAN /\ kept' \in 0..BF
    BY Zenon, <1>1 DEF Inv, TypeOK, IoTypeOK
  <2>7. record_start_block' \in Nat /\ todo' \in Nat
    BY Zenon, <1>4, <2>1, <2>2 DEF FlushFile
  <2> QED BY Zenon, <1>1, <1>3, <2>1, <2>2, <2>5, <2>6, <2>7, RefillInv DEF Live
<1>5. CASE ~(end - cur <= todo)
  <2>1. /\ UNCHANGED <<disk, pos, out, rec, end, to_stdout, record_start_block,
                       records_read, records_written>>
        /\ cur' = cur + todo /\ todo' = 0
    BY Zenon, <1>5 DEF FlushFile
  <2>2. /\ cur' \in Nat /\ cur <= cur' /\ cur' <= BF /\ cur' <= end
        /\ Len(recent') + cur <= Len(recent) + cur'
    <3>1. cur' = cur + todo /\ Len(recent') = Len(recent)
      BY Zenon, <1>1, <2>1
    <3>2. cur \in Nat /\ end \in Nat /\ todo \in Nat /\ Len(recent) \in Nat /\ end <= BF /\ BF \in Nat
      BY Zenon, Numbers
    <3> QED BY ONLY <1>5, <3>1, <3>2
  <2> QED BY <1>1, <1>2, <1>3, <2>1, <2>2, SameTypes, PassInv DEF Live
<1> QED BY Zenon, <1>4, <1>5

LEMMA DeleteMemberInv == Inv /\ DeleteMember => Inv'
<1> SUFFICES ASSUME Inv, DeleteMember PROVE Inv'
  BY Zenon
<1>1. /\ pc = "header" /\ phase = 2 /\ cur < end /\ Header # Zero /\ pc' = "flush"
      /\ cur' = cur + 1 /\ todo' = Member.size
      /\ UNCHANGED <<disk, pos, out, rec, end, hit_eof, record_start_block,
                     records_read, records_written, input, zeros>>
      /\ UNCHANGED <<to_stdout, phase, records_skipped, newrec, recent, kept>>
  BY Zenon DEF DeleteMember, HaveBlock, IsHeader
<1>2. found' \in [Names -> Nat]
  BY Zenon, CountType DEF DeleteMember
<1>3. todo' \in Nat
  BY Zenon, <1>1, HeaderType
<1>4. /\ cur' \in Nat /\ cur <= cur' /\ cur' <= BF /\ cur' <= end
      /\ Len(recent') \in Nat /\ Len(recent') + cur <= Len(recent) + cur'
  <2>1. cur < end /\ cur' = cur + 1 /\ Len(recent') = Len(recent)
    BY Zenon, <1>1
  <2> QED BY <2>1, Numbers
<1> QED BY <1>1, <1>2, <1>3, <1>4, SameTypes, PassInv DEF Live

LEMMA KeepMemberInv == Inv /\ KeepMember => Inv'
<1> SUFFICES ASSUME Inv, KeepMember PROVE Inv'
  BY Zenon
<1>1. /\ pc = "header" /\ phase = 2 /\ cur < end /\ Header # Zero /\ pc' = "emit"
      /\ cur' = cur + 1 /\ todo' = Member.size /\ recent' = Append(RecentBytes, Header)
      /\ UNCHANGED <<disk, pos, out, rec, end, hit_eof, record_start_block,
                     records_read, records_written, input, zeros>>
      /\ UNCHANGED <<to_stdout, phase, records_skipped, newrec, kept>>
  BY Zenon DEF KeepMember, HaveBlock, IsHeader
<1>2. found' \in [Names -> Nat]
  BY Zenon, CountType DEF KeepMember
<1>3. /\ todo' \in Nat /\ Header \in ABlock /\ Header.m \in 1..Len(Arch)
  BY Zenon, <1>1, HeaderType
<1>4. RecentBytes \in {<<>>, recent, Append(recent, Zero)}
  BY Zenon DEF RecentBytes
<1>5. Plain => RecentBytes \in {<<>>, recent}
  BY Zenon, <1>3 DEF Plain, RecentBytes, Member
<1>6. RecentBytes \in Seq(ABlock) /\ (Plain => Len(RecentBytes) <= Len(recent))
  <2>1. recent \in Seq(ABlock) /\ Zero \in ABlock
    BY Zenon, SeqTypes
  <2>2. /\ <<>> \in Seq(ABlock) /\ Len(<<>>) = 0
        /\ Append(recent, Zero) \in Seq(ABlock)
    BY Zenon, <2>1, EmptySeq, AppendProperties
  <2> HIDE DEF RecentBytes
  <2>3. Plain => Len(RecentBytes) \in {0, Len(recent)}
    BY Zenon, <1>5, <2>2
  <2>4. Len(recent) \in Nat
    BY Zenon, Numbers
  <2>5. Plain => Len(RecentBytes) <= Len(recent)
    BY <2>3, <2>4
  <2> QED BY Zenon, <1>4, <2>1, <2>2, <2>5
<1>7. /\ recent' \in Seq(ABlock) /\ Len(recent') = Len(RecentBytes) + 1
      /\ recent' # <<>>
  BY <1>1, <1>3, <1>6, AppendProperties
<1>8. /\ cur' \in Nat /\ cur <= cur' /\ cur' <= BF /\ cur' <= end
      /\ Len(recent') \in Nat /\ (Plain => Len(recent') + cur <= Len(recent) + cur')
  <2>1. cur < end /\ cur' = cur + 1
    BY Zenon, <1>1
  <2>2. Len(RecentBytes) \in Nat
    BY Zenon, <1>6, LenProperties
  <2>3. cur' \in Nat /\ cur <= cur' /\ cur' <= BF /\ cur' <= end
    BY <2>1, Numbers
  <2>4. \A a, b, c \in Nat : a <= b => a + 1 + c <= b + (c + 1)
    OBVIOUS
  <2>5. Len(recent') \in Nat
    BY <1>7, <2>2
  <2> HIDE DEF RecentBytes
  <2>6. Plain => Len(recent') + cur <= Len(recent) + cur'
    BY Zenon, <1>6, <1>7, <2>1, <2>2, <2>4, Numbers
  <2> QED BY Zenon, <2>3, <2>5, <2>6
<1> QED BY <1>1, <1>2, <1>3, <1>7, <1>8, PassInv DEF Live

\* Adding blocks to new_record, which is written when it is full.
LEMMA AddBlocksEffect ==
    ASSUME Inv, NEW blocks \in Seq(ABlock), Len(newrec) + Len(blocks) <= BF,
           AddBlocks(blocks), NEW n \in Nat, NEW c \in Nat, c <= BF
    PROVE  /\ disk' \in Seq(ABlock) /\ pos' \in Nat /\ out' \in Seq(ABlock)
           /\ records_written' \in Nat
           /\ newrec' \in Seq(ABlock) /\ Len(newrec') < BF
           /\ Plain /\ phase = 2 /\ Live
              /\ Fits(records_written + records_skipped,
                      Len(newrec) + Len(blocks) + n, records_read, c) =>
                /\ Fits(records_written' + records_skipped, Len(newrec') + n,
                        records_read, c)
                /\ ~input.filter => Unread(Original, disk', pos', records_read)
<1> DEFINE r == newrec \o blocks
           w == records_written + records_skipped
<1>1. r \in Seq(ABlock) /\ Len(r) = Len(newrec) + Len(blocks) /\ Len(r) \in Nat
  BY Zenon, SeqTypes, ConcatProperties, LenProperties
<1>2. disk \in Seq(ABlock) /\ pos \in Nat /\ out \in Seq(ABlock)
  BY Zenon, SeqTypes, Numbers
<1>3. w \in Nat /\ records_written \in Nat /\ records_read \in Nat /\ BF \in Nat
  BY Numbers
<1>4. CASE Len(r) = BF
  <2>1. WriteRecord(r, TRUE) /\ newrec' = <<>>
    BY Zenon, <1>4 DEF AddBlocks
  <2>2. newrec' \in Seq(ABlock) /\ Len(newrec') = 0 /\ Len(newrec') < BF
    BY <2>1, EmptySeq, BFAssumption
  <2>3. /\ disk' \in Seq(ABlock) /\ pos' \in Nat /\ out' \in Seq(ABlock)
        /\ records_written' = records_written + 1
    BY Zenon, <1>1, <1>4, <2>1, WriteRecordTypes
  <2>4. records_written' \in Nat
    BY <1>3, <2>3
  <2>5. ASSUME Plain, phase = 2, Live, Fits(w, Len(newrec) + Len(blocks) + n, records_read, c)
        PROVE  /\ Fits(records_written' + records_skipped, Len(newrec') + n, records_read, c)
               /\ ~input.filter => Unread(Original, disk', pos', records_read)
    <3> DEFINE b == Len(newrec) + Len(blocks) + n
    <3>1. b \in Nat /\ b >= BF /\ b - BF = n
      BY <1>1, <1>3, <1>4
    <3>2. Fits(w, b, records_read, c)
      BY Zenon, <2>5
    <3>3. w + 1 <= records_read /\ Fits(w + 1, b - BF, records_read, c)
      <4> HIDE DEF b, w
      <4> QED BY Zenon, <1>3, <3>1, <3>2, FitsRules
    <3>4. records_written' + records_skipped = w + 1 /\ Len(newrec') + n = b - BF
      <4>1. records_skipped \in Nat
        BY Zenon, Numbers
      <4>2. records_written + 1 + records_skipped = w + 1
        BY ONLY <1>3, <4>1
      <4> QED BY ONLY <2>2, <2>3, <3>1, <4>2, n \in Nat
    <3>5. ASSUME ~input.filter
          PROVE  Unread(Original, disk', pos', records_read)
      <4> DEFINE k == records_written + records_skipped - records_read
      <4>1. k \in Int /\ k <= -1 /\ records_read + k >= 0
        <5>1. records_skipped \in Nat
          BY Zenon, Numbers
        <5> QED BY ONLY <1>3, <3>3, <5>1
      <4> HIDE DEF r
      <4>2. /\ disk' = Overwrite(disk, MoveArchive(pos, k), r)
            /\ pos' = MoveArchive(MoveArchive(pos, k) + BF, -(k + 1))
        BY ONLY Zenon, <2>1, <3>5, WriteRecordInPlace
      <4>3. Unread(Original, disk, pos, records_read)
        BY Zenon, <2>5, <3>5 DEF Inv, UnreadIntact, Live, Unread, Original
      <4>4. Original \in Seq(ABlock) /\ Zero \in ABlock
        BY Zenon, OriginalType, SeqTypes
      <4> HIDE DEF k
      <4>5. Unread(Original, Overwrite(disk, MoveArchive(pos, k), r),
                   MoveArchive(MoveArchive(pos, k) + BF, -(k + 1)), records_read)
        BY <1>1, <1>2, <1>3, <1>4, <4>1, <4>3, <4>4, WriteBelow
      <4> QED BY Zenon, <4>2, <4>5
    <3> QED BY Zenon, <3>3, <3>4, <3>5
  <2> QED BY Zenon, <2>2, <2>3, <2>4, <2>5
<1>5. CASE Len(r) # BF
  <2>1. newrec' = r /\ UNCHANGED <<disk, pos, out, records_written>>
    BY Zenon, <1>5 DEF AddBlocks
  <2>2. newrec' \in Seq(ABlock) /\ Len(newrec') < BF /\ Len(newrec') = Len(newrec) + Len(blocks)
    BY <1>1, <1>3, <1>5, <2>1
  <2>3. ASSUME Plain, phase = 2, Live
        PROVE  ~input.filter => Unread(Original, disk', pos', records_read)
    BY Zenon, <2>1, <2>3 DEF Inv, UnreadIntact, Live, Unread, Original
  <2> QED BY Zenon, <1>2, <1>3, <2>1, <2>2, <2>3
<1> QED BY Zenon, <1>4, <1>5

\* A step that adds blocks to new_record.
LEMMA AddStep ==
    ASSUME Inv, Live, Live', phase = 2, NEW blocks \in Seq(ABlock), AddBlocks(blocks),
           Len(newrec) + Len(blocks) <= BF,
           UNCHANGED <<rec, end, hit_eof, to_stdout, record_start_block,
                       records_read, input, phase, found, records_skipped, zeros>>,
           pc' \in {"emit", "copy"}, recent' \in Seq(ABlock), todo' \in Nat,
           kept' \in 0..BF, cur' \in Nat, cur' <= BF, Len(recent') \in Nat,
           Len(blocks) + Len(recent') + cur <= Len(recent) + cur',
           Control'
    PROVE  Inv'
<1> DEFINE n == Len(recent')
           w == records_written + records_skipped
<1>1. /\ disk' \in Seq(ABlock) /\ pos' \in Nat /\ out' \in Seq(ABlock)
      /\ records_written' \in Nat
      /\ newrec' \in Seq(ABlock) /\ Len(newrec') < BF
      /\ Plain /\ phase = 2 /\ Live
         /\ Fits(w, Len(newrec) + Len(blocks) + n, records_read, cur') =>
           /\ Fits(records_written' + records_skipped, Len(newrec') + n, records_read, cur')
           /\ ~input.filter => Unread(Original, disk', pos', records_read)
  BY Zenon, AddBlocksEffect
<1>2. TypeOK'
  <2>1. UNCHANGED <<ABlock, Names, Len(Arch)>>
    BY Zenon DEF ABlock, Names, Arch
  <2>2. cur' \in 0..BF
    BY ONLY cur' \in Nat, cur' <= BF, BFAssumption
  <2>3. IoTypeOK(Block(Len(Arch)))'
    BY Zenon, <1>1, <2>1, <2>2 DEF Inv, TypeOK, IoTypeOK, ABlock
  <2> QED BY Zenon, <1>1, <2>1, <2>3 DEF Inv, TypeOK, ABlock
<1>3. UNCHANGED <<Plain, Original>>
  BY Zenon DEF Plain, Original, Arch
<1>4. Plain => Fits(w, Len(newrec) + Len(blocks) + n, records_read, cur')
  <2> SUFFICES ASSUME Plain PROVE Fits(w, Len(newrec) + Len(blocks) + n, records_read, cur')
    BY Zenon
  <2>1. /\ Fits(w, Len(newrec) + Len(recent), records_read, cur)
        /\ w \in Nat /\ Len(newrec) + Len(recent) \in Nat
        /\ records_read \in Nat /\ cur \in Nat /\ cur <= BF
    BY Zenon, RoomNow
  <2>2. Len(newrec) \in Nat /\ Len(recent) \in Nat /\ Len(blocks) \in Nat
    BY Zenon, Numbers, LenProperties
  <2>3. \A x, y, z, u, v, t \in Nat : y + z + u <= v + t => x + y + z + u <= x + v + t
    OBVIOUS
  <2>4. /\ Len(newrec) + Len(blocks) + n + cur <= Len(newrec) + Len(recent) + cur'
        /\ Len(newrec) + Len(blocks) + n \in Nat
    <3>1. Len(newrec) + Len(blocks) + n \in Nat
      BY <2>2
    <3> QED BY Zenon, <2>1, <2>2, <2>3, <3>1
  <2> HIDE DEF w, n
  <2> QED BY ONLY Zenon, <2>1, <2>4, cur' \in Nat, FitsRules
<1>5. Plain => Room' /\ UnreadIntact'
  <2> HIDE DEF w
  <2> SUFFICES ASSUME Plain PROVE Room' /\ UnreadIntact'
    BY Zenon
  <2>1. /\ Fits(records_written' + records_skipped, Len(newrec') + n, records_read, cur')
        /\ ~input.filter => Unread(Original, disk', pos', records_read)
    BY Zenon, <1>1, <1>4
  <2>2. Room'
    BY Zenon, <2>1 DEF Room
  <2>3. UnreadIntact'
    BY Zenon, <1>3, <2>1 DEF UnreadIntact, Unread, Original
  <2> QED BY Zenon, <2>2, <2>3
<1> QED BY Zenon, <1>2, <1>3, <1>5 DEF Inv

LEMMA EmitBlockInv == Inv /\ EmitBlock => Inv'
<1> SUFFICES ASSUME Inv, EmitBlock PROVE Inv'
  BY Zenon
<1>1. /\ pc = "emit" /\ recent' = Tail(recent)
      /\ \/ pc' = "emit" /\ kept' = kept /\ Len(recent) > 1
         \/ pc' = "copy" /\ kept' = IF todo < end - cur THEN todo ELSE end - cur
      /\ UNCHANGED <<rec, cur, end, hit_eof, to_stdout, record_start_block,
                     records_read, input, phase, found, records_skipped, todo, zeros>>
  BY Zenon DEF EmitBlock
<1>2. AddBlocks(<<Head(recent)>>)
  BY Zenon DEF EmitBlock
<1>3. phase = 2 /\ cur <= end /\ recent # <<>> /\ records_read >= 1
  BY Zenon, <1>1, SameTypes DEF Inv, Control
<1>4. /\ Head(recent) \in ABlock /\ recent' \in Seq(ABlock)
      /\ Len(recent') = Len(recent) - 1 /\ Len(recent) \in Nat /\ Len(recent') \in Nat
  BY Zenon, <1>1, <1>3, SeqTypes, HeadTailProperties, LenProperties
<1>5. <<Head(recent)>> \in Seq(ABlock) /\ Len(<<Head(recent)>>) = 1
  <2> DEFINE h == Head(recent)
  <2>1. h \in ABlock
    BY Zenon, <1>4
  <2> HIDE DEF h
  <2>2. <<h>> \in Seq(ABlock) /\ Len(<<h>>) = 1
    BY <2>1
  <2> QED BY Zenon, <2>2 DEF h
<1>6. (IF todo < end - cur THEN todo ELSE end - cur) \in 0..BF
      /\ (IF todo < end - cur THEN todo ELSE end - cur) <= todo
      /\ (IF todo < end - cur THEN todo ELSE end - cur) <= BF - cur
  <2>1. cur \in Nat /\ end \in Nat /\ end <= BF /\ todo \in Nat /\ BF \in Nat
    BY Zenon, Numbers
  <2> QED BY ONLY <1>3, <2>1
<1>7. /\ kept' \in 0..BF /\ (pc' = "copy" => kept' <= todo /\ kept' <= BF - cur)
      /\ pc' \in {"emit", "copy"}
  BY Zenon, <1>1, <1>6, SameTypes
<1>8. pc' = "emit" => recent' # <<>>
  <2>1. pc' = "emit" => Len(recent) > 1
    BY Zenon, <1>1
  <2>2. Len(recent) > 1 => Len(recent') # 0
    BY <1>4
  <2> QED BY Zenon, <2>1, <2>2, EmptySeq
<1>9. Control'
  BY <1>1, <1>3, <1>7, <1>8 DEF Control
<1>10. /\ cur' \in Nat /\ cur' <= BF /\ todo' \in Nat
       /\ Len(newrec) + 1 <= BF /\ 1 + Len(recent') + cur <= Len(recent) + cur'
  <2>1. cur' = cur /\ todo' = todo /\ Len(recent') = Len(recent) - 1
    BY Zenon, <1>1, <1>4
  <2> QED BY <2>1, Numbers
<1> QED BY <1>1, <1>2, <1>3, <1>4, <1>5, <1>7, <1>9, <1>10, AddStep DEF Live

LEMMA CopyBlocksInv == Inv /\ CopyBlocks => Inv'
<1> SUFFICES ASSUME Inv, CopyBlocks PROVE Inv'
  BY Zenon
<1> DEFINE part == SubSeq(rec, cur + 1, cur + CopyCount)
<1>1. /\ pc \in {"copy", "move"} /\ pc' = "copy"
      /\ cur' = cur + CopyCount /\ todo' = todo - CopyCount /\ kept' = kept - CopyCount
      /\ UNCHANGED <<rec, end, hit_eof, to_stdout, record_start_block, records_read,
                     input, phase, found, records_skipped, recent, zeros>>
  BY Zenon DEF CopyBlocks
<1>2. AddBlocks(part)
  BY Zenon DEF CopyBlocks
<1>3. phase = 2 /\ kept <= todo /\ kept <= BF - cur /\ records_read >= 1
  BY Zenon, <1>1, SameTypes DEF Inv, Control
<1>4. /\ CopyCount \in Nat /\ CopyCount <= kept /\ Len(newrec) + CopyCount <= BF
  <2>1. kept \in Nat /\ Len(newrec) \in Nat /\ Len(newrec) < BF /\ BF \in Nat
    BY Zenon, Numbers
  <2> QED BY ONLY <2>1 DEF CopyCount
<1> HIDE DEF CopyCount
<1>5. /\ cur + CopyCount \in Nat /\ cur + CopyCount <= BF /\ todo - CopyCount \in Nat
      /\ kept - CopyCount \in 0..BF /\ kept - CopyCount <= todo - CopyCount
      /\ kept - CopyCount <= BF - (cur + CopyCount)
      /\ CopyCount + Len(recent) + cur <= Len(recent) + (cur + CopyCount)
  <2>1. /\ kept \in Nat /\ kept <= BF /\ BF \in Nat /\ cur \in Nat /\ todo \in Nat
        /\ Len(recent) \in Nat
    BY Zenon, Numbers
  <2> QED BY ONLY <1>3, <1>4, <2>1
<1>6. part \in Seq(ABlock) /\ Len(part) = CopyCount
  BY Zenon, <1>4, <1>5, PartType
<1>7. Control'
  BY <1>1, <1>3, <1>5 DEF Control
<1>8. recent' \in Seq(ABlock) /\ Len(recent') \in Nat /\ Len(recent') = Len(recent)
  BY Zenon, <1>1, SeqTypes, Numbers
<1> HIDE DEF part
<1> QED BY Zenon, <1>1, <1>2, <1>3, <1>4, <1>5, <1>6, <1>7, <1>8, AddStep DEF Live

LEMMA CopyRefillInv == Inv /\ CopyRefill => Inv'
<1> SUFFICES ASSUME Inv, CopyRefill PROVE Inv'
  BY Zenon
<1>1. /\ pc = "copy" /\ pc' = "move" /\ cur' = 0
      /\ kept' = IF todo < BF THEN todo ELSE BF
      /\ UNCHANGED <<disk, hit_eof, to_stdout, records_written, input, phase, found,
                     records_skipped, newrec, recent, todo, zeros, record_start_block>>
  BY Zenon DEF CopyRefill, RefillKept
<1>2. FlushRead(end)
  BY Zenon DEF CopyRefill
<1>3. phase = 2
  BY Zenon, <1>1, SameTypes DEF Inv, Control
<1>4. end \in 0..BF /\ records_read \in Nat
  BY Numbers
<1>5. records_read' = records_read + 1
  BY Zenon, <1>2, <1>4, FlushReadEffect
<1>6. records_read' >= 1
  BY <1>4, <1>5
<1>7. kept' \in 0..BF /\ kept' <= todo' /\ kept' <= BF - cur' /\ todo' \in Nat
  <2>1. todo \in Nat /\ BF \in Nat
    BY Zenon, Numbers
  <2>2. /\ (IF todo < BF THEN todo ELSE BF) \in 0..BF
        /\ (IF todo < BF THEN todo ELSE BF) <= todo
        /\ (IF todo < BF THEN todo ELSE BF) <= BF - 0
    BY ONLY <2>1
  <2> QED BY Zenon, <1>1, <2>1, <2>2
<1>8. Control'
  BY <1>1, <1>3, <1>6, <1>7 DEF Control
<1>9. /\ recent' \in Seq(ABlock) /\ Len(recent') <= Len(recent)
      /\ hit_eof' \in BOOLEAN /\ record_start_block' \in Nat
  <2>1. hit_eof \in BOOLEAN /\ record_start_block \in Nat
    BY Zenon DEF Inv, TypeOK, IoTypeOK
  <2>2. recent \in Seq(ABlock) /\ Len(recent) <= Len(recent)
    BY SeqTypes, Numbers
  <2> QED BY Zenon, <1>1, <2>1, <2>2
<1> QED BY Zenon, <1>1, <1>2, <1>4, <1>7, <1>8, <1>9, RefillInv DEF Live

\* The end of the archive is written after the last read, so that only the
\* types matter.
LEMMA WriteEOTInv == Inv /\ WriteEOT => Inv'
<1> SUFFICES ASSUME Inv, WriteEOT PROVE Inv'
  BY Zenon
<1> DEFINE z == BF - Len(newrec)
           pad == [i \in 1..z |-> Zero]
           r == newrec \o pad
           back == MoreZeros(zeros')
<1>1. /\ pc = "eot" /\ zeros' = zeros + z /\ newrec' = <<>>
      /\ pc' = IF back THEN "eot" ELSE "truncate"
      /\ UNCHANGED <<rec, cur, end, hit_eof, to_stdout, record_start_block,
                     records_read, input, phase, found, records_skipped, recent,
                     todo, kept>>
  BY Zenon DEF WriteEOT
<1>2. WriteRecord(r, back)
  BY Zenon DEF WriteEOT
<1>3. z \in Nat /\ zeros' \in Nat
  BY <1>1, Numbers
<1>4. pad \in Seq(ABlock) /\ Len(pad) = z
  <2> HIDE DEF z
  <2>1. pad \in Seq(ABlock)
    BY <1>3, SeqTypes, IsASeq
  <2> QED BY <1>3, <2>1, LenProperties
<1> HIDE DEF pad
<1>5. r \in Seq(ABlock) /\ Len(r) = BF
  <2>1. Len(newrec) + Len(pad) = BF
    BY <1>4, Numbers
  <2> QED BY Zenon, <1>4, <2>1, SeqTypes, ConcatProperties
<1>6. back \in BOOLEAN
  BY DEF MoreZeros
<1> HIDE DEF r, back
<1>7. /\ disk' \in Seq(ABlock) /\ pos' \in Nat /\ out' \in Seq(ABlock)
      /\ records_written' = records_written + 1
      /\ ~input.filter /\ ~back => pos' <= Len(disk')
  BY Zenon, <1>2, <1>5, <1>6, WriteRecordTypes
<1>8. newrec' \in Seq(ABlock) /\ Len(newrec') < BF /\ records_written' \in Nat
  <2>1. Len(newrec') = 0 /\ newrec' \in Seq(ABlock)
    BY Zenon, <1>1, EmptySeq
  <2>2. 0 < BF /\ records_written \in Nat
    BY Numbers
  <2>3. Len(newrec') < BF
    BY Zenon, <2>1, <2>2
  <2>4. records_written' \in Nat
    BY <1>7, <2>2
  <2> QED BY Zenon, <2>1, <2>3, <2>4
<1>9. TypeOK'
  <2>1. UNCHANGED <<ABlock, Names, Len(Arch)>>
    BY Zenon, <1>1 DEF ABlock, Names, Arch
  <2>2. IoTypeOK(Block(Len(Arch)))'
    BY Zenon, <1>1, <1>7, <1>8, <2>1 DEF Inv, TypeOK, IoTypeOK, ABlock
  <2> QED BY Zenon, <1>1, <1>3, <1>8, <2>1, <2>2 DEF Inv, TypeOK, ABlock
<1>10. Control'
  <2>1. phase = 2
    BY Zenon, <1>1, SameTypes DEF Inv, Control
  <2> QED BY Zenon, <1>1, <1>6, <1>7, <2>1 DEF Inv, Control
<1>11. Room' /\ UnreadIntact'
  BY Zenon, <1>1 DEF Room, Live, UnreadIntact
<1> QED BY Zenon, <1>1, <1>9, <1>10, <1>11 DEF Inv

LEMMA TruncateInv == Inv /\ Truncate => Inv'
<1> SUFFICES ASSUME Inv, Truncate PROVE Inv'
  BY Zenon
<1>1. /\ pc = "truncate" /\ pc' = "done"
      /\ disk' = IF input.filter THEN disk ELSE SubSeq(disk, 1, pos)
      /\ UNCHANGED <<pos, out, rec, cur, end, hit_eof, to_stdout,
                     record_start_block, records_read, records_written, input,
                     phase, found, records_skipped, newrec, recent, todo, kept, zeros>>
  BY Zenon DEF Truncate
<1>2. disk' \in Seq(ABlock)
  <2>1. disk \in Seq(ABlock) /\ pos \in Nat /\ 1 \in Nat
    BY Zenon, SeqTypes, Numbers
  <2>2. CASE input.filter
    BY Zenon, <1>1, <2>1, <2>2
  <2>3. CASE ~input.filter
    <3>1. pos <= Len(disk)
      BY Zenon, <1>1, <2>3 DEF Inv, Control
    <3>2. SubSeq(disk, 1, pos) \in Seq(ABlock)
      BY <2>1, <3>1, SubSeqType
    <3> QED BY Zenon, <1>1, <2>3, <3>2
  <2> QED BY Zenon, <2>2, <2>3
<1>3. TypeOK'
  <2>1. UNCHANGED <<ABlock, Names, Len(Arch)>>
    BY Zenon, <1>1 DEF ABlock, Names, Arch
  <2>2. IoTypeOK(Block(Len(Arch)))'
    BY Zenon, <1>1, <1>2, <2>1 DEF Inv, TypeOK, IoTypeOK, ABlock
  <2> QED BY Zenon, <1>1, <2>1, <2>2 DEF Inv, TypeOK, ABlock
<1>4. Control'
  <2>1. phase = 2
    BY Zenon, <1>1, SameTypes DEF Inv, Control
  <2> QED BY Zenon, <1>1, <2>1 DEF Inv, Control
<1>5. Room' /\ UnreadIntact'
  BY Zenon, <1>1 DEF Room, Live, UnreadIntact
<1> QED BY Zenon, <1>1, <1>3, <1>4, <1>5 DEF Inv

LEMMA StutterInv == Inv /\ UNCHANGED vars => Inv'
<1> SUFFICES ASSUME Inv, UNCHANGED vars PROVE Inv'
  BY Zenon
<1> USE DEF vars, readVars, delVars, ioVars
<1>1. TypeOK' /\ Control' /\ (input \in Inputs)'
  BY DEF Inv, TypeOK, IoTypeOK, Control, Arch, Names
<1>2. (Plain => Room /\ UnreadIntact)'
  BY Zenon DEF Inv, Plain, Room, Live, UnreadIntact, Arch
<1> QED BY Zenon, <1>1, <1>2 DEF Inv

LEMMA NextInv == Inv /\ [Next]_vars => Inv'
<1> SUFFICES ASSUME Inv, [Next]_vars PROVE Inv'
  BY Zenon
<1>1. CASE NextRecord
  BY Zenon, <1>1, NextRecordInv
<1>2. CASE PassMember \/ SkimBlocks
  BY Zenon, <1>2, PassMemberInv, SkimBlocksInv
<1>3. CASE SkimEOF \/ EndOfArchive \/ CopyAbort \/ StaleBlock
  BY Zenon, <1>3, StopsInv
<1>4. CASE BeginAtMember \/ BeginAtExtended
  BY Zenon, <1>4, BeginInv
<1>5. CASE NonHeader \/ FlushFile \/ TopOfLoop
  BY Zenon, <1>5, NonHeaderInv, FlushFileInv, TopOfLoopInv
<1>6. CASE ExtendedHeader \/ ReadExtended \/ ExtendedEOF
  BY Zenon, <1>6, ExtendedHeaderInv, ReadExtendedInv, ExtendedEOFInv
<1>7. CASE DeleteMember \/ KeepMember \/ EmitBlock
  BY Zenon, <1>7, DeleteMemberInv, KeepMemberInv, EmitBlockInv
<1>8. CASE CopyRefill \/ CopyBlocks \/ CopyDone
  BY Zenon, <1>8, CopyRefillInv, CopyBlocksInv, CopyDoneInv
<1>9. CASE WriteEOT \/ Truncate
  BY Zenon, <1>9, WriteEOTInv, TruncateInv
<1>10. CASE UNCHANGED vars
  BY Zenon, <1>10, StutterInv
<1> QED BY Zenon, <1>1, <1>2, <1>3, <1>4, <1>5, <1>6, <1>7, <1>8, <1>9, <1>10 DEF Next

-----------------------------------------------------------------------------
\* Every variable of tar --delete keeps its type, for every blocking factor
\* and every archive: new_record and the read buffer are never overrun.
THEOREM DeleteTypes == Spec => []TypeOK
<1>1. Init => Inv
  BY Zenon, InitInv
<1>2. Inv /\ [Next]_vars => Inv'
  BY Zenon, NextInv
<1>3. Inv => TypeOK
  BY Zenon DEF Inv
<1> QED BY <1>1, <1>2, <1>3, PTL DEF Spec

\* For every blocking factor and every archive none of whose pax headers fills
\* its last block, write_record of tar --delete never overwrites a block that
\* is still to be read, and the descriptor is back where the next record is to
\* be read.
THEOREM DeleteUnread == Spec => [](Plain => UnreadIntact)
<1>1. Init => Inv
  BY Zenon, InitInv
<1>2. Inv /\ [Next]_vars => Inv'
  BY Zenon, NextInv
<1>3. Inv => (Plain => UnreadIntact)
  BY Zenon DEF Inv
<1> QED BY <1>1, <1>2, <1>3, PTL DEF Spec
=============================================================================
