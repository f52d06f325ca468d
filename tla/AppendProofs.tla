---------------------------- MODULE AppendProofs ----------------------------
(***************************************************************************)
(* Appending never damages the members that are in the archive, for every  *)
(* blocking factor, every archive and everything that may be added to it.  *)
(***************************************************************************)
EXTENDS Append, ReaderProofs

Reading == pc \in {"header", "skim", "ext"}
Writing == pc \in {"add", "eot1", "eot2", "close"}

\* While the archive is read: the file is untouched, the buffer holds the
\* blocks before the descriptor, and a short record ends the file.
ReadInv ==
    Reading =>
        /\ mode = "read"
        /\ disk = ArchiveBlocks(input)
        /\ rec \in [1..BF -> Block(Len(Arch))]
        /\ cur <= end
        /\ hit_eof => end = 0 /\ pos >= Len(disk)
        /\ cur < end =>
             /\ pos >= end /\ pos <= Len(disk)
             /\ \A i \in 1..end : rec[i] = disk[pos - end + i]
             /\ end < BF => pos >= Len(disk)

\* While it is written: the blocks before current_block in the record that
\* will be written are the old ones at the offset where it will be written,
\* and current_block is after the last old block.
WriteInv ==
    Writing =>
        /\ cur <= end
        /\ mode = "write" => end = BF
        /\ mode = "read" => starting /\ pos >= end
        /\ Complete =>
             /\ WriteOffset + cur >= Len(OldBlocks)
             /\ mode = "read" => end = BF \/ pos >= Len(OldBlocks)
             /\ \A i \in 1..BF : WriteOffset + i <= Len(OldBlocks) =>
                                   rec[i] = OldBlocks[WriteOffset + i]

Inv ==
    /\ TypeOK
    /\ input \in Inputs
    /\ ~to_stdout
    /\ Len(queue) <= Len(input.add)
    /\ ReadInv
    /\ WriteInv
    /\ OldIntact

\* An archive with its members' blocks only, before any marker.
LEMMA ArchiveStart ==
    ASSUME NEW in \in Inputs
    PROVE  /\ AllBlocks(in.arch) \in Seq(AddBlock)
           /\ ArchiveBlocks(in) \in Seq(AddBlock)
           /\ Len(AllBlocks(in.arch)) \in Nat
           /\ \A i \in 1..Len(AllBlocks(in.arch)) : AllBlocks(in.arch)[i] # Zero
           /\ in.tail >= 0 =>
                /\ Len(ArchiveBlocks(in)) >= Len(AllBlocks(in.arch))
                /\ \A i \in 1..Len(AllBlocks(in.arch)) :
                     ArchiveBlocks(in)[i] = AllBlocks(in.arch)[i]
<1> DEFINE n == Len(in.arch)
           A == AllBlocks(in.arch)
<1>1. /\ in.arch \in Seq(MemberType) /\ in.tail \in Int
      /\ A \in Seq(MemberBlock(n)) /\ ArchiveBlocks(in) \in Seq(Block(n))
  BY Zenon, ArchivesAssumption
<1>2. n \in Nat
  BY Zenon, <1>1, LenProperties
<1>3. MemberBlock(n) \subseteq AddBlock /\ Block(n) \subseteq AddBlock
  BY <1>2 DEF MemberBlock, Block, AddBlock
<1>4. A \in Seq(AddBlock) /\ ArchiveBlocks(in) \in Seq(AddBlock)
  BY Zenon, <1>1, <1>3, SeqMonotonic
<1>5. \A i \in 1..Len(A) : A[i] # Zero
  BY <1>1, LenProperties DEF MemberBlock, Zero
<1>6. ASSUME in.tail >= 0
      PROVE  /\ Len(ArchiveBlocks(in)) >= Len(A)
             /\ \A i \in 1..Len(A) : ArchiveBlocks(in)[i] = A[i]
  <2> DEFINE Z == [i \in 1..in.tail |-> Zero]
  <2>1. Z \in Seq({Zero})
    BY <1>1, <1>6, SeqDef
  <2>2. Zero \in AddBlock
    BY Zenon DEF AddBlock
  <2>3. Z \in Seq(AddBlock)
    BY Zenon, <2>1, <2>2, SeqMonotonic
  <2>4. ArchiveBlocks(in) = A \o Z
    BY Zenon, <1>6 DEF ArchiveBlocks
  <2> HIDE DEF A, Z
  <2>5. Len(A) \in Nat /\ Len(Z) \in Nat
    BY Zenon, <1>4, <2>3, LenProperties
  <2> QED BY <1>4, <2>3, <2>4, <2>5, ConcatProperties
<1> QED BY Zenon, <1>4, <1>5, <1>6, LenProperties

\* OldIntact speaks of the blocks one by one.
LEMMA OldIntactPointwise ==
    ASSUME input \in Inputs, disk \in Seq(AddBlock)
    PROVE  OldIntact <=>
             (Complete => /\ Len(disk) >= Len(OldBlocks)
                          /\ \A i \in 1..Len(OldBlocks) : disk[i] = OldBlocks[i])
<1> DEFINE n == Len(OldBlocks)
           P == SubSeq(disk, 1, n)
<1>1. OldBlocks \in Seq(AddBlock) /\ n \in Nat
  BY Zenon, ArchiveStart DEF OldBlocks, Arch
<1>2. Len(disk) \in Nat
  BY Zenon, LenProperties
<1>3. CASE Len(disk) >= n
  <2>1. /\ P \in Seq(AddBlock) /\ Len(P) = n
        /\ \A i \in 1..n : P[i] = disk[i]
    BY <1>1, <1>2, <1>3, SubSeqType
  <2>2. P = OldBlocks <=> \A i \in 1..n : P[i] = OldBlocks[i]
    <3> HIDE DEF P
    <3> QED BY Zenon, <1>1, <2>1, SeqEqual
  <2> QED BY Zenon, <1>3, <2>1, <2>2 DEF OldIntact
<1>4. CASE ~(Len(disk) >= n)
  BY Zenon, <1>4 DEF OldIntact
<1> QED BY Zenon, <1>3, <1>4

LEMMA InitInv == Init => Inv
<1> SUFFICES ASSUME Init PROVE Inv
  BY Zenon
<1> USE DEF Init, ReadInit, OpenForUpdate
<1>1. /\ input \in Inputs /\ ~to_stdout /\ to_stdout \in BOOLEAN
      /\ disk = ArchiveBlocks(input) /\ disk \in Seq(AddBlock)
  BY Zenon, ArchiveStart, AddAssumption, ArchivesAssumption
<1>2. Zero \in AddBlock /\ Zero \in Block(Len(Arch))
  BY Zenon DEF AddBlock, Block
<1>3. queue \in Seq(Seq(AddBlock)) /\ Len(queue) <= Len(input.add)
  BY <1>1, AddAssumption, LenProperties
<1>4. TypeOK
  <2>1. IoTypeOK(AddBlock)
    <3>1. out \in Seq(AddBlock)
      BY Zenon, EmptySeq
    <3>2. rec \in [1..BF -> AddBlock]
      BY Zenon, <1>2
    <3>3. cur \in 0..BF /\ end \in 0..BF
      BY BFAssumption
    <3> QED BY Zenon, <1>1, <3>1, <3>2, <3>3 DEF IoTypeOK
  <2> QED BY Zenon, <2>1, <1>3 DEF TypeOK
<1>5. ReadInv
  BY <1>1, <1>2 DEF ReadInv
<1>6. WriteInv
  BY Zenon DEF WriteInv, Writing
<1>7. OldIntact
  BY Zenon, <1>1, ArchiveStart, OldIntactPointwise DEF OldBlocks, Arch, Complete
<1> QED BY Zenon, <1>1, <1>3, <1>4, <1>5, <1>6, <1>7 DEF Inv

\* What Inv says of the header and of its member.
LEMMA HeaderType ==
    ASSUME Inv, Reading, cur < end, Header # Zero
    PROVE  /\ Member \in MemberType
           /\ input \in Inputs /\ rec \in [1..BF -> Block(Len(Arch))]
           /\ cur \in Nat /\ end \in 0..BF /\ pos \in Nat /\ records_read \in Nat
           /\ record_start_block \in Nat /\ BF \in Nat \ {0}
<1>1. /\ cur \in Nat /\ cur \in 0..BF - 1 /\ end \in 0..BF /\ pos \in Nat
      /\ records_read \in Nat /\ record_start_block \in Nat /\ BF \in Nat \ {0}
  BY BFAssumption DEF Inv, TypeOK, IoTypeOK
<1>2. input \in Inputs /\ rec \in [1..BF -> Block(Len(Arch))]
  BY Zenon DEF Inv, ReadInv
<1> QED BY Zenon, <1>1, <1>2, HeaderMember

\* A step that only reads keeps Inv if it keeps the types and ReadInv.
LEMMA ReadStep ==
    ASSUME Inv, Reading', UNCHANGED <<disk, input, to_stdout, queue>>,
           TypeOK', ReadInv'
    PROVE  Inv'
<1>1. WriteInv'
  BY Zenon DEF WriteInv, Writing, Reading
<1>2. OldIntact'
  BY Zenon DEF Inv, OldIntact, Complete, OldBlocks, Arch
<1> QED BY Zenon, <1>1, <1>2 DEF Inv

LEMMA NextRecordInv == Inv /\ NextRecord => Inv'
<1> SUFFICES ASSUME Inv, NextRecord PROVE Inv'
  BY Zenon
<1> DEFINE n == ReadCount(disk, pos)
<1>1. Reading /\ Reading' /\ UNCHANGED <<disk, input, to_stdout, queue, pc, mode,
                                         starting, left_out, todo, records_written>>
  BY Zenon DEF NextRecord, ReadRecord, FindNextBlock, FlushForRead, addVars, Reading
<1>2. /\ disk \in Seq(AddBlock) /\ pos \in Nat /\ input \in Inputs
      /\ disk = ArchiveBlocks(input)
      /\ rec \in [1..BF -> Block(Len(Arch))] /\ rec \in [1..BF -> AddBlock]
      /\ end \in 0..BF /\ records_read \in Nat /\ record_start_block \in Nat
      /\ ~to_stdout
  BY Zenon, <1>1 DEF Inv, TypeOK, IoTypeOK, ReadInv
<1>3. disk \in Seq(Block(Len(Arch)))
  BY Zenon, <1>2, ArchivesAssumption DEF Arch
<1>4. /\ n \in 0..BF /\ Len(disk) \in Nat
      /\ n > 0 => pos + n <= Len(disk)
      /\ n < BF => pos + n >= Len(disk)
  BY Zenon, <1>2, ReadCountBounds, LenProperties
<1>5. /\ cur' = 0 /\ end' = n /\ pos' = pos + n /\ out' = out
      /\ rec' = [i \in 1..BF |-> IF i <= n THEN disk[pos + i] ELSE rec[i]]
      /\ hit_eof' = (n = 0) /\ records_read' = records_read + 1
      /\ record_start_block' = record_start_block + end
  BY Zenon, <1>2, <1>4, BFAssumption
     DEF NextRecord, ReadRecord, FindNextBlock, FlushForRead, FlushRead
<1> HIDE DEF n
<1>6. rec' \in [1..BF -> Block(Len(Arch))] /\ rec' \in [1..BF -> AddBlock]
  BY <1>2, <1>3, <1>4, <1>5, BFAssumption, LenProperties
<1>7. TypeOK'
  <2>1. IoTypeOK(AddBlock)'
    BY <1>1, <1>2, <1>4, <1>5, <1>6, BFAssumption DEF IoTypeOK, Inv, TypeOK
  <2> QED BY Zenon, <1>1, <2>1 DEF TypeOK, Inv
<1>8. ReadInv'
  <2>1. /\ pos' >= end' /\ end' <= BF /\ 0 <= end'
        /\ \A i \in 1..end' : rec'[i] = disk'[pos' - end' + i]
    BY <1>1, <1>2, <1>4, <1>5, BFAssumption
  <2>2. UNCHANGED <<Arch, ArchiveBlocks(input)>>
    BY Zenon, <1>1 DEF Arch
  <2>3. mode' = "read" /\ disk' = ArchiveBlocks(input)'
    BY Zenon, <1>1, <1>2 DEF Inv, ReadInv
  <2>4. rec' \in [1..BF -> Block(Len(Arch))']
    BY Zenon, <1>6, <2>2
  <2>5. hit_eof' => end' = 0 /\ pos' >= Len(disk)'
    <3>1. hit_eof' => n = 0
      BY <1>5, Zenon
    <3>2. n = 0 => end' = 0 /\ pos' >= Len(disk)'
      BY <1>1, <1>4, <1>5, BFAssumption
    <3> QED BY Zenon, <3>1, <3>2
  <2>6. /\ cur' <= end'
        /\ cur' < end' => pos' <= Len(disk)' /\ (end' < BF => pos' >= Len(disk)')
    BY <1>1, <1>2, <1>4, <1>5
  <2> QED BY Zenon, <2>1, <2>3, <2>4, <2>5, <2>6 DEF ReadInv
<1> QED BY Zenon, <1>1, <1>7, <1>8, ReadStep

\* A step that moves current_block forward inside the record.
LEMMA ForwardInv ==
    ASSUME Inv, Reading, Reading',
           UNCHANGED <<disk, pos, out, rec, end, hit_eof, to_stdout,
                       records_written, input, addVars>>,
           cur' \in cur..end, record_start_block' \in Nat, records_read' \in Nat,
           todo' \in Nat
    PROVE  Inv'
<1>1. TypeOK'
  <2>1. IoTypeOK(AddBlock)'
    BY BFAssumption DEF Inv, TypeOK, IoTypeOK
  <2> QED BY Zenon, <2>1 DEF Inv, TypeOK, addVars, Reading
<1>2. ReadInv'
  <2>1. cur \in Nat /\ end \in Nat
    BY BFAssumption DEF Inv, TypeOK, IoTypeOK
  <2>2. UNCHANGED <<Arch, ArchiveBlocks(input), mode>>
    BY Zenon DEF Arch, addVars
  <2> QED BY <2>1, <2>2 DEF Inv, ReadInv
<1> QED BY Zenon, <1>1, <1>2, ReadStep DEF addVars

LEMMA PassMemberInv == Inv /\ PassMember => Inv'
<1> SUFFICES ASSUME Inv, PassMember PROVE Inv'
  BY Zenon
<1>1. /\ Reading /\ Reading' /\ cur < end /\ Header # Zero /\ pc = "header"
      /\ UNCHANGED <<disk, out, rec, end, hit_eof, to_stdout, records_written,
                     input, addVars, mode, queue, left_out, starting>>
      /\ SkimMember
  BY Zenon DEF PassMember, SkimMember, HaveBlock, IsHeader, Reading, addVars
<1>2. /\ input \in Inputs /\ rec \in [1..BF -> Block(Len(Arch))]
      /\ cur \in Nat /\ end \in 0..BF /\ pos \in Nat /\ records_read \in Nat
      /\ record_start_block \in Nat /\ BF \in Nat \ {0}
  BY Zenon, <1>1, HeaderType
<1>3. PICK n \in Nat :
              /\ cur' = IF n > 0 THEN end ELSE cur + 1
              /\ pos' = pos + n * BF
              /\ records_read' = records_read + n
              /\ record_start_block' = record_start_block + n * BF
              /\ todo' \in Nat
  BY Zenon, <1>1, <1>2, SkimEffect
<1>4. n * BF \in Nat /\ 0 * BF = 0
  BY <1>2
<1>5. CASE n > 0
  <2>1. /\ cur' = end' /\ pos' \in Nat /\ records_read' \in Nat
        /\ record_start_block' \in Nat
    BY <1>1, <1>2, <1>3, <1>4, <1>5
  <2>2. TypeOK'
    <3>1. IoTypeOK(AddBlock)'
      BY Zenon, <1>1, <1>2, <2>1 DEF Inv, TypeOK, IoTypeOK
    <3> QED BY Zenon, <1>1, <1>3, <3>1 DEF Inv, TypeOK, Reading
  <2>3. ReadInv'
    <3>1. UNCHANGED <<Arch, ArchiveBlocks(input), mode>>
      BY Zenon, <1>1 DEF Arch
    <3>2. ~hit_eof'
      BY <1>1, <1>2 DEF Inv, ReadInv
    <3> QED BY <1>1, <1>2, <2>1, <3>1, <3>2 DEF Inv, ReadInv
  <2> QED BY Zenon, <1>1, <2>2, <2>3, ReadStep
<1>6. CASE n = 0
  BY <1>1, <1>2, <1>3, <1>4, <1>6, ForwardInv
<1> QED BY <1>5, <1>6

LEMMA PassExtendedInv == Inv /\ PassExtended => Inv'
<1> SUFFICES ASSUME Inv, PassExtended PROVE Inv'
  BY Zenon
<1>1. /\ Reading /\ Reading' /\ cur < end /\ Header # Zero /\ pc = "header"
      /\ UNCHANGED <<ioVars, input, addVars>> /\ todo' = Member.ext
  BY Zenon DEF PassExtended, BeginExtended, HaveBlock, IsExtHeader, Reading
<1>2. todo' \in Nat
  BY Zenon, <1>1, HeaderType DEF MemberType
<1>3. /\ cur \in cur..end /\ record_start_block \in Nat /\ records_read \in Nat
  BY <1>1, BFAssumption DEF Inv, TypeOK, IoTypeOK
<1> QED BY Zenon, <1>1, <1>2, <1>3, ForwardInv DEF ioVars

LEMMA PassBlocksInv == Inv /\ PassBlocks => Inv'
<1> SUFFICES ASSUME Inv, PassBlocks PROVE Inv'
  BY Zenon
<1>1. /\ Reading /\ Reading'
      /\ UNCHANGED <<disk, pos, out, rec, end, hit_eof, to_stdout,
                     record_start_block, records_read, records_written, input,
                     addVars>>
      /\ cur' = cur + Here /\ todo' = todo - Here
  BY Zenon DEF PassBlocks, PassHere, Reading
<1>2. /\ cur \in Nat /\ end \in Nat /\ cur <= end /\ todo \in Nat
      /\ record_start_block \in Nat /\ records_read \in Nat
  BY <1>1, BFAssumption DEF Inv, TypeOK, IoTypeOK, ReadInv
<1>3. cur' \in cur..end /\ todo' \in Nat
  BY <1>1, <1>2 DEF Here
<1> QED BY Zenon, <1>1, <1>2, <1>3, ForwardInv

LEMMA NonHeaderInv == Inv /\ NonHeader => Inv'
<1> SUFFICES ASSUME Inv, NonHeader PROVE Inv'
  BY Zenon
<1>1. /\ Reading /\ Reading' /\ cur < end /\ cur' = cur + 1
      /\ UNCHANGED <<disk, pos, out, rec, end, hit_eof, to_stdout,
                     record_start_block, records_read, records_written, input,
                     todo, addVars>>
  BY Zenon DEF NonHeader, HaveBlock, PassBlock, Reading
<1>2. /\ cur \in Nat /\ end \in Nat /\ todo \in Nat
      /\ record_start_block \in Nat /\ records_read \in Nat
  BY <1>1, BFAssumption DEF Inv, TypeOK, IoTypeOK
<1> QED BY <1>1, <1>2, ForwardInv

LEMMA UnexpectedEOFInv == Inv /\ UnexpectedEOF => Inv'
<1> SUFFICES ASSUME Inv, UnexpectedEOF PROVE Inv'
  BY Zenon
<1>1. Reading /\ UNCHANGED <<ioVars, input, todo, addVars>> /\ pc' \in {"fatal", "header"}
  BY Zenon DEF UnexpectedEOF, Reading
<1>2. CASE pc' = "header"
  <2>1. /\ cur \in Nat /\ end \in Nat /\ todo \in Nat /\ cur <= end
        /\ record_start_block \in Nat /\ records_read \in Nat
    BY <1>1, BFAssumption DEF Inv, TypeOK, IoTypeOK, ReadInv
  <2> QED BY <1>1, <1>2, <2>1, ForwardInv DEF ioVars, Reading
<1>3. CASE pc' = "fatal"
  <2>1. TypeOK'
    BY Zenon, <1>1, <1>3 DEF Inv, TypeOK, IoTypeOK, ioVars, addVars
  <2>2. ReadInv' /\ WriteInv'
    BY Zenon, <1>3 DEF ReadInv, WriteInv, Reading, Writing
  <2>3. OldIntact'
    BY Zenon, <1>1 DEF Inv, OldIntact, Complete, OldBlocks, Arch, ioVars
  <2> QED BY Zenon, <1>1, <2>1, <2>2, <2>3 DEF Inv, ioVars, addVars
<1> QED BY Zenon, <1>1, <1>2, <1>3

LEMMA FoundMarkerInv == Inv /\ FoundMarker => Inv'
<1> SUFFICES ASSUME Inv, FoundMarker PROVE Inv'
  BY Zenon
<1>1. /\ Reading /\ pc' = "add" /\ starting' = TRUE /\ cur < end /\ rec[cur + 1] = Zero
      /\ UNCHANGED <<ioVars, disk, pos, rec, cur, end, input, todo, mode, queue, left_out>>
  BY Zenon DEF FoundMarker, HaveBlock, Header, Reading, ioVars
<1>2. /\ cur \in 0..BF /\ end \in 0..BF /\ pos \in Nat /\ input \in Inputs
      /\ disk = ArchiveBlocks(input) /\ mode = "read" /\ pos >= end
      /\ pos <= Len(disk) /\ Len(disk) \in Nat
      /\ \A i \in 1..end : rec[i] = disk[pos - end + i]
      /\ end < BF => pos >= Len(disk)
  BY Zenon, <1>1, LenProperties DEF Inv, TypeOK, IoTypeOK, ReadInv
<1>3. TypeOK'
  BY Zenon, <1>1 DEF Inv, TypeOK, IoTypeOK, ioVars
<1>4. ReadInv'
  BY Zenon, <1>1 DEF ReadInv, Reading
<1>5. OldIntact'
  BY Zenon, <1>1 DEF Inv, OldIntact, Complete, OldBlocks, Arch
<1>6. WriteInv'
  <2> DEFINE n == Len(OldBlocks)
  <2>1. WriteOffset' = pos - end
    BY <1>1, <1>2, BFAssumption DEF WriteOffset, Backspace
  <2>2. UNCHANGED <<OldBlocks, Complete>>
    BY Zenon, <1>1 DEF OldBlocks, Arch, Complete
  <2>3. ASSUME Complete
        PROVE  /\ n \in Nat /\ Len(disk) >= n
               /\ \A i \in 1..n : disk[i] = OldBlocks[i] /\ OldBlocks[i] # Zero
    BY Zenon, <1>2, <2>3, ArchiveStart DEF Complete, OldBlocks, Arch
  <2>4. ASSUME Complete PROVE pos - end + cur >= n
    <3>1. disk[pos - end + cur + 1] = Zero
      BY <1>1, <1>2, BFAssumption
    <3>2. pos - end + cur + 1 \notin 1..n
      BY Zenon, <2>3, <2>4, <3>1
    <3> QED BY <1>2, <2>3, <2>4, <3>2, BFAssumption
  <2>5. ASSUME Complete, NEW i \in 1..BF, pos - end + i <= n
        PROVE  rec[i] = OldBlocks[pos - end + i]
    <3>1. i <= end
      BY <1>2, <2>3, <2>5, BFAssumption
    <3>2. rec[i] = disk[pos - end + i] /\ pos - end + i \in 1..n
      BY <1>2, <2>3, <2>5, <3>1, BFAssumption
    <3> QED BY Zenon, <2>3, <2>5, <3>2
  <2>6. Complete => end = BF \/ pos >= n
    BY <1>2, <2>3, BFAssumption
  <2> HIDE DEF n
  <2> QED BY <1>1, <1>2, <2>1, <2>2, <2>4, <2>5, <2>6 DEF WriteInv, n
<1> QED BY Zenon, <1>1, <1>2, <1>3, <1>4, <1>5, <1>6 DEF Inv, ioVars

LEMMA FoundEOFInv == Inv /\ FoundEOF => Inv'
<1> SUFFICES ASSUME Inv, FoundEOF PROVE Inv'
  BY Zenon
<1>1. /\ Reading /\ pc' = "add" /\ starting' = TRUE /\ mode' = "write"
      /\ cur = end /\ hit_eof /\ hit_eof' = FALSE /\ cur' = 0 /\ end' = BF
      /\ UNCHANGED <<disk, pos, out, rec, to_stdout, record_start_block, input,
                     records_read, records_written, todo, queue, left_out>>
  BY Zenon DEF FoundEOF, NoBlock, Reading
<1>2. /\ pos \in Nat /\ input \in Inputs /\ disk = ArchiveBlocks(input)
      /\ pos >= Len(disk) /\ Len(disk) \in Nat
  BY Zenon, <1>1, LenProperties DEF Inv, TypeOK, IoTypeOK, ReadInv
<1>3. TypeOK'
  <2>1. IoTypeOK(AddBlock)'
    <3>1. cur' \in 0..BF /\ end' \in 0..BF
      BY <1>1, BFAssumption
    <3> QED BY Zenon, <1>1, <3>1 DEF Inv, TypeOK, IoTypeOK
  <2> QED BY Zenon, <1>1, <2>1 DEF Inv, TypeOK
<1>4. ReadInv'
  BY Zenon, <1>1 DEF ReadInv, Reading
<1>5. OldIntact'
  BY Zenon, <1>1 DEF Inv, OldIntact, Complete, OldBlocks, Arch
<1>6. WriteInv'
  <2>1. WriteOffset' = pos
    BY Zenon, <1>1 DEF WriteOffset
  <2>2. UNCHANGED <<OldBlocks, Complete>>
    BY Zenon, <1>1 DEF OldBlocks, Arch, Complete
  <2>3. Complete => Len(OldBlocks) \in Nat /\ pos >= Len(OldBlocks)
    BY <1>2, ArchiveStart DEF Complete, OldBlocks, Arch
  <2> QED BY <1>1, <1>2, <2>1, <2>2, <2>3, BFAssumption DEF WriteInv
<1> QED BY Zenon, <1>1, <1>3, <1>4, <1>5, <1>6 DEF Inv

\* What holds in the writing part, from Inv.
LEMMA WritingFacts ==
    ASSUME Inv, Writing
    PROVE  /\ disk \in Seq(AddBlock) /\ pos \in Nat /\ input \in Inputs
           /\ rec \in [1..BF -> AddBlock] /\ rec \in Seq(AddBlock) /\ Len(rec) = BF
           /\ cur \in 0..BF /\ end \in 0..BF /\ cur <= end /\ BF \in Nat \ {0}
           /\ WriteOffset \in Nat /\ mode \in {"read", "write"}
           /\ mode = "read" => starting /\ WriteOffset + end = pos
           /\ mode = "write" => WriteOffset = pos /\ end = BF
           /\ Len(OldBlocks) \in Nat /\ Len(disk) \in Nat
           /\ Zero \in AddBlock
<1>1. /\ disk \in Seq(AddBlock) /\ pos \in Nat /\ input \in Inputs
      /\ rec \in [1..BF -> AddBlock] /\ mode \in {"read", "write"}
      /\ cur \in 0..BF /\ end \in 0..BF /\ cur <= end
  BY Zenon DEF Inv, TypeOK, IoTypeOK, WriteInv
<1>2. rec \in Seq(AddBlock) /\ Len(rec) = BF
  BY Zenon, <1>1, RecordIsSeq
<1>3. /\ WriteOffset \in Nat
      /\ mode = "read" => starting /\ WriteOffset + end = pos
      /\ mode = "write" => WriteOffset = pos /\ end = BF
  <2>1. CASE mode = "read"
    <3>1. starting /\ pos >= end
      BY Zenon, <2>1 DEF Inv, WriteInv
    <3>2. WriteOffset = pos - end
      BY <1>1, <2>1, <3>1, BFAssumption DEF WriteOffset, Backspace
    <3> QED BY <1>1, <2>1, <3>1, <3>2, BFAssumption
  <2>2. CASE mode = "write"
    BY Zenon, <1>1, <2>2 DEF Inv, WriteInv, WriteOffset
  <2> QED BY Zenon, <1>1, <2>1, <2>2
<1>4. Len(OldBlocks) \in Nat /\ Len(disk) \in Nat
  BY Zenon, <1>1, ArchiveStart, LenProperties DEF OldBlocks, Arch
<1> QED BY Zenon, <1>1, <1>2, <1>3, <1>4, BFAssumption DEF AddBlock

\* The record, or its start, written at the offset it covers leaves the old
\* blocks as they are.
LEMMA OverwriteKeepsOld ==
    ASSUME Inv, Writing, NEW r \in Seq(AddBlock), Len(r) <= BF,
           \A i \in 1..Len(r) : r[i] = rec[i],
           input' = input, disk' = Overwrite(disk, WriteOffset, r)
    PROVE  disk' \in Seq(AddBlock) /\ OldIntact'
<1> DEFINE L == Len(OldBlocks)
           n == Len(r)
           D == Overwrite(disk, WriteOffset, r)
<1>1. /\ disk \in Seq(AddBlock) /\ input \in Inputs /\ WriteOffset \in Nat
      /\ BF \in Nat /\ L \in Nat /\ Len(disk) \in Nat /\ Zero \in AddBlock
  BY Zenon, WritingFacts
<1>2. n \in Nat /\ n <= BF
  BY Zenon, LenProperties
<1>3. /\ D \in Seq(AddBlock) /\ Len(D) >= Len(disk) /\ Len(D) \in Nat
      /\ \A i \in 1..Len(D) :
           D[i] = IF i > WriteOffset /\ i <= WriteOffset + n THEN r[i - WriteOffset]
                  ELSE IF i <= Len(disk) THEN disk[i] ELSE Zero
  <2>1. /\ D \in Seq(AddBlock) /\ Len(D) >= Len(disk)
        /\ \A i \in 1..Len(D) :
             D[i] = IF i > WriteOffset /\ i <= WriteOffset + n THEN r[i - WriteOffset]
                    ELSE IF i <= Len(disk) THEN disk[i] ELSE Zero
    BY <1>1, OverwriteEffect
  <2> QED BY Zenon, <2>1, LenProperties
<1> HIDE DEF D, n
<1>4. disk' = D
  BY Zenon DEF D
<1>5. UNCHANGED <<OldBlocks, Complete>>
  BY Zenon DEF OldBlocks, Arch, Complete
<1>6. ASSUME Complete
      PROVE  Len(D) >= L /\ \A i \in 1..L : D[i] = OldBlocks[i]
  <2>1. Len(disk) >= L /\ \A i \in 1..L : disk[i] = OldBlocks[i]
    BY Zenon, <1>1, <1>6, OldIntactPointwise DEF Inv
  <2>2. \A i \in 1..BF : WriteOffset + i <= L => rec[i] = OldBlocks[WriteOffset + i]
    BY Zenon, <1>6 DEF Inv, WriteInv
  <2>3. ASSUME NEW i \in 1..L PROVE D[i] = OldBlocks[i]
    <3>1. CASE i > WriteOffset /\ i <= WriteOffset + n
      <4>1. i - WriteOffset \in 1..n /\ i - WriteOffset \in 1..BF
        BY <1>1, <1>2, <3>1
      <4>2. WriteOffset + (i - WriteOffset) = i
        BY <1>1
      <4>3. D[i] = rec[i - WriteOffset]
        <5>1. D[i] = r[i - WriteOffset]
          BY <1>1, <1>3, <2>1, <3>1
        <5>2. r[i - WriteOffset] = rec[i - WriteOffset]
          BY Zenon, <4>1 DEF n
        <5> QED BY Zenon, <5>1, <5>2
      <4> QED BY <1>1, <2>2, <4>1, <4>2, <4>3
    <3>2. CASE ~(i > WriteOffset /\ i <= WriteOffset + n)
      BY <1>1, <1>3, <2>1, <3>2
    <3> QED BY Zenon, <3>1, <3>2
  <2> QED BY <1>1, <1>3, <2>1, <2>3
<1>7. OldIntact'
  <2>1. CASE Complete
    <3>1. SubSeq(D, 1, L) = OldBlocks
      <4> DEFINE P == SubSeq(D, 1, L)
      <4>1. OldBlocks \in Seq(AddBlock)
        BY Zenon, <1>1, ArchiveStart DEF OldBlocks, Arch
      <4>2. /\ P \in Seq(AddBlock) /\ Len(P) = L
            /\ \A i \in 1..L : P[i] = D[i]
        BY <1>1, <1>3, <1>6, <2>1, SubSeqType
      <4> HIDE DEF P
      <4>3. P = OldBlocks
        BY Zenon, <1>6, <2>1, <4>1, <4>2, SeqEqual
      <4> QED BY Zenon, <4>3 DEF P
    <3> QED BY Zenon, <1>4, <1>5, <1>6, <2>1, <3>1 DEF OldIntact
  <2>2. CASE ~Complete
    BY Zenon, <1>5, <2>2 DEF OldIntact
  <2> QED BY Zenon, <2>1, <2>2
<1> QED BY Zenon, <1>3, <1>4, <1>7

\* A step that fills the record after current_block.
LEMMA FillInv ==
    ASSUME Inv, Writing, Writing',
           UNCHANGED <<disk, pos, out, end, hit_eof, to_stdout, input, todo, mode,
                       record_start_block, records_read, records_written, starting>>,
           rec' \in [1..BF -> AddBlock], \A i \in 1..cur : rec'[i] = rec[i],
           cur' \in cur..end, queue' \in Seq(Seq(AddBlock)),
           Len(queue') <= Len(input.add), left_out' \subseteq 1..Len(input.add)
    PROVE  Inv'
<1>1. /\ cur \in 0..BF /\ end \in 0..BF /\ BF \in Nat \ {0}
      /\ WriteOffset \in Nat /\ Len(OldBlocks) \in Nat
  BY Zenon, WritingFacts
<1>2. TypeOK'
  <2>1. IoTypeOK(AddBlock)'
    <3>1. cur' \in 0..BF
      BY <1>1
    <3> QED BY Zenon, <3>1 DEF Inv, TypeOK, IoTypeOK
  <2> QED BY Zenon, <2>1 DEF Inv, TypeOK, Writing
<1>3. ReadInv'
  BY Zenon DEF ReadInv, Reading, Writing
<1>4. UNCHANGED <<OldBlocks, Complete, WriteOffset>>
  BY Zenon DEF OldBlocks, Arch, Complete, WriteOffset, Backspace
<1>5. OldIntact'
  BY Zenon, <1>4 DEF Inv, OldIntact
<1>6. WriteInv'
  <2>1. ASSUME Complete
        PROVE  /\ WriteOffset + cur' >= Len(OldBlocks)
               /\ \A i \in 1..BF : WriteOffset + i <= Len(OldBlocks) =>
                                     rec'[i] = OldBlocks[WriteOffset + i]
    <3>1. WriteOffset + cur >= Len(OldBlocks)
      BY Zenon, <2>1 DEF Inv, WriteInv
    <3>2. \A i \in 1..BF : WriteOffset + i <= Len(OldBlocks) => i \in 1..cur
      BY <1>1, <3>1
    <3>3. \A i \in 1..BF : WriteOffset + i <= Len(OldBlocks) =>
                             rec[i] = OldBlocks[WriteOffset + i]
      BY Zenon, <2>1 DEF Inv, WriteInv
    <3>4. WriteOffset + cur' >= Len(OldBlocks)
      BY <1>1, <3>1
    <3> QED BY Zenon, <3>2, <3>3, <3>4
  <2> QED BY <1>1, <1>4, <2>1 DEF Inv, WriteInv
<1> QED BY Zenon, <1>2, <1>3, <1>5, <1>6 DEF Inv

LEMMA ExtendShortInv ==
    ASSUME Inv, Writing, ExtendShortRecord, UNCHANGED pc
    PROVE  Inv'
<1>1. /\ mode = "read" /\ end < BF /\ mode' = "write" /\ starting' = FALSE
      /\ pos' = WriteOffset /\ end' = BF /\ rec' = FillUp
      /\ UNCHANGED <<disk, out, cur, hit_eof, to_stdout, record_start_block,
                     records_read, records_written, input, todo, queue, left_out>>
  BY Zenon DEF ExtendShortRecord, ShortStart
<1>2. /\ cur \in 0..BF /\ end \in 0..BF /\ BF \in Nat \ {0} /\ Zero \in AddBlock
      /\ WriteOffset \in Nat /\ WriteOffset + end = pos /\ Len(OldBlocks) \in Nat
      /\ rec \in [1..BF -> AddBlock]
  BY Zenon, <1>1, WritingFacts
<1>3. rec' \in [1..BF -> AddBlock]
  BY Zenon, <1>1, <1>2 DEF FillUp
<1>4. TypeOK'
  <2>1. IoTypeOK(AddBlock)'
    <3>1. end' \in 0..BF
      BY <1>1, <1>2
    <3> QED BY Zenon, <1>1, <1>2, <1>3, <3>1 DEF Inv, TypeOK, IoTypeOK
  <2> QED BY Zenon, <1>1, <2>1 DEF Inv, TypeOK
<1>5. ReadInv'
  BY Zenon DEF ReadInv, Reading, Writing
<1>6. UNCHANGED <<OldBlocks, Complete>>
  BY Zenon, <1>1 DEF OldBlocks, Arch, Complete
<1>7. OldIntact'
  BY Zenon, <1>1, <1>6 DEF Inv, OldIntact
<1>8. WriteInv'
  <2>1. WriteOffset' = WriteOffset
    BY Zenon, <1>1 DEF WriteOffset
  <2>2. ASSUME Complete, NEW i \in 1..BF, WriteOffset + i <= Len(OldBlocks)
        PROVE  rec'[i] = OldBlocks[WriteOffset + i]
    <3>1. pos >= Len(OldBlocks)
      BY <1>1, <1>2, <2>2 DEF Inv, WriteInv
    <3>2. i <= end
      BY <1>2, <2>2, <3>1
    <3>3. rec'[i] = rec[i]
      BY <1>1, <1>2, <3>2 DEF FillUp
    <3> QED BY Zenon, <2>2, <3>3 DEF Inv, WriteInv
  <2> QED BY <1>1, <1>2, <1>6, <2>1, <2>2 DEF Inv, WriteInv
<1> QED BY Zenon, <1>1, <1>4, <1>5, <1>7, <1>8 DEF Inv

LEMMA WriteOutInv ==
    ASSUME Inv, Writing, WriteOutRecord, pc' = pc \/ pc' = "done"
    PROVE  Inv'
<1>1. /\ mode' = "write" /\ starting' \in BOOLEAN /\ disk' = Overwrite(disk, WriteOffset, rec)
      /\ pos' = WriteOffset + BF /\ record_start_block' = record_start_block + end
      /\ cur' = 0 /\ end' = BF /\ records_written' = records_written + 1
      /\ UNCHANGED <<out, rec, hit_eof, to_stdout, records_read, input, todo,
                     queue, left_out>>
  BY Zenon DEF WriteOutRecord
<1>2. /\ cur \in 0..BF /\ end \in 0..BF /\ BF \in Nat \ {0} /\ WriteOffset \in Nat
      /\ rec \in Seq(AddBlock) /\ Len(rec) = BF /\ Len(OldBlocks) \in Nat
      /\ rec \in [1..BF -> AddBlock]
  BY Zenon, WritingFacts
<1>3. disk' \in Seq(AddBlock) /\ OldIntact'
  BY <1>1, <1>2, OverwriteKeepsOld
<1>4. TypeOK'
  <2>1. /\ pos' \in Nat /\ cur' \in 0..BF /\ end' \in 0..BF
        /\ record_start_block' \in Nat /\ records_written' \in Nat
    BY <1>1, <1>2 DEF Inv, TypeOK, IoTypeOK
  <2>2. IoTypeOK(AddBlock)'
    BY Zenon, <1>1, <1>3, <2>1 DEF Inv, TypeOK, IoTypeOK
  <2> QED BY Zenon, <1>1, <2>2 DEF Inv, TypeOK
<1>5. ReadInv'
  BY Zenon DEF ReadInv, Reading, Writing
<1>6. WriteInv'
  <2>1. WriteOffset' = WriteOffset + BF
    BY Zenon, <1>1 DEF WriteOffset
  <2>2. UNCHANGED <<OldBlocks, Complete>>
    BY Zenon, <1>1 DEF OldBlocks, Arch, Complete
  <2>3. Complete => WriteOffset + BF >= Len(OldBlocks)
    BY <1>2 DEF Inv, WriteInv
  <2> QED BY <1>1, <1>2, <2>1, <2>2, <2>3 DEF WriteInv
<1> QED BY Zenon, <1>1, <1>3, <1>4, <1>5, <1>6 DEF Inv

LEMMA WriteFailsInv ==
    ASSUME Inv, Writing, WriteFails
    PROVE  Inv'
<1>1. /\ pc' = "fatal"
      /\ UNCHANGED <<pos, out, rec, cur, end, hit_eof, to_stdout,
                     record_start_block, records_read, records_written, input,
                     todo, mode, starting, queue, left_out>>
  BY Zenon DEF WriteFails, addVars
<1>2. disk' \in Seq(AddBlock) /\ OldIntact'
  <2>1. CASE UNCHANGED disk
    BY Zenon, <1>1, <2>1 DEF Inv, TypeOK, IoTypeOK, OldIntact, Complete, OldBlocks, Arch
  <2>2. ASSUME NEW n \in 1..BF - 1, disk' = Overwrite(disk, WriteOffset, SubSeq(rec, 1, n))
        PROVE  disk' \in Seq(AddBlock) /\ OldIntact'
    <3> DEFINE r == SubSeq(rec, 1, n)
    <3>1. rec \in Seq(AddBlock) /\ Len(rec) = BF /\ BF \in Nat \ {0}
      BY Zenon, WritingFacts
    <3>2. r \in Seq(AddBlock) /\ Len(r) = n /\ \A i \in 1..n : r[i] = rec[i]
      BY <3>1, SubSeqType
    <3> HIDE DEF r
    <3>3. disk' = Overwrite(disk, WriteOffset, r) /\ Len(r) <= BF
      BY <2>2, <3>1, <3>2 DEF r
    <3> QED BY Zenon, <1>1, <3>2, <3>3, OverwriteKeepsOld
  <2> QED BY Zenon, <2>1, <2>2 DEF WriteFails
<1>3. TypeOK'
  <2>1. IoTypeOK(AddBlock)'
    BY Zenon, <1>1, <1>2 DEF Inv, TypeOK, IoTypeOK
  <2> QED BY Zenon, <1>1, <2>1 DEF Inv, TypeOK
<1>4. ReadInv' /\ WriteInv'
  BY Zenon, <1>1 DEF ReadInv, WriteInv, Reading, Writing
<1> QED BY Zenon, <1>1, <1>2, <1>3, <1>4 DEF Inv

LEMMA PutBlocksInv == Inv /\ PutBlocks => Inv'
<1> SUFFICES ASSUME Inv, PutBlocks PROVE Inv'
  BY Zenon
<1> DEFINE h == Head(queue)
<1>1. /\ Writing /\ Writing' /\ queue # <<>> /\ cur < end /\ cur' = cur + Room
      /\ rec' = [i \in 1..BF |->
                    IF i > cur /\ i <= cur + Room THEN h[i - cur] ELSE rec[i]]
      /\ queue' = IF Room = Len(h) THEN Tail(queue)
                  ELSE <<SubSeq(h, Room + 1, Len(h))>> \o Tail(queue)
      /\ UNCHANGED <<disk, pos, out, end, hit_eof, to_stdout, input, todo, mode,
                     record_start_block, records_read, records_written, starting,
                     left_out>>
  BY Zenon DEF PutBlocks, HaveBlock, Writing
<1>2. /\ cur \in 0..BF /\ end \in 0..BF /\ BF \in Nat \ {0}
      /\ rec \in [1..BF -> AddBlock]
      /\ queue \in Seq(Seq(AddBlock)) /\ Len(queue) <= Len(input.add)
      /\ left_out \subseteq 1..Len(input.add) /\ input \in Inputs
  BY Zenon, <1>1, WritingFacts DEF Inv, TypeOK
<1>3. /\ h \in Seq(AddBlock) /\ Tail(queue) \in Seq(Seq(AddBlock))
      /\ Len(Tail(queue)) = Len(queue) - 1
  BY Zenon, <1>1, <1>2, HeadTailProperties
<1>4. /\ Len(h) \in Nat /\ Len(queue) \in Nat
      /\ h \in [1..Len(h) -> AddBlock]
  BY Zenon, <1>2, <1>3, LenProperties
<1>5. Room \in Nat /\ Room <= Len(h) /\ cur + Room <= end
  BY <1>1, <1>2, <1>4 DEF Room
<1> HIDE DEF h
<1>6. rec' \in [1..BF -> AddBlock] /\ \A i \in 1..cur : rec'[i] = rec[i]
  <2>1. ASSUME NEW i \in 1..BF
        PROVE  (IF i > cur /\ i <= cur + Room THEN h[i - cur] ELSE rec[i]) \in AddBlock
    <3>1. CASE i > cur /\ i <= cur + Room
      <4>1. i - cur \in 1..Len(h)
        BY <1>2, <1>4, <1>5, <3>1
      <4> QED BY Zenon, <1>4, <3>1, <4>1
    <3>2. CASE ~(i > cur /\ i <= cur + Room)
      BY Zenon, <1>2, <3>2
    <3> QED BY Zenon, <3>1, <3>2
  <2> QED BY <1>1, <1>2, <2>1
<1>7. queue' \in Seq(Seq(AddBlock)) /\ Len(queue') <= Len(queue)
  <2>1. CASE Room = Len(h)
    BY <1>1, <1>3, <1>4, <2>1
  <2>2. CASE Room # Len(h)
    <3> DEFINE q == <<SubSeq(h, Room + 1, Len(h))>>
    <3>1. SubSeq(h, Room + 1, Len(h)) \in Seq(AddBlock)
      BY <1>3, <1>4, <1>5, SubSeqType
    <3>2. q \in Seq(Seq(AddBlock)) /\ Len(q) = 1
      BY <3>1
    <3> HIDE DEF q
    <3>3. /\ q \o Tail(queue) \in Seq(Seq(AddBlock))
          /\ Len(q \o Tail(queue)) = Len(q) + Len(Tail(queue))
      BY Zenon, <1>3, <3>2, ConcatProperties
    <3>4. Len(q \o Tail(queue)) = Len(queue)
      BY <1>3, <1>4, <3>2, <3>3
    <3> QED BY <1>1, <1>4, <2>2, <3>3, <3>4 DEF q
  <2> QED BY Zenon, <2>1, <2>2
<1>8. Len(queue') <= Len(input.add)
  <2>1. Len(input.add) \in Nat /\ Len(queue') \in Nat
    BY Zenon, <1>2, <1>7, AddAssumption, LenProperties
  <2> QED BY <1>2, <1>4, <1>7, <2>1
<1>9. cur' \in cur..end
  BY <1>1, <1>2, <1>5
<1> QED BY Zenon, <1>1, <1>2, <1>6, <1>7, <1>8, <1>9, FillInv

LEMMA SkipFileInv == Inv /\ SkipFile => Inv'
<1> SUFFICES ASSUME Inv, SkipFile PROVE Inv'
  BY Zenon
<1> DEFINE j == Len(input.add) - Len(queue) + 1
<1>1. /\ Writing /\ Writing' /\ queue # <<>> /\ queue' = Tail(queue)
      /\ left_out' = left_out \cup {j}
      /\ UNCHANGED <<disk, pos, out, rec, cur, end, hit_eof, to_stdout, input, todo,
                     record_start_block, records_read, records_written, mode,
                     starting>>
  BY Zenon DEF SkipFile, readVars, ioVars, Writing
<1>2. /\ queue \in Seq(Seq(AddBlock)) /\ Len(queue) <= Len(input.add)
      /\ left_out \subseteq 1..Len(input.add) /\ input \in Inputs
      /\ rec \in [1..BF -> AddBlock] /\ cur \in 0..BF /\ end \in 0..BF /\ cur <= end
      /\ BF \in Nat
  BY Zenon, <1>1, WritingFacts DEF Inv, TypeOK
<1>3. /\ Tail(queue) \in Seq(Seq(AddBlock)) /\ Len(Tail(queue)) = Len(queue) - 1
      /\ Len(queue) \in Nat /\ Len(Tail(queue)) \in Nat
  BY Zenon, <1>1, <1>2, HeadTailProperties, LenProperties
<1>4. Len(input.add) \in Nat
  BY Zenon, <1>2, AddAssumption, LenProperties
<1>5. left_out' \subseteq 1..Len(input.add) /\ Len(queue') <= Len(input.add)
  <2>1. j \in 1..Len(input.add) /\ Len(Tail(queue)) <= Len(input.add)
    BY <1>2, <1>3, <1>4
  <2> HIDE DEF j
  <2> QED BY Zenon, <1>1, <1>2, <2>1
<1>6. cur' \in cur..end
  BY <1>1, <1>2
<1> QED BY Zenon, <1>1, <1>2, <1>3, <1>5, <1>6, FillInv

\* write_eot, as a step that fills the record.
LEMMA EotInv == Inv /\ (AllAdded \/ FirstZero \/ OtherZeros) => Inv'
<1> SUFFICES ASSUME Inv, AllAdded \/ FirstZero \/ OtherZeros PROVE Inv'
  BY Zenon
<1>1. /\ Writing /\ Writing'
      /\ UNCHANGED <<disk, pos, out, end, hit_eof, to_stdout, input, todo, mode,
                     record_start_block, records_read, records_written, starting,
                     queue, left_out>>
  BY Zenon DEF AllAdded, FirstZero, OtherZeros, ioVars, addVars, Writing
<1>2. /\ cur \in 0..BF /\ end \in 0..BF /\ BF \in Nat \ {0} /\ cur <= end
      /\ rec \in [1..BF -> AddBlock] /\ Zero \in AddBlock
      /\ queue \in Seq(Seq(AddBlock)) /\ Len(queue) <= Len(input.add)
      /\ left_out \subseteq 1..Len(input.add)
  BY Zenon, <1>1, WritingFacts DEF Inv, TypeOK
<1>3. /\ cur' \in cur..end
      /\ rec' \in [1..BF -> AddBlock] /\ \A i \in 1..cur : rec'[i] = rec[i]
  <2>1. CASE AllAdded
    BY <1>2, <2>1 DEF AllAdded, ioVars
  <2>2. CASE FirstZero
    BY <1>2, <2>2 DEF FirstZero, ZeroTo, HaveBlock
  <2>3. CASE OtherZeros
    BY <1>2, <2>3 DEF OtherZeros, ZeroTo, HaveBlock
  <2> QED BY Zenon, <2>1, <2>2, <2>3
<1> QED BY Zenon, <1>1, <1>2, <1>3, FillInv

LEMMA NextInv == Inv /\ [Next]_vars => Inv'
<1> SUFFICES ASSUME Inv, [Next]_vars PROVE Inv'
  BY Zenon
<1>1. CASE NextRecord BY Zenon, <1>1, NextRecordInv
<1>2. CASE PassMember BY Zenon, <1>2, PassMemberInv
<1>3. CASE PassExtended BY Zenon, <1>3, PassExtendedInv
<1>4. CASE PassBlocks BY Zenon, <1>4, PassBlocksInv
<1>5. CASE UnexpectedEOF BY Zenon, <1>5, UnexpectedEOFInv
<1>6. CASE NonHeader BY Zenon, <1>6, NonHeaderInv
<1>7. CASE FoundMarker BY Zenon, <1>7, FoundMarkerInv
<1>8. CASE FoundEOF BY Zenon, <1>8, FoundEOFInv
<1>9. CASE StartShort \/ CloseShort
  BY Zenon, <1>9, ExtendShortInv DEF StartShort, CloseShort, NeedsRecord, Writing
<1>10. CASE NewRecord \/ CloseFlush
  BY Zenon, <1>10, WriteOutInv DEF NewRecord, CloseFlush, NeedsRecord, Writing
<1>11. CASE NewRecordFails \/ CloseFails
  BY Zenon, <1>11, WriteFailsInv DEF NewRecordFails, CloseFails, NeedsRecord, Writing
<1>12. CASE PutBlocks BY Zenon, <1>12, PutBlocksInv
<1>13. CASE SkipFile BY Zenon, <1>13, SkipFileInv
<1>14. CASE AllAdded \/ FirstZero \/ OtherZeros BY Zenon, <1>14, EotInv
<1>15. CASE UNCHANGED vars
  <2>1. UNCHANGED <<TypeOK, OldIntact>>
    BY Zenon, <1>15 DEF vars, readVars, ioVars, addVars, TypeOK, IoTypeOK, OldIntact,
                 Complete, OldBlocks, Arch
  <2>2. UNCHANGED <<ReadInv, WriteInv>>
    BY Zenon, <1>15 DEF vars, readVars, ioVars, addVars, ReadInv, WriteInv, Reading,
                 Writing, Complete, OldBlocks, Arch, WriteOffset, Backspace
  <2> QED BY Zenon, <1>15, <2>1, <2>2 DEF Inv, vars, readVars, ioVars, addVars
<1> QED
  BY Zenon, <1>1, <1>2, <1>3, <1>4, <1>5, <1>6, <1>7, <1>8, <1>9, <1>10, <1>11, <1>12,
     <1>13, <1>14, <1>15 DEF Next

\* tar --append, --update and --concatenate: the variables keep their types.
THEOREM AppendTypes == Spec => []TypeOK
<1>1. Inv => TypeOK
  BY Zenon DEF Inv
<1> QED BY InitInv, NextInv, <1>1, PTL DEF Spec

\* Whatever is added, and wherever tar is stopped or a write fails, the blocks
\* of the members that were in a complete archive stay as they were.
THEOREM OldMembersIntact == Spec => []OldIntact
<1>1. Inv => OldIntact
  BY Zenon DEF Inv
<1> QED BY InitInv, NextInv, <1>1, PTL DEF Spec
=============================================================================
