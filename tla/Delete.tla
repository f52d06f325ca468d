------------------------------- MODULE Delete -------------------------------
(***************************************************************************)
(* tar --delete (src/delete.c).  The archive is edited in place: members   *)
(* are read a record at a time and the ones to keep are written back, a    *)
(* record at a time, over the part already read; the descriptor is moved   *)
(* back and forth between the two.  With archive "-" tar is a filter and   *)
(* the kept blocks go to stdout.                                           *)
(*                                                                         *)
(* An input is an archive (Reader) and                                     *)
(*   del     the names to delete                                           *)
(*   occ     occurrence_option (0: every occurrence)                       *)
(*   izeros  ignore_zeros_option                                           *)
(***************************************************************************)
EXTENDS Reader

VARIABLES
    phase,              \* 1: skipping to the first match, 2: moving up
    found,              \* found_count of each name
    records_skipped,
    newrec,             \* the new_blocks blocks of new_record
    recent,             \* recent_long_name / xhdr.buffer
    kept,               \* kept_blocks_in_record
    zeros               \* total_zero_blocks

delVars == <<phase, found, records_skipped, newrec, recent, kept, zeros>>
vars == <<readVars, delVars>>

ASSUME InputsAssumption ==
    \A in \in Inputs : in.occ \in Nat /\ in.izeros \in BOOLEAN

\* isfound, after found_count has become c.
IsFound(c) == IF input.occ = 0 THEN c # 0 ELSE c = input.occ

\* name_scan and the found_count: the member at the current header is one
\* of the occurrences to delete.
Matches == Member.name \in input.del /\ IsFound(found[Member.name] + 1)
Count == found' = IF Member.name \in input.del
                  THEN [found EXCEPT ![Member.name] = @ + 1] ELSE found

Init ==
    /\ ReadInit
    /\ phase = 1
    /\ found = [n \in Names |-> 0]
    /\ records_skipped = 0
    /\ newrec = <<>>
    /\ recent = <<>>
    /\ kept = 0
    /\ zeros = 0

-----------------------------------------------------------------------------
NextRecord == ReadRecord /\ UNCHANGED delVars

(***************************************************************************)
(* Phase 1: skip to the first extended header or member to delete.         *)
(***************************************************************************)

PassMember ==
    /\ pc = "header" /\ phase = 1 /\ HaveBlock
    /\ IsHeader(Header)
    /\ ~Matches
    /\ Count
    /\ SkimMember
    /\ UNCHANGED <<phase, records_skipped, newrec, recent, kept, zeros>>

\* skim_file.
SkimBlocks ==
    /\ pc = "skim" /\ (HaveBlock \/ todo = 0)
    /\ PassHere
    /\ UNCHANGED delVars

\* "Unexpected EOF in archive".
SkimEOFBug == pc = "skim" /\ NoBlock /\ todo > 0 /\ UNCHANGED vars

SkimEOF ==
    /\ pc = "skim" /\ NoBlock /\ todo > 0
    /\ pc' = "fatal"
    /\ UNCHANGED <<ioVars, input, todo, delVars>>

\* A matching member, or the extended header of a member that may or may not
\* match, ends phase 1: the blocks before it in its record are saved.
RecordsSkipped == records_read - 1
SavedBlocksBug == <<>>
SavedBlocks == SubSeq(rec, 1, cur)

BeginRewrite(next) ==
    /\ phase' = 2
    /\ records_skipped' = RecordsSkipped
    /\ newrec' = SavedBlocks
    /\ to_stdout' = FALSE
    /\ pc' = next

BeginAtMember ==
    /\ pc = "header" /\ phase = 1 /\ HaveBlock
    /\ IsHeader(Header)
    /\ Matches
    /\ Count
    /\ BeginRewrite("flush")
    /\ cur' = cur + 1
    /\ todo' = Member.size
    /\ UNCHANGED <<disk, pos, out, rec, end, hit_eof, record_start_block,
                   records_read, records_written, input, recent, kept, zeros>>

BeginAtExtended ==
    /\ pc = "header" /\ phase = 1 /\ HaveBlock
    /\ IsExtHeader(Header)
    /\ BeginRewrite("next")
    /\ UNCHANGED <<disk, pos, out, rec, cur, end, hit_eof, record_start_block,
                   records_read, records_written, input, found, recent, todo,
                   kept, zeros>>

\* A block that is no header is passed over in phase 1 and dropped in phase 2.
NonHeader ==
    /\ pc = "header" /\ HaveBlock
    /\ IsGarbage(Header) \/ (Header = Zero /\ input.izeros)
    /\ PassBlock
    /\ recent' = <<>>
    /\ pc' = IF phase = 1 THEN "header" ELSE "next"
    /\ UNCHANGED <<disk, pos, out, rec, end, hit_eof, to_stdout,
                   record_start_block, records_read, records_written, input,
                   phase, found, records_skipped, newrec, todo, kept, zeros>>

\* The end of the archive: phase 1 leaves it alone, phase 2 writes a new end.
EndOfArchive ==
    /\ pc = "header"
    /\ NoBlock \/ (HaveBlock /\ Header = Zero /\ ~input.izeros)
    /\ pc' = IF phase = 1 THEN "done" ELSE "eot"
    /\ UNCHANGED <<ioVars, input, phase, found, records_skipped, newrec,
                   recent, todo, kept, zeros>>

-----------------------------------------------------------------------------
(***************************************************************************)
(* Phase 2: drop the members to delete and move the others up.             *)
(***************************************************************************)

\* flush_file: pass over the data of a deleted member, to the next record
\* as long as this one holds no block after it.
FlushFile ==
    /\ pc = "flush"
    /\ IF end - cur <= todo
       THEN /\ todo' = todo - (end - cur)
            /\ FlushForRead
            /\ pc' = IF end' = 0 THEN "next" ELSE "flush"
       ELSE /\ cur' = cur + todo
            /\ todo' = 0
            /\ pc' = "next"
            /\ UNCHANGED <<disk, pos, out, rec, end, to_stdout,
                           record_start_block, records_read, records_written>>
    /\ UNCHANGED <<hit_eof, input, phase, found, records_skipped, newrec,
                   recent, kept, zeros>>

\* "Fill in a record" at the top of the loop.
TopOfLoop ==
    /\ pc = "next"
    /\ IF cur = end
       THEN FlushForRead
       ELSE UNCHANGED <<disk, pos, out, rec, cur, end, to_stdout,
                        record_start_block, records_read, records_written>>
    /\ pc' = "header"
    /\ recent' = <<>>
    /\ UNCHANGED <<hit_eof, input, phase, found, records_skipped, newrec, todo,
                   kept, zeros>>

\* read_header remembers the extended header it passes over.
ExtendedHeader ==
    /\ phase = 2
    /\ BeginExtended
    /\ recent' = <<>>
    /\ UNCHANGED <<phase, found, records_skipped, newrec, kept, zeros>>

ReadExtended ==
    /\ pc = "ext" /\ HaveBlock
    /\ recent' = recent \o SubSeq(rec, cur + 1, cur + Here)
    /\ PassHere
    /\ UNCHANGED <<phase, found, records_skipped, newrec, kept, zeros>>

\* The archive ends inside an extended header: an error for GNU headers,
\* fatal for the others.
ExtendedEOF ==
    /\ pc = "ext" /\ NoBlock
    /\ pc' = IF Arch[recent[1].m].kind = "gnu" THEN "header" ELSE "fatal"
    /\ UNCHANGED <<ioVars, input, phase, found, records_skipped, newrec,
                   recent, todo, kept, zeros>>

DeleteMember ==
    /\ pc = "header" /\ phase = 2 /\ HaveBlock
    /\ IsHeader(Header)
    /\ Matches
    /\ Count
    /\ cur' = cur + 1
    /\ todo' = Member.size
    /\ pc' = "flush"
    /\ UNCHANGED <<disk, pos, out, rec, end, hit_eof, to_stdout,
                   record_start_block, records_read, records_written, input,
                   phase, records_skipped, newrec, recent, kept, zeros>>

\* What is written for the extended header of a kept member: nothing of a
\* global header; write_recent_bytes zero-fills the last block of a pax header,
\* and adds a block of zeros when there is nothing to fill.
RecentBytes ==
    IF Member.kind = "global" THEN <<>>
    ELSE IF recent # <<>> /\ Member.kind = "pax" /\ Member.exact
    THEN Append(recent, Zero) ELSE recent

\* "Copy header": the extended header and the header are queued for
\* new_record.
KeepMember ==
    /\ pc = "header" /\ phase = 2 /\ HaveBlock
    /\ IsHeader(Header)
    /\ ~Matches
    /\ Count
    /\ recent' = Append(RecentBytes, Header)
    /\ cur' = cur + 1
    /\ todo' = Member.size
    /\ pc' = "emit"
    /\ UNCHANGED <<disk, pos, out, rec, end, hit_eof, to_stdout,
                   record_start_block, records_read, records_written, input,
                   phase, records_skipped, newrec, kept, zeros>>

\* move_archive: COUNT records from the record boundary at or after offset p.
MoveArchive(p, count) ==
    LET start  == ((p + BF - 1) \div BF) * BF
        target == start + count * BF
    IN  IF count = 0 \/ target < 0 THEN p ELSE target

\* write_record's move back, when the record at p has been written.
BackToReadBug(p, ahead) == p + BF
BackToRead(p, ahead) == MoveArchive(p + BF, -(ahead + 1))

\* write_record of the full record r.
WriteRecord(r, move_back) ==
    LET ahead == records_written + records_skipped - records_read
        p     == MoveArchive(pos, ahead)
    IN  /\ IF input.filter
           THEN /\ out' = out \o r
                /\ UNCHANGED <<disk, pos>>
           ELSE /\ disk' = Overwrite(disk, p, r)
                /\ pos' = IF move_back THEN BackToRead(p, ahead) ELSE p + BF
                /\ out' = out
        /\ records_written' = records_written + 1

\* Add blocks to new_record and write it out when it is full.
AddBlocks(blocks) ==
    LET r == newrec \o blocks
    IN  IF Len(r) = BF
        THEN /\ WriteRecord(r, TRUE)
             /\ newrec' = <<>>
        ELSE /\ newrec' = r
             /\ UNCHANGED <<disk, pos, out, records_written>>

\* write_recent_blocks, one block.
EmitBlock ==
    /\ pc = "emit"
    /\ AddBlocks(<<Head(recent)>>)
    /\ recent' = Tail(recent)
    /\ IF Len(recent) > 1
       THEN UNCHANGED <<pc, kept>>
       ELSE /\ pc' = "copy"
            /\ kept' = IF todo < end - cur THEN todo ELSE end - cur
    /\ UNCHANGED <<rec, cur, end, hit_eof, to_stdout, record_start_block,
                   records_read, input, phase, found, records_skipped, todo,
                   zeros>>

\* "Copy data": read the next record.  This calls flush_read, not
\* flush_archive: record_end stays where it was if the record is full.
RefillKeptBug == kept
RefillKept == IF todo < BF THEN todo ELSE BF

CopyRefill ==
    /\ pc = "copy" /\ todo > 0
    /\ cur = end
    /\ UNCHANGED record_start_block
    /\ FlushRead(end)
    /\ cur' = 0
    /\ kept' = RefillKept
    /\ pc' = "move"
    /\ UNCHANGED <<disk, hit_eof, to_stdout, records_written, input, phase,
                   found, records_skipped, newrec, recent, todo, zeros>>

\* ... and move what fits into new_record.
CopyCount == IF BF - Len(newrec) < kept THEN BF - Len(newrec) ELSE kept

CopyBlocks ==
    /\ pc = "move" \/ (pc = "copy" /\ cur # end)
    /\ todo > 0
    /\ CopyCount > 0
    /\ AddBlocks(SubSeq(rec, cur + 1, cur + CopyCount))
    /\ cur' = cur + CopyCount
    /\ todo' = todo - CopyCount
    /\ kept' = kept - CopyCount
    /\ pc' = "copy"
    /\ UNCHANGED <<rec, end, hit_eof, to_stdout, record_start_block,
                   records_read, input, phase, found, records_skipped, recent,
                   zeros>>

CopyAbort ==
    /\ pc = "move" \/ (pc = "copy" /\ cur # end)
    /\ todo > 0
    /\ CopyCount = 0
    /\ pc' = "abort"
    /\ UNCHANGED <<ioVars, input, phase, found, records_skipped, newrec,
                   recent, todo, kept, zeros>>

CopyDone ==
    /\ pc = "copy" /\ todo = 0
    /\ pc' = "next"
    /\ UNCHANGED <<ioVars, input, phase, found, records_skipped, newrec,
                   recent, todo, kept, zeros>>

\* A short record in the copy loop leaves current_block after record_end, and
\* find_next_block then returns a block of an earlier record, or the memory
\* after the buffer.  A block of zeros ends the archive; set_next_block_after
\* aborts on any other.
StaleBlock ==
    /\ pc = "header" /\ cur > end
    /\ LET Seen == IF cur < BF THEN {Header = Zero} ELSE BOOLEAN
       IN  \E zero \in Seen :
               pc' = IF zero /\ ~input.izeros THEN "eot" ELSE "abort"
    /\ UNCHANGED <<ioVars, input, phase, found, records_skipped, newrec,
                   recent, todo, kept, zeros>>

\* "Write the end of tape": at least two blocks of zeros, to the end of the
\* record.
MoreZeros(n) == n < 2

WriteEOT ==
    /\ pc = "eot"
    /\ LET z == BF - Len(newrec)
       IN  /\ zeros' = zeros + z
           /\ WriteRecord(newrec \o [i \in 1..z |-> Zero], MoreZeros(zeros'))
    /\ newrec' = <<>>
    /\ pc' = IF MoreZeros(zeros') THEN "eot" ELSE "truncate"
    /\ UNCHANGED <<rec, cur, end, hit_eof, to_stdout, record_start_block,
                   records_read, input, phase, found, records_skipped, recent,
                   todo, kept>>

\* sys_truncate at the current offset.
Truncate ==
    /\ pc = "truncate"
    /\ disk' = IF input.filter THEN disk ELSE SubSeq(disk, 1, pos)
    /\ pc' = "done"
    /\ UNCHANGED <<pos, out, rec, cur, end, hit_eof, to_stdout,
                   record_start_block, records_read, records_written, input,
                   phase, found, records_skipped, newrec, recent, todo, kept,
                   zeros>>

Finished == pc \in {"done", "fatal", "abort"}

Next ==
    \/ NextRecord
    \/ PassMember \/ SkimBlocks \/ SkimEOF
    \/ BeginAtMember \/ BeginAtExtended
    \/ NonHeader \/ EndOfArchive
    \/ FlushFile \/ TopOfLoop
    \/ ExtendedHeader \/ ReadExtended \/ ExtendedEOF
    \/ DeleteMember \/ KeepMember \/ EmitBlock
    \/ CopyRefill \/ CopyBlocks \/ CopyAbort \/ CopyDone
    \/ StaleBlock
    \/ WriteEOT \/ Truncate
    \/ (Finished /\ UNCHANGED vars)

Spec == Init /\ [][Next]_vars /\ WF_vars(Next)

-----------------------------------------------------------------------------
(***************************************************************************)
(* Properties                                                              *)
(***************************************************************************)

\* The type of every variable of buffer.c and delete.c that is modelled.
TypeOK ==
    /\ IoTypeOK(Block(Len(Arch)))
    /\ pc \in {"header", "skim", "ext", "next", "flush", "emit", "copy", "move",
               "eot", "truncate", "done", "fatal", "abort"}
    /\ phase \in {1, 2}
    /\ found \in [Names -> Nat]
    /\ records_skipped \in Nat
    /\ newrec \in Seq(Block(Len(Arch))) /\ Len(newrec) < BF
    /\ recent \in Seq(Block(Len(Arch)))
    /\ todo \in Nat
    /\ kept \in 0..BF
    /\ zeros \in Nat

\* The members that stay, by the reference definition of the command: the
\* i-th member of name n goes if n is to be deleted and occ is 0 or the
\* member is the occ-th one of that name.
Stays(j) ==
    LET same == {i \in 1..j : ~Arch[i].junk /\ Arch[i].name = Arch[j].name}
    IN  /\ ~Arch[j].junk
        /\ \/ Arch[j].name \notin input.del
           \/ input.occ # 0 /\ Cardinality(same) # input.occ

KeptBlocks ==
    Concat([j \in 1..Len(Arch) |->
              IF Stays(j) THEN MemberBlocks(Arch, j) ELSE <<>>])

Result == IF input.filter THEN out ELSE disk
MemberPart(s) == SelectSeq(s, LAMBDA b : b # Zero /\ ~Arch[b.m].junk)
ZerosLast(s) == \A i \in 1..Len(s) - 1 : s[i] = Zero => s[i + 1] = Zero

\* The archive is not cut short, or only in a last member that goes, and read
\* as a stream.
Whole == input.tail >= 0 \/ (input.filter /\ ~Stays(Len(Arch)))

\* When tar --delete has rewritten a whole archive, the new archive holds every
\* block of the members that were not named, in their order, nothing of the
\* others, and no block of zeros (an end of archive) among them.
KeptIntact ==
    pc = "done" /\ phase = 2 /\ Whole =>
        /\ MemberPart(Result) = KeptBlocks
        /\ input.izeros \/ ZerosLast(Result)

\* Records are written in full, and two blocks of zeros at least end them: the
\* loop of delete_archive_members that writes the end of tape, and the final
\* truncation to the descriptor's offset.
EndMarked ==
    pc = "done" /\ phase = 2 /\ Whole =>
        /\ Len(Result) % BF = 0
        /\ Len(Result) >= 2
        /\ Result[Len(Result)] = Zero /\ Result[Len(Result) - 1] = Zero

\* What tar --delete leaves behind is an archive of exactly the members that
\* were not named, which a reader finds complete and ended.
DeleteCorrect == KeptIntact /\ EndMarked

\* The rewritten part never runs into the part still to be read: whatever
\* write_record does, the blocks from the read offset on are the original
\* ones, and the descriptor is back at the end of the records read.
UnreadIntact ==
    ~input.filter /\ pc \notin {"eot", "truncate", "done"} =>
        LET original == ArchiveBlocks(input)
        IN  /\ \A i \in pos + 1..Len(original) :
                  i <= Len(disk) /\ disk[i] = original[i]
            /\ pos = records_read * BF \/ pos >= Len(original)

\* On a whole archive abort () is never reached: neither the one of the copy loop
\* nor the one of set_next_block_after, which asserts that current_block is not
\* after record_end.
NoAbort == Whole => pc # "abort"

\* Deletion comes to an end, also on an archive that lacks its last blocks.
Terminates == <>Finished
=============================================================================
