------------------------------- MODULE Append -------------------------------
(***************************************************************************)
(* tar --append, --update and --concatenate (src/update.c): read the       *)
(* archive to its end, then write over the end-of-archive marker.  The     *)
(* first record written is the last one read, so that flush_archive has to *)
(* step the descriptor back over what was read.                            *)
(*                                                                         *)
(* An input is an archive (Reader), whose filter is FALSE, and             *)
(*   add     what is to be added, in order: for each file (or, for         *)
(*           --concatenate, each archive) the sequence of its blocks.      *)
(*           Its members are numbered after those of arch.                 *)
(***************************************************************************)
EXTENDS Reader

VARIABLES
    mode,               \* access_mode, "read" or "write"
    starting,           \* time_to_start_writing
    queue,              \* what is still to be added
    left_out            \* the files that could not be opened

addVars == <<mode, starting, queue, left_out>>
vars == <<readVars, addVars>>

AddBlock == [m : Nat \ {0}, k : Nat \ {0}] \cup {Zero}

ASSUME AddAssumption ==
    \A in \in Inputs : ~in.filter /\ in.add \in Seq(Seq(AddBlock))

Init ==
    /\ ReadInit
    /\ mode = "read"
    /\ starting = FALSE
    /\ queue = input.add
    /\ left_out = {}

-----------------------------------------------------------------------------
(***************************************************************************)
(* Read to the end of the archive.                                         *)
(***************************************************************************)
NextRecord == ReadRecord /\ UNCHANGED addVars

PassMember ==
    /\ pc = "header" /\ HaveBlock
    /\ IsHeader(Header)
    /\ SkimMember
    /\ UNCHANGED addVars

PassExtended == BeginExtended /\ UNCHANGED addVars

PassBlocks ==
    /\ pc \in {"skim", "ext"} /\ (HaveBlock \/ todo = 0)
    /\ PassHere
    /\ UNCHANGED addVars

\* "Unexpected EOF in archive"; read_header goes on after it if the extended
\* header was a GNU one.
UnexpectedEOF ==
    /\ pc \in {"skim", "ext"} /\ NoBlock /\ todo > 0
    /\ \/ pc' = "fatal"
       \/ pc = "ext" /\ pc' = "header"
    /\ UNCHANGED <<ioVars, input, todo, addVars>>

\* "Skipping to next header"
NonHeader ==
    /\ pc = "header" /\ HaveBlock
    /\ IsGarbage(Header)
    /\ PassBlock
    /\ UNCHANGED <<disk, pos, out, rec, end, hit_eof, to_stdout,
                   record_start_block, records_read, records_written, input,
                   pc, todo, addVars>>

\* The end-of-archive marker: its first block is where writing starts.
FoundMarker ==
    /\ pc = "header" /\ HaveBlock
    /\ Header = Zero
    /\ starting' = TRUE
    /\ pc' = "add"
    /\ UNCHANGED <<ioVars, input, todo, mode, queue, left_out>>

\* There is no marker: reset_eof starts an empty record after the last one.
FoundEOF ==
    /\ pc = "header" /\ NoBlock
    /\ hit_eof' = FALSE
    /\ cur' = 0
    /\ end' = BF
    /\ mode' = "write"
    /\ starting' = TRUE
    /\ pc' = "add"
    /\ UNCHANGED <<disk, pos, out, rec, to_stdout, record_start_block,
                   records_read, records_written, input, todo, queue, left_out>>

-----------------------------------------------------------------------------
(***************************************************************************)
(* Write the new members and a new marker.                                 *)
(***************************************************************************)

\* The part of flush_archive that starts writing: backspace_output.
BackspaceBug(p) == p - BF
Backspace(p) == p - end
WriteOffset ==
    IF mode = "read" /\ starting
    THEN IF Backspace(pos) < 0 THEN 0 ELSE Backspace(pos)
    ELSE pos

\* The last record read was short: it is filled with zeros and not written
\* yet, the descriptor is at its start.
ShortStart == mode = "read" /\ starting /\ end < BF

FillUp == [i \in 1..BF |-> IF i > end THEN Zero ELSE rec[i]]

ExtendShortRecord ==
    /\ ShortStart
    /\ mode' = "write"
    /\ starting' = FALSE
    /\ pos' = WriteOffset
    /\ rec' = FillUp
    /\ end' = BF
    /\ UNCHANGED <<disk, out, cur, hit_eof, to_stdout, record_start_block,
                   records_read, records_written, input, todo, queue, left_out>>

\* The rest of flush_archive: the record is written and a new one is begun.
WriteOutRecord ==
    /\ ~ShortStart
    /\ mode' = "write"
    /\ starting' = (starting /\ mode = "write")
    /\ disk' = Overwrite(disk, WriteOffset, rec)
    /\ pos' = WriteOffset + BF
    /\ record_start_block' = record_start_block + end
    /\ cur' = 0
    /\ end' = BF
    /\ records_written' = records_written + 1
    /\ UNCHANGED <<out, rec, hit_eof, to_stdout, records_read, input, todo,
                   queue, left_out>>

\* A write that fails, perhaps after a part of the record: fatal.
WriteFails ==
    /\ ~ShortStart
    /\ \/ UNCHANGED disk
       \/ \E n \in 1..BF - 1 :
             disk' = Overwrite(disk, WriteOffset, SubSeq(rec, 1, n))
    /\ pc' = "fatal"
    /\ UNCHANGED <<pos, out, rec, cur, end, hit_eof, to_stdout,
                   record_start_block, records_read, records_written, input,
                   todo, addVars>>

\* find_next_block at the end of the record.
NeedsRecord == cur = end /\ ((pc = "add" /\ queue # <<>>) \/ pc \in {"eot1", "eot2"})

StartShort == NeedsRecord /\ ExtendShortRecord /\ UNCHANGED pc
NewRecord  == NeedsRecord /\ WriteOutRecord /\ UNCHANGED pc
NewRecordFails == NeedsRecord /\ WriteFails

\* dump_file or append_file puts as many blocks into the record as fit.
Room == IF Len(Head(queue)) < end - cur THEN Len(Head(queue)) ELSE end - cur

PutBlocks ==
    /\ pc = "add" /\ queue # <<>>
    /\ HaveBlock
    /\ rec' = [i \in 1..BF |->
                  IF i > cur /\ i <= cur + Room THEN Head(queue)[i - cur]
                  ELSE rec[i]]
    /\ cur' = cur + Room
    /\ queue' = IF Room = Len(Head(queue)) THEN Tail(queue)
                ELSE <<SubSeq(Head(queue), Room + 1, Len(Head(queue)))>>
                     \o Tail(queue)
    /\ UNCHANGED <<disk, pos, out, end, hit_eof, to_stdout, record_start_block,
                   records_read, records_written, input, pc, todo, mode,
                   starting, left_out>>

\* A file that cannot be opened is left out.
SkipFile ==
    /\ pc = "add" /\ queue # <<>>
    /\ LET j == Len(input.add) - Len(queue) + 1
       IN  /\ Head(queue) = input.add[j]
           /\ left_out' = left_out \cup {j}
    /\ queue' = Tail(queue)
    /\ UNCHANGED <<readVars, mode, starting>>

\* write_eot: a block of zeros, and zeros to the end of the next block's
\* record.
AllAdded ==
    /\ pc = "add" /\ queue = <<>>
    /\ pc' = "eot1"
    /\ UNCHANGED <<ioVars, input, todo, addVars>>

ZeroToBug(n) == rec
ZeroTo(n) == [i \in 1..BF |-> IF i > cur /\ i <= n THEN Zero ELSE rec[i]]

FirstZero ==
    /\ pc = "eot1" /\ HaveBlock
    /\ rec' = ZeroTo(cur + 1)
    /\ cur' = cur + 1
    /\ pc' = "eot2"
    /\ UNCHANGED <<disk, pos, out, end, hit_eof, to_stdout, record_start_block,
                   records_read, records_written, input, todo, addVars>>

OtherZeros ==
    /\ pc = "eot2" /\ HaveBlock
    /\ rec' = ZeroTo(end)
    /\ cur' = cur + 1
    /\ pc' = "close"
    /\ UNCHANGED <<disk, pos, out, end, hit_eof, to_stdout, record_start_block,
                   records_read, records_written, input, todo, addVars>>

\* close_archive flushes until the buffer is empty.
CloseShort == pc = "close" /\ cur > 0 /\ ExtendShortRecord /\ UNCHANGED pc
CloseFlush == pc = "close" /\ WriteOutRecord /\ pc' = "done"
CloseFails == pc = "close" /\ WriteFails

Finished == pc \in {"done", "fatal"}

Next ==
    \/ NextRecord \/ PassMember \/ PassExtended \/ PassBlocks
    \/ UnexpectedEOF \/ NonHeader
    \/ FoundMarker \/ FoundEOF
    \/ StartShort \/ NewRecord \/ NewRecordFails
    \/ PutBlocks \/ SkipFile
    \/ AllAdded \/ FirstZero \/ OtherZeros
    \/ CloseShort \/ CloseFlush \/ CloseFails
    \/ (Finished /\ UNCHANGED vars)

Spec == Init /\ [][Next]_vars

-----------------------------------------------------------------------------
(***************************************************************************)
(* Properties                                                              *)
(***************************************************************************)

\* The type of every variable of buffer.c and update.c that is modelled.
TypeOK ==
    /\ IoTypeOK(AddBlock)
    /\ pc \in {"header", "skim", "ext", "add", "eot1", "eot2", "close", "done",
               "fatal"}
    /\ todo \in Nat
    /\ mode \in {"read", "write"}
    /\ starting \in BOOLEAN
    /\ queue \in Seq(Seq(AddBlock))
    /\ left_out \subseteq 1..Len(input.add)

OldBlocks == AllBlocks(Arch)
Complete == input.tail >= 0

\* At every moment, so also if tar is killed or a write fails half way, the
\* blocks of the members that were in the archive are where they were: the
\* first record written repeats the old blocks it covers.
OldIntact ==
    Complete => /\ Len(disk) >= Len(OldBlocks)
                /\ SubSeq(disk, 1, Len(OldBlocks)) = OldBlocks

\* What a reader of the archive sees: the blocks before the first block of
\* zeros.
Marker(d) == {i \in 1..Len(d) : d[i] = Zero}
Visible(d) ==
    LET n == IF Marker(d) = {} THEN Len(d)
             ELSE First(Marker(d)) - 1
    IN  SubSeq(d, 1, n)

\* The archive read back is the old members followed by the files (or the
\* members of the archives) that were to be added and could be opened, whole
\* and in their order, and two blocks of zeros.
Added(d) == SubSeq(Visible(d), Len(OldBlocks) + 1, Len(Visible(d)))
AppendCorrect ==
    pc = "done" /\ Complete =>
        /\ SubSeq(Visible(disk), 1, Len(OldBlocks)) = OldBlocks
        /\ Added(disk) = Concat([j \in 1..Len(input.add) |->
                            IF j \in left_out THEN <<>> ELSE Visible(input.add[j])])
        /\ LET n == Len(Visible(disk))
           IN  Len(disk) >= n + 2 /\ disk[n + 1] = Zero /\ disk[n + 2] = Zero

=============================================================================
