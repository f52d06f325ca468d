---------------------------- MODULE RecordBuffer ----------------------------
(***************************************************************************)
(* The record buffer of src/buffer.c: an archive is a sequence of blocks   *)
(* that is read and written one record (BF blocks, the blocking factor) at *)
(* a time through one buffer.  The modules of the operations that work on  *)
(* an existing archive extend this one.                                    *)
(*                                                                         *)
(* A block is known by what it is a part of: [m |-> j, k |-> i] is the     *)
(* i-th block of the j-th member, [m |-> 0, k |-> 0] a block of zeros.     *)
(***************************************************************************)
EXTENDS Integers, Sequences, Folds

CONSTANT BF             \* blocking_factor

ASSUME BFAssumption == BF \in Nat \ {0}

VARIABLES
    disk,               \* the blocks of the archive file (or of stdin)
    pos,                \* offset of the descriptor "archive", in blocks
    out,                \* the blocks written to stdout (archive "-")
    rec,                \* the blocks at record_start
    cur,                \* current_block - record_start
    end,                \* record_end - record_start
    hit_eof,
    to_stdout,          \* write_archive_to_stdout
    record_start_block,
    records_read,
    records_written

ioVars == <<disk, pos, out, rec, cur, end, hit_eof, to_stdout,
            record_start_block, records_read, records_written>>

Zero == [m |-> 0, k |-> 0]

First(S) == CHOOSE n \in S : \A j \in S : n <= j

\* The sequences of the sequence ss one after the other.
Concat(ss) == MapThenFoldSet(\o, <<>>, LAMBDA j : ss[j], First, DOMAIN ss)

\* The types of the variables, for an archive of blocks of the set Block.
IoTypeOK(Block) ==
    /\ disk \in Seq(Block)
    /\ pos \in Nat
    /\ out \in Seq(Block)
    /\ rec \in [1..BF -> Block]
    /\ cur \in 0..BF
    /\ end \in 0..BF
    /\ hit_eof \in BOOLEAN
    /\ to_stdout \in BOOLEAN
    /\ record_start_block \in Nat
    /\ records_read \in Nat
    /\ records_written \in Nat

(***************************************************************************)
(* _open_archive for an update: nothing has been read, and record_end is   *)
(* set to record_start so that the first use of the buffer reads a record. *)
(***************************************************************************)
OpenForUpdate(blocks, filter) ==
    /\ disk = blocks
    /\ pos = 0
    /\ out = <<>>
    /\ rec = [i \in 1..BF |-> Zero]
    /\ cur = 0
    /\ end = 0
    /\ hit_eof = FALSE
    /\ to_stdout = filter
    /\ record_start_block = 0
    /\ records_read = 0
    /\ records_written = 0

-----------------------------------------------------------------------------
\* The number of blocks a read at offset p of file d returns.
ReadCount(d, p) ==
    LET left == Len(d) - p
    IN  IF left <= 0 THEN 0 ELSE IF left < BF THEN left ELSE BF

\* flush_read: copy the old record to stdout when filtering, read the next
\* one.  A full record leaves record_end (e) alone; short_read sets it to
\* what was read, 0 at the end of the file; both count a record.
FlushRead(e) ==
    LET n == ReadCount(disk, pos)
    IN  /\ out' = IF to_stdout /\ record_start_block' # 0
                  THEN out \o rec ELSE out
        /\ rec' = [i \in 1..BF |-> IF i <= n THEN disk[pos + i] ELSE rec[i]]
        /\ end' = IF n = BF THEN e ELSE n
        /\ pos' = pos + n
        /\ records_read' = records_read + 1

\* flush_archive while reading.
FlushForRead ==
    /\ record_start_block' = record_start_block + end
    /\ cur' = 0
    /\ FlushRead(BF)
    /\ UNCHANGED <<disk, to_stdout, records_written>>

\* find_next_block at the end of the buffer: it reads the next record, and
\* remembers that there was none.  Elsewhere it changes nothing and the
\* caller looks at rec[cur + 1].
FindNextBlock ==
    /\ cur = end
    /\ ~hit_eof
    /\ FlushForRead
    /\ hit_eof' = (end' = 0)

\* find_next_block returned a block, or NULL.
HaveBlock == cur < end
NoBlock   == cur = end /\ hit_eof

\* The archive after the blocks r are written at offset p: blocks between
\* the old end of the file and p are a hole, which reads as zeros.
Overwrite(d, p, r) ==
    [i \in 1..(IF p + Len(r) > Len(d) THEN p + Len(r) ELSE Len(d)) |->
        IF i > p /\ i <= p + Len(r) THEN r[i - p]
        ELSE IF i <= Len(d) THEN d[i] ELSE Zero]
=============================================================================
