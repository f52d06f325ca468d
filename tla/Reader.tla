------------------------------- MODULE Reader -------------------------------
(***************************************************************************)
(* Reading an existing archive member by member: read_header and           *)
(* skim_member (src/list.c) on top of the record buffer.                   *)
(*                                                                         *)
(* An input has at least                                                   *)
(*   arch    the archive's members, each                                   *)
(*             [name, ext, kind, exact, size, frac, junk]:                 *)
(*             ext    blocks of extended header before the header,         *)
(*             kind   that header is "gnu" (types L, K), "pax" (type x) or *)
(*                    "global" (type g),                                   *)
(*             exact  its data fills its last block,                       *)
(*             size   blocks of data, frac = 1 if the last is not full,    *)
(*             junk   the blocks are not headers at all (garbage)          *)
(*   tail    the number of zero blocks that end the archive (-n: the last  *)
(*           n blocks are missing)                                         *)
(*   filter  the archive is "-"                                            *)
(***************************************************************************)
EXTENDS RecordBuffer, FiniteSets

CONSTANT Inputs

VARIABLES
    input,              \* the archive and the command line
    pc,
    todo                \* blocks left to skip, to read or to copy

readVars == <<ioVars, input, pc, todo>>

Arch == input.arch
MemberLen(a) == a.ext + a.size + (IF a.junk THEN 0 ELSE 1)
MemberBlocks(arch, j) == [i \in 1..MemberLen(arch[j]) |-> [m |-> j, k |-> i]]
AllBlocks(arch) == Concat([j \in 1..Len(arch) |-> MemberBlocks(arch, j)])
ArchiveBlocks(in) ==
    LET all == AllBlocks(in.arch)
    IN  IF in.tail >= 0 THEN all \o [i \in 1..in.tail |-> Zero]
                        ELSE SubSeq(all, 1, Len(all) + in.tail)

\* The blocks of an archive of n members.
MemberBlock(n) == [m : 1..n, k : Nat \ {0}]
Block(n) == {Zero} \cup MemberBlock(n)

MemberType == [name : STRING, ext : Nat, kind : {"gnu", "pax", "global"},
               exact : BOOLEAN, size : Nat, frac : {0, 1}, junk : BOOLEAN]

\* Only data can have a last block that is not full.
ASSUME ArchivesAssumption ==
    \A in \in Inputs :
        /\ in.arch \in Seq(MemberType)
        /\ \A j \in 1..Len(in.arch) : in.arch[j].frac <= in.arch[j].size
        /\ in.tail \in Int /\ in.filter \in BOOLEAN
        /\ AllBlocks(in.arch) \in Seq(MemberBlock(Len(in.arch)))
        /\ ArchiveBlocks(in) \in Seq(Block(Len(in.arch)))

\* What tar_checksum and the type flag tell read_header of block b.
IsExtHeader(b) == b # Zero /\ ~Arch[b.m].junk /\ Arch[b.m].ext > 0 /\ b.k = 1
IsHeader(b)    == b # Zero /\ ~Arch[b.m].junk /\ b.k = Arch[b.m].ext + 1
IsGarbage(b)   == b # Zero /\ ~IsExtHeader(b) /\ ~IsHeader(b)

Header  == rec[cur + 1]             \* *current_header
Member  == Arch[Header.m]
Names   == {Arch[j].name : j \in 1..Len(Arch)}

ReadInit ==
    /\ input \in Inputs
    /\ OpenForUpdate(ArchiveBlocks(input), input.filter)
    /\ pc = "header"
    /\ todo = 0

-----------------------------------------------------------------------------
\* A call of find_next_block that has to read a record.
ReadRecord ==
    /\ pc = "header" \/ (pc \in {"skim", "ext"} /\ todo > 0)
    /\ FindNextBlock
    /\ UNCHANGED <<input, pc, todo>>

\* skim_member: past the header; then seek_archive moves over whole records
\* of the member's data unless the blocks have to be copied.
SkimMember ==
    LET c     == cur + 1
        skip  == BF - c
        nrec  == IF ~input.filter /\ end = BF /\ Member.size > skip
                 THEN (Member.size - Member.frac - skip) \div BF ELSE 0
        nblk  == IF nrec > 0 THEN skip + nrec * BF ELSE 0
    IN  /\ cur' = IF nrec > 0 THEN end ELSE c
        /\ pos' = pos + nrec * BF
        /\ records_read' = records_read + nblk \div BF
        /\ record_start_block' = record_start_block + nrec * BF
        /\ todo' = Member.size - nblk
        /\ pc' = "skim"
        /\ UNCHANGED <<disk, out, rec, end, hit_eof, to_stdout,
                       records_written, input>>

\* The number of blocks the current record holds of those to do.
Here == IF todo < end - cur THEN todo ELSE end - cur

\* skim_file, and the loop of read_header over an extended header: pass over
\* what the current record holds.
PassHere ==
    /\ cur' = cur + Here
    /\ todo' = todo - Here
    /\ pc' = IF todo' = 0 THEN "header" ELSE pc
    /\ UNCHANGED <<disk, pos, out, rec, end, hit_eof, to_stdout,
                   record_start_block, records_read, records_written, input>>

\* read_header in its automatic mode meets an extended header.
BeginExtended ==
    /\ pc = "header" /\ HaveBlock
    /\ IsExtHeader(Header)
    /\ todo' = Member.ext
    /\ pc' = "ext"
    /\ UNCHANGED <<ioVars, input>>

\* set_next_block_after (current_header)
PassBlock == cur' = cur + 1
=============================================================================
