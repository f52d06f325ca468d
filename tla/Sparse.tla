------------------------------- MODULE Sparse -------------------------------
(***************************************************************************)
(* A sparse file in an archive (sparse.c): the search for holes, block by  *)
(* block or with SEEK_DATA and SEEK_HOLE, the map and the data written in  *)
(* one of four formats, and the member extracted, compared or skipped.     *)
(* The file may be cut or extended while it is dumped, and a write may     *)
(* fail while it is extracted.  A record holds several blocks, and data is *)
(* moved between the file and all that is left of the record at once.      *)
(*                                                                         *)
(* A block is BS bytes, a byte is 0 or not.  What follows the member is    *)
(* the block Following.                                                    *)
(***************************************************************************)
EXTENDS Integers, SequencesExt, FiniteSetsExt

CONSTANTS
    BS,        \* BLOCKSIZE
    NHead,     \* SPARSES_IN_OLDGNU_HEADER
    NExt,      \* SPARSES_IN_SPARSE_HEADER
    Scenarios  \* [data, fmt, bf, detect, race, seekable, fails]

VARIABLES
    sc,
    file,     \* the contents of the file
    changed,  \* it is not what it was
    phase,
    off,      \* the offset in the file, in the search
    hole,     \* data_offset, while the hole is looked for
    sp,       \* the region that is being found
    map,      \* sparse_map
    asize,    \* archive_file_size
    dumped,   \* dumped_size
    reg,      \* the region being dumped or extracted
    left,     \* bytes_left, write_size
    tape,     \* the blocks of the member
    short,    \* what was wrong while it was dumped
    rpos,     \* blocks read
    out,      \* the extracted file
    ok        \* it was extracted, or found to be equal

scanning == <<off, hole, sp>>
reading == <<rpos, out, ok>>
vars == <<sc, file, changed, phase, scanning, map, asize, dumped, reg, left, tape, short, reading>>

Min2(a, b) == IF a < b THEN a ELSE b
Max2(a, b) == IF a > b THEN a ELSE b
Abs(n) == IF n < 0 THEN -n ELSE n
Blocks(n) == IF n <= 0 THEN 0 ELSE (n + BS - 1) \div BS
Following == [k |-> "next"]

\* available_space_after, when n blocks were used.
Avail(n) == (sc.bf - (n % sc.bf)) * BS
Zeros(n) == [j \in 1 .. n |-> 0]
Bytes(f, o, n) == SubSeq(f, o + 1, Min2(o + n, Len(f)))
DataBlocks(bytes) ==
    [b \in 1 .. Blocks(Len(bytes)) |->
       [k |-> "data", bytes |-> [j \in 1 .. BS |-> IF (b - 1) * BS + j > Len(bytes) THEN 0
                                                 ELSE bytes[(b - 1) * BS + j]]]]

-----------------------------------------------------------------------------
(* The search for holes.                                                   *)

Size == Len(sc.data)   \* st_size
ZeroBlock(bytes) == \A j \in DOMAIN bytes : bytes[j] = 0
Region(o, n) == [offset |-> o, numbytes |-> n]

\* Somebody changes the file.
Change ==
    /\ sc.race /\ ~changed /\ phase \in {"raw", "data", "hole", "head", "regions"}
    /\ changed' = TRUE
    /\ \/ \E n \in 0 .. Len(file) - 1 : file' = SubSeq(file, 1, n)
       \/ file' = file \o [j \in 1 .. BS |-> 1]
    /\ UNCHANGED <<sc, phase, scanning, map, asize, dumped, reg, left, tape, short, reading>>

\* sparse_scan_file: a file without blocks is one hole.
StartScan ==
    LET whole == \A j \in DOMAIN file : file[j] = 0 IN
    /\ phase = "begin"
    /\ phase' = IF whole THEN "head" ELSE IF sc.detect = "seek" THEN "data" ELSE "raw"
    /\ map' = IF whole THEN <<Region(Size, 0)>> ELSE <<>>
    /\ UNCHANGED <<sc, file, changed, scanning, asize, dumped, reg, left, tape, short, reading>>

\* One more region, of length 0 when the file ends with a hole.
RawEnd(m, s, o) == Append(m, IF s.numbytes = 0 THEN Region(o, 0) ELSE s)

\* One block of sparse_scan_file_raw.
ScanRaw ==
    LET b == Bytes(file, off, BS)
        zero == ZeroBlock(b)
        m == IF zero /\ sp.numbytes > 0 /\ b # <<>> THEN Append(map, sp) ELSE map
        s == IF b = <<>> THEN sp
             ELSE IF zero THEN [sp EXCEPT !.numbytes = 0]
             ELSE [offset |-> IF sp.numbytes = 0 THEN off ELSE sp.offset, numbytes |-> sp.numbytes + Len(b)]
        last == Len(b) < BS
    IN  /\ phase = "raw"
        /\ off' = off + Len(b) /\ sp' = s
        /\ asize' = IF zero THEN asize ELSE asize + Len(b)
        /\ map' = IF last THEN RawEnd(m, s, off + Len(b)) ELSE m
        /\ phase' = IF last THEN "head" ELSE "raw"
        /\ UNCHANGED <<sc, file, changed, hole, dumped, reg, left, tape, short, reading>>

Allocated(o) == o < Len(file) /\ ~ZeroBlock(Bytes(file, (o \div BS) * BS, BS))
Offsets(o) == Max2(o, 0) .. Len(file) - 1

\* sparse_scan_file_seek: SEEK_DATA ...
SeekData ==
    LET found == {o \in Offsets(off) : Allocated(o)} IN
    /\ phase = "data"
    /\ IF off < 0 \/ found = {}
       THEN map' = Append(map, Region(Size, 0)) /\ phase' = "head" /\ UNCHANGED hole
       ELSE hole' = Min(found) /\ phase' = "hole" /\ UNCHANGED map
    /\ UNCHANGED <<sc, file, changed, off, sp, asize, dumped, reg, left, tape, short, reading>>

\* ... and SEEK_HOLE, which fails when the file was cut meanwhile.  A file
\* that seems to have no hole is read.
SeekHole ==
    LET end == IF hole >= Len(file) THEN -1
               ELSE Min({Len(file)} \cup {o \in Offsets(hole) : ~Allocated(o)})
    IN  /\ phase = "hole"
        /\ IF off = 0 /\ hole = 0 /\ end = Size
           THEN phase' = "raw" /\ UNCHANGED <<map, asize, off, short>>
           ELSE /\ phase' = "data" /\ off' = end
                /\ map' = Append(map, Region(hole, end - hole))
                /\ asize' = asize + end - hole
                /\ short' = (short \/ end < 0 \/ asize % BS # 0)
        /\ UNCHANGED <<sc, file, changed, hole, sp, dumped, reg, left, tape, reading>>

-----------------------------------------------------------------------------
(* The header and the map.                                                 *)

\* Decimal digits.  A newline is 10, a null byte 11, a minus sign 12, a comma 13.
floorlog10[n \in Nat] == IF n < 10 THEN 0 ELSE 1 + floorlog10[n \div 10]
Digits[n \in Nat] == IF n < 10 THEN <<n>> ELSE Append(Digits[n \div 10], n % 10)
Number(n) == (IF n < 0 THEN <<12>> ELSE <<>>) \o Digits[Abs(n)]
Line(n) == Number(n) \o <<10>>

\* Altered: the newline of the count is forgotten.
MapSizeShort(m) ==
    floorlog10[Len(m)] + 1
    + FoldLeft(LAMBDA n, r : n + floorlog10[Abs(r.offset)] + 2 + floorlog10[Abs(r.numbytes)] + 2,
               0, m)

\* The size of the map as pax_dump_header_1 computes it ...
MapSize(m) ==
    floorlog10[Len(m)] + 2
    + FoldLeft(LAMBDA n, r : n + floorlog10[Abs(r.offset)] + 2 + floorlog10[Abs(r.numbytes)] + 2,
               0, m)

\* ... and the blocks that dump_str_nl fills.
MapChars(m) == FoldLeft(LAMBDA c, r : c \o Line(r.offset) \o Line(r.numbytes), Line(Len(m)), m)
MapBlocks(m) ==
    LET c == MapChars(m) IN
    [b \in 1 .. Blocks(Len(c)) |->
       [k |-> "map", chars |-> [j \in 1 .. BS |-> IF (b - 1) * BS + j > Len(c) THEN 11
                                                ELSE c[(b - 1) * BS + j]]]]

\* oldgnu_store_sparse_info: the regions of the header and of block b after it.
InHeader(m) == SubSeq(m, 1, Min2(NHead, Len(m)))
InExt(m, b) == SubSeq(m, NHead + (b - 1) * NExt + 1, Min2(NHead + b * NExt, Len(m)))
ExtBlocks(m) == IF Len(m) <= NHead THEN 0 ELSE (Len(m) - NHead + NExt - 1) \div NExt

Head0 == [k |-> "head", real |-> Size, size |-> asize, sps |-> <<>>, ext |-> FALSE, numblocks |-> <<>>,
          recs |-> <<>>]

\* oldgnu_dump_header.
OldgnuHeader(m) ==
    <<[Head0 EXCEPT !.sps = InHeader(m), !.ext = NHead < Len(m)]>>
    \o [b \in 1 .. ExtBlocks(m) |-> [k |-> "ext", sps |-> InExt(m, b), ext |-> NHead + b * NExt < Len(m)]]

\* pax_dump_header_0: the map is in the extended header, in two records for each
\* region (format 0.0) or as one list of numbers (0.1).
MapRecords(m) == FoldLeft(LAMBDA c, r : c \o <<Number(r.offset), Number(r.numbytes)>>, <<>>, m)
MapText(m) ==
    FoldLeft(LAMBDA c, n : IF c = <<>> THEN n ELSE c \o <<13>> \o n, <<>>, MapRecords(m))

PaxHeader0(m) ==
    <<[Head0 EXCEPT !.numblocks = Number(Len(m)),
                    !.recs = IF sc.fmt = "pax0.0" THEN MapRecords(m) ELSE <<MapText(m)>>]>>

\* pax_dump_header_1: the map comes before the data, and is part of its size.
PaxHeader1(m) == <<[Head0 EXCEPT !.size = asize + Blocks(MapSize(m)) * BS]>> \o MapBlocks(m)

MapBytes == IF sc.fmt = "pax1" THEN Blocks(MapSize(map)) * BS ELSE 0
Header ==
    CASE sc.fmt = "oldgnu" -> OldgnuHeader(map)
      [] sc.fmt \in {"pax0.0", "pax0.1"} -> PaxHeader0(map)
      [] sc.fmt = "pax1" -> PaxHeader1(map)

\* tar_sparse_dump_header.
DumpHeader ==
    /\ phase = "head"
    /\ tape' = Header /\ asize' = asize + MapBytes /\ dumped' = MapBytes
    /\ reg' = 1 /\ left' = map[1].numbytes /\ phase' = "regions"
    /\ UNCHANGED <<sc, file, changed, scanning, map, short, reading>>

-----------------------------------------------------------------------------
(* The data.                                                               *)

\* One read of sparse_dump_region.  When it is short, none of its blocks is
\* kept, although they are counted.
DumpRegion ==
    LET r == map[reg]
        size == Min2(left, Avail(Len(tape)))
        got == Bytes(file, r.offset + r.numbytes - left, size)
    IN  /\ phase = "regions" /\ reg <= Len(map) /\ left > 0
        /\ left' = left - Len(got)
        /\ dumped' = dumped + Len(got)
        /\ IF Len(got) < size
           THEN /\ phase' = "pad" /\ short' = (short \/ got # <<>>) /\ UNCHANGED tape
           ELSE /\ tape' = tape \o DataBlocks(got) /\ UNCHANGED <<phase, short>>
        /\ UNCHANGED <<sc, file, changed, scanning, map, asize, reg, reading>>

NextRegion ==
    /\ phase = "regions" /\ reg <= Len(map) /\ left <= 0
    /\ reg' = reg + 1
    /\ left' = IF reg < Len(map) THEN map[reg + 1].numbytes ELSE 0
    /\ phase' = IF reg < Len(map) THEN "regions" ELSE "pad"
    /\ UNCHANGED <<sc, file, changed, scanning, map, asize, dumped, tape, short, reading>>

\* pad_archive, and the next member.
Pad ==
    /\ phase = "pad"
    /\ tape' = tape \o DataBlocks(Zeros(Max2(0, asize - dumped))) \o <<Following>>
    /\ phase' = "dumped"
    /\ UNCHANGED <<sc, file, changed, scanning, map, asize, dumped, reg, left, short, reading>>

-----------------------------------------------------------------------------
(* The member is read again.                                               *)

\* oldgnu_add_sparse.
Valid(r, real) == r.offset >= 0 /\ r.numbytes >= 0 /\ r.offset + r.numbytes <= real

\* oldgnu_get_sparse_info: the map, and the blocks that were read.
OldgnuInfo(head) ==
    LET good(sps) == \A j \in DOMAIN sps : Valid(sps[j], head.real) /\ head.size >= 0
        more(b) == tape[b + 1].ext /\ good(tape[b + 1].sps)
        exts == IF ~head.ext \/ ~good(head.sps) THEN 0
                ELSE Min({b \in 1 .. Len(tape) - 1 : tape[b + 1].k # "ext" \/ ~more(b)})
        sps == FoldLeft(LAMBDA a, b : a \o tape[b + 1].sps, head.sps, [b \in 1 .. exts |-> b])
    IN  [ok |-> good(sps), map |-> sps, used |-> 1 + exts, size |-> head.size, dumped |-> 0]

\* decode_num, over the blocks after the header: the numbers, and the bytes
\* that they take.  A number that is none, or too large, is the last.
Numbers(real) ==
    LET max(s) == IF s.nums = <<>> THEN 1000
                  ELSE IF Len(s.nums) % 2 = 1 THEN real ELSE real - s.nums[Len(s.nums)]
        step(s, c) ==
            IF s.want = 0 \/ s.bad THEN s
            ELSE IF c = 10
            THEN [s EXCEPT !.nums = Append(@, s.n), !.n = 0, !.used = @ + 1, !.sign = FALSE,
                           !.bad = s.sign \/ s.n > max(s),
                           !.want = IF s.nums = <<>> THEN 2 * s.n ELSE @ - 1]
            ELSE [s EXCEPT !.used = @ + 1, !.sign = @ \/ c > 10, !.n = IF c > 10 THEN @ ELSE @ * 10 + c]
    IN  FoldLeft(step, [nums |-> <<>>, n |-> 0, used |-> 0, want |-> 1, sign |-> FALSE, bad |-> FALSE],
                 FoldLeft(LAMBDA a, b : IF b.k = "map" THEN a \o b.chars ELSE a, <<>>, tape))

\* pax_decode_header.  When it fails the block is not left and none is counted.
PaxInfo1(head) ==
    LET s == Numbers(head.real)
        m == [j \in 1 .. (Len(s.nums) - 1) \div 2 |-> Region(s.nums[2 * j], s.nums[2 * j + 1])]
        b == Blocks(s.used)
    IN  [ok |-> ~s.bad, map |-> m, used |-> IF s.bad THEN b ELSE 1 + b, size |-> head.size,
         dumped |-> IF s.bad THEN 0 ELSE b * BS]

\* decode_num of xheader.c: -1 if the text is not a number in the range.
Value(text) == IF text[1] > 9 THEN -1 ELSE FoldLeft(LAMBDA n, c : 10 * n + c, 0, text)

\* sparse_map_decoder: up to the first thing that is not a number, or to the
\* region that is one too many.
MapDecoded(text, size) ==
    LET step(s, c) ==
            IF s.stop THEN s
            ELSE IF c < 10 THEN [s EXCEPT !.arg = Append(@, c)]
            ELSE IF s.arg = <<>> \/ c = 12 THEN [s EXCEPT !.stop = TRUE]
            ELSE IF s.e = <<>> THEN [s EXCEPT !.e = <<Value(s.arg)>>, !.arg = <<>>]
            ELSE IF Len(s.map) < size
            THEN [s EXCEPT !.map = Append(@, Region(s.e[1], Value(s.arg))), !.e = <<>>, !.arg = <<>>]
            ELSE [s EXCEPT !.stop = TRUE]
    IN  FoldLeft(step, [arg |-> <<>>, e |-> <<>>, map |-> <<>>, stop |-> FALSE], Append(text, 11)).map

\* sparse_offset_decoder and sparse_numbytes_decoder, in turn: a number out of
\* range is not stored, and without its length a region is not counted.
RecordsDecoded(recs, size) ==
    LET step(s, j) ==
            LET v == Value(recs[j]) IN
            IF v < 0 \/ Len(s.map) >= size THEN s
            ELSE IF j % 2 = 1 THEN [s EXCEPT !.offset = v]
            ELSE [map |-> Append(s.map, Region(s.offset, v)), offset |-> 0]
    IN  FoldLeft(step, [map |-> <<>>, offset |-> 0], [j \in DOMAIN recs |-> j]).map

\* The map from the records of the extended header.
Pax0Map(head) ==
    LET size == Value(head.numblocks) IN
    IF sc.fmt = "pax0.0" THEN RecordsDecoded(head.recs, size) ELSE MapDecoded(head.recs[1], size)

Info ==
    LET head == tape[1] IN
    CASE sc.fmt = "oldgnu" -> OldgnuInfo(head)
      [] sc.fmt \in {"pax0.0", "pax0.1"} ->
                            [ok |-> TRUE, map |-> Pax0Map(head), used |-> 1, size |-> head.size,
                             dumped |-> 0]
      [] sc.fmt = "pax1" -> PaxInfo1(head)

\* Altered: the whole size is passed over.
SkimWhole(n) == rpos' = rpos + Blocks(asize)

\* skim_file, which passes nothing when the size is negative.
Skim(n) == rpos' = rpos + Blocks(n)

\* sparse_extract_file: tar_sparse_decode_header.
Decode ==
    /\ phase = "dumped"
    /\ phase' = IF Info.ok THEN "extract" ELSE "skim"
    /\ map' = Info.map /\ rpos' = Info.used /\ asize' = Info.size /\ dumped' = Info.dumped
    /\ ok' = Info.ok /\ reg' = 1 /\ left' = IF Info.map = <<>> THEN 0 ELSE Info.map[1].numbytes
    /\ UNCHANGED <<sc, file, changed, scanning, tape, short, out>>

\* The output with bytes put at o.
Written(f, o, bytes) ==
    [j \in 1 .. Max2(Len(f), o + Len(bytes)) |->
       IF j > o /\ j <= o + Len(bytes) THEN bytes[j - o] ELSE IF j <= Len(f) THEN f[j] ELSE 0]

\* lseek_or_error: zeros are written where the output cannot seek.
Sought(o) == IF sc.seekable \/ o <= Len(out) THEN out ELSE out \o Zeros(o - Len(out))

\* The next n bytes; those past the member are not told apart.
TapeBytes(n) ==
    [j \in 1 .. n |-> LET b == rpos + 1 + (j - 1) \div BS IN
                     IF b <= Len(tape) /\ tape[b].k = "data" THEN tape[b].bytes[((j - 1) % BS) + 1] ELSE 0]

\* One write of sparse_extract_region, which may fail.  The whole of the
\* record that was available is counted as dumped.
ExtractRegion ==
    LET r == map[reg]
        size == Min2(left, Avail(rpos))
        bytes == TapeBytes(size)
    IN  /\ phase = "extract" /\ reg <= Len(map) /\ left > 0
        /\ rpos' = rpos + Blocks(size)
        /\ dumped' = dumped + Avail(rpos)
        /\ \/ /\ out' = Written(Sought(r.offset + r.numbytes - left), r.offset + r.numbytes - left, bytes)
              /\ left' = left - size /\ UNCHANGED <<phase, ok>>
           \/ sc.fails /\ phase' = "skim" /\ ok' = FALSE /\ UNCHANGED <<out, left>>
        /\ UNCHANGED <<sc, file, changed, scanning, map, asize, reg, tape, short>>

\* Altered: the file is left as long as it is.
TruncatedNot(o) == out
\* sys_truncate.
Truncated(o) == SubSeq(out, 1, Min2(o, Len(out))) \o Zeros(Max2(0, o - Len(out)))

\* The end of a region; an empty one cuts the file there, or extends it.
ExtractNext ==
    LET r == map[reg] IN
    /\ phase = "extract" /\ reg <= Len(map) /\ left <= 0
    /\ out' = IF r.numbytes > 0 THEN out
              ELSE IF sc.seekable THEN Truncated(r.offset) ELSE Sought(r.offset)
    /\ reg' = reg + 1
    /\ left' = IF reg < Len(map) THEN map[reg + 1].numbytes ELSE 0
    /\ UNCHANGED <<sc, file, changed, phase, scanning, map, asize, dumped, tape, short, rpos, ok>>

ExtractEnd ==
    /\ \/ phase = "extract" /\ reg > Len(map)
       \/ phase = "skim"
    /\ Skim(asize - dumped)
    /\ phase' = "over"
    /\ UNCHANGED <<sc, file, changed, scanning, map, asize, dumped, reg, left, tape, short, out, ok>>

\* Altered: the holes are not looked at.
HoleEqualAny(disk, from, to) == TRUE
\* check_sparse_region.
HoleEqual(disk, from, to) == to <= Len(disk) /\ ZeroBlock(Bytes(disk, from, to - from))
\* check_data_region: the bytes of a region that are equal, or all of them;
\* its data starts after block b of the tape.
DataEqual(disk, r, b) ==
    LET bad == {j \in 1 .. r.numbytes : \/ r.offset + j > Len(disk)
                                       \/ disk[r.offset + j] # tape[b + (j - 1) \div BS + 1].bytes[((j - 1) % BS) + 1]}
    IN  IF bad = {} THEN r.numbytes ELSE Min(bad) - 1

\* The file that is on disk when the archive is compared.
Edits(f) ==
    {f, Append(f, 0), Append(f, 1)} \cup {SubSeq(f, 1, n) : n \in 0 .. Len(f) - 1}
    \cup {[f EXCEPT ![j] = 1 - @] : j \in DOMAIN f}

\* diff_file and sparse_diff_file.  The size is not compared in the old format.
Diff ==
    LET m == Info.map
        start(j) == Info.used + FoldLeft(LAMBDA n, r : n + Blocks(r.numbytes), 0, SubSeq(m, 1, j - 1))
        end(j) == IF j = 0 THEN 0 ELSE m[j].offset + m[j].numbytes
        holeOK(disk, j) == HoleEqual(disk, end(j - 1), m[j].offset)
        bad(disk) == {j \in DOMAIN m : ~holeOK(disk, j) \/ DataEqual(disk, m[j], start(j)) < m[j].numbytes}
        passed(disk, j) == start(j) + (IF holeOK(disk, j) THEN DataEqual(disk, m[j], start(j)) \div BS + 1 ELSE 0)
        rest(n) == n + Blocks(Info.size - Info.dumped - (n - Info.used) * BS)
    IN  /\ phase = "dumped" /\ Info.ok /\ ~changed
        /\ \E disk \in Edits(sc.data) :
             /\ out' = disk
             /\ IF sc.fmt # "oldgnu" /\ Len(disk) # Size
                THEN ok' = FALSE /\ rpos' = rest(Info.used)
                ELSE /\ ok' = (bad(disk) = {})
                     /\ rpos' = IF bad(disk) = {} THEN start(Len(m) + 1) ELSE rest(passed(disk, Min(bad(disk))))
        /\ phase' = "compared"
        /\ UNCHANGED <<sc, file, changed, scanning, map, asize, dumped, reg, left, tape, short>>

\* sparse_skim_file.
SkimFile ==
    /\ phase = "dumped"
    /\ rpos' = Info.used + Blocks(Info.size - Info.dumped)
    /\ phase' = "skimmed" /\ ok' = Info.ok
    /\ UNCHANGED <<sc, file, changed, scanning, map, asize, dumped, reg, left, tape, short, out>>

Over == phase \in {"over", "compared", "skimmed"} /\ UNCHANGED vars

Init ==
    /\ sc \in Scenarios /\ file = sc.data /\ changed = FALSE /\ phase = "begin"
    /\ off = 0 /\ hole = 0 /\ sp = Region(0, 0) /\ map = <<>> /\ asize = 0 /\ dumped = 0
    /\ reg = 1 /\ left = 0 /\ tape = <<>> /\ short = FALSE /\ rpos = 0 /\ out = <<>> /\ ok = TRUE

Next == \/ Change \/ StartScan \/ ScanRaw \/ SeekData \/ SeekHole \/ DumpHeader \/ DumpRegion \/ NextRegion
        \/ Pad \/ Decode \/ ExtractRegion \/ ExtractNext \/ ExtractEnd \/ Diff \/ SkimFile \/ Over

Spec == Init /\ [][Next]_vars
-----------------------------------------------------------------------------

\* The blocks of the member, by its header.
Announced == 1 + Cardinality({b \in DOMAIN tape : tape[b].k = "ext"}) + Blocks(tape[1].size)

\* The header says how many blocks follow: after them the next member begins.
\* Excepted is a file that changes in one of three ways, where the header is
\* wrong without a diagnostic of it (short): it is cut so that a read of a region
\* ends early, it is cut between SEEK_DATA and SEEK_HOLE, or it is extended
\* between two seeks after a region that is not a number of whole blocks: the
\* sizes of the regions are added up in bytes (sparse_scan_file_seek) but each
\* region is written in blocks of its own (sparse_dump_region).
HeaderTrue == phase = "dumped" /\ ~short => Len(tape) = Announced + 1

\* A file that does not change is restored exactly, byte for byte and in its
\* size, whatever its holes, the format and the place in the record.
RoundTrip == phase = "over" /\ ok /\ ~changed => out = sc.data

\* The next member is found after the extracted one, the compared one, equal
\* or not, and the one that is skipped.  It is never passed over when a write
\* fails.
NextFound ==
    /\ phase \in {"over", "skimmed"} /\ ok /\ ~short => rpos + 1 = Len(tape)
    /\ phase = "over" /\ ~changed => rpos < Len(tape)
    /\ phase = "compared" => rpos + 1 = Len(tape)

\* A comparison finds the file that was dumped equal, and one that differs from
\* it in a byte of data or of a hole, or is shorter, different: also one that is
\* longer, but in the old format, of which nothing is claimed (sparse_diff_file;
\* see SizeCompared).
DiffExact ==
    phase = "compared" =>
        /\ out = sc.data => ok
        /\ ok => IsPrefix(sc.data, out) /\ (sc.fmt # "oldgnu" => Len(out) = Size)

\* "report differences in file size": a file that became longer differs.
SizeCompared == phase = "compared" /\ Len(out) # Size => ~ok

=============================================================================
