---------------------------- MODULE MultiVolume ----------------------------
(***************************************************************************)
(* Multi-volume archives in GNU format (src/buffer.c).  The writer fills   *)
(* records of bf blocks; when the medium is full a new volume is opened    *)
(* and starts with a label and a header for the member that continues      *)
(* there, found in the list of bufmaps.  The reader is then given volumes, *)
(* perhaps the wrong ones or those of another archive, and accepts one     *)
(* only if it continues the member being read.                             *)
(*                                                                         *)
(* Blocks are records [t, m, k]: block k of member m (0 its header), a     *)
(* zero block, a label, or a header saying that member m continues at its  *)
(* k-th block with `left` blocks to come.  Sizes are in blocks.            *)
(***************************************************************************)
EXTENDS Integers, Sequences, FiniteSets

CONSTANTS
    Inputs,     \* records [bf, size, plain, label, room, files, first, other]
    MaxMounts   \* how many volumes the user may offer to the reader

ASSUME InputsAssumption ==
    \A in \in Inputs :
      /\ in.bf \in Nat \ {0} /\ in.files \in Nat \ {0} /\ in.first \in Nat \ {0}
      /\ in.size \in Seq(Nat) /\ in.room \in Seq(Nat)
      /\ in.plain \in [DOMAIN in.size -> BOOLEAN] /\ in.label \in BOOLEAN

VARIABLES
    inp,      \* the input
    given,    \* the blocks of members given to the buffer so far
    eot,      \* ... and the zero blocks at the end
    buf,      \* the record buffer up to current_block
    maps,     \* the list of bufmaps
    vols,     \* the volumes: [file, asked, blocks]
    status,   \* what the last write returned, while a new volume is opened
    cursor,   \* archive_name_cursor
    looped,   \* the names have all been used
    asked,    \* the user was asked for this volume
    phase,    \* where the writer or the reader is
    mounts,   \* volumes offered to the reader so far, the first included
    at,       \* [vol, pos]: the reader's next block
    cur,      \* the reader's bufmap, and whether it only skips; or None
    got,      \* blocks delivered
    lost      \* the reader has complained

writer == <<given, eot, buf, maps, vols, status, cursor, looped, asked>>
reader == <<mounts, at, cur, got, lost>>
vars == <<inp, writer, phase, reader>>

Block(m, k) == [t |-> "data", m |-> m, k |-> k]
Zero == [t |-> "zero", m |-> 0, k |-> 0]
Label(n) == [t |-> "label", m |-> 0, k |-> n]
Continued(m, k, left) == [t |-> "cont", m |-> m, k |-> k, left |-> left]
None == [m |-> 0, read |-> 0, total |-> 0, skip |-> FALSE]

\* What create_archive gives to the buffer after a block: the next one of the
\* member, or the header of the next member.
NextBlock ==
    IF given = <<>> THEN Block(1, 0)
    ELSE LET b == given[Len(given)] IN
         IF b.k < inp.size[b.m] THEN Block(b.m, b.k + 1) ELSE Block(b.m + 1, 0)
AllGiven == NextBlock.m > Len(inp.size)

-----------------------------------------------------------------------------
(* The bufmaps.                                                            *)

\* bufmap_locate: the last map that does not start beyond off.
Locate(maps0, off) ==
    IF maps0 = <<>> THEN 0
    ELSE CHOOSE k \in DOMAIN maps0 :
           /\ k = Len(maps0) \/ off < maps0[k + 1].start
           /\ \A j \in 1 .. k - 1 : off >= maps0[j + 1].start

\* bufmap_reset: drop the maps before the k-th, move the rest by fixup.
Reset(maps0, k, fixup) ==
    [j \in 1 .. Len(maps0) - k + 1 |->
       [maps0[j + k - 1] EXCEPT !.start = @ + fixup, !.nblocks = 0]]

\* What _flush_write does to the maps after a write of n blocks.
Account(maps0, n) ==
    LET k == Locate(maps0, n)
        delta == n - maps0[k].start
        nblocks == maps0[k].nblocks + delta
        left == maps0[k].left - (IF delta > maps0[k].left THEN maps0[k].left ELSE delta)
    IN  IF k = 0 THEN maps0
        ELSE IF left = 0 THEN Reset(maps0, k + 1, - (maps0[k].start + nblocks))
        ELSE Reset([maps0 EXCEPT ![k].left = left], k, - maps0[k].start)

\* mv_begin_write.
NewMap(m, start) == [m |-> m, start |-> start, left |-> inp.size[m], nblocks |-> 0]

-----------------------------------------------------------------------------
(* The writer.                                                             *)

Volume == vols[Len(vols)]

\* The blocks that the medium of the volume still takes: -L or its size.
Room == IF Len(vols) > Len(inp.room) THEN inp.bf
        ELSE inp.room[Len(vols)] - Len(Volume.blocks)

\* sys_write_archive_buffer at the end of the volume.
Writes(blocks) == vols' = [vols EXCEPT ![Len(vols)].blocks = @ \o blocks]

Record(blocks) == blocks \o [j \in 1 .. inp.bf - Len(blocks) |-> Zero]

\* find_next_block with room in the record, set_next_block_after, and
\* mv_begin_write after the header of a regular file.
PutBlock ==
    /\ phase = "write" /\ ~AllGiven /\ Len(buf) < inp.bf
    /\ given' = Append(given, NextBlock)
    /\ buf' = Append(buf, NextBlock)
    /\ maps' = IF NextBlock.k = 0 /\ ~inp.plain[NextBlock.m]
               THEN Append(maps, NewMap(NextBlock.m, Len(buf) + 1)) ELSE maps
    /\ UNCHANGED <<inp, eot, vols, status, cursor, looped, asked, phase, reader>>

\* write_eot.
PutZero ==
    /\ phase = "write" /\ AllGiven /\ eot < 2 /\ Len(buf) < inp.bf
    /\ eot' = eot + 1
    /\ buf' = Append(buf, Zero)
    /\ UNCHANGED <<inp, given, maps, vols, status, cursor, looped, asked, phase, reader>>

\* flush_archive: the record is full, or close_archive writes the last one.
FlushDue == /\ phase = "write"
            /\ Len(buf) = inp.bf \/ (eot = 2 /\ buf # <<>>)

FlushWrite ==
    /\ FlushDue /\ Room >= inp.bf
    /\ Writes(Record(buf))
    /\ maps' = Account(maps, inp.bf)
    /\ buf' = <<>>
    /\ UNCHANGED <<inp, given, eot, status, cursor, looped, asked, phase, reader>>

\* new_volume: the next archive name; from the second round on, and after a
\* name that could not be opened, the user is asked.
NextCursor == IF cursor = inp.files THEN 1 ELSE cursor + 1
Looped == looped \/ NextCursor = 1

\* What the medium took of the record, and what it did not.
Taken == SubSeq(Record(buf), 1, Room)

\* Altered: the copy starts at the beginning of the record.
NotTakenAll == buf

NotTaken == SubSeq(buf, Room + 1, Len(buf))

\* _gnu_flush_write when the medium takes less, and the start of new_volume.
\* The last record may have held less than the medium took of it: copy_size is
\* negative then, and once new_volume has made the next file memcpy runs out of
\* the buffer.
VolumeFull ==
    /\ FlushDue /\ Room < inp.bf
    /\ Writes(Taken)
    /\ buf' = NotTaken
    /\ status' = Room
    /\ maps' = IF Room > 0 THEN Account(maps, Room) ELSE maps
    /\ cursor' = NextCursor
    /\ looped' = Looped
    /\ asked' = Looped
    /\ phase' = IF Len(buf) < Room THEN "crash" ELSE "open"
    /\ UNCHANGED <<inp, given, eot, reader>>

\* The next file cannot be opened: the user is asked.
OpenFails ==
    /\ phase = "open" /\ ~asked
    /\ asked' = TRUE
    /\ UNCHANGED <<inp, given, eot, buf, maps, vols, status, cursor, looped, phase,
                   reader>>

\* Altered: the header gives the size in place of the offset.
VolumeTagLeft(k) ==
    (IF inp.label THEN <<Label(Len(vols) + 1)>> ELSE <<>>)
    \o (IF k = 0 THEN <<>> ELSE <<Continued(maps[k].m, maps[k].left, maps[k].left)>>)

\* add_volume_label and add_multi_volume_header for the k-th map.
VolumeTag(k) ==
    (IF inp.label THEN <<Label(Len(vols) + 1)>> ELSE <<>>)
    \o (IF k = 0 THEN <<>>
        ELSE <<Continued(maps[k].m, inp.size[maps[k].m] - maps[k].left, maps[k].left)>>)

\* The rest of _gnu_flush_write: the headers (written without accounting),
\* then what was left of the record; simple_flush_write writes each record
\* filled on the way, and fails if the volume cannot hold it.
OpenVolume ==
    LET k == Locate(maps, status)
        tag == VolumeTag(k)
        all == tag \o buf
        full == (Len(all) \div inp.bf) * inp.bf
        moved == IF k = 0 THEN <<>> ELSE Reset(maps, k, Len(tag) % inp.bf)
        room == IF Len(vols) >= Len(inp.room) THEN full ELSE inp.room[Len(vols) + 1]
    IN  /\ phase = "open"
        /\ vols' = Append(vols, [file |-> cursor, asked |-> asked,
                                 blocks |-> SubSeq(all, 1, full)])
        /\ buf' = SubSeq(all, full + 1, Len(all))
        /\ maps' = IF full > Len(tag) THEN Account(moved, inp.bf) ELSE moved
        /\ phase' = IF full > room THEN "fatal" ELSE "write"
        /\ UNCHANGED <<inp, given, eot, status, cursor, looped, asked, reader>>

\* The archive is closed; it is read from the volume inp.first on.
Close ==
    /\ phase = "write" /\ eot = 2 /\ buf = <<>>
    /\ phase' = "read"
    /\ at' = [vol |-> IF inp.first <= Len(vols) THEN inp.first ELSE 1, pos |-> 1]
    /\ mounts' = <<at'.vol>>
    /\ UNCHANGED <<inp, writer, cur, got, lost>>

-----------------------------------------------------------------------------
(* The reader.                                                             *)

Blocks(v) == vols[v].blocks

\* The volumes that the user can offer: those of the archive, then those of
\* other archives.
Shelf == 1 .. Len(vols) + Len(inp.other)
Offered(v) == IF v <= Len(vols) THEN Blocks(v) ELSE inp.other[v - Len(vols)]

Ended == at.pos > Len(Offered(at.vol))
Here == Offered(at.vol)[at.pos]
Forward(n) == at' = [at EXCEPT !.pos = @ + n]

\* mv_begin_read, and mv_end when there is nothing to read.
BeginRead(m, size, skip) ==
    IF size = 0 THEN None ELSE [m |-> m, read |-> 0, total |-> size, skip |-> skip]

\* Altered: a block that is no header is looked at again.
ReadHeaderStuck ==
    /\ phase = "read" /\ cur = None /\ ~Ended
    /\ \/ /\ Here.t = "data" /\ Here.k = 0
          /\ cur' = BeginRead(Here.m, inp.size[Here.m], FALSE)
          /\ got' = Append(got, Here) /\ Forward(1)
          /\ UNCHANGED <<phase, lost>>
       \/ /\ Here.t = "zero"
          /\ phase' = "done" /\ UNCHANGED <<at, cur, got, lost>>
       \/ /\ Here.t # "zero" /\ (Here.t = "data" => Here.k # 0)
          /\ lost' = TRUE /\ UNCHANGED <<phase, at, cur, got>>
    /\ UNCHANGED <<inp, writer, mounts>>

\* A block where read_and expects a header.  A header that continues a member
\* can stand there on the first volume only: the member cannot be extracted, and
\* skip_member begins to read as many blocks as are left of it.
ReadHeader ==
    /\ phase = "read" /\ cur = None /\ ~Ended
    /\ \/ /\ Here.t = "data" /\ Here.k = 0
          /\ cur' = BeginRead(Here.m, inp.size[Here.m], FALSE)
          /\ got' = Append(got, Here) /\ Forward(1)
          /\ UNCHANGED <<phase, lost>>
       \/ /\ Here.t = "alien" \/ (Here.t = "data" /\ Here.k # 0)
          /\ Forward(1) /\ lost' = TRUE /\ UNCHANGED <<phase, cur, got>>
       \/ /\ Here.t = "label" /\ Forward(1) /\ UNCHANGED <<phase, cur, got, lost>>
       \/ /\ Here.t = "cont"
          /\ cur' = BeginRead(Here.m, Here.left, TRUE)
          /\ Forward(1) /\ lost' = TRUE /\ UNCHANGED <<phase, got>>
       \/ /\ Here.t = "zero"
          /\ phase' = "done" /\ UNCHANGED <<at, cur, got, lost>>
    /\ UNCHANGED <<inp, writer, mounts>>

\* The data of a member, with mv_size_left, and mv_end at the last block.
ReadData ==
    /\ phase = "read" /\ cur # None /\ ~Ended
    /\ got' = IF cur.skip THEN got ELSE Append(got, Here)
    /\ Forward(1)
    /\ cur' = IF cur.read + 1 = cur.total THEN None ELSE [cur EXCEPT !.read = @ + 1]
    /\ UNCHANGED <<inp, writer, phase, mounts, lost>>

\* try_new_volume on volume v: its label and then its continuation header ...
Starts(v, n, t) == n <= Len(Offered(v)) /\ Offered(v)[n].t = t
HasLabel(v) == Starts(v, 1, "label")
Cont(v) == IF HasLabel(v) THEN 2 ELSE 1
Tag(v) == IF Starts(v, Cont(v), "cont") THEN Cont(v) ELSE Cont(v) - 1

\* Altered: the sizes are not compared.
ContinuesUnsized(v) ==
    \/ cur = None
    \/ /\ Starts(v, Cont(v), "cont")
       /\ LET h == Offered(v)[Cont(v)] IN h.m = cur.m /\ cur.read = h.k

\* ... which is compared with the bufmap: the name, the whole size, the place.
Continues(v) ==
    \/ cur = None
    \/ /\ Starts(v, Cont(v), "cont")
       /\ LET h == Offered(v)[Cont(v)] IN
          h.m = cur.m /\ h.left + h.k = cur.total /\ cur.read = h.k

TryNewVolume ==
    /\ phase = "read" /\ Ended /\ Len(mounts) < MaxMounts
    /\ \E v \in Shelf :
         /\ mounts' = Append(mounts, v)
         /\ at' = IF Continues(v) THEN [vol |-> v, pos |-> Tag(v) + 1] ELSE at
    /\ UNCHANGED <<inp, writer, phase, cur, got, lost>>

\* change_tape_menu: the user has no other volume.
Quit ==
    /\ phase = "read" /\ Ended
    /\ phase' = "quit"
    /\ UNCHANGED <<inp, writer, reader>>

Stopped == phase \in {"done", "quit", "fatal", "crash"}
Done == Stopped /\ UNCHANGED vars

Init ==
    /\ inp \in Inputs
    /\ given = <<>> /\ eot = 0
    /\ vols = <<[file |-> 1, asked |-> FALSE, blocks |-> <<>>]>>
    /\ buf = IF inp.label THEN <<Label(1)>> ELSE <<>>
    /\ maps = <<>> /\ status = 0
    /\ cursor = 1 /\ looped = FALSE /\ asked = FALSE
    /\ phase = "write"
    /\ mounts = <<>> /\ at = [vol |-> 1, pos |-> 1] /\ cur = None
    /\ got = <<>> /\ lost = FALSE

Next ==
    \/ PutBlock \/ PutZero \/ FlushWrite \/ VolumeFull \/ OpenFails \/ OpenVolume \/ Close
    \/ ReadHeader \/ ReadData \/ TryNewVolume \/ Quit \/ Done

Spec == Init /\ [][Next]_vars /\ WF_vars(Next)
-----------------------------------------------------------------------------

\* The places of data on the volumes vs, their order, and what is there in
\* this order.
Places(vs) == UNION {{v} \X {i \in DOMAIN vs[v].blocks : vs[v].blocks[i].t = "data"} :
                        v \in DOMAIN vs}
Upto(places, x) == {y \in places : y[1] < x[1] \/ (y[1] = x[1] /\ y[2] <= x[2])}
At(vs, x) == vs[x[1]].blocks[x[2]]
OnTape(vs) ==
    LET places == Places(vs) IN
    [n \in 1 .. Cardinality(places) |->
       At(vs, CHOOSE x \in places : Cardinality(Upto(places, x)) = n)]

T == INSTANCE Tape WITH given <- given, tape <- OnTape(vols)
\* The buffer with its volumes is a tape without end (flush_write, new_volume):
\* no block is lost, written twice or moved when volumes change.
OneTape == T!Spec

\* How many data blocks of m are on the volumes before v.
Stored(m, v) ==
    Cardinality({x \in Places(vols) : /\ x[1] < v /\ At(vols, x).m = m
                                      /\ At(vols, x).k > 0})

\* The inputs whose bufmaps stay right: every volume ends after a whole record
\* and a label comes with one member only, or there is one member and no label.
\* Otherwise a record that the medium takes in part can hold the start of a
\* second member, or a label the first one moves, and the code loses its place.
Steady(in) ==
    \/ /\ \A j \in DOMAIN in.room : in.room[j] % in.bf = 0
       /\ in.label => Len(in.size) = 1
    \/ Len(in.size) = 1 /\ ~in.label

\* A continuation header tells the truth: as much of the member as it says
\* is on the volumes before it.
ContinuedTrue ==
    \A v \in DOMAIN vols : \A i \in DOMAIN Blocks(v) :
      Blocks(v)[i].t = "cont" => Blocks(v)[i].k = Stored(Blocks(v)[i].m, v)

\* A file that already holds a volume of this archive is not opened for
\* another one before the user was asked to change it.
AskedBeforeReuse ==
    \A v, w \in DOMAIN vols : v < w /\ vols[v].file = vols[w].file => vols[w].asked

\* The volumes written so far are still there, and where volumes end after
\* whole records, or with one member wherever they end, they say of themselves
\* what is so (new_volume, _flush_write, _gnu_flush_write).
VolumesTrue == AskedBeforeReuse /\ (Steady(inp) => ContinuedTrue)

\* Whatever volumes are offered, the data delivered for a member are its
\* blocks in their order, from its header on: a volume that does not
\* continue the member is refused.
Intact ==
    \A i \in DOMAIN got : got[i].t = "data" /\
      (got[i].k > 0 => i > 1 /\ got[i - 1] = Block(got[i].m, got[i].k - 1))

\* The first volume is read first, and only the next one has been offered.
InOrder == mounts = [j \in 1 .. Len(mounts) |-> j]

\* The next volume is not refused.
NextAccepted ==
    phase = "read" /\ Ended /\ InOrder /\ at.vol < Len(vols) => Continues(at.vol + 1)

\* Volumes offered in their order give back the archive.
Complete ==
    phase = "done" /\ InOrder =>
      ~lost /\ got = given

\* Where the continuation headers are true: try_new_volume joins a volume to
\* what was read if and only if it is the one that was written next, whatever
\* volumes of this or of other archives are offered (others of which the name,
\* size and offset do not all agree), and in order they give everything back.
ReadBack == Steady(inp) => Intact /\ NextAccepted /\ Complete

\* Writing and reading come to an end.
Terminates == <>Stopped
=============================================================================
