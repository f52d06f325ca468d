--------------------------- MODULE DeferredUnlink ---------------------------
(***************************************************************************)
(* tar --create --remove-files (src/unlink.c under dump_file0 of           *)
(* src/create.c).  A file is removed only when the record that holds its   *)
(* last block has been written, so removals are queued; the queue is a     *)
(* singly linked list with a head, a tail and a list of free cells.        *)
(*                                                                         *)
(* An input has                                                            *)
(*   ops     what dump_file0 does, in order:                               *)
(*           [op, obj, blocks, ok, wd, cwd], where op is                   *)
(*             "file"   dump the file obj, in that many blocks, and queue  *)
(*                      it if ok (it did not change while it was read),    *)
(*             "open"   dump the header of the directory obj,              *)
(*             "close"  the end of that directory: queue it if ok;         *)
(*           wd is the directory (chdir_current) the name is relative to,  *)
(*           and cwd says that the name is "."                             *)
(*   parent  the directory of each object of the file system               *)
(*   stuck   the objects that cannot be removed (EACCES, EBUSY...)         *)
(***************************************************************************)
EXTENDS Integers, Sequences, Functions

CONSTANTS BF, Inputs

ASSUME BFAssumption == BF \in Nat \ {0}

VARIABLES
    input,
    fs,                 \* the objects that exist
    i,                  \* the operation under way
    done,               \* the blocks of it that have been put in the record
    buf,                \* for each block in the record, its operation
    records_written,
    cell,               \* struct deferred_unlink: [next, tok, rw]; tok is the
                        \* operation that queued it, rw its records_written
    head, tail, avail,  \* dunlink_head, dunlink_tail, dunlink_avail (0: NULL)
    pc, force,
    p, prev             \* of the loops over the list

dumpVars == <<fs, i, done, buf, records_written>>
listVars == <<cell, head, tail, avail>>
vars == <<input, dumpVars, listVars, pc, force, p, prev>>

Ops == input.ops
Op == Ops[i]
OpType == [op : {"file", "open", "close"}, obj : STRING, blocks : Nat,
           ok : BOOLEAN, wd : Nat, cwd : BOOLEAN]

\* A directory's header is dumped before anything queues the directory.
ASSUME InputsAssumption ==
    \A in \in Inputs :
        /\ in.ops \in Seq(OpType)
        /\ \A j \in 1..Len(in.ops) :
              IF in.ops[j].op = "close"
              THEN \E o \in 1..j - 1 : /\ in.ops[o].op = "open"
                                       /\ in.ops[o].obj = in.ops[j].obj
              ELSE in.ops[j].blocks > 0
        /\ \A j \in 1..Len(in.ops) : in.ops[j].obj \in DOMAIN in.parent
        /\ in.stuck \subseteq DOMAIN in.parent

Init ==
    /\ input \in Inputs
    /\ fs = DOMAIN input.parent
    /\ i = 1 /\ done = 0 /\ buf = <<>> /\ records_written = 0
    /\ cell = <<>> /\ head = 0 /\ tail = 0 /\ avail = 0
    /\ pc = "dump" /\ force = FALSE /\ p = 0 /\ prev = 0

-----------------------------------------------------------------------------
(***************************************************************************)
(* dump_file0                                                              *)
(***************************************************************************)
Dumping == pc = "dump" /\ i <= Len(Ops)

\* fstatat fails: the file is gone (it was named twice).
FileGone ==
    /\ Dumping /\ Op.op = "file" /\ done = 0
    /\ Op.obj \notin fs
    /\ i' = i + 1
    /\ UNCHANGED <<input, fs, done, buf, records_written, listVars, pc, force,
                   p, prev>>

\* find_next_block, which writes the record if it is full, and
\* set_next_block_after.
Full == Len(buf) = BF

PutBlock ==
    /\ Dumping /\ Op.op # "close" /\ done < Op.blocks
    /\ Op.op = "file" /\ done = 0 => Op.obj \in fs
    /\ done' = done + 1
    /\ IF Full
       THEN /\ buf' = <<i>>
            /\ records_written' = records_written + 1
       ELSE /\ buf' = Append(buf, i)
            /\ UNCHANGED records_written
    /\ UNCHANGED <<input, fs, i, listVars, pc, force, p, prev>>

\* The record cannot be written.
WriteFails ==
    /\ \/ Dumping /\ Op.op # "close" /\ done < Op.blocks /\ Full
       \/ pc = "dump" /\ i > Len(Ops)
    /\ pc' = "fatal"
    /\ UNCHANGED <<input, dumpVars, listVars, force, p, prev>>

\* The object has been dumped and is not to be removed (yet).
NotQueued ==
    /\ Dumping
    /\ \/ Op.op = "open" /\ done = Op.blocks
       \/ Op.op = "file" /\ done = Op.blocks /\ ~Op.ok
       \/ Op.op = "close" /\ ~Op.ok
    /\ i' = i + 1 /\ done' = 0
    /\ UNCHANGED <<input, fs, buf, records_written, listVars, pc, force, p, prev>>

\* queue_deferred_unlink first removes what has become safe, if the first
\* entry has.
QueueUnlink ==
    /\ Dumping /\ Op.ok
    /\ Op.op = "close" \/ (Op.op = "file" /\ done = Op.blocks)
    /\ pc' = IF head # 0 /\ records_written > cell[head].rw
             THEN "scan" ELSE "insert"
    /\ p' = head /\ prev' = 0
    /\ UNCHANGED <<input, dumpVars, listVars, force>>

\* write_eot and close_archive, then finish_deferred_unlinks.
CloseArchive ==
    /\ pc = "dump" /\ i > Len(Ops)
    /\ buf' = <<>>
    /\ records_written' = records_written + (Len(buf) + 1 + BF) \div BF
    /\ pc' = "scan" /\ force' = TRUE /\ p' = head /\ prev' = 0
    /\ UNCHANGED <<input, fs, i, done, listVars>>

-----------------------------------------------------------------------------
(***************************************************************************)
(* The list                                                                *)
(***************************************************************************)
IsDir(t) == Ops[t].op = "close"
IsCwd(t) == IsDir(t) /\ Ops[t].cwd

\* dunlink_alloc: the cell it returns, and dunlink_avail after it.
Alloc == IF avail = 0 THEN Len(cell) + 1 ELSE avail
AvailAfter == IF avail = 0 THEN 0 ELSE cell[avail].next

NewCell == [next |-> 0, tok |-> i, rw |-> records_written]
WithNewCell == IF avail = 0 THEN Append(cell, NewCell)
               ELSE [cell EXCEPT ![avail] = NewCell]

\* dunlink_insert (a, c) on the cells cs.
Insert(cs, a, c) ==
    /\ cell' = IF a # 0
               THEN [[cs EXCEPT ![c].next = cs[a].next] EXCEPT ![a].next = c]
               ELSE [cs EXCEPT ![c].next = head]
    /\ head' = IF a # 0 THEN head ELSE c
    /\ tail' = IF cell'[c].next = 0 THEN c ELSE tail

\* An entry for "." goes before the first one of a directory of a smaller
\* index, if there is one; every other goes to the end.
Before(c) == IsCwd(cell[c].tok) /\ Ops[cell[c].tok].wd < Op.wd

FindPlace ==
    /\ pc = "insert" /\ IsCwd(i) /\ p # 0
    /\ ~Before(p)
    /\ prev' = p
    /\ p' = cell[p].next
    /\ UNCHANGED <<input, dumpVars, listVars, pc, force>>

AnchorBug == tail
Anchor == IF IsCwd(i) /\ p # 0 THEN prev ELSE tail

\* The rest of queue_deferred_unlink.
AddEntry ==
    /\ pc = "insert"
    /\ IsCwd(i) /\ p # 0 => Before(p)
    /\ Insert(WithNewCell, Anchor, Alloc)
    /\ avail' = AvailAfter
    /\ pc' = "dump" /\ i' = i + 1 /\ done' = 0
    /\ UNCHANGED <<input, fs, buf, records_written, force, p, prev>>

-----------------------------------------------------------------------------
(***************************************************************************)
(* flush_deferred_unlinks                                                  *)
(***************************************************************************)
Obj(c) == Ops[cell[c].tok].obj
Empty(d) == \A o \in fs : input.parent[o] # d

DueBug(c) == force \/ cell[c].rw <= records_written
Due(c) == force \/ cell[c].rw < records_written

\* "." of a directory given by -C is removed at the end, from its parent;
\* a directory that is not empty may be later.
Lingers(c) ==
    LET t == cell[c].tok
    IN  /\ IsDir(t)
        /\ \/ Ops[t].wd > 0 /\ IsCwd(t)
           \/ Obj(c) \in fs \ input.stuck /\ ~Empty(Obj(c)) /\ ~IsCwd(t)

\* unlinkat and rmdir: an object that is stuck stays, and so does the current
\* directory under the name "." (EINVAL); both are reported.
AfterUnlink(c) ==
    IF Obj(c) \in input.stuck \/ IsCwd(cell[c].tok) THEN fs ELSE fs \ {Obj(c)}

\* Past an entry that stays.
SkipBug(c) == c
Skip(c) == cell[c].next

ScanKeep ==
    /\ pc = "scan" /\ p # 0
    /\ ~Due(p) \/ Lingers(p)
    /\ prev' = p
    /\ p' = Skip(p)
    /\ UNCHANGED <<input, dumpVars, listVars, pc, force>>

\* dunlink_reclaim and the removal from the list.
ScanRemove ==
    /\ pc = "scan" /\ p # 0
    /\ Due(p) /\ ~Lingers(p)
    /\ fs' = AfterUnlink(p)
    /\ LET reclaimed == [cell EXCEPT ![p].next = avail]
       IN  IF prev # 0
           THEN /\ cell' = [reclaimed EXCEPT ![prev].next = cell[p].next]
                /\ UNCHANGED head
           ELSE /\ cell' = reclaimed
                /\ head' = cell[p].next
    /\ avail' = p
    /\ p' = cell[p].next
    /\ UNCHANGED <<input, i, done, buf, records_written, tail, pc, force, prev>>

TailAfter == IF head = 0 THEN 0 ELSE tail

ScanEnd ==
    /\ pc = "scan" /\ p = 0
    /\ tail' = TailAfter
    /\ pc' = IF ~force THEN "insert" ELSE IF head = 0 THEN "done" ELSE "last"
    /\ p' = head /\ prev' = 0
    /\ UNCHANGED <<input, dumpVars, cell, head, avail, force>>

\* The last loop: rmdir of what is left, "." from its parent directory.
LastRemove ==
    /\ pc = "last" /\ p # 0
    /\ fs' = IF Empty(Obj(p)) /\ Obj(p) \notin input.stuck
             THEN fs \ {Obj(p)} ELSE fs
    /\ cell' = [cell EXCEPT ![p].next = avail]
    /\ avail' = p
    /\ p' = cell[p].next
    /\ UNCHANGED <<input, i, done, buf, records_written, head, tail, pc, force,
                   prev>>

LastEnd ==
    /\ pc = "last" /\ p = 0
    /\ head' = 0 /\ tail' = 0
    /\ pc' = "done"
    /\ UNCHANGED <<input, dumpVars, cell, avail, force, p, prev>>

Finished == pc \in {"done", "fatal"}

Next ==
    \/ FileGone \/ PutBlock \/ WriteFails \/ NotQueued
    \/ QueueUnlink \/ CloseArchive \/ FindPlace \/ AddEntry
    \/ ScanKeep \/ ScanRemove \/ ScanEnd
    \/ LastRemove \/ LastEnd
    \/ (Finished /\ UNCHANGED vars)

Spec == Init /\ [][Next]_vars /\ WF_vars(Next)

-----------------------------------------------------------------------------
(***************************************************************************)
(* Properties                                                              *)
(***************************************************************************)

\* The type of every variable of unlink.c and of the dump that is modelled.
TypeOK ==
    /\ fs \subseteq DOMAIN input.parent
    /\ i \in 1..Len(Ops) + 1
    /\ done \in Nat
    /\ buf \in Seq(1..Len(Ops)) /\ Len(buf) <= BF
    /\ records_written \in Nat
    /\ cell \in Seq([next : 0..Len(cell), tok : 1..Len(Ops), rw : Nat])
    /\ {head, tail, avail, p, prev} \subseteq 0..Len(cell)
    /\ pc \in {"dump", "insert", "scan", "last", "done", "fatal"}
    /\ force \in BOOLEAN

\* The operation that dumps object o (the first one, if it is named twice).
Dumps(j, o) == Ops[j].op # "close" /\ Ops[j].obj = o
               /\ \A k \in 1..j - 1 : Ops[k].op # "close" => Ops[k].obj # o

\* flush_deferred_unlinks never removes an object before the archive holds all
\* of it: at every moment, a crash or a failed write included, what has been
\* removed has been dumped, and none of its blocks is still in the record
\* buffer.
NoEarlyUnlink ==
    \A j \in 1..Len(Ops) : \A o \in {Ops[j].obj} \ fs :
        Dumps(j, o) => /\ j < i \/ (j = i /\ done = Ops[j].blocks)
                       /\ \A k \in 1..Len(buf) : buf[k] # j

\* The cells of the list from the head, in order (0 after the end).
Nth[n \in Nat] == IF n = 0 THEN head
                  ELSE IF Nth[n - 1] = 0 THEN 0 ELSE cell[Nth[n - 1]].next

\* No entry stays in the list while one after it is removed: what a directory
\* holds is queued before it and can be removed, or everything fits in one
\* record.
Settled ==
    \/ \A j \in 1..Len(Ops) :
          IsDir(j) => /\ ~IsCwd(j)
                      /\ \A o \in DOMAIN input.parent :
                            input.parent[o] = Ops[j].obj =>
                              /\ o \notin input.stuck
                              /\ \E k \in 1..j : Ops[k].obj = o /\ Ops[k].ok /\ Ops[k].op # "open"
    \/ SumFunction([j \in 1..Len(Ops) |-> Ops[j].blocks]) <= BF

\* When tar ends, each file that was queued is gone unless its removal failed,
\* and so is each directory whose contents are gone; if no directory had to
\* wait, in SettledRemoved.
Queued == {o \in DOMAIN input.parent :
              \E j \in 1..Len(Ops) : /\ Ops[j].obj = o /\ Ops[j].ok
                                     /\ Ops[j].op # "open"
                                     /\ ~(Ops[j].cwd /\ Ops[j].wd = 0)}
AllRemoved ==
    pc = "done" =>
        \A o \in (Queued \cap fs) \ input.stuck : ~Empty(o)

SettledRemoved == Settled => AllRemoved

\* tar --remove-files ends: neither loop of flush_deferred_unlinks meets a cell
\* again.
Terminates == <>Finished
=============================================================================
