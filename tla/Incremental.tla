---------------------------- MODULE Incremental ----------------------------
(***************************************************************************)
(* Incremental backups of one tree with a snapshot file: tar -c -g         *)
(* (src/incremen.c, create_archive in src/create.c and                     *)
(* collect_and_sort_names in src/names.c), while users change the tree and *)
(* tar may be killed, and the restoration of all backups in turn with      *)
(* tar -x -g (purge_directory and the extractors it works with).           *)
(*                                                                         *)
(* A path is a sequence of names (numbers, in the order of strcmp); <<>>   *)
(* is the directory given on the command line.  A node of the tree is      *)
(* [dir, ino, data, time]: for a file, data identifies its contents and    *)
(* time is the later of mtime and ctime, which -g both compares.           *)
(***************************************************************************)
EXTENDS Integers, Sequences, SequencesExt

CONSTANTS
    Scenarios,  \* records [tree, paths, ops, dumps, busy, kills]: the tree
                \* that the first backup finds, where users put things, how
                \* many changes they make, how many backups are begun, and
                \* whether changes during a backup and crashes are considered
    Inos        \* inode numbers of directories

VARIABLES
    sc,      \* the scenario
    fs,      \* the tree
    clock,   \* the time
    ops,     \* changes so far
    dumps,   \* backups begun so far
    phase,   \* idle, scan, dirs, files, save, restore or over
    snap,    \* the snapshot file
    newer,   \* newer_mtime_option
    start,   \* start_time
    table,   \* dirhead: the list of directories
    meta,    \* indices of the entries of directory_meta_table
    todo,    \* directories still to be scanned
    names,   \* the name list: [name, dir]
    renames, \* the renames appended to the first dumpdir
    pos,     \* gnu_list_name
    fd,      \* inode of the directory that is open
    left,    \* entries of its dumpdir still to be looked at
    arch,    \* the archive being written
    done,    \* the archives since the last full backup
    warned,  \* one of the backups in done, or the current one, has complained
    quiet,   \* the tree has not changed since the last backup began, which
             \* was not cut short
    clash,   \* a directory was taken for another one of the same old name
    stale,   \* 1: the snapshot has an inode number that is not true; 2: a
             \* backup was made with such a snapshot
    disk,    \* the restored tree
    at,      \* [arch, member] being restored
    failed   \* the restoration has complained

users == <<sc, fs, clock, ops, quiet>>
dumper == <<dumps, snap, newer, start, table, meta, todo, names, renames, pos, fd, left, arch, done, warned,
            clash, stale>>
restorer == <<disk, at, failed>>
vars == <<users, phase, dumper, restorer>>

Tmp == 99
Null == <<[c |-> "0", n |-> 0]>>
Empty == [p \in {} |-> 0]
\* No snapshot, and one that ends inside a number or a name, which read_num
\* and read_timespec refuse.
NoSnap == [v |-> 0, start |-> -1, dirs |-> <<>>]
Broken == [v |-> 3, start |-> -1, dirs |-> <<>>]

IsDir(f, p) == p \in DOMAIN f /\ f[p].dir
IsFile(f, p) == p \in DOMAIN f /\ ~f[p].dir
Under(f, p) == {q \in DOMAIN f : IsPrefix(p, q)}
Listing(f, d) ==
    SetToSortSeq({q[Len(q)] : q \in {r \in DOMAIN f : r # <<>> /\ Front(r) = d}},
                 LAMBDA a, b : a < b)
Without(f, S) == [q \in DOMAIN f \ S |-> f[q]]
With(f, p, node) == [q \in DOMAIN f \cup {p} |-> IF q = p THEN node ELSE f[q]]
Moved(f, p, q) ==
    LET target(r) == IF IsPrefix(p, r) THEN q \o SubSeq(r, Len(p) + 1, Len(r)) ELSE r
        kept == DOMAIN f \ (Under(f, q) \ Under(f, p))
    IN  [r \in {target(s) : s \in kept} |-> f[CHOOSE s \in kept : target(s) = r]]

-----------------------------------------------------------------------------
(* Users.                                                                  *)

Changes(f) ==
    /\ phase \in {"idle", "scan", "dirs", "files", "save"} /\ ops < sc.ops /\ dumps > 0
    /\ sc.busy \/ phase = "idle"
    /\ fs' = f
    /\ ops' = ops + 1
    /\ quiet' = FALSE
    /\ UNCHANGED <<sc, clock, phase, dumper, restorer>>

Places == {p \in sc.paths : IsDir(fs, Front(p))}
FileNode == [dir |-> FALSE, ino |-> 0, data |-> ops + 1, time |-> clock]

WriteFile == \E p \in Places : ~IsDir(fs, p) /\ Changes(With(fs, p, FileNode))

MakeDir ==
    \E p \in Places \ DOMAIN fs, i \in Inos \ {fs[q].ino : q \in DOMAIN fs} :
      Changes(With(fs, p, [dir |-> TRUE, ino |-> i, data |-> 0, time |-> clock]))

Delete == \E p \in DOMAIN fs \ {<<>>} : Changes(Without(fs, Under(fs, p)))

\* Directories are only moved between backups: tar trusts the inode numbers
\* and names that it has noted.
Rename ==
    \E p \in DOMAIN fs \ {<<>>}, q \in Places :
      /\ (fs[p].dir => phase = "idle")
      /\ ~IsPrefix(p, q) /\ (q \in DOMAIN fs => IsFile(fs, p) /\ IsFile(fs, q))
      /\ \A r \in Under(fs, p) : q \o SubSeq(r, Len(p) + 1, Len(r)) \in sc.paths
      /\ Changes([Moved(fs, p, q) EXCEPT ![q].time = clock])

\* Two directories change their names, through a third name.
Swap ==
    \E p, q \in DOMAIN fs \ {<<>>} :
      /\ phase = "idle" /\ IsDir(fs, p) /\ IsDir(fs, q) /\ ~IsPrefix(p, q) /\ ~IsPrefix(q, p)
      /\ Changes(Moved(Moved(Moved(fs, p, <<Tmp>>), q, p), <<Tmp>>, q))

-----------------------------------------------------------------------------
(* The list of directories.                                                *)

Entry(name, ino, dump, found) ==
    [name |-> name, ca |-> name, ino |-> ino, hashed |-> ino, dump |-> dump, idump |-> Null,
     kids |-> "changed", found |-> found, inited |-> FALSE, renamed |-> FALSE, orig |-> 0]

First(S) == IF S = {} THEN 0 ELSE CHOOSE k \in S : \A j \in S : k <= j

\* find_directory, by the canonical name.
FindDirectory(t, name) == First({k \in DOMAIN t : t[k].ca = name})

\* find_directory_meta: an entry stays in the bucket of the inode number it
\* was inserted with.
FindDirectoryMeta(t, m, ino) == First({k \in m : t[k].hashed = ino /\ t[k].ino = ino})

\* Directory k is d under a new name: orig, DIRF_RENAMED and
\* dirlist_replace_prefix.
MarkRenamed(t, k, d) ==
    IF t[d].name = t[k].name THEN t
    ELSE [j \in DOMAIN t |->
            [t[j] EXCEPT
               !.name = IF Len(t[d].name) < Len(@) /\ IsPrefix(t[d].name, @)
                        THEN t[k].name \o SubSeq(@, Len(t[d].name) + 1, Len(@)) ELSE @,
               !.orig = IF j = k THEN d ELSE @,
               !.renamed = IF j = k THEN TRUE ELSE j # d /\ @]]

\* procdir for a directory whose name the list has: [t, m, k, c, clash].
KnownDir(s, name, ino, force, all) ==
    LET k == FindDirectory(s.t, name)
        t == IF s.t[k].inited THEN [s.t EXCEPT ![k].name = name] ELSE s.t
        d == FindDirectoryMeta(t, s.m, ino)
        other == t[k].ino # ino
        t1 == IF other /\ d # 0 THEN MarkRenamed(t, k, d) ELSE t
        kids == IF all \/ (other /\ d = 0) THEN "all" ELSE "changed"
        was == IF other /\ d # 0 /\ s.stale = 0 THEN 1 ELSE s.stale
    IN  IF s.t[k].inited /\ ~force THEN [s EXCEPT !.k = k, !.c = "N"]
        ELSE IF t[k].name # name THEN [s EXCEPT !.k = k, !.c = "N", !.clash = TRUE]
        ELSE [s EXCEPT !.k = k, !.c = "D", !.stale = was,
                       !.t = [t1 EXCEPT ![k].kids = kids, ![k].found = TRUE, ![k].inited = TRUE,
                                        ![k].ino = IF other /\ d = 0 THEN ino ELSE @]]

\* procdir for one that it does not have.
UnknownDir(s, name, ino, all) ==
    LET d == FindDirectoryMeta(s.t, s.m, ino)
        k == Len(s.t) + 1
        t == Append(s.t, [Entry(name, ino, Null, TRUE) EXCEPT
                            !.kids = IF all \/ d = 0 THEN "all" ELSE "changed",
                            !.inited = TRUE])
    IN  [s EXCEPT !.k = k, !.c = "D", !.t = IF d # 0 THEN MarkRenamed(t, k, d) ELSE t,
                  !.m = IF d = 0 THEN @ \cup {k} ELSE @]

ProcDir(s, name, ino, force, all) ==
    IF FindDirectory(s.t, name) # 0 THEN KnownDir(s, name, ino, force, all)
    ELSE UnknownDir(s, name, ino, all)

Elements(dump) == {dump[j].n : j \in {i \in DOMAIN dump : dump[i].c \in {"Y", "N", "D"}}}

\* The old listing with which makedumpdir compares.
OldDump(t, k) ==
    LET o == t[k].orig IN
    IF t[k].kids = "all" THEN Null
    ELSE IF o = 0 THEN t[k].dump
    ELSE IF t[o].idump # Null THEN t[o].idump ELSE t[o].dump

-----------------------------------------------------------------------------
(* The backup.                                                             *)

\* read_incr_db_01: a snapshot of version 1 has no listings.
ReadDb01(dirs) == [k \in DOMAIN dirs |-> Entry(dirs[k].name, dirs[k].ino, Null, FALSE)]
ReadDb2(dirs) == [k \in DOMAIN dirs |-> Entry(dirs[k].name, dirs[k].ino, dirs[k].dump, FALSE)]

\* read_directory_file, in one of two orders in which the hash table may
\* have been written.
Begin ==
    \E t \in {clock, clock + 1}, full \in BOOLEAN, forth \in BOOLEAN :
      LET s == IF full THEN NoSnap ELSE snap
          dirs == IF forth THEN s.dirs ELSE Reverse(s.dirs)
      IN  /\ phase = "idle" /\ dumps < sc.dumps /\ s # Broken
          /\ (full => snap # NoSnap) /\ (forth \/ Len(dirs) > 1)
          /\ clock' = t /\ start' = t /\ snap' = s /\ newer' = s.start
          /\ table' = IF s.v = 1 THEN ReadDb01(dirs) ELSE ReadDb2(dirs)
          /\ meta' = {k \in DOMAIN dirs : \A j \in 1 .. k - 1 : dirs[j].ino # dirs[k].ino}
          /\ dumps' = dumps + 1 /\ phase' = "scan" /\ quiet' = TRUE /\ clash' = FALSE
          /\ todo' = <<<<>>>> /\ names' = <<>> /\ arch' = <<>> /\ renames' = <<>>
          /\ pos' = 1 /\ fd' = 0 /\ left' = <<>>
          /\ stale' = IF s = NoSnap \/ stale = 0 THEN 0 ELSE 2
          /\ warned' = (s # NoSnap /\ warned)
          /\ UNCHANGED <<sc, fs, ops, done, restorer>>

\* Altered: a file as old as the last backup counts as unchanged.
ChangedAfter(node) == node.time > newer
Changed(node) == node.time >= newer

\* One entry of the directory being scanned, whose index is k0.
ScanEntry(s, d, k0, old, n) ==
    LET p == Append(d, n)
        r == ProcDir(s, p, fs[p].ino, FALSE, s.t[k0].kids = "all")
        c == IF fs[p].dir THEN r.c
             ELSE IF n \notin Elements(old) \/ Changed(fs[p]) THEN "Y" ELSE "N"
    IN  [(IF fs[p].dir THEN r ELSE s) EXCEPT !.out = Append(@, [c |-> c, n |-> n])]

\* One level of add_hierarchy_to_namelist: the directories of d to scan next.
AddHierarchy(d, out) ==
    LET subs == SelectSeq(out, LAMBDA e : e.c = "D") IN
    [j \in DOMAIN subs |-> Append(d, subs[j].n)]

\* scan_directory, called for each directory that add_hierarchy_to_namelist
\* has found.
ScanDirectory ==
    LET d == Head(todo)
        s0 == ProcDir([t |-> table, m |-> meta, k |-> 0, c |-> "", clash |-> clash, stale |-> stale,
                       out |-> <<>>],
                      d, fs[d].ino, d = <<>>, FALSE)
        k0 == s0.k
        s == FoldLeft(LAMBDA acc, n : ScanEntry(acc, d, k0, OldDump(s0.t, k0), n),
                      s0, Listing(fs, d))
    IN  /\ phase = "scan" /\ todo # <<>>
        /\ IF IsDir(fs, d)
           THEN /\ table' = [s.t EXCEPT ![k0].idump = s.t[k0].dump, ![k0].dump = s.out]
                /\ meta' = s.m /\ clash' = s.clash /\ stale' = s.stale
                /\ todo' = AddHierarchy(d, s.out) \o Tail(todo)
                /\ names' = Append(names, [name |-> d, dir |-> k0])
                /\ UNCHANGED warned
           ELSE /\ todo' = Tail(todo)
                /\ names' = Append(names, [name |-> d, dir |-> 0])
                /\ warned' = TRUE
                /\ UNCHANGED <<table, meta, clash, stale>>
        /\ UNCHANGED <<users, phase, dumps, snap, newer, start, renames, pos, fd, left, arch, done,
                       restorer>>

\* The directories that k was renamed from, k first, up to a cycle.
Chain(t, k) ==
    FoldLeft(LAMBDA c, j : LET o == t[c[Len(c)]].orig IN
                           IF o = 0 \/ \E i \in DOMAIN c : c[i] = o THEN c ELSE Append(c, o),
             <<k>>, t)

\* Altered: a cycle is not broken.
StoreRenameDirect(t, k) ==
    LET c == Chain(t, k) IN
    [j \in 1 .. Len(c) |-> [from |-> t[IF t[c[j]].orig = 0 THEN c[j] ELSE t[c[j]].orig].name, to |-> t[c[j]].name]]

\* store_rename: a cycle is broken with a temporary name.
StoreRename(t, k) ==
    LET c == Chain(t, k)
        cyclic == t[c[Len(c)]].orig = k
        tmp == Append(Front(t[k].name), Tmp)
        links == [j \in 1 .. Len(c) - 1 |-> [from |-> t[c[j + 1]].name, to |-> t[c[j]].name]]
    IN  IF ~cyclic THEN links
        ELSE <<[from |-> t[k].name, to |-> tmp]>> \o links
             \o <<[from |-> tmp, to |-> t[c[Len(c)]].name]>>

\* append_incremental_renames, at the end of collect_and_sort_names.
AppendRenames ==
    /\ phase = "scan" /\ todo = <<>>
    /\ phase' = "dirs"
    /\ renames' = FoldLeft(LAMBDA a, k : IF table[k].renamed THEN a \o StoreRename(table, k) ELSE a,
                           <<>>, [k \in DOMAIN table |-> k])
    /\ UNCHANGED <<users, dumps, snap, newer, start, table, meta, todo, names, pos, fd, left, arch,
                   done, warned, clash, stale, restorer>>

DirMember(p, dump, r) ==
    [t |-> "dir", name |-> p, dump |-> IF dump = Null THEN <<>> ELSE dump, renames |-> r, data |-> 0]
FileMember(p, data) == [t |-> "file", name |-> p, dump |-> <<>>, renames |-> <<>>, data |-> data]

\* dump_file for a name of the list; a directory that could not be scanned
\* has no dumpdir, and dump_dir0 writes its files and no header.
DumpName ==
    LET n == names[pos]
        r == IF pos = 1 THEN renames ELSE <<>>
        files == SetToSeq({q \in Under(fs, n.name) : IsFile(fs, q)})
    IN  /\ phase = "dirs" /\ pos <= Len(names)
        /\ arch' = arch \o
             (IF IsDir(fs, n.name) /\ n.dir # 0 THEN <<DirMember(n.name, table[n.dir].dump, r)>>
              ELSE IF IsDir(fs, n.name) THEN [j \in DOMAIN files |-> FileMember(files[j], fs[files[j]].data)]
              ELSE IF IsFile(fs, n.name) /\ Changed(fs[n.name])
              THEN <<FileMember(n.name, fs[n.name].data)>> ELSE <<>>)
        /\ pos' = pos + 1
        /\ warned' = (warned \/ n.name \notin DOMAIN fs)
        /\ UNCHANGED <<users, phase, dumps, snap, newer, start, table, meta, todo, names, renames, fd,
                       left, done, clash, stale, restorer>>

DumpedOf(k) == IF k = 0 THEN <<>> ELSE SelectSeq(table[k].dump, LAMBDA e : e.c = "Y")

\* The second loop of create_archive starts, or goes to the next name.
NextName ==
    /\ \/ phase = "dirs" /\ pos > Len(names) /\ pos' = 1
       \/ phase = "files" /\ left = <<>> /\ pos < Len(names) /\ pos' = pos + 1
    /\ phase' = "files" /\ fd' = 0 /\ left' = DumpedOf(names[pos'].dir)
    /\ UNCHANGED <<users, dumps, snap, newer, start, table, meta, todo, names, renames, arch, done,
                   warned, clash, stale, restorer>>

\* One file of the second loop.  The directory is opened by its name for the
\* first, and the others are looked up in what was opened.  If the entry has
\* become a directory it is dumped with the listing of its parent.
DumpEntry ==
    LET n == names[pos].name
        i == IF fd # 0 THEN fd ELSE IF IsDir(fs, n) THEN fs[n].ino ELSE 0
        now == {q \in DOMAIN fs : fs[q].dir /\ fs[q].ino = i}
        e == Head(left).n
        p == Append(CHOOSE q \in now : TRUE, e)
    IN  /\ phase = "files" /\ left # <<>>
        /\ fd' = i
        /\ left' = IF i = 0 THEN <<>> ELSE Tail(left)
        /\ arch' = IF i = 0 \/ now = {} THEN arch
                   ELSE IF IsFile(fs, p) THEN Append(arch, FileMember(Append(n, e), fs[p].data))
                   ELSE IF IsDir(fs, p)
                   THEN Append(arch, DirMember(Append(n, e), table[names[pos].dir].dump,
                                               IF pos = 1 THEN renames ELSE <<>>))
                   ELSE arch
        /\ warned' = (warned \/ i = 0 \/ now = {} \/ p \notin DOMAIN fs)
        /\ UNCHANGED <<users, phase, dumps, snap, newer, start, table, meta, todo, names, renames, pos,
                       done, clash, stale, restorer>>

\* write_eot and close_archive.
CloseArchive ==
    /\ phase = "files" /\ left = <<>> /\ pos >= Len(names)
    /\ phase' = "save"
    /\ done' = IF snap = NoSnap THEN <<arch>> ELSE Append(done, arch)
    /\ UNCHANGED <<users, dumps, snap, newer, start, table, meta, todo, names, renames, pos, fd, left,
                   arch, warned, clash, stale, restorer>>

\* write_directory_file_entry.
Saved(e) == [name |-> e.name, ino |-> e.ino,
             dump |-> IF e.dump = Null THEN <<>> ELSE SelectSeq(e.dump, LAMBDA x : x.c \in {"Y", "N", "D"})]
Found == SelectSeq(table, LAMBDA e : e.found)
Snapshot == [v |-> 2, start |-> start, dirs |-> [k \in DOMAIN Found |-> Saved(Found[k])]]

\* The process ends.
Exits ==
    /\ phase' = "idle"
    /\ table' = <<>> /\ meta' = {} /\ todo' = <<>> /\ names' = <<>> /\ renames' = <<>> /\ pos' = 1
    /\ fd' = 0 /\ left' = <<>> /\ arch' = <<>> /\ newer' = -1 /\ start' = 0
    /\ UNCHANGED <<sc, fs, clock, ops, dumps, done, warned, clash, stale, restorer>>

\* write_directory_file.
Save ==
    /\ phase = "save"
    /\ snap' = Snapshot
    /\ Exits
    /\ UNCHANGED quiet

\* tar is killed: before the archive is complete, when the snapshot is the
\* old one or, in a full backup, was emptied by read_directory_file; or
\* while it writes the snapshot, which then ends early.
Crash ==
    /\ sc.kills
    /\ \/ phase \in {"scan", "dirs", "files"} /\ snap' = snap /\ quiet' = FALSE
       \/ /\ phase = "save" /\ quiet' = quiet
          /\ \/ snap' \in {NoSnap, Broken}
             \/ snap' = [Snapshot EXCEPT !.dirs = Front(@)]
    /\ Exits

\* The last backup was made by an older tar, with a snapshot of version 1.
OldSnapshot ==
    /\ sc.kills /\ phase = "idle" /\ snap.v = 2
    /\ snap' = [snap EXCEPT !.v = 1]
    /\ UNCHANGED <<users, phase, dumps, newer, start, table, meta, todo, names, renames, pos, fd, left,
                   arch, done, warned, clash, stale, restorer>>

-----------------------------------------------------------------------------
(* Restoration.                                                            *)

BeginRestore ==
    /\ phase = "idle" /\ done # <<>> /\ quiet
    /\ phase' = "restore"
    /\ disk' = Empty /\ at' = [a |-> 1, i |-> 1] /\ failed' = FALSE
    /\ UNCHANGED <<users, dumper>>

DirNode == [dir |-> TRUE, data |-> 0]

\* rename_directory, with make_directories for the parent of the target.
Renamable(f, r) ==
    /\ IsDir(f, r.from) /\ ~IsPrefix(r.from, r.to)
    /\ r.to \in DOMAIN f => f[r.to].dir /\ Under(f, r.to) = {r.to}
    /\ \A j \in 0 .. Len(r.to) - 1 : ~IsFile(f, SubSeq(r.to, 1, j))

WithParents(f, p) ==
    LET new == {SubSeq(p, 1, j) : j \in 0 .. Len(p) - 1} \ DOMAIN f IN
    [q \in DOMAIN f \cup new |-> IF q \in new THEN DirNode ELSE f[q]]

\* The renames of purge_directory: the first that fails ends it.
DoRenames(f, rs) ==
    FoldLeft(LAMBDA s, r : IF s.ok /\ Renamable(s.f, r)
                           THEN [s EXCEPT !.f = Moved(WithParents(s.f, r.to), r.from, r.to)]
                           ELSE [s EXCEPT !.ok = FALSE],
             [f |-> f, ok |-> TRUE], rs)

\* Altered: an entry that is not listed is kept.
PurgedRetyped(f, d, before, dump) ==
    {Append(d, n) : n \in {b \in ToSet(before) :
       \E j \in DOMAIN dump : /\ dump[j].n = b
                             /\ \/ dump[j].c = "D" /\ IsFile(f, Append(d, b))
                                \/ dump[j].c = "Y" /\ IsDir(f, Append(d, b))}}

\* The deletes: what is not listed, or has another type.
Purged(f, d, before, dump) ==
    {Append(d, n) : n \in {b \in ToSet(before) :
       \A j \in DOMAIN dump : dump[j].n = b =>
         \/ dump[j].c \notin {"Y", "N", "D"}
         \/ dump[j].c = "D" /\ IsFile(f, Append(d, b))
         \/ dump[j].c = "Y" /\ IsDir(f, Append(d, b))}}

\* purge_directory: [f, ok].
Purge(f, m) ==
    LET r == DoRenames(f, m.renames)
        gone == UNION {Under(r.f, p) : p \in Purged(r.f, m.name, Listing(f, m.name), m.dump)}
    IN  IF ~IsDir(f, m.name) THEN [f |-> f, ok |-> TRUE]
        ELSE IF ~r.ok THEN r
        ELSE [f |-> Without(r.f, gone), ok |-> TRUE]

\* extract_dir and extract_file, which replace a file, or a directory that is
\* empty, and make missing directories.
ExtractMember ==
    LET m == done[at.a][at.i]
        s == IF m.t = "dir" THEN Purge(disk, m) ELSE [f |-> disk, ok |-> TRUE]
        p == m.name
        blocked == \/ \E j \in 0 .. Len(p) - 1 : IsFile(s.f, SubSeq(p, 1, j))
                   \/ m.t = "file" /\ IsDir(s.f, p) /\ Under(s.f, p) # {p}
    IN  /\ phase = "restore" /\ at.i <= Len(done[at.a])
        /\ disk' = IF blocked THEN s.f
                   ELSE With(WithParents(s.f, p), p, IF m.t = "dir" THEN DirNode
                                                     ELSE [dir |-> FALSE, data |-> m.data])
        /\ failed' = (failed \/ ~s.ok \/ blocked)
        /\ at' = [at EXCEPT !.i = @ + 1]
        /\ UNCHANGED <<users, phase, dumper>>

NextArchive ==
    /\ phase = "restore" /\ at.i > Len(done[at.a])
    /\ at' = [a |-> at.a + 1, i |-> 1]
    /\ phase' = IF at.a = Len(done) THEN "over" ELSE "restore"
    /\ UNCHANGED <<users, dumper, disk, failed>>

Over == /\ phase = "over" \/ (phase = "idle" /\ dumps = sc.dumps)
        /\ UNCHANGED vars

Init ==
    /\ sc \in Scenarios /\ fs = sc.tree
    /\ clock = 0 /\ ops = 0 /\ dumps = 0 /\ phase = "idle" /\ quiet = FALSE
    /\ snap = NoSnap /\ newer = -1 /\ start = 0 /\ table = <<>> /\ meta = {}
    /\ todo = <<>> /\ names = <<>> /\ renames = <<>> /\ pos = 1 /\ fd = 0 /\ left = <<>>
    /\ arch = <<>> /\ done = <<>> /\ clash = FALSE /\ stale = 0 /\ warned = FALSE
    /\ disk = Empty /\ at = [a |-> 1, i |-> 1] /\ failed = FALSE

Dumper == \/ ScanDirectory \/ AppendRenames \/ DumpName \/ NextName \/ DumpEntry \/ CloseArchive
          \/ Save

Restorer == ExtractMember \/ NextArchive

Next == \/ WriteFile \/ MakeDir \/ Delete \/ Rename \/ Swap \/ Begin \/ Dumper \/ Crash \/ OldSnapshot
        \/ BeginRestore \/ Restorer \/ Over

Spec == Init /\ [][Next]_vars
-----------------------------------------------------------------------------

Archived(p) == \E i \in DOMAIN arch : arch[i] = FileMember(p, fs[p].data)

\* A backup during which nothing changed contains every file changed since
\* the start of the one before it (scan_directory), unless procdir took a
\* directory for another one.
ChangedDumped ==
    phase = "save" /\ quiet /\ ~clash =>
      \A p \in DOMAIN fs : IsFile(fs, p) /\ fs[p].time >= newer => Archived(p)

Same == /\ DOMAIN disk = DOMAIN fs
        /\ \A p \in DOMAIN fs : disk[p].dir = fs[p].dir /\ disk[p].data = fs[p].data

\* procdir has mistaken a directory for another one, without a diagnostic: it
\* found the entry of a directory whose recorded name dirlist_replace_prefix had
\* changed, and skipped it (clash); or a backup was made with a snapshot where a
\* directory moved to a known name still has the inode number of the one that
\* had this name before (stale).
Mistaken == clash \/ stale = 2

\* When nothing changed during the last backup, all backups restored in turn
\* give the tree back exactly, whatever was changed during the earlier ones,
\* whichever were cut short, and whichever inode numbers were used again: or one
\* of the backups, or the restoration, has complained (purge_directory), or
\* procdir was Mistaken.  In that last case the restored tree may silently be
\* another one, which is not what the manual promises (see RestoresExactly).
ExactOrDiagnosed == phase = "over" /\ ~Mistaken => Same \/ warned \/ failed

\* A directory was renamed to the name of one that an earlier backup has and
\* that was not itself renamed, or was moved out of a directory that was
\* renamed.
Tangled ==
    \E a \in DOMAIN done : \E i \in DOMAIN done[a] :
      LET rs == ToSet(done[a][i].renames) IN
      \E r \in rs :
        \/ /\ \E b \in 1 .. a - 1 : \E l \in DOMAIN done[b] : done[b][l].name = r.to
           /\ \A q \in rs : q.from # r.to
        \/ \E q \in rs : q.to # r.from /\ IsPrefix(q.to, r.from)

\* The renames that a backup asks for (append_incremental_renames) can be
\* done, in the order they are listed, on the tree that the backups before it
\* restore, unless they are tangled or a backup has complained.
RenamesPossible == failed => warned \/ Tangled

\* doc/tar.texi says that restoring from all backups in turn gives "the exact
\* contents the file system had when the last level was created".  procdir
\* keeps the old inode numbers of two known directories that have changed
\* names, so that the next backup renames them again: this is ExactOrDiagnosed
\* without its exception, and TLC refutes it.
RestoresExactly == phase = "over" /\ ~warned /\ ~failed => Same
=============================================================================
