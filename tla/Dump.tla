-------------------------------- MODULE Dump --------------------------------
(***************************************************************************)
(* tar -c of a tree that its users change (create.c: dump_file0, dump_dir, *)
(* dump_regular_file, the table of hard links), with a limited number of   *)
(* file descriptors: an ancestor's is closed when they run out             *)
(* (open_failure_recover) and opened again through ".." on the way back    *)
(* (restore_parent_fd).                                                    *)
(*                                                                         *)
(* A name is looked up twice (fstatat and openat) and a file is read block *)
(* by block, with the users' steps between; every change has its own time  *)
(* stamp and inode numbers are not used again.  A directory is listed in   *)
(* any order.                                                              *)
(***************************************************************************)
EXTENDS Integers, Sequences, FiniteSetsExt

CONSTANTS
    Scenarios   \* [fs, names, excluded, fds, newer, ops, new]: the tree (inode
                \* to node), the arguments, the excluded names, the
                \* descriptors, --newer, the number of changes, and the names
                \* that they use

IsNode(x) == x \in [t : {x.t}, kids : {x.kids}, mtime : Int, data : Seq(Int)]

\* The arguments are names, which are numbers.  In the first tree inodes are
\* numbered from 1, every name leads to one of them, and nothing is younger
\* than the start of tar.
ASSUME ScenariosAssumption ==
    \A s \in Scenarios :
        /\ s.newer \in Int /\ s.names \in Seq(Nat)
        /\ IsFiniteSet(DOMAIN s.fs) /\ DOMAIN s.fs = 1 .. Cardinality(DOMAIN s.fs) /\ 1 \in DOMAIN s.fs
        /\ s.fs = [i \in DOMAIN s.fs |-> s.fs[i]]
        /\ \A i \in DOMAIN s.fs :
             /\ IsNode(s.fs[i]) /\ s.fs[i].mtime <= 0
             /\ IsFiniteSet(DOMAIN s.fs[i].kids)
             /\ \A n \in DOMAIN s.fs[i].kids : s.fs[i].kids[n] \in DOMAIN s.fs

VARIABLES
    sc,      \* the scenario
    fs,      \* inode number -> node; 1 is the working directory
    ops,     \* changes made
    todo,    \* arguments still to be dumped
    stack,   \* the directories being dumped: struct tar_stat_info
    cur,     \* the file being dumped
    table,   \* link_table
    arch,    \* the members written
    status,  \* exit_status
    aborted, \* file_count_links has called abort
    touched  \* the entries <<directory, name>> changed since the start

users == <<sc, fs, ops, touched>>
vars == <<users, todo, stack, cur, table, arch, status, aborted>>

Shut == 0
Gone == -1    \* - ENOENT
Bad == -2     \* the negative of another errno
Stderr == -3  \* file descriptor 2
None == [step |-> "none"]
Max2(a, b) == IF a > b THEN a ELSE b

IsDir(i) == fs[i].t = "dir"
Lookup(d, n) == IF n \in DOMAIN fs[d].kids THEN fs[d].kids[n] ELSE 0
Dirs == {i \in DOMAIN fs : IsDir(i)}
Parents(i) == {d \in Dirs : \E n \in DOMAIN fs[d].kids : fs[d].kids[n] = i}
Nlink(i) == Cardinality({dn \in UNION {{<<d, n>> : n \in DOMAIN fs[d].kids} : d \in Dirs} :
                           fs[dn[1]].kids[dn[2]] = i})
Live == {d \in Dirs : d = 1 \/ Parents(d) # {}}
Resolve(path) ==
    LET to[k \in 0 .. Len(path)] ==
          IF k = 0 THEN 1
          ELSE LET i == to[k - 1] IN IF i # 0 /\ IsDir(i) THEN Lookup(i, path[k]) ELSE 0
    IN  to[Len(path)]
Front(s) == SubSeq(s, 1, Len(s) - 1)

-----------------------------------------------------------------------------
(* Users.                                                                  *)

Now == ops + 1
Changes(f, who) ==
    /\ todo # <<>> \/ stack # <<>> \/ cur # None
    /\ ops < sc.ops
    /\ ops' = ops + 1
    /\ fs' = f
    /\ touched' = touched \cup who
    /\ UNCHANGED <<sc, todo, stack, cur, table, arch, status, aborted>>

WithKid(f, d, n, i) ==
    [f EXCEPT ![d].kids = [x \in DOMAIN @ \cup {n} |-> IF x = n THEN i ELSE @[x]], ![d].mtime = Now]
WithoutKid(f, d, n) == [f EXCEPT ![d].kids = [x \in DOMAIN @ \ {n} |-> @[x]], ![d].mtime = Now]

WriteBlock ==
    \E i \in DOMAIN fs : \E b \in 1 .. Len(fs[i].data) + 1 :
      /\ fs[i].t = "file"
      /\ Changes([fs EXCEPT ![i].mtime = Now,
                            ![i].data = IF b > Len(@) THEN Append(@, Now) ELSE [@ EXCEPT ![b] = Now]],
                 {})

Truncate == \E i \in DOMAIN fs :
              fs[i].data # <<>> /\ Changes([fs EXCEPT ![i].mtime = Now, ![i].data = <<>>], {})

Unlink ==
    \E d \in Dirs : \E n \in DOMAIN fs[d].kids :
      LET i == fs[d].kids[n] IN
      /\ IsDir(i) => DOMAIN fs[i].kids = {}
      /\ Changes(WithoutKid(fs, d, n), {<<d, n>>})

Above(d) ==
    LET up[k \in 0 .. Cardinality(Dirs)] ==
          IF k = 0 THEN {d} ELSE LET S == up[k - 1] IN S \cup UNION {Parents(i) : i \in S}
    IN  up[Cardinality(Dirs)]

\* rename, also over an existing file.
Rename ==
    \E d \in Dirs, e \in Live : \E n \in DOMAIN fs[d].kids, m \in sc.new :
      LET i == fs[d].kids[n] IN
      /\ <<d, n>> # <<e, m>> /\ i \notin Above(e)
      /\ Lookup(e, m) # 0 => ~IsDir(i) /\ ~IsDir(Lookup(e, m))
      /\ Changes(WithKid(WithoutKid(fs, d, n), e, m, i), {<<d, n>>, <<e, m>>})

Link ==
    \E d \in Dirs, e \in Live : \E n \in DOMAIN fs[d].kids, m \in sc.new \ DOMAIN fs[e].kids :
      LET i == fs[d].kids[n] IN
      /\ ~IsDir(i)
      /\ Changes(WithKid(fs, e, m, i), {<<e, m>>})

\* A new file or directory takes the place of a name or is new.
Create ==
    \E d \in Live, n \in sc.new, t \in {"file", "dir", "lnk"} :
      LET i == Max(DOMAIN fs) + 1
          node == [t |-> t, kids |-> [x \in {} |-> 0], mtime |-> Now,
                   data |-> IF t = "file" THEN <<Now>> ELSE <<>>]
      IN  /\ Lookup(d, n) # 0 => ~IsDir(Lookup(d, n))
          /\ Changes(WithKid([x \in DOMAIN fs \cup {i} |-> IF x = i THEN node ELSE fs[x]], d, n, i),
                     {<<d, n>>})

-----------------------------------------------------------------------------
(* Descriptors and the directory chain.                                    *)

Depth == Len(stack)
TopLevel == stack = <<>>
ParentFd == IF TopLevel THEN 1 ELSE stack[Depth].fd
OpenFds(s) == Cardinality({k \in DOMAIN s : s[k].fd > 0})

\* open_failure_recover: the open ancestor closest to the root, but not the
\* directory itself or its parent.
OpenFailureRecover(s) ==
    LET held(fd) == fd > 0 \/ fd = Stderr
        free == {p \in 1 .. Len(s) - 2 : held(s[p].fd) /\ (p = 1 \/ ~held(s[p - 1].fd))}
    IN  IF free = {} THEN s ELSE [s EXCEPT ![Max(free)].fd = Shut]

\* subfile_open, as to descriptors.
Recovered == IF OpenFds(stack) < sc.fds THEN stack ELSE OpenFailureRecover(stack)

\* The directory that name has, if it is the parent's: else the errno.
ByName(p, errno) == IF Resolve(p.path) = p.ino THEN p.ino ELSE errno

\* Altered: the directory found through ".." is not compared.
RestoreAnyParent(p, fd) ==
    LET up == IF fd > 0 THEN Parents(fd) ELSE {} IN
    IF p.fd # Shut THEN p.fd
    ELSE IF fd <= 0 THEN ByName(p, Bad)
    ELSE IF up = {} THEN ByName(p, Gone)
    ELSE CHOOSE u \in up : TRUE

\* restore_parent_fd: the descriptor of p after its subdirectory fd.  An
\* impostor gives IMPOSTOR_ERRNO, which is 2 and not negative.
RestoreParentFd(p, fd) ==
    LET up == IF fd > 0 THEN Parents(fd) ELSE {} IN
    IF p.fd # Shut THEN p.fd
    ELSE IF fd <= 0 THEN ByName(p, Bad)
    ELSE IF up = {} THEN ByName(p, Gone)
    ELSE IF p.ino \in up THEN p.ino ELSE Stderr

-----------------------------------------------------------------------------
(* dump_file0.                                                             *)

\* file_removed_diag, for an errno that is ENOENT or not.
FileRemovedDiag(enoent) == Max2(status, IF enoent /\ ~TopLevel THEN 1 ELSE 2)

Stat(i) == [ino |-> i, t |-> fs[i].t, mtime |-> fs[i].mtime, size |-> Len(fs[i].data), nlink |-> Nlink(i)]
Current(step, n, path, fd, i) ==
    [step |-> step, n |-> n, path |-> path, fd |-> fd, st |-> Stat(i), orig |-> fs[i].data, got |-> <<>>]

\* file_dumpable_p: an empty file need not be opened.
FileDumpable(i) == IsDir(i) \/ (fs[i].t \in {"file", "archive"} /\ fs[i].data # <<>>)

\* fstatat on the name n of the parent directory.
StatName(n, path) ==
    LET i == IF ParentFd > 0 THEN Lookup(ParentFd, n) ELSE 0 IN
    IF n \in sc.excluded THEN cur' = None /\ status' = status
    ELSE IF ParentFd <= 0 \/ i = 0
    THEN cur' = None /\ status' = FileRemovedDiag(ParentFd = Gone \/ (ParentFd > 0 /\ i = 0))
    ELSE /\ cur' = Current(IF FileDumpable(i) THEN "open" ELSE "head", n, path, FALSE, i)
         /\ status' = status

\* create_archive's loop over the arguments.
NextName ==
    /\ TopLevel /\ cur = None /\ todo # <<>>
    /\ StatName(Head(todo), <<Head(todo)>>)
    /\ todo' = Tail(todo)
    /\ UNCHANGED <<users, stack, table, arch, aborted>>

\* dump_dir0's loop over the entries.
NextEntry ==
    /\ ~TopLevel /\ cur = None
    /\ \E n \in stack[Depth].left :
         /\ StatName(n, Append(stack[Depth].path, n))
         /\ stack' = [stack EXCEPT ![Depth].left = @ \ {n}]
    /\ UNCHANGED <<users, todo, table, arch, aborted>>

\* subfile_open and fstat.  A directory that was closed leaves a descriptor
\* free, also when it had descriptor 2.
Open ==
    LET i == Lookup(ParentFd, cur.n)
        full == OpenFds(stack) >= sc.fds /\ Recovered = stack
        fails == i = 0 \/ full \/ fs[i].t = "lnk"
    IN  /\ cur.step = "open"
        /\ stack' = Recovered
        /\ cur' = IF fails THEN None ELSE Current("head", cur.n, cur.path, TRUE, i)
        /\ status' = IF fails THEN FileRemovedDiag(i = 0 /\ ~full) ELSE status
        /\ UNCHANGED <<users, todo, table, arch, aborted>>

Member(t, data, target) ==
    [t |-> t, path |-> cur.path, ino |-> cur.st.ino, par |-> ParentFd, data |-> data, orig |-> cur.orig,
     target |-> target]

\* trivial_link_count, which create_archive computes from the arguments.
Trivial == IF Len(sc.names) > 1 THEN 0 ELSE 1

\* The condition of dump_hard_link.
Linked == cur.st.t # "dir" /\ Trivial < cur.st.nlink /\ cur.st.ino \in DOMAIN table

\* Altered: the first of the links is not counted.
CountLinksAll ==
    IF Trivial < cur.st.nlink
    THEN /\ aborted' = (cur.st.ino \in DOMAIN table)
         /\ table' = [i \in DOMAIN table \cup {cur.st.ino} |->
                        IF i = cur.st.ino THEN [name |-> cur.path, nlink |-> cur.st.nlink] ELSE table[i]]
    ELSE UNCHANGED <<aborted, table>>

\* file_count_links.
FileCountLinks ==
    IF Trivial < cur.st.nlink
    THEN /\ aborted' = (cur.st.ino \in DOMAIN table)
         /\ table' = [i \in DOMAIN table \cup {cur.st.ino} |->
                        IF i = cur.st.ino THEN [name |-> cur.path, nlink |-> cur.st.nlink - 1]
                        ELSE table[i]]
    ELSE UNCHANGED <<aborted, table>>

\* Altered: a file as old as the date is too old.
SkippedEqual == \/ cur.st.t # "dir" /\ cur.st.mtime <= sc.newer
                \/ cur.st.t \in {"sock", "archive"}

\* Too old for --newer, the archive itself (sys_file_is_archive), or a socket.
Skipped == \/ cur.st.t # "dir" /\ cur.st.mtime < sc.newer
           \/ cur.st.t \in {"sock", "archive"}

Skip ==
    /\ cur.step = "head" /\ Skipped
    /\ cur' = None
    /\ UNCHANGED <<users, todo, stack, table, arch, status, aborted>>

\* dump_hard_link.
DumpHardLink ==
    /\ cur.step = "head" /\ ~Skipped /\ Linked
    /\ arch' = Append(arch, Member("link", <<>>, table[cur.st.ino].name))
    /\ table' = [table EXCEPT ![cur.st.ino].nlink = IF @ > 0 THEN @ - 1 ELSE @]
    /\ cur' = None
    /\ UNCHANGED <<users, todo, stack, status, aborted>>

\* dump_dir: get_directory_entries and the header of dump_dir0.
DumpDir ==
    /\ cur.step = "head" /\ cur.st.t = "dir"
    /\ arch' = Append(arch, Member("dir", <<>>, <<>>))
    /\ stack' = Append(stack, [ino |-> cur.st.ino, path |-> cur.path, fd |-> cur.st.ino,
                               left |-> DOMAIN fs[cur.st.ino].kids, mtime |-> cur.st.mtime])
    /\ cur' = None
    /\ UNCHANGED <<users, todo, table, status, aborted>>

\* A symbolic link, whose target is read by its name, or a special file.
DumpOther ==
    LET i == IF ParentFd > 0 THEN Lookup(ParentFd, cur.n) ELSE 0
        fails == cur.st.t = "lnk" /\ (i = 0 \/ fs[i].t # "lnk")
    IN  /\ cur.step = "head" /\ ~Skipped /\ ~Linked /\ cur.st.t \in {"lnk", "fifo"}
        /\ IF fails THEN status' = FileRemovedDiag(i = 0) /\ UNCHANGED <<arch, table, aborted>>
           ELSE /\ arch' = Append(arch, Member(cur.st.t, <<>>, <<>>))
                /\ IF cur.st.t = "lnk" THEN FileCountLinks ELSE UNCHANGED <<table, aborted>>
                /\ UNCHANGED status
        /\ cur' = None
        /\ UNCHANGED <<users, todo, stack>>

StartFile ==
    /\ cur.step = "head" /\ ~Skipped /\ ~Linked /\ cur.st.t = "file"
    /\ cur' = [cur EXCEPT !.step = "read"]
    /\ UNCHANGED <<users, todo, stack, table, arch, status, aborted>>

\* One block of dump_regular_file.
ReadBlock ==
    /\ cur.step = "read" /\ Len(cur.got) < cur.st.size /\ Len(cur.got) < Len(fs[cur.st.ino].data)
    /\ cur' = [cur EXCEPT !.got = Append(@, fs[cur.st.ino].data[Len(@) + 1])]
    /\ UNCHANGED <<users, todo, stack, table, arch, status, aborted>>

\* The file shrank: it is padded with zeros.
Shrank ==
    /\ cur.step = "read" /\ Len(cur.got) < cur.st.size /\ Len(cur.got) >= Len(fs[cur.st.ino].data)
    /\ arch' = Append(arch, Member("file", [b \in 1 .. cur.st.size |->
                                              IF b <= Len(cur.got) THEN cur.got[b] ELSE 0], <<>>))
    /\ FileCountLinks
    /\ status' = Max2(status, 1)
    /\ cur' = None
    /\ UNCHANGED <<users, todo, stack>>

\* Altered: only the size is compared.
SameSize(st, i) == st.size = Len(fs[i].data)

\* The file is the same in all attributes that tar cares about.
SameFile(st, i) == st.size = Len(fs[i].data) /\ st.mtime = fs[i].mtime

\* The file was read: fstat and the comparison.
EndFile ==
    /\ cur.step = "read" /\ Len(cur.got) = cur.st.size
    /\ arch' = Append(arch, Member("file", cur.got, <<>>))
    /\ FileCountLinks
    /\ status' = IF ~cur.fd \/ SameFile(cur.st, cur.st.ino) THEN status ELSE Max2(status, 1)
    /\ cur' = None
    /\ UNCHANGED <<users, todo, stack>>

\* The end of dump_dir, and the rest of dump_file0 for the directory.
Ascend ==
    LET d == stack[Depth]
        up == Front(stack)
        changed == d.fd = Stderr \/ (d.fd > 0 /\ fs[d.fd].mtime # d.mtime)
    IN  /\ ~TopLevel /\ cur = None /\ stack[Depth].left = {}
        /\ stack' = IF up = <<>> THEN up
                    ELSE [up EXCEPT ![Depth - 1].fd = RestoreParentFd(up[Depth - 1], d.fd)]
        /\ status' = IF d.fd \in {Gone, Bad}
                     THEN Max2(status, IF d.fd = Gone /\ Depth > 1 THEN 1 ELSE 2)
                     ELSE IF changed THEN Max2(status, 1) ELSE status
        /\ UNCHANGED <<users, todo, cur, table, arch, aborted>>

Done == todo = <<>> /\ TopLevel /\ cur = None
Over == Done /\ UNCHANGED vars

Init ==
    /\ sc \in Scenarios /\ fs = sc.fs /\ todo = sc.names
    /\ ops = 0 /\ stack = <<>> /\ cur = None /\ table = [i \in {} |-> 0] /\ arch = <<>>
    /\ status = 0 /\ aborted = FALSE /\ touched = {}

Tar == \/ NextName \/ NextEntry \/ Open \/ Skip \/ DumpHardLink \/ DumpDir \/ DumpOther \/ StartFile
       \/ ReadBlock \/ Shrank \/ EndFile \/ Ascend

Users == WriteBlock \/ Truncate \/ Unlink \/ Rename \/ Link \/ Create

Next == Tar \/ Users \/ Over

Spec == Init /\ [][Next]_vars
-----------------------------------------------------------------------------

\* file_count_links never finds the file in the table, where it would abort:
\* whatever links are made and removed meanwhile, dump_hard_link has found it.
NoAbort == ~aborted

\* As long as the exit status is 0, every file in the archive has the contents
\* that it had at the time of its header, although it is read in pieces.
Whole == status = 0 => \A k \in DOMAIN arch : arch[k].t = "file" => arch[k].data = arch[k].orig

\* A hard link member names an earlier member, which was the same file.
LinksTrue ==
    \A k \in DOMAIN arch : arch[k].t = "link" =>
      \E j \in 1 .. k - 1 : /\ arch[j].path = arch[k].target /\ arch[j].ino = arch[k].ino
                            /\ arch[j].t \in {"file", "lnk"}

\* What is archived below a directory's name was found in that directory, also
\* after its descriptor was closed and opened again (restore_parent_fd).
NoImpostor ==
    \A k \in DOMAIN arch : Len(arch[k].path) > 1 =>
      \E j \in 1 .. k - 1 : /\ arch[j].t = "dir" /\ arch[j].path = Front(arch[k].path)
                            /\ arch[j].ino = arch[k].par

\* An entry of the first tree that nobody has changed, and that is not left
\* out by --exclude, by --newer or for its type.
Wanted(d, n) ==
    /\ d \in DOMAIN sc.fs /\ n \in DOMAIN sc.fs[d].kids \ sc.excluded /\ <<d, n>> \notin touched
    /\ LET x == sc.fs[sc.fs[d].kids[n]] IN
       x.t \notin {"sock", "archive"} /\ (x.t = "dir" \/ x.mtime >= sc.newer)

AllNames == UNION {DOMAIN sc.fs[i].kids : i \in DOMAIN sc.fs}
Kept(t, old) == t = old \/ (t = "link" /\ old # "dir")
Present(path, i) == \E k \in DOMAIN arch : arch[k].path = path /\ arch[k].ino = i /\ Kept(arch[k].t, sc.fs[i].t)

\* When tar ends with exit status 0, no entry that nobody changed is missing:
\* the arguments are in the archive as what they are, and with each directory
\* all that it holds, so that a file is there when nobody changed its name and
\* those of the directories above it, whatever else was changed and however few
\* descriptors there are (open_failure_recover, restore_parent_fd).
UntouchedArchived ==
    Done /\ status = 0 =>
      /\ \A a \in DOMAIN sc.names :
           Wanted(1, sc.names[a]) => Present(<<sc.names[a]>>, sc.fs[1].kids[sc.names[a]])
      /\ \A k \in DOMAIN arch : arch[k].t = "dir" =>
           \A n \in AllNames :
             Wanted(arch[k].ino, n) => Present(Append(arch[k].path, n), sc.fs[arch[k].ino].kids[n])

\* In the end the table has, for each file with several links, how many of
\* them are missing in the archive: what check_links warns of.
LinksCounted ==
    Done /\ ops = 0 =>
      \A i \in DOMAIN table :
        table[i].nlink = Max2(0, Nlink(i) - Cardinality({k \in DOMAIN arch : arch[k].ino = i}))

\* The table of hard links is right about the archive although links come and
\* go between fstat, dump_hard_link and file_count_links.
LinksSound == NoAbort /\ LinksTrue /\ LinksCounted

\* restore_parent_fd: "On failure, set the file descriptor to the negative of
\* the corresponding errno value."
NegativeOnFailure == \A k \in DOMAIN stack : stack[k].fd # Stderr
=============================================================================
