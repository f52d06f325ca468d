------------------------------ MODULE Extract ------------------------------
(***************************************************************************)
(* Extraction (src/extract.c, with the removal and backup of old files of  *)
(* src/misc.c).  A member is extracted into a small file system; the       *)
(* status of directories is set later, when extraction has left them, and  *)
(* a link that might lead out of the tree is first a placeholder, replaced *)
(* when everything else is done.                                           *)
(*                                                                         *)
(* A file name is a sequence of components, <<>> being ".".  A mode is a   *)
(* set of bits: "w", the owner's write bit, and "g", the bits of others,   *)
(* make up MODE_RWX; "s" is a set-ID bit.  Everything is searchable and    *)
(* executable.  The time of a change made now is Now, later than those in  *)
(* the archive.  One working directory (-C is in FdCache).                 *)
(***************************************************************************)
EXTENDS Naturals, SequencesExt

CONSTANTS
    Inputs,   \* records [arch, opt, fs]: members, options, old files
    BackupOf  \* the numbered backup names of a component, in order

VARIABLES
    arch,   \* the members of the archive
    opt,    \* the options, and whether writes of data fall short
    fs,     \* the file system: [tree, node, born]
    was,    \* the file system before tar started (a history variable)
    dss,    \* delayed_set_stat_head, the head first
    links,  \* delayed_link_head, in archive order
    pos,    \* the member being extracted
    pc,     \* where extract_archive or extract_finish is
    err,    \* errno of the attempt that failed
    made,   \* interdir_made
    saw,    \* check_for_renamed_directories
    bak,    \* after_backup_name, <<>> when null
    errors  \* what was diagnosed: members and names of directories

vars == <<arch, was, opt, fs, dss, links, pos, pc, err, made, saw, bak, errors>>

Now == 9
ModeRWX == {"w", "g"}
ModeAll == {"w", "g", "s"}
Umask == {"g"}               \* newdir_umask

m == arch[pos]               \* current_stat_info

-----------------------------------------------------------------------------
(* The file system.  Tree keys are real names; a name given may pass       *)
(* through symbolic links.                                                 *)

Deref(f, p) == IF p \in DOMAIN f.tree /\ f.node[f.tree[p]].kind = "sym"
               THEN f.node[f.tree[p]].body ELSE p

RECURSIVE Real(_, _)
Real(f, p) == IF Len(p) <= 1 THEN p
              ELSE Append(Deref(f, Real(f, Front(p))), Last(p))

Exists(f, p) == Real(f, p) \in DOMAIN f.tree
Ino(f, p) == f.tree[Real(f, p)]
Lstat(f, p) == f.node[Ino(f, p)]
IsDir(f, q) == q \in DOMAIN f.tree /\ f.node[f.tree[q]].kind = "dir"
Names(f, i) == {q \in DOMAIN f.tree : f.tree[q] = i}
Children(f, q) == {c \in DOMAIN f.tree : Len(c) = Len(q) + 1 /\ IsPrefix(q, c)}

\* The name deref_stat looks at: through a final link only with -h.
StatName(f, p) == IF opt.deref THEN Deref(f, Real(f, p)) ELSE Real(f, p)

\* Whether an entry may be made or removed in the directory q.
Writable(f, q) == opt.root \/ "w" \in f.node[f.tree[q]].mode

\* errno of making p: fdbase opens the parent, then mkdirat and its like.
MakeErrno(f, p) ==
    LET d == Deref(f, Real(f, Front(p))) IN
    CASE p = <<>> -> "EEXIST"
      [] p # <<>> /\ d \notin DOMAIN f.tree -> "ENOENT"
      [] p # <<>> /\ d \in DOMAIN f.tree /\ ~IsDir(f, d) -> "ENOTDIR"
      [] p # <<>> /\ IsDir(f, d) /\ Exists(f, p) -> "EEXIST"
      [] p # <<>> /\ IsDir(f, d) /\ ~Exists(f, p) ->
           IF Writable(f, d) THEN "ok" ELSE "EACCES"

SetNode(f, i, n) == [f EXCEPT !.node = (i :> n) @@ @]
Touched(f, q) == SetNode(f, f.tree[Front(q)], [f.node[f.tree[Front(q)]] EXCEPT !.time = Now])

\* A new inode takes the lowest free number where the file system reuses
\* them, and a number never used before elsewhere.
NewIno(f) == IF opt.reuse
             THEN CHOOSE i \in 1 .. f.born + 1 : Names(f, i) = {}
                    /\ \A j \in 1 .. i - 1 : Names(f, j) # {}
             ELSE f.born + 1

Make(f, p, kind, mode, body) ==
    LET i == NewIno(f)
        n == [kind |-> kind, mode |-> mode, time |-> Now, body |-> body,
              birth |-> f.born + 1]
    IN  Touched([tree |-> (Real(f, p) :> i) @@ f.tree, node |-> (i :> n) @@ f.node,
                 born |-> f.born + 1], Real(f, p))

LinkTo(f, i, p) == Touched([f EXCEPT !.tree = (Real(f, p) :> i) @@ @], Real(f, p))

\* The file system with the entries of t: an inode without a name is freed.
WithTree(f, t) == [f EXCEPT !.tree = t,
                            !.node = [i \in {t[q] : q \in DOMAIN t} |-> f.node[i]]]
Minus(t, q) == [c \in DOMAIN t \ {q} |-> t[c]]

Unlink(f, p) == LET q == Real(f, p) IN Touched(WithTree(f, Minus(f.tree, q)), q)
Renamed(f, q, r) == Touched(WithTree(f, (r :> f.tree[q]) @@ Minus(f.tree, q)), r)

-----------------------------------------------------------------------------
(* Setting the status of a file.                                           *)

SamePermissions == opt.perm \/ opt.root
CurrentUmask == IF SamePermissions THEN {} ELSE Umask

Chmod(f, q, mode) == SetNode(f, f.tree[q], [f.node[f.tree[q]] EXCEPT !.mode = mode])

\* Altered: a chmod is saved whenever the known bits agree.
SetModeSaved(f, q, mode, mask, cmode, cmask) ==
    IF ((cmode \ mode) \cup (mode \ cmode)) \cap mask = {} THEN f
    ELSE Chmod(f, q, (f.node[f.tree[q]].mode \ mask) \cup (mode \cap mask))

\* set_mode: nothing when the known bits already agree; otherwise the bits
\* outside the mask stay as they are.
SetMode(f, q, mode, mask, cmode, cmask) ==
    LET differ == (cmode \ mode) \cup (mode \ cmode) \cup (ModeAll \ cmask)
        old == IF ModeAll \subseteq mask \cap cmask THEN cmode
               ELSE f.node[f.tree[q]].mode
    IN  IF differ \cap mask = {} THEN f
        ELSE Chmod(f, q, (old \ mask) \cup (mode \cap mask))

\* set_stat on the existing file q: the time, the owner (which takes the
\* set-ID bit of a file away), the mode.
SetStat(f, q, st, cmode, cmask, inter) ==
    LET n  == f.node[f.tree[q]]
        f1 == IF inter THEN f ELSE SetNode(f, f.tree[q], [n EXCEPT !.time = st.time])
        chown == opt.root /\ ~inter
        f2 == IF chown /\ n.kind = "file" THEN Chmod(f1, q, n.mode \ {"s"}) ELSE f1
        known == IF chown THEN cmask \ (cmode \cap {"s"}) ELSE cmask
    IN  IF n.kind = "sym" THEN f1
        ELSE SetMode(f2, q, st.mode \ CurrentUmask,
                     IF SamePermissions /\ ~inter THEN ModeAll ELSE ModeRWX,
                     cmode, known)

-----------------------------------------------------------------------------
(* The list of delayed statuses.                                           *)

\* mark_metadata_set from the k-th entry on.
MarkMetadataSet(f, d, k) ==
    LET last == SelectInSubSeq(d, k, Len(d), LAMBDA x : x.set)
        upto == IF last = 0 THEN Len(d) ELSE last - 1
        Mark(x) == [x EXCEPT !.set = TRUE,
                             !.ino = IF StatName(f, x.name) \in DOMAIN f.tree
                                     THEN f.tree[StatName(f, x.name)] ELSE @]
    IN  [j \in 1 .. Len(d) |-> IF k <= j /\ j <= upto THEN Mark(d[j]) ELSE d[j]]

Entry(d, p) == SelectInSeq(d, LAMBDA x : x.name = p)

\* delay_set_stat; the number stored is not an inode's (0) until it is marked.
DelaySetStat(f, d, p, st, inter, cmode, cmask, follow) ==
    LET k  == Entry(d, p)
        i  == IF k # 0 /\ d[k].inter /\ Exists(f, p) THEN Ino(f, p)
              ELSE IF k # 0 THEN d[k].ino ELSE 0
        x  == [name |-> p, ino |-> i, mode |-> st.mode,
               time |-> IF inter /\ k # 0 THEN d[k].time ELSE st.time,
               set |-> k # 0 /\ d[k].set, cmode |-> cmode, cmask |-> cmask,
               inter |-> inter, follow |-> follow]
        d1 == IF k = 0 THEN <<x>> \o d ELSE [d EXCEPT ![k] = x]
    IN  IF p = <<>> THEN MarkMetadataSet(f, d1, IF k = 0 THEN 1 ELSE k) ELSE d1

Without(d, p) == IF Entry(d, p) = 0 THEN d ELSE RemoveAt(d, Entry(d, p))

\* make_directories: the missing ancestors of p, outermost first.
RECURSIVE MakeDirectories(_, _, _)
MakeDirectories(f, d, todo) ==
    IF todo = <<>> THEN [fs |-> f, dss |-> d]
    ELSE LET p == Head(todo)
             mode == ModeRWX \ Umask
             g == Make(f, p, "dir", mode \ CurrentUmask, <<>>)
         IN  MakeDirectories(g, DelaySetStat(g, d, p, [mode |-> mode, time |-> 0],
                                             TRUE, mode \ CurrentUmask, ModeRWX, FALSE),
                             Tail(todo))

MissingAncestors(f, p) ==
    SelectSeq([k \in 1 .. Len(p) - 1 |-> SubSeq(p, 1, k)], LAMBDA q : ~Exists(f, q))

\* remove_any_file: an empty directory or any other file; the whole tree
\* below q, children first, with --recursive-unlink.
Removable(f, p) ==
    /\ Exists(f, p) /\ p # <<>>
    /\ Writable(f, Front(Real(f, p)))
    /\ Children(f, Real(f, p)) = {}

RemoveOne(s, p) == [fs |-> Unlink(s.fs, p),
                    dss |-> IF Lstat(s.fs, p).kind = "dir" THEN Without(s.dss, p)
                            ELSE s.dss]

RECURSIVE RemoveTree(_, _)
RemoveTree(s, p) ==
    LET kids == Children(s.fs, Real(s.fs, p)) IN
    IF kids = {} THEN IF Removable(s.fs, p) THEN RemoveOne(s, p) ELSE s
    ELSE LET c == CHOOSE c \in kids : TRUE
             t == RemoveTree(s, Append(p, Last(c)))
         IN  IF Exists(t.fs, Append(p, Last(c))) THEN t ELSE RemoveTree(t, p)

-----------------------------------------------------------------------------
(* extract_archive, one member.                                            *)

\* Altered: the backup is not undone.
EndMemberNoUndo(f, d, ok) ==
    /\ fs' = f /\ dss' = d /\ bak' = <<>> /\ pos' = pos + 1 /\ pc' = "member"
    /\ made' = FALSE /\ err' = "ok"

\* skip_member, and undo_last_backup after a failure.
EndMember(f, d, ok) ==
    LET q == Real(f, m.name)
        undo == ~ok /\ bak # <<>>
    IN  /\ fs' = IF undo /\ ~IsDir(f, q) THEN Renamed(f, bak, q) ELSE f
        /\ dss' = d
        /\ bak' = <<>>
        /\ pos' = pos + 1
        /\ pc' = "member"
        /\ made' = FALSE
        /\ err' = "ok"

Report(p) == errors' = errors \cup {p}

ReadMember ==
    /\ pc = "member"
    /\ pc' = IF pos > Len(arch) THEN "finish"
             ELSE IF opt.delay THEN "backup" ELSE "flush"
    /\ UNCHANGED <<arch, was, opt, fs, dss, links, pos, err, made, saw, bak, errors>>

\* find_backup_file_name: a number above those in use.
BackupName(f, q) ==
    LET old == {k \in DOMAIN BackupOf[Last(q)] :
                  Append(Front(q), BackupOf[Last(q)][k]) \in DOMAIN f.tree}
    IN  Append(Front(q), BackupOf[Last(q)][Cardinality(old) + 1])

\* maybe_backup_file: only a file that is there and is not a directory.
Backup ==
    LET q == Real(fs, m.name)
        s == StatName(fs, m.name)
        needed == opt.backup /\ s \in DOMAIN fs.tree /\ ~IsDir(fs, s)
    IN  /\ pc = "backup"
        /\ IF needed /\ ~Writable(fs, Front(q))
           THEN EndMember(fs, dss, TRUE) /\ Report(m.name) /\ UNCHANGED links
           ELSE /\ bak' = IF needed THEN BackupName(fs, q) ELSE <<>>
                /\ fs' = IF needed THEN Renamed(fs, q, BackupName(fs, q)) ELSE fs
                /\ pc' = "prepare"
                /\ UNCHANGED <<dss, links, pos, err, made, errors>>
        /\ UNCHANGED <<arch, was, opt, saw>>

\* file_newer_p.
NewerP(f, p) == LET s == StatName(f, p) IN
    s \in DOMAIN f.tree /\ ~IsDir(f, s) /\ m.time <= f.node[f.tree[s]].time

\* prepare_to_extract: members without an extractor; -U; --keep-newer-files.
Prepare ==
    LET all == opt.recursive
        s == [fs |-> fs, dss |-> dss]
        r == IF all THEN RemoveTree(s, m.name)
             ELSE IF Removable(fs, m.name) THEN RemoveOne(s, m.name) ELSE s
        unlinks == opt.old = "unlink" /\ Exists(fs, m.name)
    IN  /\ pc = "prepare"
        /\ opt' = [opt EXCEPT !.delay = @ \/ m.type = "dumpdir"]
        /\ IF m.type = "none" \/ (opt.old = "newer" /\ NewerP(fs, m.name))
           THEN EndMember(fs, dss, FALSE) /\ UNCHANGED errors
           ELSE IF unlinks /\ Exists(r.fs, m.name)
           THEN EndMember(r.fs, r.dss, FALSE) /\ Report(m.name)
           ELSE /\ fs' = IF unlinks THEN r.fs ELSE fs
                /\ dss' = IF unlinks THEN r.dss ELSE dss
                /\ pc' = "try"
                /\ UNCHANGED <<pos, err, made, bak, errors>>
        /\ UNCHANGED <<arch, was, links, saw>>

Failed(e) == /\ err' = e
             /\ pc' = IF pc = "hold" THEN "recoverhold" ELSE "recover"
             /\ UNCHANGED <<fs, dss, pos, made, bak>>

\* safe_dir_mode.
SafeDirMode == (m.mode \cap (IF SamePermissions THEN {"w"} ELSE ModeRWX))
               \cup (IF opt.root THEN {} ELSE {"w"})

\* Altered: the status of a directory that was there is not set.
AfterDirNew(f, cmode, cmask, follow, ok) ==
    EndMember(f, IF ok THEN DelaySetStat(f, dss, m.name, m, FALSE, cmode, cmask, follow)
                 ELSE dss, ok)

\* What extract_dir does once the loop is left.
AfterDir(f, cmode, cmask, follow, ok) ==
    EndMember(f, IF ok \/ opt.old \in {"default", "overwrite"}
                 THEN DelaySetStat(f, dss, m.name, m, FALSE, cmode, cmask, follow)
                 ELSE dss, ok)

\* update_interdir_set_stat.
UpdateInterdir(d, k) == [d EXCEPT ![k].ino = 0, ![k].mode = m.mode,
                                  ![k].time = m.time, ![k].inter = FALSE]

\* extract_dir; a directory that exists keeps the -1 of mkdirat.
TryDir ==
    LET e == MakeErrno(fs, m.name)
        s == StatName(fs, m.name)
        k == Entry(dss, m.name)
        lax == opt.keepsym \/ opt.old \in {"nodir", "default", "overwrite"}
        linkdir == /\ opt.keepsym
                   /\ m.name # <<>> /\ Lstat(fs, m.name).kind = "sym"
                   /\ IsDir(fs, Deref(fs, Real(fs, m.name)))
        f == Make(fs, m.name, "dir", SafeDirMode \ CurrentUmask, <<>>)
    IN  /\ pc = "try" /\ m.type \in {"dir", "dumpdir"}
        /\ CASE e = "ok" -> AfterDir(f, SafeDirMode \ CurrentUmask, ModeRWX, FALSE, TRUE)
             [] e = "EEXIST" /\ lax /\ linkdir -> EndMember(fs, dss, TRUE)
             [] e = "EEXIST" /\ lax /\ ~linkdir /\ IsDir(fs, s) ->
                  AfterDir(fs, fs.node[fs.tree[s]].mode, ModeAll, TRUE, FALSE)
             [] e = "EEXIST" /\ ~lax /\ k # 0 /\ dss[k].inter ->
                  EndMember(fs, UpdateInterdir(dss, k), TRUE)
             [] e = "EEXIST" /\ ~lax /\ ~(k # 0 /\ dss[k].inter) /\ opt.old = "unlink" ->
                  AfterDir(fs, {}, {}, TRUE, TRUE)
             [] OTHER -> Failed(e)
        /\ UNCHANGED <<arch, was, opt, links, saw, errors>>

FileMode == (m.mode \cap ModeRWX) \ (IF opt.root THEN {"g"} ELSE {})

\* errno of opening an old file to write over it: open_output_file takes
\* nothing but a regular file, and a FIFO nobody reads cannot be opened.
OverErrno(old) ==
    CASE old.kind = "sym" -> "ELOOP"
      [] old.kind = "dir" -> "EISDIR"
      [] old.kind \notin {"sym", "dir"} ->
           IF ~opt.root /\ "w" \notin old.mode THEN "EACCES"
           ELSE IF old.kind = "file" THEN "ok"
           ELSE IF old.body = <<"fifo">> THEN "ENXIO" ELSE "EEXIST"

\* extract_file through open_output_file: exclusive, or over the old file.
\* An old symbolic link is followed only with -h.  When a write of data falls
\* short it is diagnosed and the rest is skipped; the status is set all the
\* same, and the backup is not given back.
TryFile ==
    LET over == opt.old = "overwrite" /\ ~m.xattr
        q == IF over THEN StatName(fs, m.name) ELSE Real(fs, m.name)
        there == q \in DOMAIN fs.tree
        old == fs.node[fs.tree[q]]
        e == IF over /\ there THEN OverErrno(old) ELSE MakeErrno(fs, q)
        mode == (FileMode \cup IF m.xattr THEN {"w"} ELSE {}) \ CurrentUmask
        body == IF opt.short THEN <<"part">> ELSE m.body
        f == IF over /\ there
             THEN SetNode(fs, fs.tree[q], [old EXCEPT !.body = body])
             ELSE Make(fs, q, "file", mode, body)
        known == IF over \/ m.xattr THEN ModeAll ELSE ModeRWX
    IN  /\ pc = "try" /\ m.type = "file"
        /\ IF e # "ok" THEN Failed(e)
           ELSE EndMember(SetStat(f, q, m, f.node[f.tree[q]].mode, known, FALSE),
                          dss, TRUE)
        /\ IF e = "ok" /\ opt.short THEN Report(m.name) ELSE UNCHANGED errors
        /\ UNCHANGED <<arch, was, opt, links, saw>>

\* find_delayed_link_source.
IsPlaceholder(f, p) == Exists(f, p) /\ \E k \in DOMAIN links : links[k].ino = Ino(f, p)

SameBirth(f, p, l) == opt.birth => Lstat(f, p).birth = l.birth

HoldLink == opt.abs \/ opt.deref
HoldBack == CASE m.type = "link" -> /\ HoldLink
                                    /\ (~opt.abs /\ m.out) \/ IsPlaceholder(fs, m.body)
              [] m.type = "sym"  -> ~opt.abs /\ opt.deref /\ m.out
              [] OTHER -> FALSE

Hold ==
    /\ pc = "try" /\ m.type \in {"link", "sym"} /\ HoldBack
    /\ pc' = "hold"
    /\ UNCHANGED <<arch, was, opt, fs, dss, links, pos, err, made, saw, bak, errors>>

\* extract_link; a link to a placeholder becomes one more of its sources.
TryLink ==
    LET e == IF ~Exists(fs, m.body) THEN "ENOENT"
             ELSE IF MakeErrno(fs, m.name) # "ok" THEN MakeErrno(fs, m.name)
             ELSE IF Lstat(fs, m.body).kind = "dir" THEN "EPERM" ELSE "ok"
        same == Exists(fs, m.body) /\ Exists(fs, m.name)
                /\ Ino(fs, m.body) = Ino(fs, m.name)
        k == SelectInSeq(links, LAMBDA l : l.ino = Ino(fs, m.body))
    IN  /\ pc = "try" /\ m.type = "link" /\ ~HoldBack
        /\ links' = IF e = "ok" /\ k # 0 /\ SameBirth(fs, m.body, links[k])
                    THEN [links EXCEPT ![k].sources = <<m.name>> \o @] ELSE links
        /\ IF e = "ok" THEN EndMember(LinkTo(fs, Ino(fs, m.body), m.name), dss, TRUE)
           ELSE IF same \/ (e = "EEXIST" /\ m.body = m.name)
           THEN EndMember(fs, dss, TRUE)
           ELSE Failed(e)
        /\ UNCHANGED <<arch, was, opt, saw, errors>>

\* extract_symlink, extract_node and extract_fifo.
TryOther ==
    LET e == MakeErrno(fs, m.name)
        f == Make(fs, m.name, m.type, FileMode \ CurrentUmask, m.body)
    IN  /\ pc = "try" /\ m.type \in {"sym", "node"} /\ ~HoldBack
        /\ IF e # "ok" THEN Failed(e)
           ELSE EndMember(SetStat(f, Real(f, m.name), m, FileMode \ CurrentUmask,
                                  ModeRWX, FALSE), dss, TRUE)
        /\ UNCHANGED <<arch, was, opt, links, saw, errors>>

\* create_placeholder_file; the directory it is in is marked, so that its
\* status is set after the links are made.
TryPlaceholder ==
    LET e == MakeErrno(fs, m.name)
        f == Make(fs, m.name, "file", {}, <<>>)
        l == [ino |-> Ino(f, m.name), birth |-> f.born, sym |-> m.type = "sym",
              mode |-> m.mode, time |-> m.time, sources |-> <<m.name>>,
              target |-> m.body]
        k == SelectInSeq(dss, LAMBDA x : ~x.set /\ Len(m.name) > 1
                                          /\ x.name = Front(m.name))
    IN  /\ pc = "hold"
        /\ links' = IF e = "ok" THEN Append(links, l) ELSE links
        /\ IF e = "ok"
           THEN EndMember(f, IF k = 0 THEN dss ELSE MarkMetadataSet(f, dss, k), TRUE)
           ELSE IF e = "EEXIST" /\ IsPlaceholder(fs, m.name)
           THEN EndMember(fs, dss, TRUE)
           ELSE Failed(e)
        /\ UNCHANGED <<arch, was, opt, saw, errors>>

\* maybe_recoverable: remove the old file, or make the directories above.
RemovesOld ==
    /\ ~made
    /\ \/ err = "EEXIST"
       \/ err = "ELOOP" /\ m.type = "file" /\ opt.old = "overwrite" /\ ~opt.deref
    /\ opt.old \in {"newer", "default", "nodir", "overwrite"}
    /\ opt.old = "newer" => ~NewerP(fs, m.name)
    /\ Removable(fs, m.name)

MakesParents ==
    LET gone == MissingAncestors(fs, m.name) IN
    /\ ~made /\ ~RemovesOld
    /\ \/ err = "ENOENT"
       \/ err = "EEXIST" /\ opt.old \notin {"skip", "keep"}
    /\ gone # <<>> /\ MakeErrno(fs, gone[1]) = "ok"

Retry == pc' = IF pc = "recoverhold" THEN "hold" ELSE "try"

RecoverByRemoval ==
    LET r == RemoveOne([fs |-> fs, dss |-> dss], m.name) IN
    /\ pc \in {"recover", "recoverhold"} /\ RemovesOld
    /\ fs' = r.fs /\ dss' = r.dss
    /\ Retry
    /\ UNCHANGED <<arch, was, opt, links, pos, err, made, saw, bak, errors>>

\* Altered: interdir_made is not set.
RecoverByMakingAgain ==
    LET r == MakeDirectories(fs, dss, MissingAncestors(fs, m.name)) IN
    /\ pc \in {"recover", "recoverhold"} /\ MakesParents
    /\ fs' = r.fs /\ dss' = r.dss
    /\ Retry
    /\ UNCHANGED <<arch, was, opt, links, pos, err, made, saw, bak, errors>>

RecoverByMaking ==
    LET r == MakeDirectories(fs, dss, MissingAncestors(fs, m.name)) IN
    /\ pc \in {"recover", "recoverhold"} /\ MakesParents
    /\ fs' = r.fs /\ dss' = r.dss
    /\ made' = TRUE
    /\ Retry
    /\ UNCHANGED <<arch, was, opt, links, pos, err, saw, bak, errors>>

\* RECOVER_SKIP and RECOVER_NO.  A directory that cannot be made because
\* something is there is not diagnosed.
GiveUp ==
    LET skip == ~made /\ err = "EEXIST" /\ opt.old = "skip"
        dir == m.type \in {"dir", "dumpdir"} /\ err = "EEXIST"
        s == StatName(fs, m.name)
        known == s \in DOMAIN fs.tree
    IN  /\ pc \in {"recover", "recoverhold"} /\ ~RemovesOld /\ ~MakesParents
        /\ IF dir THEN AfterDir(fs, IF known THEN fs.node[fs.tree[s]].mode ELSE {},
                                 IF known THEN ModeAll ELSE {}, TRUE, FALSE)
           ELSE EndMember(fs, dss, skip)
        /\ IF skip \/ dir THEN UNCHANGED errors ELSE Report(m.name)
        /\ UNCHANGED <<arch, was, opt, links, saw>>

-----------------------------------------------------------------------------
(* apply_nonancestor_delayed_set_stat: before a member, at the end for the *)
(* ordinary directories, and after the links for those that hold one.      *)

\* Altered: the directories above the member are not spared.
StopsAtSet(x) == pc # "finishlinks" /\ x.set

Stops(x) == IF pc = "flush" THEN x.set \/ IsStrictPrefix(x.name, m.name)
            ELSE pc = "finish" /\ x.set

ApplyDelayedSetStat ==
    LET x == Head(dss)
        q == IF x.follow THEN Deref(fs, Real(fs, x.name)) ELSE Real(fs, x.name)
        check == saw \/ x.set
        ok == q \in DOMAIN fs.tree /\ (check => fs.tree[q] = x.ino)
    IN  /\ pc \in {"flush", "finish", "finishlinks"}
        /\ dss # <<>> /\ ~Stops(x)
        /\ saw' = check
        /\ fs' = IF ~ok THEN fs
                 ELSE SetStat(fs, q, x, IF check THEN fs.node[fs.tree[q]].mode ELSE x.cmode,
                              IF check THEN ModeAll ELSE x.cmask, x.inter)
        /\ IF ok THEN UNCHANGED errors ELSE Report(x.name)
        /\ dss' = Tail(dss)
        /\ UNCHANGED <<arch, was, opt, links, pos, pc, err, made, bak>>

ApplyDelayedEnd ==
    /\ pc \in {"flush", "finish", "finishlinks"}
    /\ dss # <<>> => Stops(Head(dss))
    /\ saw' = FALSE
    /\ pc' = CASE pc = "flush" -> "backup" [] pc = "finish" -> "links"
               [] pc = "finishlinks" -> "done"
    /\ UNCHANGED <<arch, was, opt, fs, dss, links, pos, err, made, bak, errors>>

\* apply_delayed_link for one source: only where the placeholder still is.
ApplySource(s, p, l) ==
    LET there == /\ Exists(s.fs, p) /\ Ino(s.fs, p) = l.ino
                 /\ SameBirth(s.fs, p, l)
        f == Unlink(s.fs, p)
        from == IF s.valid # <<>> THEN s.valid ELSE l.target
        sym == l.sym /\ s.valid = <<>>
        g == Make(f, p, "sym", {}, l.target)
        linkable == Exists(f, from) /\ Lstat(f, from).kind # "dir"
    IN  IF ~there THEN s
        ELSE IF ~Writable(s.fs, Front(Real(s.fs, p)))
        THEN [s EXCEPT !.errors = @ \cup {p}]
        ELSE IF sym
        THEN [s EXCEPT !.fs = SetStat(g, Real(g, p), l, {}, {}, FALSE), !.valid = p]
        ELSE IF linkable THEN [s EXCEPT !.fs = LinkTo(f, Ino(f, from), p)]
        ELSE [s EXCEPT !.fs = f, !.errors = @ \cup {p}]

ApplyDelayedLink ==
    LET l == Head(links)
        r == FoldLeft(LAMBDA s, p : ApplySource(s, p, l),
                      [fs |-> fs, valid |-> <<>>, errors |-> errors], l.sources)
    IN  /\ pc = "links" /\ links # <<>>
        /\ fs' = r.fs /\ errors' = r.errors
        /\ links' = Tail(links)
        /\ UNCHANGED <<arch, was, opt, dss, pos, pc, err, made, saw, bak>>

ApplyLinksEnd ==
    /\ pc = "links" /\ links = <<>>
    /\ pc' = "finishlinks"
    /\ UNCHANGED <<arch, was, opt, fs, dss, links, pos, err, made, saw, bak, errors>>

Done == pc = "done" /\ UNCHANGED vars

Init ==
    /\ \E i \in Inputs : arch = i.arch /\ opt = i.opt /\ fs = i.fs /\ was = i.fs
    /\ dss = <<>> /\ links = <<>>
    /\ pos = 1 /\ pc = "member" /\ err = "ok"
    /\ made = FALSE /\ saw = FALSE
    /\ bak = <<>> /\ errors = {}

Next ==
    \/ ReadMember \/ Backup \/ Prepare
    \/ TryDir \/ TryFile \/ Hold \/ TryLink \/ TryOther \/ TryPlaceholder
    \/ RecoverByRemoval \/ RecoverByMaking \/ GiveUp
    \/ ApplyDelayedSetStat \/ ApplyDelayedEnd
    \/ ApplyDelayedLink \/ ApplyLinksEnd \/ Done

Spec == Init /\ [][Next]_vars
-----------------------------------------------------------------------------

\* No later member replaces the file of member i, a directory above it or
\* the file it is a link to.
Final(i) == \A j \in i + 1 .. Len(arch) :
    LET r == StatName(fs, arch[j].name) IN
    /\ ~IsPrefix(r, StatName(fs, arch[i].name))
    /\ arch[i].type = "link" => ~IsPrefix(arch[j].name, arch[i].body)

ModeRestored(mode, x) ==
    /\ mode \cap ModeRWX = (x.mode \ CurrentUmask) \cap ModeRWX
    /\ SamePermissions => mode = x.mode

Restored(x) ==
    /\ Exists(fs, x.name)
    /\ LET n == Lstat(fs, x.name) IN
       CASE x.type \in {"dir", "dumpdir"} ->
              \/ n.kind = "dir" /\ ModeRestored(n.mode, x)
              \/ n.kind = "sym" /\ (opt.keepsym \/ opt.deref) /\ IsDir(fs, n.body)
         [] x.type = "link" -> Exists(fs, x.body) /\ Ino(fs, x.body) = Ino(fs, x.name)
         [] x.type = "sym" -> n.kind = "sym" /\ n.body = x.body /\ n.time = x.time
         [] x.type \in {"file", "node"} ->
              /\ n.kind = x.type /\ n.body = x.body
              /\ ModeRestored(n.mode, x) /\ n.time = x.time
         [] OTHER -> TRUE

\* When nothing was diagnosed, the last member of each name is what is on
\* disk: its contents, the mode the options ask for, its link or target.
Honest ==
    pc = "done" /\ errors = {} /\ opt.old \in {"default", "overwrite", "unlink"} =>
      \A i \in DOMAIN arch : Final(i) => Restored(arch[i])

\* A name comes once, each directory before its contents, which are
\* together; no name leads through a symbolic link.
UsualOrder ==
    \A i, j \in DOMAIN arch : Real(fs, arch[i].name) = arch[i].name /\ (i < j =>
      /\ ~IsPrefix(arch[j].name, arch[i].name)
      /\ arch[i].type = "dir" /\ IsPrefix(arch[i].name, arch[j].name) =>
           \A k \in i .. j : IsPrefix(arch[i].name, arch[k].name))

\* The time of a directory survives the extraction of what is in it, links
\* made at the end included, when the order of members is the usual one
\* (comment on delay_set_stat).
DirectoryTimes ==
    pc = "done" /\ errors = {} /\ UsualOrder /\ opt.old \in {"default", "overwrite"} =>
      \A i \in DOMAIN arch : arch[i].type = "dir" /\ Final(i) =>
        Lstat(fs, arch[i].name).time = arch[i].time

\* In the usual order, into an empty directory, tar never runs into a mode
\* it set too early: a user who is not root can extract a read-only
\* directory with its files and links.
NeverLockedOut ==
    UsualOrder /\ DOMAIN was.tree = {<<>>} /\ ~opt.short
      /\ (\A i \in DOMAIN arch : arch[i].type # "link") => errors = {}

\* A directory that waits for its owner and permissions grants nothing to
\* others meanwhile (comment on safe_dir_mode).
PrivateMeanwhile ==
    \A k \in DOMAIN dss :
      SamePermissions /\ ~dss[k].inter /\ Exists(fs, dss[k].name)
        /\ dss[k].cmask = ModeRWX
      => "g" \notin Lstat(fs, dss[k].name).mode

\* The mode of a directory that waits for its status (safe_dir_mode,
\* delay_set_stat) is enough for tar itself and nothing to others.
DelayedModes == NeverLockedOut /\ PrivateMeanwhile

OldFiles == {q \in DOMAIN was.tree : was.node[was.tree[q]].kind # "dir"}

\* --keep-old-files and --skip-old-files change no old file, nor does
\* --keep-newer-files change one that is not older than its members.
OldFilesKept ==
    \A q \in OldFiles :
      LET n == was.node[was.tree[q]] IN
      /\ ~opt.backup
      /\ \/ opt.old \in {"keep", "skip"}
         \/ /\ opt.old = "newer" /\ n.kind = "file"
            /\ \A i \in DOMAIN arch : arch[i].time <= n.time
      => q \in DOMAIN fs.tree /\ fs.tree[q] = was.tree[q] /\ fs.node[fs.tree[q]] = n

\* With --backup no old file is lost, and between members each old name
\* still names something: a member that failed gave its backup back.
BackupsKept ==
    opt.backup /\ opt.old # "overwrite" =>
      \A q \in OldFiles :
        /\ \E r \in DOMAIN fs.tree : fs.node[fs.tree[r]] = was.node[was.tree[q]]
        /\ pc \in {"member", "done"} => q \in DOMAIN fs.tree

\* The files that were there are treated as the options say, in each of the
\* states between the backup, the attempts and the recovery of a member
\* (maybe_backup_file, maybe_recoverable, undo_last_backup).
OldFilesSafe == OldFilesKept /\ BackupsKept

Entries == Cardinality(DOMAIN fs.tree)

\* A member is not retried for ever: maybe_recoverable allows another try
\* only when an old file is gone, or once when directories were made.
RetryProgress ==
    [][(pc \in {"recover", "recoverhold"} /\ pc' \in {"try", "hold"}) =>
         ~made /\ (made' \/ Entries' < Entries)]_vars
=============================================================================
