------------------------------- MODULE Select -------------------------------
(***************************************************************************)
(* Which members tar reads, lists or extracts, and which files -u adds:    *)
(* the names of the command line and of the lists of -T (names.c), matched *)
(* with the members of the archive (read_and in list.c, update_archive in  *)
(* update.c).                                                              *)
(*                                                                         *)
(* A path is a sequence of components of one character each, so that the   *)
(* length of a name in bytes follows from the number of components; 0 in a *)
(* name is a component with wildcards.  The lists of -T may hold options, and may ask for      *)
(* other lists or for themselves.                                          *)
(***************************************************************************)
EXTENDS Integers, SequencesExt, FiniteSetsExt

CONSTANTS
    Scenarios,  \* a command line, the archive and the files that exist:
                \* [cmd, elts, start, same, occ, rec, zeros, newer, excl, arch, fs]
    Lists       \* the lists of -T

VARIABLES
    sc,
    phase,
    head,     \* the list of elements, name_head
    opened,   \* file_id_list
    dir,      \* change_dir
    dir0,     \* change_dir0
    idle,     \* unconsumed_option_tail
    starting, \* starting_file_option
    nl,       \* namelist
    at,       \* the next block of the archive
    prev,     \* prev_status
    last,     \* the member that was read last, or <<>>
    retry,    \* name_gather was called by name_match
    done,     \* the members that were processed, and where
    msgs,     \* "Skipping to next header"
    lost,     \* names reported: not found in archive
    dumped,   \* files that -u adds, with their directory
    bad       \* the exit status is 2

gathering == <<head, opened, dir, dir0, idle>>
reading == <<at, prev, last, retry, starting, done, msgs>>
vars == <<sc, phase, gathering, nl, reading, lost, dumped, bad>>

-----------------------------------------------------------------------------
(* The elements of the command line and of the lists.                      *)

IsWildcard(path) == \E j \in DOMAIN path : path[j] = 0

\* addname.
NewName(path) == [path |-> path, dir |-> dir, found |-> 0]

Gathered == IF sc.cmd = "update" THEN "scan" ELSE "read"

\* name_next_elt finds a name, and name_gather adds it; with --same-order it
\* is the only one.
GotName(path) ==
    /\ dir0' = dir
    /\ IF sc.same THEN nl' = <<NewName(path)>> /\ phase' = Gathered
       ELSE nl' = Append(nl, NewName(path)) /\ UNCHANGED phase

\* name_list_advance: an option of -u is unconsumed until a name or a list
\* follows it.
Advance(elt) ==
    /\ head' = Tail(head)
    /\ idle' = CASE elt.t # "chdir" -> <<>>
                 [] elt.t = "chdir" /\ sc.cmd = "update" -> Append(idle, elt.v)
                 [] OTHER -> idle

GatherName ==
    /\ phase = "gather" /\ head # <<>> /\ head[1].t = "name"
    /\ Advance(head[1])
    /\ GotName(head[1].v)
    /\ UNCHANGED <<sc, opened, dir, reading, lost, dumped, bad>>

\* chdir_arg.
GatherChdir ==
    /\ phase = "gather" /\ head # <<>> /\ head[1].t = "chdir"
    /\ Advance(head[1]) /\ dir' = head[1].v
    /\ UNCHANGED <<sc, phase, opened, dir0, nl, reading, lost, dumped, bad>>

\* add_file_id.
AddFileId(id) == id \notin opened

\* read_next_name: a list is opened, once only.
OpenList ==
    LET id == head[1].v IN
    /\ phase \in {"gather", "rest"} /\ head # <<>> /\ head[1].t = "file" /\ head[1].pos = 0
    /\ IF AddFileId(id)
       THEN opened' = opened \cup {id} /\ head' = [head EXCEPT ![1].pos = 1] /\ UNCHANGED <<bad, idle>>
       ELSE bad' = TRUE /\ Advance(head[1]) /\ UNCHANGED opened
    /\ UNCHANGED <<sc, phase, dir, dir0, nl, reading, lost, dumped>>

\* name_elt_alloc and name_list_adjust: an option of a list takes effect
\* before the rest of the list.
OptionInList(list, elt) == <<elt, list>>

\* handle_option: a line of the list is an option that makes an element ...
ListOption ==
    LET e == head[1]
        line == Lists[e.v][e.pos]
    IN  /\ phase \in {"gather", "rest"} /\ head # <<>> /\ e.t = "file" /\ e.pos \in DOMAIN Lists[e.v]
        /\ line.t # "name"
        /\ head' = OptionInList([e EXCEPT !.pos = @ + 1], line) \o Tail(head)
        /\ UNCHANGED <<sc, phase, opened, dir, dir0, idle, nl, reading, lost, dumped, bad>>

\* ... or a name.
ListName ==
    LET e == head[1]
        line == Lists[e.v][e.pos]
    IN  /\ phase = "gather" /\ head # <<>> /\ e.t = "file" /\ e.pos \in DOMAIN Lists[e.v]
        /\ line.t = "name"
        /\ head' = [head EXCEPT ![1].pos = @ + 1]
        /\ GotName(line.v)
        /\ UNCHANGED <<sc, opened, dir, idle, reading, lost, dumped, bad>>

\* Altered: the list stays.
CloseListNot(e) == UNCHANGED <<head, idle>>
CloseAdvance(e) == Advance(e)

CloseList ==
    /\ phase \in {"gather", "rest"} /\ head # <<>> /\ head[1].t = "file"
    /\ head[1].pos > Len(Lists[head[1].v])
    /\ CloseAdvance(head[1])
    /\ UNCHANGED <<sc, phase, opened, dir, dir0, nl, reading, lost, dumped, bad>>

\* No more names: options that no name follows are reported, and a directory
\* that no name follows is an empty name.
GatherEnd ==
    /\ phase = "gather" /\ head = <<>>
    /\ bad' = (bad \/ idle # <<>>) /\ idle' = <<>>
    /\ nl' = IF (IF sc.same THEN dir # 0 ELSE dir # dir0) THEN Append(nl, NewName(<<>>)) ELSE nl
    /\ phase' = Gathered
    /\ UNCHANGED <<sc, head, opened, dir, dir0, reading, lost, dumped>>

-----------------------------------------------------------------------------
(* Matching.                                                               *)

\* exclude_fnmatch, with the leading directories when tar recurses.
Matches(path, f) ==
    /\ path # <<>> /\ Len(path) <= Len(f) /\ (Len(path) = Len(f) \/ sc.rec)
    /\ \A j \in DOMAIN path : path[j] \in {0, f[j]}

Under(f, d) == Len(d) < Len(f) /\ SubSeq(f, 1, Len(d)) = d

\* excluded_name.
Excluded(f) == \E x \in sc.excl : f = x \/ Under(f, x)

\* register_match: of the members below a name only the first is counted.
RegisterMatch(n, f) == IF Len(f) > Len(n.path) /\ sc.rec /\ n.found > 0 THEN n ELSE [n EXCEPT !.found = @ + 1]

IsFound(n) == IF sc.occ = 0 THEN n.found > 0 ELSE n.found = sc.occ
WasFound(n) == IF sc.occ = 0 THEN n.found > 0 ELSE n.found >= sc.occ

\* name_match: the names that match; until the member that -K names, only
\* that one matters.
Hits(f) ==
    LET hits == {j \in DOMAIN nl : Matches(nl[j].path, f)} IN
    IF starting /\ 1 \notin hits THEN {} ELSE hits

\* Altered: only the first name that matches is counted.
RegisteredFirst(f) == [j \in DOMAIN nl |-> IF j \in Hits(f) /\ j = Min(Hits(f)) THEN RegisterMatch(nl[j], f) ELSE nl[j]]
\* All of them are counted.
Registered(f) == [j \in DOMAIN nl |-> IF j \in Hits(f) THEN RegisterMatch(nl[j], f) ELSE nl[j]]
Found(f) == {j \in Hits(f) : IsFound(Registered(f)[j])}

\* name_match: there are no names, or only a directory.
EveryName == nl = <<>> \/ nl[1].path = <<>>

\* chdir_do: where a member is extracted.
Where(f) == nl[Min(Found(f))].dir

-----------------------------------------------------------------------------
(* read_and.                                                               *)

Here == sc.arch[at]
Member(k) == at <= Len(sc.arch) /\ Here.k = k

\* Altered: a name that was found is enough, whatever comes next.
AllNamesFoundEarly(m) ==
    /\ m # <<>> /\ sc.occ # 0
    /\ \A j \in DOMAIN nl : nl[j].path = <<>> \/ WasFound(nl[j])

\* all_names_found, after member m: not after a directory, nor after a member
\* that has a slash where a name that is no pattern ends.
AllNamesFound(m) ==
    /\ m # <<>> /\ sc.occ # 0 /\ ~m[1].dir
    /\ \A j \in DOMAIN nl :
         \/ nl[j].path = <<>>
         \/ /\ WasFound(nl[j])
            /\ IsWildcard(nl[j].path) \/ Len(m[1].path) <= Len(nl[j].path)

\* The loop condition, after each member.
Loop ==
    /\ phase = "test"
    /\ phase' = IF AllNamesFound(last) THEN "close" ELSE "read"
    /\ UNCHANGED <<sc, gathering, nl, reading, lost, dumped, bad>>

\* name_match with --same-order: no match and the current name was found,
\* so the next one is read.
NameIsDone == sc.same /\ ~EveryName /\ Hits(Here.path) = {} /\ nl[1].found > 0 /\ ~retry

NextName ==
    /\ phase = "read" /\ Member("member") /\ NameIsDone
    /\ phase' = "gather" /\ retry' = TRUE
    /\ UNCHANGED <<sc, gathering, nl, at, prev, last, starting, done, msgs, lost, dumped, bad>>

\* A member.  A volume header is processed whatever its name; others are
\* passed over when they do not match, are too old or excluded.
ReadMember ==
    LET f == Here.path
        hit == EveryName \/ Found(f) # {}
        where == CASE nl = <<>> -> 0
                   [] nl # <<>> /\ EveryName -> nl[1].dir
                   [] Found(f) # {} -> Where(f)
                   [] OTHER -> 0
    IN  /\ phase = "read" /\ Member("member") /\ ~NameIsDone
        /\ nl' = IF EveryName THEN <<>> ELSE Registered(f)
        /\ starting' = (starting /\ (EveryName \/ Hits(f) = {}))
        /\ done' = IF Here.vol \/ (hit /\ Here.time >= sc.newer /\ ~Excluded(f))
                   THEN Append(done, [at |-> at, dir |-> where]) ELSE done
        /\ at' = at + 1 /\ prev' = "member" /\ last' = <<Here>> /\ phase' = "test" /\ retry' = FALSE
        /\ UNCHANGED <<sc, gathering, msgs, lost, dumped, bad>>

\* Zero blocks end the archive unless they are ignored.
ReadZero ==
    /\ phase = "read" /\ Member("zero")
    /\ at' = at + 1 /\ last' = <<>>
    /\ IF sc.zeros THEN phase' = "test" ELSE phase' = "close"
    /\ UNCHANGED <<sc, gathering, nl, prev, retry, starting, done, msgs, lost, dumped, bad>>

\* A bad block after another one is not reported.
Cascade == prev = "bad"

ReadBad ==
    /\ phase = "read" /\ Member("bad")
    /\ at' = at + 1 /\ last' = <<>> /\ prev' = "bad" /\ phase' = "test"
    /\ bad' = (bad \/ ~Cascade)
    /\ msgs' = IF Cascade THEN msgs ELSE msgs + 1
    /\ UNCHANGED <<sc, gathering, nl, retry, starting, done, lost, dumped>>

ReadEnd ==
    /\ phase = "read" /\ at > Len(sc.arch)
    /\ phase' = "close"
    /\ UNCHANGED <<sc, gathering, nl, reading, lost, dumped, bad>>

\* names_notfound: the names of the list ...
NamesNotfound ==
    LET missing == {j \in DOMAIN nl : nl[j].path # <<>> /\ ~WasFound(nl[j])} IN
    /\ phase = "close"
    /\ lost' = lost \cup {nl[j].path : j \in missing}
    /\ bad' = (bad \/ missing # {})
    /\ nl' = <<>>
    /\ phase' = IF sc.same THEN "rest" ELSE "over"
    /\ UNCHANGED <<sc, gathering, reading, dumped>>

\* ... and with --same-order those that were never read, of the command line
\* or of a list.
RestElt ==
    /\ phase = "rest" /\ head # <<>> /\ head[1].t # "file"
    /\ Advance(head[1])
    /\ IF head[1].t = "name" THEN lost' = lost \cup {head[1].v} /\ bad' = TRUE /\ UNCHANGED dir
       ELSE dir' = head[1].v /\ UNCHANGED <<lost, bad>>
    /\ UNCHANGED <<sc, phase, opened, dir0, nl, reading, dumped>>

RestListName ==
    LET e == head[1] IN
    /\ phase = "rest" /\ head # <<>> /\ e.t = "file" /\ e.pos \in DOMAIN Lists[e.v]
    /\ Lists[e.v][e.pos].t = "name"
    /\ head' = [head EXCEPT ![1].pos = @ + 1]
    /\ lost' = lost \cup {Lists[e.v][e.pos].v} /\ bad' = TRUE
    /\ UNCHANGED <<sc, phase, opened, dir, dir0, idle, nl, reading, dumped>>

RestEnd ==
    /\ phase = "rest" /\ head = <<>>
    /\ phase' = "over"
    /\ UNCHANGED <<sc, gathering, nl, reading, lost, dumped, bad>>

-----------------------------------------------------------------------------
(* update_archive.                                                         *)

Files(d) == {f \in DOMAIN sc.fs[d] : ~sc.fs[d][f].dir}
Entries(d, f) == {g \in DOMAIN sc.fs[d] : Under(g, f) /\ Len(g) = Len(f) + 1}

\* name_scan: the first name that matches, or 0.
NameScan(list, f, exact) ==
    LET hits == {j \in DOMAIN list : Matches(list[j].path, f) /\ (exact => ~IsWildcard(list[j].path))} IN
    IF hits = {} THEN 0 ELSE Min(hits)

\* remove_exact_name.
RemoveExactName(list, j, f) ==
    LET found == [list EXCEPT ![j].found = @ + 1]
        m == NameScan(found, f, TRUE)
    IN  IF ~IsWildcard(list[j].path) THEN RemoveAt(list, j)
        ELSE IF m = 0 THEN found ELSE RemoveAt(found, m)

\* Altered: only an older file is left out.
UpToDateOlder(t, u) == t < u
UpToDate(t, u) == t <= u

\* A member of the archive: a directory gives way to its entries, a file that
\* is not newer goes, and a newer one that a pattern matched is added.
ScanMember ==
    LET f == Here.path
        j == NameScan(nl, f, FALSE)
        d == nl[j].dir
        new(paths) == [k \in DOMAIN paths |-> [path |-> paths[k], dir |-> d, found |-> 0]]
        entries == SetToSortSeq(Entries(d, f), LAMBDA a, b : a[Len(a)] < b[Len(b)])
    IN  /\ phase = "scan" /\ Member("member")
        /\ nl' = CASE j = 0 -> nl
                   [] j # 0 /\ f \notin DOMAIN sc.fs[d] -> nl
                   [] j # 0 /\ f \in DOMAIN sc.fs[d] ->
                        IF sc.fs[d][f].dir THEN RemoveExactName(nl \o new(entries), j, f)
                        ELSE IF UpToDate(sc.fs[d][f].time, Here.time) THEN RemoveExactName(nl, j, f)
                        ELSE IF IsWildcard(nl[j].path) THEN nl \o new(<<f>>)
                        ELSE nl
        /\ at' = at + 1 /\ prev' = "member"
        /\ UNCHANGED <<sc, phase, gathering, last, retry, starting, done, msgs, lost, dumped, bad>>

ScanOther ==
    /\ phase = "scan" /\ at <= Len(sc.arch) /\ Here.k # "member"
    /\ IF Here.k = "zero" THEN phase' = "add" /\ UNCHANGED <<at, prev, bad, msgs>>
       ELSE /\ at' = at + 1 /\ prev' = "bad" /\ UNCHANGED phase
            /\ bad' = (bad \/ ~Cascade) /\ msgs' = IF Cascade THEN msgs ELSE msgs + 1
    /\ UNCHANGED <<sc, gathering, nl, last, retry, starting, done, lost, dumped>>

ScanEnd ==
    /\ phase = "scan" /\ at > Len(sc.arch)
    /\ phase' = "add"
    /\ UNCHANGED <<sc, gathering, nl, reading, lost, dumped, bad>>

\* name_from_list, and dump_file with all that is below the name.
AddName ==
    LET todo == {j \in DOMAIN nl : ~IsWildcard(nl[j].path) /\ nl[j].found = 0 /\ nl[j].path # <<>>}
        n == nl[Min(todo)]
    IN  /\ phase = "add" /\ todo # {}
        /\ nl' = [nl EXCEPT ![Min(todo)].found = @ + 1]
        /\ dumped' = dumped \cup {<<n.dir, f>> : f \in {g \in Files(n.dir) :
                                   (g = n.path \/ Under(g, n.path)) /\ ~Excluded(g)}}
        /\ bad' = (bad \/ n.path \notin DOMAIN sc.fs[n.dir])
        /\ UNCHANGED <<sc, phase, gathering, reading, lost>>

\* write_eot and close_archive.
AddEnd ==
    /\ phase = "add"
    /\ \A j \in DOMAIN nl : IsWildcard(nl[j].path) \/ nl[j].found > 0 \/ nl[j].path = <<>>
    /\ phase' = "close"
    /\ UNCHANGED <<sc, gathering, nl, reading, lost, dumped, bad>>

Over == phase = "over" /\ UNCHANGED vars

\* add_starting_file.
StartingList == IF sc.start = <<>> THEN <<>> ELSE <<[path |-> sc.start, dir |-> 0, found |-> 0]>>

Init ==
    /\ sc \in Scenarios /\ phase = "gather"
    /\ head = sc.elts /\ opened = {} /\ dir = 0 /\ dir0 = 0 /\ idle = <<>>
    /\ starting = (sc.start # <<>>)
    /\ nl = StartingList
    /\ at = 1 /\ prev = "none" /\ last = <<>> /\ retry = FALSE /\ done = <<>> /\ msgs = 0
    /\ lost = {} /\ dumped = {} /\ bad = FALSE

Next == \/ GatherName \/ GatherChdir \/ OpenList \/ ListOption \/ ListName \/ CloseList \/ GatherEnd
        \/ Loop \/ NextName \/ ReadMember \/ ReadZero \/ ReadBad \/ ReadEnd
        \/ NamesNotfound \/ RestElt \/ RestListName \/ RestEnd
        \/ ScanMember \/ ScanOther \/ ScanEnd \/ AddName \/ AddEnd \/ Over

Spec == Init /\ [][Next]_vars /\ WF_vars(Next)

-----------------------------------------------------------------------------
(* What is promised.                                                       *)

\* What the elements stand for: the names with their directories, in the
\* order a reader of the command line and of the lists finds them; a list is
\* read the first time it is asked for.
RECURSIVE Expand(_, _)
Expand(elts, acc) ==
    IF elts = <<>> THEN acc
    ELSE LET e == elts[1] IN
         Expand(Tail(elts),
                CASE e.t = "name" -> [acc EXCEPT !.names = Append(@, [path |-> e.v, dir |-> acc.dir])]
                  [] e.t = "chdir" -> [acc EXCEPT !.dir = e.v]
                  [] e.t = "file" /\ e.v \in acc.seen -> acc
                  [] OTHER -> Expand(Lists[e.v], [acc EXCEPT !.seen = @ \cup {e.v}]))

Names == Expand(sc.elts, [names |-> <<>>, dir |-> 0, seen |-> {}]).names

\* The part of the archive that is read.
ArchiveEnd == LET zeros == {k \in DOMAIN sc.arch : sc.arch[k].k = "zero"} IN
              IF sc.zeros \/ zeros = {} THEN Len(sc.arch) ELSE Min(zeros) - 1
Members == {k \in 1 .. ArchiveEnd : sc.arch[k].k = "member"}

Covers(n, k) == LET f == sc.arch[k].path IN
                Len(n.path) <= Len(f) /\ (sc.rec \/ Len(n.path) = Len(f))
                /\ \A j \in DOMAIN n.path : n.path[j] \in {0, f[j]}

\* The occurrence of name n that member k belongs to: what lies below a
\* directory belongs to the occurrence of the directory before it.
Occurrence(n, k) ==
    LET own == {i \in Members : i <= k /\ Covers(n, i)} IN
    Cardinality({i \in own : Len(sc.arch[i].path) = Len(n.path) \/ i = Min(own)})

Chosen(n, k) == Covers(n, k) /\ (sc.occ = 0 \/ Occurrence(n, k) = sc.occ)

Passed(k) == ~Excluded(sc.arch[k].path) /\ sc.arch[k].time >= sc.newer

\* The members to be processed, in order, and the directory of each.
Wanted ==
    LET ns == Names
        by(k) == {j \in DOMAIN ns : Chosen(ns[j], k)}
        ks == SetToSortSeq({k \in Members : sc.arch[k].vol \/ (by(k) # {} /\ Passed(k))}, <)
    IN  [i \in DOMAIN ks |-> [at |-> ks[i], dir |-> IF by(ks[i]) = {} THEN 0 ELSE ns[Min(by(ks[i]))].dir]]

\* The members of one occurrence of a name follow one another, and only one
\* member belongs to an occurrence of a pattern.
Together ==
    \A j \in DOMAIN Names : \A a, c \in Members :
        LET n == Names[j] IN
        a < c /\ Chosen(n, a) /\ Chosen(n, c) =>
            ~IsWildcard(n.path) /\ \A b \in Members : a < b /\ b < c => Chosen(n, b) /\ ~sc.arch[b].vol

\* With --same-order, the names come in the order of the archive and all
\* are there.
InOrder ==
    LET ns == Names
        own(j) == {k \in Members : Covers(ns[j], k)}
    IN  /\ \A j \in DOMAIN ns : own(j) # {}
        /\ \A i, j \in DOMAIN ns : i < j => \A a \in own(i), b \in own(j) : a < b

\* read_and processes the members that were asked for, all of them, once, in
\* the directory of the first name that asks for it: it neither stops too
\* early (all_names_found) nor loses the place in a sorted list of names
\* (name_match with --same-order).  Excepted is --occurrence where the members of
\* an occurrence are not Together, or with --same-order: there tar stops once
\* each name that it knows of was found, and what it has processed is only the
\* first part of what was asked for.
AsNamed ==
    phase = "over" /\ sc.cmd = "read" /\ sc.start = <<>> /\ Names # <<>> /\ (sc.same => InOrder) =>
        IF sc.occ = 0 \/ (~sc.same /\ Together) THEN done = Wanted ELSE IsPrefix(done, Wanted)

\* Names of which nothing was found are reported with an error, and only
\* those (names_notfound).
NotFoundReported ==
    LET ns == Names
        missing == {j \in DOMAIN ns : {k \in Members : Chosen(ns[j], k)} = {}}
    IN  phase = "over" /\ sc.cmd = "read" /\ sc.start = <<>> /\ (sc.same => sc.occ = 0) =>
          /\ {ns[j].path : j \in missing} \subseteq lost
          /\ ~sc.same => lost = {ns[j].path : j \in missing}
          /\ missing # {} => bad

\* With -K, nothing before the member it names is processed, and this member
\* is.  If names are given too, those members that they ask for follow, and no
\* others (add_starting_file, name_match).  Of -K without names no more is
\* claimed: see StartsThere.
StartingPoint ==
    LET start == [path |-> sc.start, dir |-> 0]
        from == {k \in Members : Covers(start, k)}
        ks == {done[i].at : i \in DOMAIN done}
    IN  phase = "over" /\ sc.start # <<>> /\ sc.occ = 0 /\ ~sc.same =>
          IF from = {} THEN ks = {}
          ELSE /\ Min(from) \in ks /\ \A k \in ks : k >= Min(from)
               /\ Names # <<>> =>
                    ks = {k \in Members : k >= Min(from)
                                          /\ \E n \in {start} \cup ToSet(Names) : Covers(n, k)}

\* The members that are processed are those the command line asks for.
Selected == AsNamed /\ StartingPoint

\* A stretch of bad blocks is reported, once, also when ignored zero blocks
\* interrupt it (read_and, update_archive).
CascadeReported ==
    LET before(k) == {i \in 1 .. k - 1 : sc.arch[i].k # "zero"}
        starts == {k \in 1 .. at - 1 : sc.arch[k].k = "bad"
                     /\ (before(k) = {} \/ sc.arch[Max(before(k))].k # "bad")}
    IN  msgs = Cardinality(starts) /\ (starts # {} => bad)

\* The exit status and the messages tell of what was not found and of what
\* could not be read.
Diagnosed == NotFoundReported /\ CascadeReported

\* In the archive every directory comes before what is below it, as
\* dump_file writes it.
DirectoriesFirst ==
    \A k \in Members : \A l \in 1 .. Len(sc.arch[k].path) - 1 :
        \E i \in Members : i < k /\ sc.arch[i].path = SubSeq(sc.arch[k].path, 1, l)

\* No name is a pattern, and none is another one or below it.
Apart ==
    \A i, j \in DOMAIN Names :
        ~IsWildcard(Names[i].path) /\ (i # j => ~IsPrefix(Names[i].path, Names[j].path))

\* -u adds each file that is named, or below a directory that is named, when
\* the archive has no copy that is as new: also files that are new in a
\* directory of the archive, and when there are several copies (update_archive,
\* remove_exact_name, name_from_list).  It adds nothing that was not asked for,
\* and nothing that is up to date.  Two exceptions.  When a file is in the
\* archive before its directory, the list entry of the directory may go with
\* it, and only the files named themselves are sure to be added.  When names
\* overlap or are patterns, a file that is up to date may be added again.
UpdateExact ==
    LET ns == Names
        stale(a) == ~\E k \in Members : sc.arch[k].path = a[2] /\ sc.fs[a[1]][a[2]].time <= sc.arch[k].time
        asks(n, f) ==
            IF IsWildcard(n.path)
            THEN \E k \in Members : Covers(n, k) /\ IsPrefix(sc.arch[k].path, f)
            ELSE IsPrefix(n.path, f)
        askedBy(n) == {<<n.dir, f>> : f \in {g \in Files(n.dir) : ~Excluded(g) /\ asks(n, g)}}
        asked == UNION {askedBy(ns[j]) : j \in DOMAIN ns}
        itself == {<<ns[j].dir, ns[j].path>> : j \in DOMAIN ns}
    IN  phase = "over" /\ sc.cmd = "update" =>
          /\ \A a \in asked : stale(a) /\ (DirectoriesFirst \/ (Apart /\ a \in itself)) => a \in dumped
          /\ dumped \subseteq asked
          /\ Apart => \A a \in dumped : stale(a)

\* tar comes to an end, also when a list of -T asks for itself.
Terminates == <>(phase = "over")

\* With --same-order too, the occurrence of each named file that
\* --occurrence asks for is processed (doc/tar.texi:3267): all_names_found
\* knows the current name only.
OccurrenceInOrder ==
    phase = "over" /\ sc.cmd = "read" /\ sc.occ # 0 /\ sc.same /\ InOrder /\ Together => done = Wanted

\* -K: the operation starts in the middle of the archive, at the member that
\* is named (doc/tar.texi:6578, add_starting_file and name_match).
StartsThere ==
    LET ks == {k \in Members : sc.arch[k].path = sc.start} IN
    phase = "over" /\ sc.start # <<>> /\ sc.elts = <<>> /\ ks # {} =>
        \A k \in Members : k >= Min(ks) => \E i \in DOMAIN done : done[i].at = k
=============================================================================
