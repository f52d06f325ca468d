------------------------------ MODULE FdCache ------------------------------
(***************************************************************************)
(* The descriptors of directories that src/misc.c keeps open: the table wd *)
(* of -C directories with its cache of the most recently used ones         *)
(* (chdir_do), and the two cached subdirectories of fdbase_opendir, which  *)
(* fdbase, fdbase1, open_searchdir and chdir_do share.                     *)
(*                                                                         *)
(* A name is the sequence of its characters, since the cache compares      *)
(* bytes; "nul" is the null byte.  An input has                            *)
(*   wd       the names of the -C options (from 1), relative to the one    *)
(*            before unless they start with a slash                        *)
(*   dirs     the directories that exist at the start                      *)
(*   look     the directory parts, "a/" of "a/f" and "" of "f", that       *)
(*            fdbase looks up                                              *)
(*   look1    ... and by fdbase1                                           *)
(*   search   the names opened by open_searchdir                           *)
(*   made     pairs of a directory part and a last component for mkdirat,  *)
(*            and for unlinkat with AT_REMOVEDIR                           *)
(*   missing  directories that do not exist are looked up too              *)
(*   fds      the descriptors the system can give, positive                *)
(* Symbolic links, --one-top-level and leading "./" are left out.          *)
(***************************************************************************)
EXTENDS Integers, Sequences, FiniteSets, Functions

CONSTANTS
    CHDIR_CACHE_SIZE,
    Inputs

ASSUME FdsAssumption == \A in \in Inputs : in.fds \subseteq Nat \ {0} /\ IsFiniteSet(in.fds)

VARIABLES
    input,
    fs,         \* the inode of each directory that exists; the root is <<>>
    m,          \* the static variables of misc.c and the open descriptors
    st,         \* fd of the tar_stat_info under way (0: none)
    stino,      \* the directory st was opened for
    held,       \* the descriptor of the last fdbase, still to be used (0: none)
    ret,        \* what the last lookup returned and what it was asked for
    pc

vars == <<input, fs, m, st, stino, held, ret, pc>>

AT_FDCWD == -100
BADFD == -1
Root == 0
NoDir == -1

Slash == "/"
Absolute(name) == name[1] = Slash

-----------------------------------------------------------------------------
(***************************************************************************)
(* The file system                                                         *)
(***************************************************************************)
\* The directory a descriptor is open on.
Ino(f, fd) == IF fd = AT_FDCWD THEN Root
              ELSE IF fd \in DOMAIN f.open THEN f.open[fd] ELSE NoDir

Strip(name) ==
    LET t == IF Absolute(name) THEN Tail(name) ELSE name
    IN  IF t[Len(t)] = Slash THEN SubSeq(t, 1, Len(t) - 1) ELSE t

Join(path, name) ==
    IF path = <<>> \/ Absolute(name) THEN Strip(name)
    ELSE path \o <<Slash>> \o Strip(name)

\* The directory that name denotes from the directory ino; a directory that
\* was removed has no entries.
Walk(ino, name) ==
    LET from == {q \in DOMAIN fs : fs[q] = ino}
        to == {Join(q, name) : q \in from} \cap DOMAIN fs
    IN  IF name = <<>> THEN ino
        ELSE IF to = {} THEN NoDir ELSE fs[CHOOSE q \in to : TRUE]

Least(S) == CHOOSE n \in S : \A k \in S : n <= k

\* open_subdir: the least free descriptor, ENOENT or EMFILE.
OpenSubdir(f, fd, name) ==
    LET ino == Walk(Ino(f, fd), name)
        free == input.fds \ DOMAIN f.open
    IN  IF ino = NoDir THEN [fd |-> BADFD, err |-> "ENOENT", ino |-> NoDir]
        ELSE IF free = {} THEN [fd |-> BADFD, err |-> "EMFILE", ino |-> NoDir]
        ELSE [fd |-> Least(free), err |-> "ok", ino |-> ino]

Close(open, fd) == Restrict(open, DOMAIN open \ {fd})
WithOpen(open, fd, ino) ==
    [d \in DOMAIN open \cup {fd} |-> IF d = fd THEN ino ELSE open[d]]

-----------------------------------------------------------------------------
(***************************************************************************)
(* fdbase_opendir                                                          *)
(***************************************************************************)
Chdirable(f, fd) ==
    \/ fd = f.chdir_fd
    \/ \E k \in 1..Len(f.wdcache) : f.wd[f.wdcache[k]].fd = fd

\* The cached directory is name, or an ancestor of it.
Submatch(f, c, name) ==
    /\ 0 < c.subdirlen /\ c.subdirlen <= Len(name)
    /\ c.chdir_current = f.chdir_current
    /\ c.subdirlen < Len(name) => name[c.subdirlen + 1] # Slash
    /\ SubSeq(c.subdir, 1, c.subdirlen) = SubSeq(name, 1, c.subdirlen)

HitBug(f, c, name) == Submatch(f, c, name)
Hit(f, c, name) == Submatch(f, c, name) /\ c.subdirlen = Len(name)

\* Where a match says nothing of the directory: the name that entry c has is that
\* of a later lookup that failed (c.sure, which only the properties use, is
\* FALSE then), or name goes on after it with no slash in between, "a" and "ab".
Misleads(f, c, name) ==
    /\ Submatch(f, c, name)
    /\ ~c.sure \/ (c.subdirlen < Len(name) /\ name[c.subdirlen] # Slash)

\* The name is copied over the old one, with a null byte after it.
Overwrite(old, name) == name \o <<"nul">> \o SubSeq(old, Len(name) + 2, Len(old))

\* Entry k of the cache is replaced by the directory that r has opened.
ClosesOld(f, c) == 0 < c.subdirlen /\ ~Chdirable(f, c.fd)

Replace(f, k, name, r, cd, sure) ==
    LET c == f.cache[k]
        open == WithOpen(f.open, r.fd, r.ino)
    IN  [f EXCEPT
            !.open = IF ClosesOld(f, c) THEN Close(open, c.fd) ELSE open,
            !.cache[k] = [subdirlen |-> Len(name), chdir_current |-> cd,
                          subdir |-> Overwrite(c.subdir, name), fd |-> r.fd,
                          sure |-> sure]]

\* Cannot reuse: evict entry k and get it again, from the cached ancestor or
\* from chdir_fd.
Reget(f, k, name) ==
    LET c == f.cache[k]
        below == Submatch(f, c, name)
        sub == OpenSubdir(f, c.fd, SubSeq(name, c.subdirlen + 1, Len(name)))
        new == OpenSubdir(f, f.chdir_fd, name)
        named == [f EXCEPT !.cache[k].subdir = Overwrite(c.subdir, name),
                           !.cache[k].sure = @ /\ below]
    IN  IF below /\ sub.fd # BADFD
        THEN [f |-> Replace(f, k, name, sub, c.chdir_current, ~Misleads(f, c, name)),
              fd |-> sub.fd]
        ELSE IF below /\ sub.err # "EMFILE"
        THEN [f |-> named, fd |-> BADFD]
        ELSE IF new.fd # BADFD
        THEN [f |-> Replace(f, k, name, new, f.chdir_current, TRUE), fd |-> new.fd]
        ELSE [f |-> named, fd |-> BADFD]

\* A file immediately under chdir_fd needs no directory.  With alternate, either
\* entry may serve but only the second one changes.
EvictedBug(alternate) == 1
Evicted(alternate) == IF alternate THEN 2 ELSE 1

Opendir(f, name, alternate) ==
    IF name = <<>> THEN [f |-> f, fd |-> f.chdir_fd]
    ELSE IF Hit(f, f.cache[1], name) THEN [f |-> f, fd |-> f.cache[1].fd]
    ELSE IF alternate /\ Hit(f, f.cache[2], name) THEN [f |-> f, fd |-> f.cache[2].fd]
    ELSE Reget(f, Evicted(alternate), name)

FdbaseClear(f) ==
    [f EXCEPT
        !.open = Restrict(@, {d \in DOMAIN @ :
                     Chdirable(f, d)
                     \/ \A k \in 1..2 : f.cache[k].subdirlen = 0 \/ f.cache[k].fd # d}),
        !.cache = [k \in 1..2 |-> [@[k] EXCEPT !.subdirlen = 0]]]

FdbaseClose(f, fd) ==
    [f EXCEPT
        !.open = Close(@, fd),
        !.cache = [k \in 1..2 |-> IF @[k].subdirlen # 0 /\ @[k].fd = fd
                                  THEN [@[k] EXCEPT !.subdirlen = 0] ELSE @[k]]]

-----------------------------------------------------------------------------
(***************************************************************************)
(* chdir_do                                                                *)
(***************************************************************************)
\* i becomes the last of the cache, in place of the one that was.
HasRoom(f) == Len(f.wdcache) < CHDIR_CACHE_SIZE

CloseStale(f, i) == [FdbaseClose(f, f.wd[i].fd) EXCEPT !.wd[i].fd = 0]

AddToCache(f, i, fd) ==
    LET g == [f EXCEPT !.wd[i].fd = fd]
        n == Len(f.wdcache)
    IN  IF HasRoom(f) THEN [g EXCEPT !.wdcache = Append(@, i)]
        ELSE [CloseStale(g, g.wdcache[n]) EXCEPT !.wdcache[n] = i]

\* ... and then the first.
MoveToFront(cache, i) == <<i>> \o SelectSeq(cache, LAMBDA k : k # i)

Enter(f, i) ==
    [f EXCEPT !.wdcache = IF f.wd[i].fd > 0 THEN MoveToFront(@, i) ELSE @,
              !.chdir_current = i,
              !.chdir_fd = f.wd[i].fd]

\* open_fatal is fatal in the result.
RECURSIVE ChdirDo(_, _)
ChdirDo(f, i) ==
    LET from == IF Absolute(f.wd[i].name) THEN [f |-> f, fatal |-> FALSE]
                ELSE ChdirDo(f, i - 1)
        r == Opendir(from.f, f.wd[i].name, FALSE)
    IN  IF f.chdir_current = i THEN [f |-> f, fatal |-> FALSE]
        ELSE IF f.wd[i].fd # 0 THEN [f |-> Enter(f, i), fatal |-> FALSE]
        ELSE IF from.fatal THEN from
        ELSE IF r.fd = BADFD THEN [f |-> r.f, fatal |-> TRUE]
        ELSE [f |-> Enter(AddToCache(r.f, i, r.fd), i), fatal |-> FALSE]

-----------------------------------------------------------------------------
(***************************************************************************)
(* The callers                                                             *)
(***************************************************************************)
NoEntry == [subdirlen |-> 0, chdir_current |-> 0, subdir |-> <<>>, fd |-> 0,
            sure |-> TRUE]

Init ==
    /\ input \in Inputs
    /\ LET dirs == input.dirs \cup {<<>>}
       IN  fs = CHOOSE f \in Injection(dirs, 0..Cardinality(input.dirs)) : f[<<>>] = Root
    /\ m = [wd |-> [i \in 0..Len(input.wd) |->
                      IF i = 0 THEN [name |-> <<".">>, fd |-> AT_FDCWD]
                      ELSE [name |-> input.wd[i], fd |-> 0]],
            wdcache |-> <<>>, chdir_current |-> 0, chdir_fd |-> AT_FDCWD,
            cache |-> [k \in 1..2 |-> NoEntry], open |-> [d \in {} |-> Root]]
    /\ st = 0 /\ stino = NoDir /\ held = 0
    /\ ret = [got |-> Root, want |-> Root, full |-> FALSE, misled |-> FALSE]
    /\ pc = "run"

Denoted(name) == Walk(Ino(m, m.chdir_fd), name)
Asked(name) == pc = "run" /\ (input.missing \/ Denoted(name) # NoDir)

\* The directory that the lookup r of name returned, the one it had to return,
\* whether the system was out of descriptors, and whether a cached name misled it.
Answer(name, r, alternate) ==
    [got |-> Ino(r.f, r.fd), want |-> Denoted(name),
     full |-> input.fds \subseteq DOMAIN m.open,
     misled |-> \E k \in 1..Evicted(alternate) : Misleads(m, m.cache[k], name)]

Fdbase(name) ==
    /\ Asked(name)
    /\ LET r == Opendir(m, name, FALSE)
       IN  /\ m' = r.f
           /\ ret' = Answer(name, r, FALSE)
           /\ held' = r.fd
    /\ UNCHANGED <<input, fs, st, stino, pc>>

Fdbase1(name) ==
    /\ Asked(name)
    /\ LET r == Opendir(m, name, TRUE)
       IN  m' = r.f /\ ret' = Answer(name, r, TRUE)
    /\ UNCHANGED <<input, fs, st, stino, held, pc>>

\* create_archive keeps the descriptor in st.fd while it dumps what is in the
\* directory.
OpenSearchdir(name) ==
    /\ Asked(name) /\ st = 0
    /\ LET r == Opendir(m, name, FALSE)
       IN  /\ m' = r.f
           /\ ret' = Answer(name, r, FALSE)
           /\ st' = IF r.fd = BADFD THEN 0 ELSE r.fd
           /\ stino' = Denoted(name)
    /\ held' = 0
    /\ UNCHANGED <<input, fs, pc>>

TarStatClose ==
    /\ pc = "run" /\ st # 0
    /\ m' = FdbaseClose(m, st)
    /\ st' = 0 /\ held' = 0
    /\ UNCHANGED <<input, fs, stino, ret, pc>>

Chdir(i) ==
    /\ pc = "run"
    /\ LET r == ChdirDo(m, i)
       IN  /\ m' = r.f
           /\ pc' = IF r.fatal THEN "fatal" ELSE pc
    /\ held' = 0
    /\ UNCHANGED <<input, fs, st, stino, ret>>

\* The path that base has in the directory of descriptor fd (in a set, which is
\* empty if there is no such directory).
PathIn(f, fd, base) == {Join(q, base) : q \in {q \in DOMAIN fs : fs[q] = Ino(f, fd)}}

\* fdbase and mkdirat.
Mkdirat(name, base) ==
    /\ Asked(name)
    /\ LET r == Opendir(m, name, FALSE)
           used == {fs[q] : q \in DOMAIN fs} \cup {m.open[d] : d \in DOMAIN m.open}
           new == PathIn(r.f, r.fd, base) \ DOMAIN fs
       IN  /\ m' = r.f
           /\ ret' = Answer(name, r, FALSE)
           /\ fs' = [q \in DOMAIN fs \cup new |->
                        IF q \in new THEN Least(1..Cardinality(used) + 1 \ used) ELSE fs[q]]
    /\ held' = 0
    /\ UNCHANGED <<input, st, stino, pc>>

\* safer_rmdir, which calls fdbase_clear if the directory was removed.
AfterRmdir(f, removed) == IF removed THEN FdbaseClear(f) ELSE f

Empty(path) ==
    \A q \in DOMAIN fs :
        Len(q) > Len(path) => SubSeq(q, 1, Len(path) + 1) # path \o <<Slash>>

SaferRmdir(name, base) ==
    /\ Asked(name)
    /\ LET r == Opendir(m, name, FALSE)
           old == {q \in PathIn(r.f, r.fd, base) \cap DOMAIN fs : Empty(q)}
       IN  /\ fs' = Restrict(fs, DOMAIN fs \ old)
           /\ m' = AfterRmdir(r.f, old # {})
           /\ ret' = Answer(name, r, FALSE)
    /\ held' = 0
    /\ UNCHANGED <<input, st, stino, pc>>

Next ==
    \/ \E name \in input.look : Fdbase(name)
    \/ \E name \in input.look1 : Fdbase1(name)
    \/ \E name \in input.search : OpenSearchdir(name)
    \/ TarStatClose
    \/ \E i \in 0..Len(input.wd) : Chdir(i)
    \/ \E x \in input.made : Mkdirat(x[1], x[2]) \/ SaferRmdir(x[1], x[2])
    \/ (pc = "fatal" /\ UNCHANGED vars)

Spec == Init /\ [][Next]_vars

-----------------------------------------------------------------------------
(***************************************************************************)
(* Properties                                                              *)
(***************************************************************************)

\* The lookup found the directory asked for, or no descriptor was free.
RightOrFull == ret.got = ret.want \/ (ret.got = NoDir /\ ret.full)

\* fdbase, fdbase1 and open_searchdir return a descriptor of the directory that
\* the name denotes, whatever was looked up, made and removed before, and fail
\* only if there is none or no descriptor is free.  Excepted are the lookups that
\* the cache misleads (Misleads): an open that fails leaves the old descriptor
\* under the new name, and a name without a final slash matches as a prefix.
\* After either the right directory is found again once the entry is replaced or
\* fdbase_clear has emptied it, and other names are not affected.
RightDirectory == ret.misled \/ RightOrFull

\* "a call with ALTERNATE cannot invalidate a call without": the descriptor
\* that fdbase returned is open when fdbase1 has returned the second one.
HeldOpen == held > 0 => held \in DOMAIN m.open

\* The descriptor that chdir_do keeps for a -C directory is open on it and
\* found by the loop over wdcache.
RECURSIVE WdPath(_)
WdPath(i) == IF i = 0 THEN <<>> ELSE Join(WdPath(i - 1), m.wd[i].name)
WdOpen ==
    /\ \A i \in DOMAIN m.wd : m.wd[i].fd > 0 =>
          /\ m.wd[i].fd \in DOMAIN m.open
          /\ \E k \in 1..Len(m.wdcache) : m.wdcache[k] = i
          /\ \A q \in DOMAIN fs : fs[q] = m.open[m.wd[i].fd] => q = WdPath(i)
    /\ m.chdir_fd = m.wd[m.chdir_current].fd

\* No descriptor is lost: each is in the cache of fdbase_opendir, in wd or in a
\* tar_stat_info.
NoLeak ==
    \A d \in DOMAIN m.open :
        \/ \E k \in 1..2 : m.cache[k].subdirlen # 0 /\ m.cache[k].fd = d
        \/ \E i \in DOMAIN m.wd : m.wd[i].fd = d
        \/ st = d

\* The three tables that share descriptors agree with the kernel: none uses
\* one that another has closed, and none forgets one, when the caches are
\* full and directories are replaced (fdbase_opendir, chdir_do).
DescriptorsSound == HeldOpen /\ WdOpen /\ NoLeak

\* The descriptor in a tar_stat_info stays open on its directory until it is
\* closed through tar_stat_close.
OwnerOpen == st # 0 => st \in DOMAIN m.open /\ m.open[st] = stino
=============================================================================
