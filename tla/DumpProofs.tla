----------------------------- MODULE DumpProofs -----------------------------
(***************************************************************************)
(* What tar -c writes while users change the tree, for every tree, number  *)
(* of descriptors, list of arguments and sequence of changes.              *)
(***************************************************************************)
EXTENDS Dump, SequenceTheorems, FiniteSetTheorems, TLAPS

\* A tree as it can be at the time now: inodes are numbered from 1, every name
\* leads to one, and nothing is younger.
Tree(f, now) ==
    /\ \E n \in Nat : n > 0 /\ DOMAIN f = 1 .. n
    /\ f = [i \in DOMAIN f |-> f[i]]
    /\ \A i \in DOMAIN f :
         /\ IsNode(f[i]) /\ f[i].mtime <= now
         /\ \A n \in DOMAIN f[i].kids : f[i].kids[n] \in DOMAIN f

\* What the users' step from f to g did: inodes stay, with their types, one that
\* was changed has the time of the change, and the names are the same but for
\* those that were used.
SameName(f, g, i, n) == n \in DOMAIN g[i].kids /\ g[i].kids[n] = f[i].kids[n]
Changed(f, g, used) ==
    /\ DOMAIN f \subseteq DOMAIN g
    /\ \A i \in DOMAIN f : g[i].mtime = Now \/ (g[i].mtime = f[i].mtime /\ g[i].data = f[i].data)
    /\ \A i \in DOMAIN f : g[i].t = f[i].t
    /\ \A i \in DOMAIN f : \A n \in DOMAIN f[i].kids : <<i, n>> \notin used => SameName(f, g, i, n)

IsSeq(s) == s \in Seq({s[i] : i \in DOMAIN s})

\* The file being dumped.  As long as its time is that of fstat, so are its
\* contents, and what has been read of it is the beginning of them.  A file
\* that was not opened is empty.
CurOK ==
    cur # None =>
      /\ cur \in [step : {"open", "head", "read"}, n : {cur.n}, path : {cur.path}, fd : BOOLEAN,
                 st : {cur.st}, orig : Seq(Int), got : Seq(Int)]
      /\ cur.st.ino \in DOMAIN fs /\ cur.st.mtime \in Int /\ cur.st.mtime <= ops
      /\ cur.st.size = Len(cur.orig) /\ Len(cur.got) <= Len(cur.orig)
      /\ cur.step # "read" => cur.got = <<>>
      /\ fs[cur.st.ino].mtime = cur.st.mtime =>
           /\ fs[cur.st.ino].data = cur.orig
           /\ \A j \in 1 .. Len(cur.got) : cur.got[j] = cur.orig[j]
      /\ cur.step # "open" /\ ~cur.fd /\ cur.st.t = "file" => cur.orig = <<>>
      /\ cur.step = "read" => cur.st.t = "file"

\* The directories being dumped: each has been archived, and a descriptor of
\* one is open on it.
Dumped(path, ino) == \E j \in DOMAIN arch : arch[j].t = "dir" /\ arch[j].path = path /\ arch[j].ino = ino
DirOK(d) ==
    /\ d \in [ino : DOMAIN fs, path : {d.path}, fd : {d.ino, Shut, Gone, Bad, Stderr}, left : {d.left}, mtime : {d.mtime}]
    /\ IsSeq(d.path) /\ Len(d.path) > 0
    /\ Dumped(d.path, d.ino)
StackOK == IsSeq(stack) /\ \A k \in DOMAIN stack : DirOK(stack[k])

\* The file being dumped was found in the last of them.
CurPath ==
    cur # None =>
      /\ IsSeq(cur.path)
      /\ TopLevel => Len(cur.path) = 1
      /\ ~TopLevel => /\ Len(cur.path) = Len(stack[Depth].path) + 1
                      /\ Front(cur.path) = stack[Depth].path
                      /\ stack[Depth].fd = stack[Depth].ino

\* The table of hard links: each file in it has been archived under its name.
Archived(path, ino) == \E j \in DOMAIN arch : arch[j].path = path /\ arch[j].ino = ino /\ arch[j].t \in {"file", "lnk"}
TableOK ==
    /\ table = [i \in DOMAIN table |-> table[i]]
    /\ \A i \in DOMAIN table : table[i] \in [name : {table[i].name}, nlink : {table[i].nlink}]
    /\ \A i \in DOMAIN table : Archived(table[i].name, i)
    /\ cur # None /\ cur.step = "read" => ~Linked
    /\ aborted = FALSE

\* As long as nobody changes the tree, the counts are right.
Count(i) == Cardinality({k \in DOMAIN arch : arch[k].ino = i})
Counted ==
    ops = 0 =>
      /\ fs = sc.fs
      /\ cur # None => cur.st = Stat(cur.st.ino)
      /\ \A i \in DOMAIN table : /\ i \in DOMAIN fs /\ fs[i].t \in {"file", "lnk"} /\ Trivial < Nlink(i)
                                 /\ table[i].nlink = Max2(0, Nlink(i) - Count(i))
      /\ \A k \in DOMAIN arch : LET i == arch[k].ino IN
            i \in DOMAIN fs /\ (fs[i].t \in {"file", "lnk"} /\ Trivial < Nlink(i) => i \in DOMAIN table)

Inv ==
    /\ sc \in Scenarios /\ ops \in Nat /\ Tree(fs, ops) /\ status \in 0 .. 2 /\ IsSeq(arch)
    /\ CurOK /\ StackOK /\ CurPath /\ TableOK /\ Counted
    /\ Whole /\ NoImpostor /\ LinksTrue

-----------------------------------------------------------------------------
(* Trees and sequences.                                                    *)

\* The empty sequence.
LEMMA EmptyIsSeq == IsSeq(<<>>)
BY DEF IsSeq

\* A sequence of one element.
LEMMA SingletonIsSeq == ASSUME NEW x PROVE IsSeq(<<x>>) /\ Len(<<x>>) = 1
BY DEF IsSeq

\* Every sequence is one of its own elements.
LEMMA ToItsRange == ASSUME NEW S, NEW s \in Seq(S) PROVE s \in Seq({s[i] : i \in DOMAIN s})
<1>1. Len(s) \in Nat /\ s \in [1 .. Len(s) -> S]
  BY Zenon, LenProperties
<1>2. s \in [1 .. Len(s) -> {s[i] : i \in DOMAIN s}]
  BY Zenon, <1>1
<1> QED BY <1>1, <1>2, SeqDef

\* A sequence with one element more.
LEMMA AppendIsSeq ==
    ASSUME NEW s, IsSeq(s), NEW x
    PROVE  /\ IsSeq(Append(s, x))
           /\ Len(s) \in Nat /\ DOMAIN s = 1 .. Len(s)
           /\ Len(Append(s, x)) = Len(s) + 1 /\ DOMAIN Append(s, x) = 1 .. Len(s) + 1
           /\ \A i \in 1 .. Len(s) : Append(s, x)[i] = s[i]
           /\ Append(s, x)[Len(s) + 1] = x
           /\ Front(Append(s, x)) = s
<1> DEFINE S == {s[i] : i \in DOMAIN s} \cup {x}
           a == Append(s, x)
<1>1. s \in Seq(S) /\ x \in S
  BY DEF IsSeq
<1> HIDE DEF S
<1>2. /\ a \in Seq(S) /\ Len(a) = Len(s) + 1 /\ DOMAIN a = 1 .. Len(s) + 1
      /\ Len(s) \in Nat /\ DOMAIN s = 1 .. Len(s)
      /\ \A i \in 1 .. Len(s) : a[i] = s[i]
      /\ a[Len(s) + 1] = x
  BY <1>1
<1>3. a \in Seq({a[i] : i \in DOMAIN a})
  BY <1>2
<1>4. SubSeq(a, 1, Len(a) - 1) = s
  BY <1>1, <1>2
<1> QED BY Zenon, <1>2, <1>3, <1>4 DEF IsSeq, Front

\* A sequence without its last element.
LEMMA FrontIsSeq ==
    ASSUME NEW s, IsSeq(s), s # <<>>
    PROVE  /\ IsSeq(Front(s)) /\ Len(s) \in Nat \ {0} /\ Len(Front(s)) = Len(s) - 1
           /\ DOMAIN s = 1 .. Len(s) /\ DOMAIN Front(s) = 1 .. Len(s) - 1
           /\ \A i \in 1 .. Len(s) - 1 : Front(s)[i] = s[i]
<1> DEFINE S == {s[i] : i \in DOMAIN s}
           f == SubSeq(s, 1, Len(s) - 1)
<1>1. s \in Seq(S)
  BY Zenon DEF IsSeq
<1> HIDE DEF S
<1>0. Len(s) \in Nat \ {0} /\ DOMAIN s = 1 .. Len(s)
  BY <1>1, EmptySeq
<1>2. /\ f \in Seq(S) /\ Len(f) = Len(s) - 1 /\ DOMAIN f = 1 .. Len(s) - 1
      /\ \A i \in 1 .. Len(s) - 1 : f[i] = s[i]
  BY <1>0, <1>1
<1>3. f \in Seq({f[i] : i \in DOMAIN f})
  BY Zenon, <1>2, ToItsRange
<1> QED BY Zenon, <1>0, <1>2, <1>3 DEF IsSeq, Front

\* A sequence in which one element was replaced.
LEMMA ExceptIsSeq ==
    ASSUME NEW s, IsSeq(s), NEW k \in DOMAIN s, NEW x
    PROVE  /\ IsSeq([s EXCEPT ![k] = x]) /\ Len([s EXCEPT ![k] = x]) = Len(s)
           /\ Len(s) \in Nat /\ DOMAIN s = 1 .. Len(s) /\ DOMAIN [s EXCEPT ![k] = x] = DOMAIN s
           /\ [s EXCEPT ![k] = x][k] = x
           /\ \A i \in DOMAIN s \ {k} : [s EXCEPT ![k] = x][i] = s[i]
<1> DEFINE S == {s[i] : i \in DOMAIN s} \cup {x}
           e == [s EXCEPT ![k] = x]
<1>1. s \in Seq(S) /\ x \in S
  BY DEF IsSeq
<1> HIDE DEF S
<1>2. Len(s) \in Nat /\ DOMAIN s = 1 .. Len(s)
  BY <1>1
<1>3. e \in Seq(S) /\ Len(e) = Len(s) /\ DOMAIN e = 1 .. Len(s)
  BY <1>1, <1>2
<1>4. e[k] = x /\ \A i \in DOMAIN s \ {k} : e[i] = s[i]
  BY Zenon, <1>1, <1>2
<1> HIDE DEF e
<1>5. e \in Seq({e[i] : i \in DOMAIN e})
  BY <1>3, ToItsRange
<1> QED BY Zenon, <1>2, <1>3, <1>4, <1>5 DEF IsSeq, e

\* A tree stays one as time passes.
LEMMA LaterTree ==
    ASSUME NEW f, NEW a \in Int, NEW b \in Int, a <= b, Tree(f, a)
    PROVE  Tree(f, b)
BY DEF Tree, IsNode

\* Two changes of one step.
LEMMA ChangedTwice ==
    ASSUME NEW f, NEW g, NEW h, NEW u, NEW v, Changed(f, g, u), Changed(g, h, v)
    PROVE  Changed(f, h, u \cup v)
<1>1. \A i \in DOMAIN f : \A n \in DOMAIN f[i].kids : <<i, n>> \notin u \cup v => SameName(f, h, i, n)
  BY DEF Changed, SameName
<1> QED BY Zenon, <1>1 DEF Changed

\* A node is replaced by one of the time of the change.
LEMMA NodeChanged ==
    ASSUME ops \in Nat, NEW f, Tree(f, Now), NEW d \in DOMAIN f,
           NEW g, g = [i \in DOMAIN f |-> g[i]], \A i \in DOMAIN f \ {d} : g[i] = f[i],
           IsNode(g[d]), g[d].mtime = Now, g[d].t = f[d].t,
           \A n \in DOMAIN g[d].kids : g[d].kids[n] \in DOMAIN f,
           NEW used, \A n \in DOMAIN f[d].kids : <<d, n>> \notin used => SameName(f, g, d, n)
    PROVE  Tree(g, Now) /\ Changed(f, g, used)
<1>1. DOMAIN g = DOMAIN f
  BY Zenon
<1>2. \A i \in DOMAIN f : /\ IsNode(g[i]) /\ g[i].mtime <= Now
                          /\ \A n \in DOMAIN g[i].kids : g[i].kids[n] \in DOMAIN f
  BY DEF Tree, Now
<1>3. Tree(g, Now)
  BY Zenon, <1>1, <1>2 DEF Tree
<1>4. \A i \in DOMAIN f : \A n \in DOMAIN f[i].kids : <<i, n>> \notin used => SameName(f, g, i, n)
  BY Zenon DEF SameName
<1> QED BY Zenon, <1>1, <1>3, <1>4 DEF Changed

\* A new name in a directory.
LEMMA WithKidTree ==
    ASSUME ops \in Nat, NEW f, Tree(f, Now), NEW d \in DOMAIN f, NEW n, NEW i \in DOMAIN f
    PROVE  Tree(WithKid(f, d, n, i), Now) /\ Changed(f, WithKid(f, d, n, i), {<<d, n>>})
<1> DEFINE kids == [x \in DOMAIN f[d].kids \cup {n} |-> IF x = n THEN i ELSE f[d].kids[x]]
           g == [f EXCEPT ![d].kids = kids, ![d].mtime = Now]
<1>1. \A x \in DOMAIN kids : kids[x] \in DOMAIN f
  BY Zenon DEF Tree
<1>2. IsNode(f[d]) /\ f = [j \in DOMAIN f |-> f[j]]
  BY Zenon DEF Tree
<1> HIDE DEF kids
<1>3. g = [j \in DOMAIN f |-> g[j]] /\ \A j \in DOMAIN f \ {d} : g[j] = f[j]
  <2> DEFINE node == [f[d] EXCEPT !.kids = kids, !.mtime = Now]
  <2>1. g = [f EXCEPT ![d] = node]
    BY Zenon
  <2> HIDE DEF g, node
  <2> QED BY Zenon, <1>2, <2>1
<1>4. IsNode(g[d])
  <2>1. Now \in Int
    BY DEF Now
  <2> QED BY Zenon, <1>2, <2>1 DEF IsNode
<1>5. g[d].mtime = Now /\ g[d].kids = kids /\ g[d].t = f[d].t
  BY Zenon, <1>2 DEF IsNode
<1> HIDE DEF g
<1>6. \A x \in DOMAIN f[d].kids : <<d, x>> \notin {<<d, n>>} => SameName(f, g, d, x)
  BY Zenon, <1>5 DEF SameName, kids
<1>7. Tree(g, Now) /\ Changed(f, g, {<<d, n>>})
  BY Zenon, <1>1, <1>3, <1>4, <1>5, <1>6, NodeChanged
<1> QED BY Zenon, <1>7 DEF g, kids, WithKid

\* A name removed from a directory.
LEMMA WithoutKidTree ==
    ASSUME ops \in Nat, NEW f, Tree(f, Now), NEW d \in DOMAIN f, NEW n
    PROVE  Tree(WithoutKid(f, d, n), Now) /\ Changed(f, WithoutKid(f, d, n), {<<d, n>>})
<1> DEFINE kids == [x \in DOMAIN f[d].kids \ {n} |-> f[d].kids[x]]
           g == [f EXCEPT ![d].kids = kids, ![d].mtime = Now]
<1>1. \A x \in DOMAIN kids : kids[x] \in DOMAIN f
  BY Zenon DEF Tree
<1>2. IsNode(f[d]) /\ f = [j \in DOMAIN f |-> f[j]]
  BY Zenon DEF Tree
<1> HIDE DEF kids
<1>3. g = [j \in DOMAIN f |-> g[j]] /\ \A j \in DOMAIN f \ {d} : g[j] = f[j]
  <2> DEFINE node == [f[d] EXCEPT !.kids = kids, !.mtime = Now]
  <2>1. g = [f EXCEPT ![d] = node]
    BY Zenon
  <2> HIDE DEF g, node
  <2> QED BY Zenon, <1>2, <2>1
<1>4. IsNode(g[d])
  <2>1. Now \in Int
    BY DEF Now
  <2> QED BY Zenon, <1>2, <2>1 DEF IsNode
<1>5. g[d].mtime = Now /\ g[d].kids = kids /\ g[d].t = f[d].t
  BY Zenon, <1>2 DEF IsNode
<1> HIDE DEF g
<1>6. \A x \in DOMAIN f[d].kids : <<d, x>> \notin {<<d, n>>} => SameName(f, g, d, x)
  BY Zenon, <1>5 DEF SameName, kids
<1>7. Tree(g, Now) /\ Changed(f, g, {<<d, n>>})
  BY Zenon, <1>1, <1>3, <1>4, <1>5, <1>6, NodeChanged
<1> QED BY Zenon, <1>7 DEF g, kids, WithoutKid

\* A file's new contents.
LEMMA DataTree ==
    ASSUME ops \in Nat, NEW f, Tree(f, Now), NEW d \in DOMAIN f, NEW new \in Seq(Int)
    PROVE  /\ Tree([f EXCEPT ![d].mtime = Now, ![d].data = new], Now)
           /\ Changed(f, [f EXCEPT ![d].mtime = Now, ![d].data = new], {})
<1> DEFINE g == [f EXCEPT ![d].mtime = Now, ![d].data = new]
<1>1. \A x \in DOMAIN f[d].kids : f[d].kids[x] \in DOMAIN f
  BY Zenon DEF Tree
<1>2. IsNode(f[d]) /\ f = [j \in DOMAIN f |-> f[j]]
  BY Zenon DEF Tree
<1>3. g = [j \in DOMAIN f |-> g[j]] /\ \A j \in DOMAIN f \ {d} : g[j] = f[j]
  <2> DEFINE node == [f[d] EXCEPT !.mtime = Now, !.data = new]
  <2>1. g = [f EXCEPT ![d] = node]
    BY Zenon
  <2> HIDE DEF g, node
  <2> QED BY Zenon, <1>2, <2>1
<1>4. IsNode(g[d])
  <2>1. Now \in Int
    BY DEF Now
  <2> QED BY Zenon, <1>2, <2>1 DEF IsNode
<1>5. g[d].mtime = Now /\ g[d].kids = f[d].kids /\ g[d].t = f[d].t
  BY Zenon, <1>2 DEF IsNode
<1> HIDE DEF g
<1>6. \A n \in DOMAIN f[d].kids : SameName(f, g, d, n)
  BY Zenon, <1>5 DEF SameName
<1>7. Tree(g, Now) /\ Changed(f, g, {})
  BY Zenon, <1>1, <1>3, <1>4, <1>5, <1>6, NodeChanged
<1> QED BY Zenon, <1>7 DEF g

\* A new inode.
LEMMA NewNodeTree ==
    ASSUME ops \in Nat, NEW f, Tree(f, Now), NEW x, IsNode(x), x.mtime = Now, DOMAIN x.kids = {}
    PROVE  LET i == Max(DOMAIN f) + 1
               g == [j \in DOMAIN f \cup {i} |-> IF j = i THEN x ELSE f[j]]
           IN  i \in DOMAIN g /\ Tree(g, Now) /\ Changed(f, g, {})
<1> DEFINE i == Max(DOMAIN f) + 1
           g == [j \in DOMAIN f \cup {i} |-> IF j = i THEN x ELSE f[j]]
<1>1. PICK n \in Nat : n > 0 /\ DOMAIN f = 1 .. n
  BY Zenon DEF Tree
<1>2. Max(1 .. n) = n
  <2>1. n \in 1 .. n /\ \A y \in 1 .. n : n >= y
    BY <1>1
  <2>2. \A z \in 1 .. n : (\A y \in 1 .. n : z >= y) => z = n
    BY <2>1
  <2> QED BY Zenon, <2>1, <2>2 DEF Max
<1>3. i = n + 1 /\ DOMAIN g = 1 .. n + 1
  BY <1>1, <1>2
<1>4. \A j \in DOMAIN f : j # i /\ g[j] = f[j]
  BY <1>1, <1>3
<1>5. g[i] = x
  BY Zenon, <1>3
<1>6. g = [j \in DOMAIN g |-> g[j]]
  BY Zenon
<1>7. \A j \in DOMAIN g : j = i \/ j \in DOMAIN f
  BY Zenon
<1>8. i \in DOMAIN g /\ DOMAIN f \subseteq DOMAIN g
  BY Zenon
<1> HIDE DEF g, i
<1>9. \A j \in DOMAIN g : /\ IsNode(g[j]) /\ g[j].mtime <= Now
                          /\ \A m \in DOMAIN g[j].kids : g[j].kids[m] \in DOMAIN g
  BY <1>4, <1>5, <1>7, <1>8 DEF Tree, Now
<1>10. Tree(g, Now)
  BY <1>1, <1>3, <1>6, <1>9 DEF Tree
<1>11. Changed(f, g, {})
  BY Zenon, <1>4, <1>8 DEF Changed, SameName
<1> QED BY Zenon, <1>8, <1>10, <1>11 DEF g, i

-----------------------------------------------------------------------------
(* The users.                                                              *)

\* What every step of theirs does.
LEMMA UsersStep ==
    ASSUME ops \in Nat, Tree(fs, ops), Users
    PROVE  /\ ops' = ops + 1 /\ Tree(fs', ops + 1)
           /\ \E used : touched' = touched \cup used /\ Changed(fs, fs', used)
           /\ UNCHANGED <<sc, todo, stack, cur, table, arch, status, aborted>>
<1> DEFINE Good(f, used) == Tree(f, Now) /\ Changed(fs, f, used)
<1>1. Tree(fs, Now)
  BY LaterTree DEF Now
<1>2. /\ \A i \in DOMAIN fs : IsNode(fs[i])
      /\ \A d \in DOMAIN fs : \A n \in DOMAIN fs[d].kids : fs[d].kids[n] \in DOMAIN fs
  BY Zenon DEF Tree
<1>3. ASSUME NEW i \in DOMAIN fs, NEW b \in 1 .. Len(fs[i].data) + 1
      PROVE  Good([fs EXCEPT ![i].mtime = Now,
                             ![i].data = IF b > Len(@) THEN Append(@, Now) ELSE [@ EXCEPT ![b] = Now]], {})
  <2> DEFINE new == IF b > Len(fs[i].data) THEN Append(fs[i].data, Now) ELSE [fs[i].data EXCEPT ![b] = Now]
  <2>1. fs[i].data \in Seq(Int) /\ Now \in Int
    BY <1>2 DEF IsNode, Now
  <2>2. new \in Seq(Int)
    BY <2>1
  <2> HIDE DEF new
  <2>3. Good([fs EXCEPT ![i].mtime = Now, ![i].data = new], {})
    BY Zenon, <1>1, <2>2, DataTree
  <2> QED BY Zenon, <2>3 DEF new
<1>4. ASSUME NEW i \in DOMAIN fs PROVE Good([fs EXCEPT ![i].mtime = Now, ![i].data = <<>>], {})
  <2>1. <<>> \in Seq(Int)
    OBVIOUS
  <2> QED BY Zenon, <1>1, <2>1, DataTree
<1>5. ASSUME NEW d \in DOMAIN fs, NEW n PROVE Good(WithoutKid(fs, d, n), {<<d, n>>})
  BY Zenon, <1>1, WithoutKidTree
<1>6. ASSUME NEW d \in DOMAIN fs, NEW e \in DOMAIN fs, NEW n \in DOMAIN fs[d].kids, NEW m
      PROVE  Good(WithKid(WithoutKid(fs, d, n), e, m, fs[d].kids[n]), {<<d, n>>, <<e, m>>})
  <2> DEFINE f == WithoutKid(fs, d, n)
             i == fs[d].kids[n]
  <2>1. Tree(f, Now) /\ Changed(fs, f, {<<d, n>>})
    BY Zenon, <1>5
  <2>2. e \in DOMAIN f /\ i \in DOMAIN f
    BY Zenon, <1>2, <2>1 DEF Changed
  <2> HIDE DEF f, i
  <2>3. Tree(WithKid(f, e, m, i), Now) /\ Changed(f, WithKid(f, e, m, i), {<<e, m>>})
    BY Zenon, <2>1, <2>2, WithKidTree
  <2>4. Changed(fs, WithKid(f, e, m, i), {<<d, n>>} \cup {<<e, m>>})
    BY Zenon, <2>1, <2>3, ChangedTwice
  <2>5. {<<d, n>>} \cup {<<e, m>>} = {<<d, n>>, <<e, m>>}
    BY Zenon
  <2> QED BY Zenon, <2>3, <2>4, <2>5 DEF f, i
<1>7. ASSUME NEW e \in DOMAIN fs, NEW m, NEW i \in DOMAIN fs PROVE Good(WithKid(fs, e, m, i), {<<e, m>>})
  BY Zenon, <1>1, WithKidTree
<1>8. ASSUME NEW d \in DOMAIN fs, NEW n, NEW x, IsNode(x), x.mtime = Now, DOMAIN x.kids = {}
      PROVE  LET i == Max(DOMAIN fs) + 1 IN
             Good(WithKid([j \in DOMAIN fs \cup {i} |-> IF j = i THEN x ELSE fs[j]], d, n, i), {<<d, n>>})
  <2> DEFINE i == Max(DOMAIN fs) + 1
             f == [j \in DOMAIN fs \cup {i} |-> IF j = i THEN x ELSE fs[j]]
  <2>1. i \in DOMAIN f /\ Tree(f, Now) /\ Changed(fs, f, {})
    BY Zenon, <1>1, <1>8, NewNodeTree
  <2>2. d \in DOMAIN f
    BY Zenon, <1>8
  <2> HIDE DEF f, i
  <2>3. Tree(WithKid(f, d, n, i), Now) /\ Changed(f, WithKid(f, d, n, i), {<<d, n>>})
    BY Zenon, <2>1, <2>2, WithKidTree
  <2>4. Changed(fs, WithKid(f, d, n, i), {} \cup {<<d, n>>})
    BY Zenon, <2>1, <2>3, ChangedTwice
  <2>5. {} \cup {<<d, n>>} = {<<d, n>>}
    BY Zenon
  <2> QED BY Zenon, <2>3, <2>4, <2>5 DEF f, i
<1> HIDE DEF Good
<1>9. Dirs \subseteq DOMAIN fs /\ Live \subseteq DOMAIN fs
  BY Zenon DEF Dirs, Live
<1>10. PICK f, used : Changes(f, used) /\ Good(f, used)
  <2>1. CASE WriteBlock
    BY Zenon, <1>3, <2>1 DEF WriteBlock
  <2>2. CASE Truncate
    BY Zenon, <1>4, <2>2 DEF Truncate
  <2>3. CASE Unlink
    BY Zenon, <1>5, <1>9, <2>3 DEF Unlink
  <2>4. CASE Rename
    BY <1>6, <1>9, <2>4 DEF Rename
  <2>5. CASE Link
    BY Zenon, <1>2, <1>7, <1>9, <2>5 DEF Link
  <2>6. CASE Create
    <3>1. PICK d \in Live, n \in sc.new, t \in {"file", "dir", "lnk"} :
            LET i == Max(DOMAIN fs) + 1
                node == [t |-> t, kids |-> [x \in {} |-> 0], mtime |-> Now,
                         data |-> IF t = "file" THEN <<Now>> ELSE <<>>]
            IN  Changes(WithKid([x \in DOMAIN fs \cup {i} |-> IF x = i THEN node ELSE fs[x]], d, n, i),
                        {<<d, n>>})
      BY Zenon, <2>6 DEF Create
    <3> DEFINE node == [t |-> t, kids |-> [x \in {} |-> 0], mtime |-> Now,
                        data |-> IF t = "file" THEN <<Now>> ELSE <<>>]
    <3>2. Now \in Int
      BY DEF Now
    <3>3. IsNode(node) /\ node.mtime = Now /\ DOMAIN node.kids = {}
      BY <3>2 DEF IsNode
    <3> DEFINE i == Max(DOMAIN fs) + 1
               g == WithKid([x \in DOMAIN fs \cup {i} |-> IF x = i THEN node ELSE fs[x]], d, n, i)
    <3>4. Changes(g, {<<d, n>>})
      BY Zenon, <3>1
    <3>5. d \in DOMAIN fs
      BY Zenon, <1>9
    <3> HIDE DEF node
    <3>6. Good(g, {<<d, n>>})
      BY Zenon, <1>8, <3>3, <3>5
    <3> QED BY Zenon, <3>4, <3>6
  <2> QED BY Zenon, <2>1, <2>2, <2>3, <2>4, <2>5, <2>6 DEF Users
<1>11. fs' = f /\ ops' = ops + 1 /\ touched' = touched \cup used /\ UNCHANGED <<sc, todo, stack, cur, table, arch, status, aborted>>
  BY Zenon, <1>10 DEF Changes
<1> QED BY Zenon, <1>10, <1>11 DEF Good, Now

\* A step of the users keeps the invariant: what they change gets a new time.
LEMMA UsersInv == Inv /\ Users => Inv'
<1> SUFFICES ASSUME Inv, Users PROVE Inv'
  BY Zenon
<1>1. /\ ops \in Nat /\ ops' = ops + 1 /\ Tree(fs', ops') /\ Tree(fs, ops)
      /\ \E used : Changed(fs, fs', used)
      /\ UNCHANGED <<sc, todo, stack, cur, table, arch, status, aborted>>
  BY Zenon, UsersStep DEF Inv
<1>2. CurOK'
  <2>1. CASE cur = None
    BY Zenon, <1>1, <2>1 DEF CurOK, None
  <2>2. CASE cur # None
    <3>1. fs'[cur.st.ino].mtime = cur.st.mtime =>
            fs[cur.st.ino].mtime = cur.st.mtime /\ fs'[cur.st.ino].data = fs[cur.st.ino].data
      BY <1>1, <2>2 DEF Inv, CurOK, Changed, Now
    <3>2. cur.st.ino \in DOMAIN fs'
      BY Zenon, <1>1, <2>2 DEF Inv, CurOK, Changed
    <3> QED BY <1>1, <2>2, <3>1, <3>2 DEF Inv, CurOK, None
  <2> QED BY Zenon, <2>1, <2>2
<1>3. StackOK'
  BY Zenon, <1>1 DEF Inv, StackOK, DirOK, Dumped, Changed, Shut, Gone, Bad, Stderr
<1>4. CurPath'
  BY Zenon, <1>1 DEF Inv, CurPath, TopLevel, Depth, None
<1>5. TableOK'
  BY <1>1 DEF Inv, TableOK, Archived, Linked, Trivial, None
<1>6. Counted'
  BY <1>1 DEF Counted
<1>7. Whole' /\ NoImpostor' /\ LinksTrue'
  BY Zenon, <1>1 DEF Inv, Whole, NoImpostor, LinksTrue
<1> QED BY <1>1, <1>2, <1>3, <1>4, <1>5, <1>6, <1>7 DEF Inv

-----------------------------------------------------------------------------
(* tar.                                                                    *)

\* What a new member needs, and what it keeps.
LEMMA MemberAdded ==
    ASSUME IsSeq(arch), Whole, NoImpostor, LinksTrue, status \in 0 .. 2, status' \in 0 .. 2, status' >= status,
           NEW m, arch' = Append(arch, m),
           Len(m.path) > 1 => Dumped(Front(m.path), m.par),
           m.t = "link" => Archived(m.target, m.ino),
           status' = 0 /\ m.t = "file" => m.data = m.orig
    PROVE  /\ IsSeq(arch') /\ Whole' /\ NoImpostor' /\ LinksTrue'
           /\ \A path, ino : Dumped(path, ino) => Dumped(path, ino)'
           /\ \A path, ino : Archived(path, ino) => Archived(path, ino)'
           /\ m.t = "dir" => Dumped(m.path, m.ino)'
           /\ m.t \in {"file", "lnk"} => Archived(m.path, m.ino)'
<1>1. /\ IsSeq(arch') /\ Len(arch) \in Nat /\ DOMAIN arch = 1 .. Len(arch) /\ DOMAIN arch' = 1 .. Len(arch) + 1
      /\ \A k \in 1 .. Len(arch) : arch'[k] = arch[k]
      /\ arch'[Len(arch) + 1] = m
  BY AppendIsSeq
<1>2. \A path, ino : Dumped(path, ino) => Dumped(path, ino)'
  BY <1>1 DEF Dumped
<1>3. \A path, ino : Archived(path, ino) => Archived(path, ino)'
  BY <1>1 DEF Archived
<1>4. m.t = "dir" => Dumped(m.path, m.ino)'
  BY <1>1 DEF Dumped
<1>5. m.t \in {"file", "lnk"} => Archived(m.path, m.ino)'
  BY <1>1 DEF Archived
<1>6. Whole'
  <2>1. status' = 0 => status = 0
    OBVIOUS
  <2> QED BY <1>1, <2>1 DEF Whole
<1>7. NoImpostor'
  <2> SUFFICES ASSUME NEW k \in 1 .. Len(arch) + 1, Len(arch'[k].path) > 1
               PROVE  \E j \in 1 .. k - 1 : /\ arch'[j].t = "dir" /\ arch'[j].path = Front(arch'[k].path)
                                            /\ arch'[j].ino = arch'[k].par
    BY Zenon, <1>1 DEF NoImpostor
  <2>1. CASE k \in 1 .. Len(arch)
    BY <1>1, <2>1 DEF NoImpostor
  <2>2. CASE k = Len(arch) + 1
    <3>1. Dumped(Front(m.path), m.par)
      BY Zenon, <1>1, <2>2
    <3> QED BY <1>1, <2>2, <3>1 DEF Dumped
  <2> QED BY <1>1, <2>1, <2>2
<1>8. LinksTrue'
  <2> SUFFICES ASSUME NEW k \in 1 .. Len(arch) + 1, arch'[k].t = "link"
               PROVE  \E j \in 1 .. k - 1 : /\ arch'[j].path = arch'[k].target /\ arch'[j].ino = arch'[k].ino
                                            /\ arch'[j].t \in {"file", "lnk"}
    BY Zenon, <1>1 DEF LinksTrue
  <2>1. CASE k \in 1 .. Len(arch)
    BY <1>1, <2>1 DEF LinksTrue
  <2>2. CASE k = Len(arch) + 1
    <3>1. Archived(m.target, m.ino)
      BY Zenon, <1>1, <2>2
    <3> QED BY <1>1, <2>2, <3>1 DEF Archived
  <2> QED BY <1>1, <2>1, <2>2
<1> QED BY Zenon, <1>1, <1>2, <1>3, <1>4, <1>5, <1>6, <1>7, <1>8

\* The result of fstat.
LEMMA CurrentOK ==
    ASSUME ops \in Nat, Tree(fs, ops), NEW i \in DOMAIN fs, NEW step \in {"open", "head"}, NEW n, NEW path, NEW fd \in BOOLEAN,
           step = "head" /\ ~fd /\ fs[i].t = "file" => fs[i].data = <<>>,
           NEW c, c = Current(step, n, path, fd, i)
    PROVE  /\ c # None /\ c.step = step /\ c.path = path /\ c.n = n /\ c.st = Stat(i) /\ c.st.ino = i
           /\ c \in [step : {"open", "head", "read"}, n : {c.n}, path : {c.path}, fd : BOOLEAN,
                     st : {c.st}, orig : Seq(Int), got : Seq(Int)]
           /\ c.st.mtime \in Int /\ c.st.mtime <= ops
           /\ c.st.size = Len(c.orig) /\ Len(c.got) <= Len(c.orig) /\ c.got = <<>>
           /\ fs[i].mtime = c.st.mtime /\ fs[i].data = c.orig
           /\ c.step # "open" /\ ~c.fd /\ c.st.t = "file" => c.orig = <<>>
<1>1. fs[i].mtime \in Int /\ fs[i].mtime <= ops /\ fs[i].data \in Seq(Int)
  BY Zenon DEF Tree, IsNode
<1>2. /\ c.step = step /\ c.path = path /\ c.n = n /\ c.st = Stat(i) /\ c.fd = fd /\ c.got = <<>> /\ c.orig = fs[i].data
  BY Zenon DEF Current
<1>3. c \in [step : {"open", "head", "read"}, n : {c.n}, path : {c.path}, fd : BOOLEAN,
             st : {c.st}, orig : Seq(Int), got : Seq(Int)]
  BY <1>1 DEF Current
<1>4. /\ Stat(i).ino = i /\ Stat(i).mtime = fs[i].mtime /\ Stat(i).size = Len(fs[i].data) /\ Stat(i).t = fs[i].t
  BY Zenon DEF Stat
<1>5. c # None
  BY <1>2 DEF None
<1>6. Len(<<>>) <= Len(fs[i].data)
  BY <1>1
<1> QED BY Zenon, <1>1, <1>2, <1>3, <1>4, <1>5, <1>6

\* The last of some places in a sequence is one of them.
LEMMA LastPlace == ASSUME NEW n \in Nat, NEW S \in SUBSET (1 .. n), S # {} PROVE Max(S) \in S
<1> DEFINE T == {n - x : x \in S}
           R == OpToRel(<, Nat)
<1>0. \A x \in S : x \in Int /\ 1 <= x /\ x <= n
  OBVIOUS
<1>1. T \subseteq Nat /\ T # {}
  <2>1. ASSUME NEW x \in S PROVE n - x \in Nat
    BY <1>0
  <2>2. PICK x : x \in S
    BY Zenon
  <2>3. n - x \in T
    BY Zenon, <2>2
  <2> QED BY Zenon, <2>1, <2>3
<1>2. IsWellFoundedOn(R, Nat)
  BY Zenon, NatLessThanWellFounded
<1> HIDE DEF R
<1>3. PICK t \in T : \A u \in T : ~ (<<u, t>> \in R)
  BY Zenon, <1>1, <1>2, WFMin
<1>4. ASSUME NEW u \in T PROVE u >= t
  <2>1. u \in Nat /\ t \in Nat
    BY Zenon, <1>1
  <2>2. u < t => <<u, t>> \in R
    BY Zenon, <2>1 DEF R, OpToRel
  <2> QED BY <1>3, <2>1, <2>2
<1>5. PICK x \in S : t = n - x
  BY Zenon, <1>3
<1>6. ASSUME NEW y \in S PROVE x >= y
  <2>1. n - y >= t
    BY Zenon, <1>4
  <2> QED BY <1>0, <1>5, <2>1
<1> QED BY Zenon, <1>5, <1>6 DEF Max

\* The count of the members of a file, with one member more.
LEMMA CountAdded ==
    ASSUME IsSeq(arch), NEW m, arch' = Append(arch, m), NEW i
    PROVE  Count(i) \in Nat /\ Count(i)' = IF m.ino = i THEN Count(i) + 1 ELSE Count(i)
<1> DEFINE C == {k \in DOMAIN arch : arch[k].ino = i}
           D == {k \in DOMAIN arch' : arch'[k].ino = i}
           last == Len(arch) + 1
<1>1. /\ Len(arch) \in Nat /\ DOMAIN arch = 1 .. Len(arch) /\ DOMAIN arch' = 1 .. Len(arch) + 1
      /\ \A k \in 1 .. Len(arch) : arch'[k] = arch[k]
      /\ arch'[Len(arch) + 1] = m
  BY AppendIsSeq
<1>2. IsFiniteSet(1 .. Len(arch))
  BY <1>1, FS_Interval
<1>3. C \in SUBSET (1 .. Len(arch)) /\ last \notin C
  BY <1>1
<1>4. D = IF m.ino = i THEN C \cup {last} ELSE C
  BY <1>1
<1>5. Count(i) = Cardinality(C) /\ Count(i)' = Cardinality(D)
  BY Zenon DEF Count
<1> HIDE DEF C, D, last
<1>6. IsFiniteSet(C)
  BY Zenon, <1>2, <1>3, FS_Subset
<1>7. Cardinality(C) \in Nat
  BY Zenon, <1>6, FS_CardinalityType
<1>8. Cardinality(C \cup {last}) = Cardinality(C) + 1
  BY Zenon, <1>3, <1>6, FS_AddElement
<1> QED BY Zenon, <1>4, <1>5, <1>7, <1>8

\* The tree that tar was started on has finitely many names.
LEMMA NlinkNat == ASSUME sc \in Scenarios, fs = sc.fs, NEW i PROVE Nlink(i) \in Nat
<1> DEFINE f == [d \in Dirs |-> DOMAIN fs[d].kids]
           K == {DOMAIN fs[d].kids : d \in Dirs}
           P == {dn \in UNION {{<<d, n>> : n \in DOMAIN fs[d].kids} : d \in Dirs} : fs[dn[1]].kids[dn[2]] = i}
<1>1. IsFiniteSet(DOMAIN fs) /\ \A d \in DOMAIN fs : IsFiniteSet(DOMAIN fs[d].kids)
  BY Zenon, ScenariosAssumption
<1>2. Dirs \in SUBSET (DOMAIN fs)
  BY Zenon DEF Dirs
<1>3. IsFiniteSet(Dirs)
  BY Zenon, <1>1, <1>2, FS_Subset
<1>4. f \in Surjection(Dirs, K)
  BY Zenon DEF Surjection
<1>5. \A k \in K : IsFiniteSet(k)
  BY Zenon, <1>1, <1>2
<1>6. P \in SUBSET (Dirs \X UNION K)
  OBVIOUS
<1>7. Nlink(i) = Cardinality(P)
  BY Zenon DEF Nlink
<1> HIDE DEF f, K, P
<1>8. IsFiniteSet(K)
  BY Zenon, <1>3, <1>4, FS_Surjection
<1>9. IsFiniteSet(UNION K)
  BY Zenon, <1>5, <1>8, FS_UNION
<1>10. IsFiniteSet(Dirs \X UNION K)
  BY Zenon, <1>3, <1>9, FS_Product
<1>11. IsFiniteSet(P)
  BY Zenon, <1>6, <1>10, FS_Subset
<1> QED BY Zenon, <1>7, <1>11, FS_CardinalityType

\* The invariant holds when tar starts.
LEMMA InitInv == Init => Inv
<1> SUFFICES ASSUME Init PROVE Inv
  BY Zenon
<1>1. /\ sc \in Scenarios /\ fs = sc.fs /\ ops = 0 /\ stack = <<>> /\ cur = None /\ DOMAIN table = {} /\ arch = <<>>
      /\ status = 0 /\ aborted = FALSE /\ table = [i \in {} |-> 0]
  BY Zenon DEF Init
<1>2. Tree(fs, ops)
  <2>1. /\ IsFiniteSet(DOMAIN fs) /\ DOMAIN fs = 1 .. Cardinality(DOMAIN fs) /\ 1 \in DOMAIN fs
        /\ fs = [i \in DOMAIN fs |-> fs[i]]
        /\ \A i \in DOMAIN fs : /\ IsNode(fs[i]) /\ fs[i].mtime <= 0
                                /\ \A n \in DOMAIN fs[i].kids : fs[i].kids[n] \in DOMAIN fs
    BY Zenon, <1>1, ScenariosAssumption
  <2>2. Cardinality(DOMAIN fs) \in Nat
    BY Zenon, <2>1, FS_CardinalityType
  <2>3. Cardinality(DOMAIN fs) > 0
    BY <2>1, <2>2
  <2> QED BY Zenon, <1>1, <2>1, <2>2, <2>3 DEF Tree
<1>3. DOMAIN arch = {} /\ DOMAIN stack = {} /\ IsSeq(arch) /\ IsSeq(stack)
  BY <1>1, EmptyIsSeq
<1>4. CurOK /\ StackOK /\ CurPath
  BY Zenon, <1>1, <1>3 DEF CurOK, StackOK, CurPath
<1>5. TableOK
  BY Zenon, <1>1 DEF TableOK
<1>6. Counted
  BY Zenon, <1>1, <1>3 DEF Counted
<1>7. Whole /\ NoImpostor /\ LinksTrue
  BY Zenon, <1>3 DEF Whole, NoImpostor, LinksTrue
<1> QED BY <1>1, <1>2, <1>3, <1>4, <1>5, <1>6, <1>7 DEF Inv

\* dump_file0 writes a member for the file that it is at.
LEMMA MemberStep ==
    ASSUME Inv, cur # None, UNCHANGED users, cur' = None, status' \in 0 .. 2, status' >= status,
           NEW t, NEW data, NEW target, NEW m, m = Member(t, data, target), arch' = Append(arch, m),
           t = "link" => Archived(target, cur.st.ino),
           status' = 0 /\ t = "file" => data = cur.orig
    PROVE  /\ sc' \in Scenarios /\ ops' \in Nat /\ Tree(fs', ops') /\ IsSeq(arch') /\ CurOK' /\ CurPath'
           /\ Whole' /\ NoImpostor' /\ LinksTrue'
           /\ \A path, ino : Dumped(path, ino) => Dumped(path, ino)'
           /\ \A path, ino : Archived(path, ino) => Archived(path, ino)'
           /\ m.ino = cur.st.ino /\ m.path = cur.path
           /\ t = "dir" => Dumped(m.path, m.ino)'
           /\ t \in {"file", "lnk"} => Archived(m.path, m.ino)'
           /\ UNCHANGED stack => StackOK'
<1>1. /\ m.t = t /\ m.path = cur.path /\ m.ino = cur.st.ino /\ m.par = ParentFd /\ m.data = data
      /\ m.orig = cur.orig /\ m.target = target
  BY Zenon DEF Member
<1>2. sc' = sc /\ fs' = fs /\ ops' = ops
  BY Zenon DEF users
<1>3. Len(m.path) > 1 => Dumped(Front(m.path), m.par)
  <2>1. CASE TopLevel
    <3>1. Len(cur.path) = 1
      BY Zenon, <2>1 DEF Inv, CurPath
    <3> QED BY <1>1, <3>1
  <2>2. CASE ~TopLevel
    <3>1. Depth \in DOMAIN stack
      BY <2>2, FrontIsSeq DEF Inv, StackOK, TopLevel, Depth
    <3>2. Dumped(stack[Depth].path, stack[Depth].ino)
      BY Zenon, <3>1 DEF Inv, StackOK, DirOK
    <3> QED BY Zenon, <1>1, <2>2, <3>2 DEF Inv, CurPath, ParentFd
  <2> QED BY Zenon, <2>1, <2>2
<1>4. IsSeq(arch) /\ Whole /\ NoImpostor /\ LinksTrue /\ status \in 0 .. 2
  BY Zenon DEF Inv
<1>5. /\ IsSeq(arch') /\ Whole' /\ NoImpostor' /\ LinksTrue'
      /\ \A path, ino : Dumped(path, ino) => Dumped(path, ino)'
      /\ \A path, ino : Archived(path, ino) => Archived(path, ino)'
      /\ m.t = "dir" => Dumped(m.path, m.ino)'
      /\ m.t \in {"file", "lnk"} => Archived(m.path, m.ino)'
  BY Zenon, <1>1, <1>3, <1>4, MemberAdded
<1>6. UNCHANGED stack => StackOK'
  BY Zenon, <1>2, <1>5 DEF Inv, StackOK, DirOK, Shut, Gone, Bad, Stderr
<1>7. CurOK' /\ CurPath'
  BY Zenon DEF CurOK, CurPath, None
<1> QED BY Zenon, <1>1, <1>2, <1>5, <1>6, <1>7 DEF Inv

\* What counting depends on.
LEMMA SameCounts ==
    ASSUME UNCHANGED users
    PROVE  Trivial' = Trivial /\ (\A i : Nlink(i)' = Nlink(i)) /\ \A i : Stat(i)' = Stat(i)
<1>1. sc' = sc /\ fs' = fs
  BY Zenon DEF users
<1>2. Trivial' = Trivial
  BY Zenon, <1>1 DEF Trivial
<1>3. \A i : Nlink(i)' = Nlink(i)
  BY <1>1 DEF Nlink, Dirs, IsDir
<1>4. \A i : Stat(i)' = Stat(i)
  BY Zenon, <1>1, <1>3 DEF Stat
<1> QED BY Zenon, <1>2, <1>3, <1>4

\* A member that is not counted.
LEMMA NotCounted ==
    ASSUME Inv, UNCHANGED users, cur' = None, UNCHANGED <<table, aborted>>,
           NEW m, arch' = Append(arch, m), m.ino \in DOMAIN fs,
           \A path, ino : Archived(path, ino) => Archived(path, ino)',
           ops = 0 => fs[m.ino].t \notin {"file", "lnk"} \/ ~(Trivial < Nlink(m.ino))
    PROVE  TableOK' /\ Counted'
<1>1. TableOK'
  BY Zenon DEF Inv, TableOK, None
<1>2. Counted'
  <2>1. sc' = sc /\ fs' = fs /\ ops' = ops /\ table' = table
    BY Zenon DEF users
  <2>2. Trivial' = Trivial /\ \A i : Nlink(i)' = Nlink(i)
    BY Zenon, SameCounts
  <2> SUFFICES ASSUME ops = 0 PROVE Counted'
    BY Zenon, <2>1 DEF Counted
  <2>3. /\ fs = sc.fs
        /\ \A i \in DOMAIN table : /\ i \in DOMAIN fs /\ fs[i].t \in {"file", "lnk"} /\ Trivial < Nlink(i)
                                   /\ table[i].nlink = Max2(0, Nlink(i) - Count(i))
        /\ \A k \in DOMAIN arch : /\ arch[k].ino \in DOMAIN fs
                                  /\ fs[arch[k].ino].t \in {"file", "lnk"} /\ Trivial < Nlink(arch[k].ino)
                                       => arch[k].ino \in DOMAIN table
    BY Zenon DEF Inv, Counted
  <2>4. m.ino \notin DOMAIN table
    BY Zenon, <2>3
  <2>5. \A i \in DOMAIN table : Count(i)' = Count(i)
    BY Zenon, <2>4, CountAdded DEF Inv
  <2>6. /\ DOMAIN arch = 1 .. Len(arch) /\ DOMAIN arch' = 1 .. Len(arch) + 1 /\ Len(arch) \in Nat
        /\ \A k \in 1 .. Len(arch) : arch'[k] = arch[k]
        /\ arch'[Len(arch) + 1] = m
    BY AppendIsSeq DEF Inv
  <2>7. \A k \in DOMAIN arch' : k \in DOMAIN arch \/ arch'[k] = m
    BY <2>6
  <2>8. \A k \in DOMAIN arch' : /\ arch'[k].ino \in DOMAIN fs
                                /\ fs[arch'[k].ino].t \in {"file", "lnk"} /\ Trivial < Nlink(arch'[k].ino)
                                     => arch'[k].ino \in DOMAIN table
    BY Zenon, <2>3, <2>6, <2>7
  <2>9. \A i \in DOMAIN table : table[i].nlink = Max2(0, Nlink(i) - Count(i)')
    BY Zenon, <2>3, <2>5
  <2> QED BY Zenon, <2>1, <2>2, <2>3, <2>8, <2>9 DEF Counted, Max2
<1> QED BY Zenon, <1>1, <1>2

\* file_count_links: a file that is dumped and not a link to one before.
LEMMA FileCounted ==
    ASSUME Inv, cur # None, UNCHANGED users, cur' = None, cur.st.t \in {"file", "lnk"}, ~Linked, FileCountLinks,
           NEW m, arch' = Append(arch, m), m.ino = cur.st.ino, m.path = cur.path, Archived(m.path, m.ino)',
           \A path, ino : Archived(path, ino) => Archived(path, ino)'
    PROVE  TableOK' /\ Counted'
<1>0. m.ino \in DOMAIN fs
  BY Zenon DEF Inv, CurOK
<1>1. ops = 0 => cur.st = Stat(m.ino)
  BY Zenon DEF Inv, Counted
<1>2. ops = 0 => cur.st.nlink = Nlink(m.ino) /\ cur.st.t = fs[m.ino].t
  BY <1>1 DEF Stat
<1>3. CASE ~(Trivial < cur.st.nlink)
  <2>1. UNCHANGED <<table, aborted>>
    BY Zenon, <1>3 DEF FileCountLinks
  <2> QED BY Zenon, <1>0, <1>2, <1>3, <2>1, NotCounted
<1>4. CASE Trivial < cur.st.nlink
  <2>1. m.ino \notin DOMAIN table
    BY Zenon, <1>4 DEF Linked
  <2>0. aborted' = FALSE
    <3>1. aborted' = (m.ino \in DOMAIN table)
      BY Zenon, <1>4 DEF FileCountLinks
    <3>2. (m.ino \in DOMAIN table) = FALSE
      BY <2>1
    <3> QED BY Zenon, <3>1, <3>2
  <2>2. /\ DOMAIN table' = DOMAIN table \cup {m.ino}
        /\ table' = [i \in DOMAIN table' |-> table'[i]]
        /\ table'[m.ino] = [name |-> m.path, nlink |-> cur.st.nlink - 1]
        /\ \A i \in DOMAIN table : table'[i] = table[i]
    BY Zenon, <1>4, <2>1 DEF FileCountLinks
  <2>3. TableOK'
    <3>1. \A i \in DOMAIN table' : table'[i] \in [name : {table'[i].name}, nlink : {table'[i].nlink}]
      BY <2>2 DEF Inv, TableOK
    <3>2. (\A i \in DOMAIN table : Archived(table[i].name, i))'
      BY <2>2 DEF Inv, TableOK, Archived
    <3> QED BY Zenon, <2>0, <2>2, <3>1, <3>2 DEF TableOK
  <2>4. Counted'
    <3>1. sc' = sc /\ fs' = fs /\ ops' = ops
      BY Zenon DEF users
    <3>2. Trivial' = Trivial /\ \A i : Nlink(i)' = Nlink(i)
      BY Zenon, SameCounts
    <3> SUFFICES ASSUME ops = 0 PROVE Counted'
      BY Zenon, <3>1 DEF Counted
    <3>3. /\ fs = sc.fs
          /\ \A i \in DOMAIN table : /\ i \in DOMAIN fs /\ fs[i].t \in {"file", "lnk"} /\ Trivial < Nlink(i)
                                     /\ table[i].nlink = Max2(0, Nlink(i) - Count(i))
          /\ \A k \in DOMAIN arch : /\ arch[k].ino \in DOMAIN fs
                                    /\ fs[arch[k].ino].t \in {"file", "lnk"} /\ Trivial < Nlink(arch[k].ino)
                                         => arch[k].ino \in DOMAIN table
      BY Zenon DEF Inv, Counted
    <3>4. \A i \in DOMAIN table : Count(i)' = Count(i)
      BY Zenon, <2>1, CountAdded DEF Inv
    <3>5. Count(m.ino) = 0
      <4>1. {k \in DOMAIN arch : arch[k].ino = m.ino} = {}
        BY Zenon, <1>2, <1>4, <2>1, <3>3
      <4> QED BY Zenon, <4>1, FS_EmptySet DEF Count
    <3>6. Count(m.ino)' = 1
      BY <3>5, CountAdded DEF Inv
    <3>7. Nlink(m.ino) \in Nat
      BY Zenon, <3>3, NlinkNat DEF Inv
    <3>8. table'[m.ino].nlink = Max2(0, Nlink(m.ino) - 1)
      <4>1. Trivial \in {0, 1}
        BY Zenon DEF Trivial
      <4>2. table'[m.ino].nlink = Nlink(m.ino) - 1
        BY <1>2, <2>2
      <4>3. Nlink(m.ino) >= 1
        BY <1>2, <1>4, <3>7, <4>1
      <4> QED BY <3>7, <4>2, <4>3 DEF Max2
    <3>9. /\ DOMAIN arch = 1 .. Len(arch) /\ DOMAIN arch' = 1 .. Len(arch) + 1 /\ Len(arch) \in Nat
          /\ \A k \in 1 .. Len(arch) : arch'[k] = arch[k]
          /\ arch'[Len(arch) + 1] = m
      BY AppendIsSeq DEF Inv
    <3>10. \A k \in DOMAIN arch' : k \in DOMAIN arch \/ arch'[k] = m
      BY <3>9
    <3>11. \A k \in DOMAIN arch' : /\ arch'[k].ino \in DOMAIN fs
                                   /\ fs[arch'[k].ino].t \in {"file", "lnk"} /\ Trivial < Nlink(arch'[k].ino)
                                        => arch'[k].ino \in DOMAIN table'
      BY Zenon, <1>0, <2>2, <3>3, <3>9, <3>10
    <3>12. \A i \in DOMAIN table' : table'[i].nlink = Max2(0, Nlink(i) - Count(i)')
      BY Zenon, <2>2, <3>3, <3>4, <3>6, <3>8
    <3>13. \A i \in DOMAIN table' : i \in DOMAIN fs /\ fs[i].t \in {"file", "lnk"} /\ Trivial < Nlink(i)
      BY <1>0, <1>2, <1>4, <2>2, <3>3
    <3> QED BY Zenon, <3>1, <3>2, <3>3, <3>11, <3>12, <3>13 DEF Counted, Max2
  <2> QED BY Zenon, <2>3, <2>4
<1> QED BY Zenon, <1>3, <1>4

\* dump_hard_link: one link less is missing.
LEMMA LinkCounted ==
    ASSUME Inv, cur # None, UNCHANGED users, cur' = None, UNCHANGED aborted, Linked,
           table' = [table EXCEPT ![cur.st.ino].nlink = IF @ > 0 THEN @ - 1 ELSE @],
           NEW m, arch' = Append(arch, m), m.ino = cur.st.ino,
           \A path, ino : Archived(path, ino) => Archived(path, ino)'
    PROVE  TableOK' /\ Counted'
<1> DEFINE nlink == table[m.ino].nlink
<1>0. m.ino \in DOMAIN table /\ table = [i \in DOMAIN table |-> table[i]]
      /\ \A i \in DOMAIN table : table[i] \in [name : {table[i].name}, nlink : {table[i].nlink}]
  BY Zenon DEF Linked, Inv, TableOK
<1>1. /\ DOMAIN table' = DOMAIN table /\ table' = [i \in DOMAIN table' |-> table'[i]]
      /\ \A i \in DOMAIN table : i # m.ino => table'[i] = table[i]
      /\ table'[m.ino] = [table[m.ino] EXCEPT !.nlink = IF @ > 0 THEN @ - 1 ELSE @]
  BY Zenon, <1>0
<1>2. /\ table'[m.ino].name = table[m.ino].name
      /\ table'[m.ino].nlink = IF nlink > 0 THEN nlink - 1 ELSE nlink
      /\ table'[m.ino] \in [name : {table'[m.ino].name}, nlink : {table'[m.ino].nlink}]
  BY <1>0, <1>1
<1> HIDE DEF nlink
<1>3. TableOK'
  <2>1. \A i \in DOMAIN table' : table'[i] \in [name : {table'[i].name}, nlink : {table'[i].nlink}]
    BY Zenon, <1>0, <1>1, <1>2
  <2>2. \A i \in DOMAIN table' : table'[i].name = table[i].name
    BY Zenon, <1>1, <1>2
  <2>3. \A i \in DOMAIN table : Archived(table[i].name, i)
    BY Zenon DEF Inv, TableOK
  <2>4. (\A i \in DOMAIN table : Archived(table[i].name, i))'
    <3> SUFFICES ASSUME NEW i \in DOMAIN table' PROVE \E name : name = table'[i].name /\ Archived(name, i)'
      BY DEF Archived
    <3>1. PICK name : name = table[i].name
      BY Zenon
    <3>2. name = table'[i].name /\ Archived(name, i)
      BY Zenon, <1>1, <2>2, <2>3, <3>1
    <3> QED BY Zenon, <3>2
  <2>5. aborted' = FALSE
    BY Zenon DEF Inv, TableOK
  <2> QED BY Zenon, <1>1, <2>1, <2>4, <2>5 DEF TableOK
<1>4. Counted'
  <2>1. sc' = sc /\ fs' = fs /\ ops' = ops
    BY Zenon DEF users
  <2>2. Trivial' = Trivial /\ \A i : Nlink(i)' = Nlink(i)
    BY Zenon, SameCounts
  <2> SUFFICES ASSUME ops = 0 PROVE Counted'
    BY Zenon, <2>1 DEF Counted
  <2>3. /\ fs = sc.fs
        /\ \A i \in DOMAIN table : /\ i \in DOMAIN fs /\ fs[i].t \in {"file", "lnk"} /\ Trivial < Nlink(i)
                                   /\ table[i].nlink = Max2(0, Nlink(i) - Count(i))
        /\ \A k \in DOMAIN arch : /\ arch[k].ino \in DOMAIN fs
                                  /\ fs[arch[k].ino].t \in {"file", "lnk"} /\ Trivial < Nlink(arch[k].ino)
                                       => arch[k].ino \in DOMAIN table
    BY Zenon DEF Inv, Counted
  <2>4. \A i \in DOMAIN table : i # m.ino => Count(i)' = Count(i)
    BY Zenon, CountAdded DEF Inv
  <2>5. Count(m.ino) \in Nat /\ Count(m.ino)' = Count(m.ino) + 1
    BY Zenon, CountAdded DEF Inv
  <2>6. Nlink(m.ino) \in Nat
    BY Zenon, <2>3, NlinkNat DEF Inv
  <2>7. table'[m.ino].nlink = Max2(0, Nlink(m.ino) - Count(m.ino)')
    <3>1. nlink = Max2(0, Nlink(m.ino) - Count(m.ino))
      BY Zenon, <1>0, <2>3 DEF nlink
    <3> QED BY <1>2, <2>5, <2>6, <3>1 DEF Max2
  <2>8. /\ DOMAIN arch = 1 .. Len(arch) /\ DOMAIN arch' = 1 .. Len(arch) + 1 /\ Len(arch) \in Nat
        /\ \A k \in 1 .. Len(arch) : arch'[k] = arch[k]
        /\ arch'[Len(arch) + 1] = m
    BY AppendIsSeq DEF Inv
  <2>9. \A k \in DOMAIN arch' : k \in DOMAIN arch \/ arch'[k] = m
    BY <2>8
  <2>10. \A k \in DOMAIN arch' : /\ arch'[k].ino \in DOMAIN fs
                                 /\ fs[arch'[k].ino].t \in {"file", "lnk"} /\ Trivial < Nlink(arch'[k].ino)
                                      => arch'[k].ino \in DOMAIN table'
    <3> SUFFICES ASSUME NEW k \in DOMAIN arch'
                 PROVE  /\ arch'[k].ino \in DOMAIN fs
                        /\ fs[arch'[k].ino].t \in {"file", "lnk"} /\ Trivial < Nlink(arch'[k].ino)
                             => arch'[k].ino \in DOMAIN table
      BY Zenon, <1>1
    <3>1. CASE k \in DOMAIN arch
      <4>1. arch'[k] = arch[k]
        BY Zenon, <2>8, <3>1
      <4> QED BY Zenon, <2>3, <3>1, <4>1
    <3>2. CASE arch'[k] = m
      BY Zenon, <1>0, <2>3, <3>2
    <3> QED BY Zenon, <2>9, <3>1, <3>2
  <2>11. \A i \in DOMAIN table' : table'[i].nlink = Max2(0, Nlink(i) - Count(i)')
    <3> SUFFICES ASSUME NEW i \in DOMAIN table PROVE table'[i].nlink = Max2(0, Nlink(i) - Count(i)')
      BY Zenon, <1>1
    <3>1. CASE i = m.ino
      BY Zenon, <2>7, <3>1
    <3>2. CASE i # m.ino
      <4>1. table'[i] = table[i] /\ Count(i)' = Count(i)
        BY Zenon, <1>1, <2>4, <3>2
      <4>2. table[i].nlink = Max2(0, Nlink(i) - Count(i))
        BY Zenon, <2>3
      <4> QED BY Zenon, <4>1, <4>2
    <3> QED BY Zenon, <3>1, <3>2
  <2>12. \A i \in DOMAIN table' : i \in DOMAIN fs /\ fs[i].t \in {"file", "lnk"} /\ Trivial < Nlink(i)
    BY Zenon, <1>1, <2>3
  <2> QED BY <2>1, <2>2, <2>3, <2>10, <2>11, <2>12 DEF Counted, Max2
<1> QED BY Zenon, <1>3, <1>4

\* A step that writes nothing.
LEMMA NothingWritten ==
    ASSUME Inv, UNCHANGED users, UNCHANGED <<table, arch, aborted>>, status' \in 0 .. 2, status' >= status,
           StackOK', CurOK', CurPath',
           cur' = None \/ (cur'.step = "read" => ~Linked'),
           cur' = None \/ (ops = 0 => cur'.st = Stat(cur'.st.ino))
    PROVE  Inv'
<1>1. sc' = sc /\ fs' = fs /\ ops' = ops /\ table' = table /\ arch' = arch /\ aborted' = aborted
  BY Zenon DEF users
<1>2. TableOK'
  BY <1>1 DEF Inv, TableOK, Archived, None
<1>3. Counted'
  <2>1. Trivial' = Trivial /\ (\A i : Nlink(i)' = Nlink(i)) /\ \A i : Stat(i)' = Stat(i)
    BY Zenon, SameCounts
  <2>2. \A i : Count(i)' = Count(i)
    BY Zenon, <1>1 DEF Count
  <2>3. ops = 0 => (cur # None => cur.st = Stat(cur.st.ino))'
    BY Zenon, <1>1, <2>1 DEF None, Stat
  <2> QED BY Zenon, <1>1, <2>1, <2>2, <2>3 DEF Inv, Counted, Max2
<1>4. Whole' /\ NoImpostor' /\ LinksTrue'
  <2>1. status' = 0 => status = 0
    BY DEF Inv
  <2> QED BY <1>1, <2>1 DEF Inv, Whole, NoImpostor, LinksTrue
<1> QED BY Zenon, <1>1, <1>2, <1>3, <1>4 DEF Inv

\* The exit status only grows.
LEMMA StatusGrows ==
    ASSUME status \in 0 .. 2
    PROVE  /\ \A x \in 1 .. 2 : Max2(status, x) \in 1 .. 2 /\ Max2(status, x) >= status
           /\ \A e \in BOOLEAN : FileRemovedDiag(e) \in 1 .. 2 /\ FileRemovedDiag(e) >= status
<1>1. \A x \in 1 .. 2 : Max2(status, x) \in 1 .. 2 /\ Max2(status, x) >= status
  BY DEF Max2
<1>2. \A e \in BOOLEAN : (IF e /\ ~TopLevel THEN 1 ELSE 2) \in 1 .. 2
  OBVIOUS
<1> QED BY Zenon, <1>1, <1>2 DEF FileRemovedDiag

\* The invariant is kept when a file is left out.
LEMMA SkipInv == Inv /\ Skip => Inv'
<1> SUFFICES ASSUME Inv, Skip PROVE Inv'
  BY Zenon
<1>1. cur' = None /\ UNCHANGED users /\ UNCHANGED <<stack, table, arch, aborted>> /\ status' = status
  BY Zenon DEF Skip
<1>2. CurOK' /\ CurPath'
  BY Zenon, <1>1 DEF CurOK, CurPath
<1>3. StackOK'
  BY Zenon, <1>1 DEF Inv, StackOK, DirOK, Dumped, users, Shut, Gone, Bad, Stderr
<1>4. status' \in 0 .. 2 /\ status' >= status
  BY <1>1 DEF Inv
<1> QED BY Zenon, <1>1, <1>2, <1>3, <1>4, NothingWritten

\* The invariant is kept by the header of a file, which is not linked to a
\* member before.
LEMMA StartFileInv == Inv /\ StartFile => Inv'
<1> SUFFICES ASSUME Inv, StartFile PROVE Inv'
  BY Zenon
<1>1. /\ cur.step = "head" /\ ~Linked /\ cur.st.t = "file" /\ cur' = [cur EXCEPT !.step = "read"]
      /\ UNCHANGED users /\ UNCHANGED <<stack, table, arch, aborted>> /\ status' = status
  BY Zenon DEF StartFile
<1>2. cur # None
  BY <1>1 DEF None
<1>3. /\ cur' \in [step : {"open", "head", "read"}, n : {cur'.n}, path : {cur'.path}, fd : BOOLEAN,
                   st : {cur'.st}, orig : Seq(Int), got : Seq(Int)]
      /\ cur'.step = "read" /\ cur'.n = cur.n /\ cur'.path = cur.path /\ cur'.fd = cur.fd /\ cur'.st = cur.st
      /\ cur'.orig = cur.orig /\ cur'.got = cur.got
  BY Zenon, <1>1, <1>2 DEF Inv, CurOK
<1>4. CurOK'
  BY Zenon, <1>1, <1>2, <1>3 DEF Inv, CurOK, users
<1>5. CurPath'
  BY Zenon, <1>1, <1>2, <1>3 DEF Inv, CurPath, TopLevel, Depth
<1>6. StackOK'
  BY Zenon, <1>1 DEF Inv, StackOK, DirOK, Dumped, users, Shut, Gone, Bad, Stderr
<1>7. status' \in 0 .. 2 /\ status' >= status
  BY <1>1 DEF Inv
<1>8. ~Linked'
  BY Zenon, <1>1, <1>3 DEF Linked, Trivial, users
<1>9. ops = 0 => cur'.st = Stat(cur'.st.ino)
  BY Zenon, <1>2, <1>3 DEF Inv, Counted
<1> QED BY Zenon, <1>1, <1>4, <1>5, <1>6, <1>7, <1>8, <1>9, NothingWritten

\* The invariant is kept by dump_regular_file's loop: what was read is the
\* beginning of the file as long as the file's time is the same.
LEMMA ReadBlockInv == Inv /\ ReadBlock => Inv'
<1> SUFFICES ASSUME Inv, ReadBlock PROVE Inv'
  BY Zenon
<1> DEFINE data == fs[cur.st.ino].data
           b == data[Len(cur.got) + 1]
<1>1. /\ cur.step = "read" /\ Len(cur.got) < cur.st.size /\ Len(cur.got) < Len(data)
      /\ cur' = [cur EXCEPT !.got = Append(@, fs[cur.st.ino].data[Len(@) + 1])]
      /\ UNCHANGED users /\ UNCHANGED <<stack, table, arch, aborted>> /\ status' = status
  BY Zenon DEF ReadBlock
<1>2. cur # None
  BY <1>1 DEF None
<1>3. /\ cur \in [step : {"open", "head", "read"}, n : {cur.n}, path : {cur.path}, fd : BOOLEAN,
                  st : {cur.st}, orig : Seq(Int), got : Seq(Int)]
      /\ cur.st.ino \in DOMAIN fs /\ cur.st.size = Len(cur.orig)
  BY Zenon, <1>2 DEF Inv, CurOK
<1>4. data \in Seq(Int)
  BY Zenon, <1>3 DEF Inv, Tree, IsNode
<1>5. b \in Int
  BY <1>1, <1>3, <1>4
<1>6. cur' = [cur EXCEPT !.got = Append(cur.got, b)]
  BY Zenon, <1>1
<1> HIDE DEF b
<1>7. Append(cur.got, b) \in Seq(Int) /\ Len(Append(cur.got, b)) = Len(cur.got) + 1
  BY <1>3, <1>5
<1>8. /\ cur' \in [step : {"open", "head", "read"}, n : {cur'.n}, path : {cur'.path}, fd : BOOLEAN,
                   st : {cur'.st}, orig : Seq(Int), got : Seq(Int)]
      /\ cur'.step = cur.step /\ cur'.n = cur.n /\ cur'.path = cur.path /\ cur'.fd = cur.fd /\ cur'.st = cur.st
      /\ cur'.orig = cur.orig /\ cur'.got = Append(cur.got, b)
  BY Zenon, <1>3, <1>6, <1>7
<1>9. CurOK'
  <2>1. Len(cur'.got) <= Len(cur'.orig)
    BY <1>1, <1>3, <1>7, <1>8
  <2>2. fs[cur.st.ino].mtime = cur.st.mtime =>
           /\ fs[cur.st.ino].data = cur.orig
           /\ \A j \in 1 .. Len(cur'.got) : cur'.got[j] = cur.orig[j]
    <3>1. SUFFICES ASSUME fs[cur.st.ino].mtime = cur.st.mtime, NEW j \in 1 .. Len(cur'.got)
                   PROVE  cur'.got[j] = cur.orig[j]
      BY Zenon, <1>2 DEF Inv, CurOK
    <3>2. data = cur.orig /\ \A k \in 1 .. Len(cur.got) : cur.got[k] = cur.orig[k]
      BY Zenon, <1>2, <3>1 DEF Inv, CurOK
    <3>3. CASE j = Len(cur.got) + 1
      BY <1>3, <1>5, <1>8, <3>2, <3>3 DEF b
    <3>4. CASE j \in 1 .. Len(cur.got)
      BY <1>3, <1>5, <1>8, <3>2, <3>4
    <3> QED BY <1>3, <1>7, <1>8, <3>3, <3>4
  <2>3. fs' = fs /\ ops' = ops
    BY Zenon, <1>1 DEF users
  <2> QED BY Zenon, <1>1, <1>2, <1>8, <2>1, <2>2, <2>3 DEF Inv, CurOK
<1>10. CurPath'
  BY Zenon, <1>1, <1>2, <1>8 DEF Inv, CurPath, TopLevel, Depth
<1>11. StackOK'
  BY Zenon, <1>1 DEF Inv, StackOK, DirOK, Dumped, users, Shut, Gone, Bad, Stderr
<1>12. status' \in 0 .. 2 /\ status' >= status
  BY <1>1 DEF Inv
<1>13. ~Linked'
  <2>1. ~Linked
    BY Zenon, <1>1, <1>2 DEF Inv, TableOK
  <2> QED BY Zenon, <1>1, <1>8, <2>1 DEF Linked, Trivial, users
<1>14. ops = 0 => cur'.st = Stat(cur'.st.ino)
  BY Zenon, <1>2, <1>8 DEF Inv, Counted
<1> QED BY Zenon, <1>1, <1>9, <1>10, <1>11, <1>12, <1>13, <1>14, NothingWritten

\* fstatat on a name, in a directory that is open or cannot be.
LEMMA StatNameOK ==
    ASSUME Inv, NEW n, NEW path, UNCHANGED users, StatName(n, path), ParentFd > 0 => ParentFd \in DOMAIN fs
    PROVE  /\ status' \in 0 .. 2 /\ status' >= status /\ CurOK'
           /\ cur' = None \/ /\ ParentFd > 0 /\ cur'.path = path /\ cur'.step # "read"
                             /\ cur'.st = Stat(cur'.st.ino)
<1> DEFINE i == IF ParentFd > 0 THEN Lookup(ParentFd, n) ELSE 0
           step == IF FileDumpable(i) THEN "open" ELSE "head"
<1>1. \/ cur' = None /\ status' = status
      \/ cur' = None /\ status' = FileRemovedDiag(ParentFd = Gone \/ (ParentFd > 0 /\ i = 0))
      \/ ParentFd > 0 /\ i # 0 /\ cur' = Current(step, n, path, FALSE, i) /\ status' = status
  BY Zenon DEF StatName
<1>2. ASSUME cur' = None PROVE CurOK'
  BY Zenon, <1>2 DEF CurOK
<1>3. status \in 0 .. 2 /\ ops \in Nat /\ Tree(fs, ops)
  BY Zenon DEF Inv
<1>4. CASE cur' = None /\ status' = status
  BY <1>2, <1>3, <1>4
<1>5. CASE cur' = None /\ status' = FileRemovedDiag(ParentFd = Gone \/ (ParentFd > 0 /\ i = 0))
  <2>1. status' \in 1 .. 2 /\ status' >= status
    BY Zenon, <1>3, <1>5, StatusGrows
  <2> QED BY <1>2, <1>5, <2>1
<1>6. CASE ParentFd > 0 /\ i # 0 /\ cur' = Current(step, n, path, FALSE, i) /\ status' = status
  <2>1. i \in DOMAIN fs
    BY Zenon, <1>3, <1>6 DEF Lookup, Tree
  <2>2. step \in {"open", "head"}
    BY Zenon
  <2>3. step = "head" /\ fs[i].t = "file" => fs[i].data = <<>>
    BY Zenon DEF FileDumpable
  <2> HIDE DEF step, i
  <2>4. PICK c : c = cur'
    BY Zenon
  <2>0. PICK fd \in BOOLEAN : fd = FALSE
    BY Zenon
  <2>5. c = Current(step, n, path, fd, i)
    BY Zenon, <1>6, <2>0, <2>4
  <2>6. /\ c # None /\ c.step = step /\ c.path = path /\ c.n = n /\ c.st = Stat(i) /\ c.st.ino = i
        /\ c \in [step : {"open", "head", "read"}, n : {c.n}, path : {c.path}, fd : BOOLEAN,
                  st : {c.st}, orig : Seq(Int), got : Seq(Int)]
        /\ c.st.mtime \in Int /\ c.st.mtime <= ops
        /\ c.st.size = Len(c.orig) /\ Len(c.got) <= Len(c.orig) /\ c.got = <<>>
        /\ fs[i].mtime = c.st.mtime /\ fs[i].data = c.orig
        /\ c.step # "open" /\ ~c.fd /\ c.st.t = "file" => c.orig = <<>>
    BY <1>3, <2>1, <2>2, <2>3, <2>5, CurrentOK
  <2>7. fs' = fs /\ ops' = ops
    BY Zenon DEF users
  <2>8. CurOK'
    BY <2>1, <2>2, <2>4, <2>6, <2>7 DEF CurOK
  <2>9. cur'.path = path /\ cur'.step # "read"
    BY Zenon, <2>2, <2>4, <2>6
  <2>10. cur'.st = Stat(cur'.st.ino)
    BY Zenon, <2>4, <2>6
  <2>11. status' \in 0 .. 2 /\ status' >= status
    BY <1>3, <1>6
  <2> QED BY Zenon, <1>6, <2>8, <2>9, <2>10, <2>11
<1> QED BY Zenon, <1>1, <1>4, <1>5, <1>6

\* The directory that dump_file0 is in.
LEMMA LastDir ==
    ASSUME Inv, ~TopLevel
    PROVE  /\ Depth \in DOMAIN stack /\ Depth \in Nat \ {0} /\ DOMAIN stack = 1 .. Depth /\ DirOK(stack[Depth])
           /\ ParentFd = stack[Depth].fd
           /\ ParentFd > 0 => ParentFd = stack[Depth].ino /\ ParentFd \in DOMAIN fs
<1>1. IsSeq(stack) /\ stack # <<>>
  BY Zenon DEF Inv, StackOK, TopLevel
<1>2. Depth \in Nat \ {0} /\ DOMAIN stack = 1 .. Depth
  BY Zenon, <1>1, FrontIsSeq DEF Depth
<1>3. Depth \in DOMAIN stack
  BY <1>2
<1>4. DirOK(stack[Depth])
  BY Zenon, <1>3 DEF Inv, StackOK
<1>5. stack[Depth].ino \in DOMAIN fs /\ stack[Depth].fd \in {stack[Depth].ino, Shut, Gone, Bad, Stderr}
  BY Zenon, <1>4 DEF DirOK
<1>6. ParentFd = stack[Depth].fd
  BY Zenon DEF ParentFd
<1>7. ~(Shut > 0) /\ ~(Gone > 0) /\ ~(Bad > 0) /\ ~(Stderr > 0)
  BY DEF Shut, Gone, Bad, Stderr
<1> QED BY Zenon, <1>2, <1>3, <1>4, <1>5, <1>6, <1>7

\* The invariant is kept by create_archive's loop.
LEMMA NextNameInv == Inv /\ NextName => Inv'
<1> SUFFICES ASSUME Inv, NextName PROVE Inv'
  BY Zenon
<1> DEFINE n == Head(todo)
<1>1. /\ TopLevel /\ StatName(n, <<n>>)
      /\ UNCHANGED users /\ UNCHANGED <<stack, table, arch, aborted>>
  BY Zenon DEF NextName
<1> HIDE DEF n
<1>2. ParentFd \in DOMAIN fs
  BY <1>1 DEF ParentFd, Inv, Tree
<1>3. PICK path : path = <<n>>
  BY Zenon
<1>4. IsSeq(path) /\ Len(path) = 1
  BY Zenon, <1>3, SingletonIsSeq
<1>5. /\ status' \in 0 .. 2 /\ status' >= status /\ CurOK'
      /\ cur' = None \/ (cur'.path = path /\ cur'.step # "read" /\ cur'.st = Stat(cur'.st.ino))
  BY Zenon, <1>1, <1>2, <1>3, StatNameOK
<1>6. CurPath'
  BY Zenon, <1>1, <1>4, <1>5 DEF CurPath, TopLevel
<1>7. StackOK'
  BY Zenon, <1>1 DEF Inv, StackOK, DirOK, Dumped, users, Shut, Gone, Bad, Stderr
<1> QED BY Zenon, <1>1, <1>5, <1>6, <1>7, NothingWritten

\* The invariant is kept by dump_dir0's loop: the entry is looked up in the
\* directory that was archived.
LEMMA NextEntryInv == Inv /\ NextEntry => Inv'
<1> SUFFICES ASSUME Inv, NextEntry PROVE Inv'
  BY Zenon
<1> DEFINE p == stack[Depth]
<1>0. PICK n : StatName(n, Append(p.path, n)) /\ stack' = [stack EXCEPT ![Depth].left = @ \ {n}]
  BY Zenon DEF NextEntry
<1> DEFINE q == [p EXCEPT !.left = @ \ {n}]
<1>1. /\ ~TopLevel /\ StatName(n, Append(p.path, n)) /\ stack' = [stack EXCEPT ![Depth].left = @ \ {n}]
      /\ UNCHANGED users /\ UNCHANGED <<table, arch, aborted>>
  BY Zenon, <1>0 DEF NextEntry
<1>2. /\ Depth \in DOMAIN stack /\ DirOK(p) /\ ParentFd = p.fd
      /\ ParentFd > 0 => ParentFd = p.ino /\ ParentFd \in DOMAIN fs
  BY Zenon, <1>1, LastDir
<1>3. stack' = [stack EXCEPT ![Depth] = q]
  BY Zenon, <1>1
<1>4. /\ q \in [ino : DOMAIN fs, path : {q.path}, fd : {q.ino, Shut, Gone, Bad, Stderr}, left : {q.left}, mtime : {q.mtime}]
      /\ q.ino = p.ino /\ q.path = p.path /\ q.fd = p.fd
  BY Zenon, <1>2 DEF DirOK
<1> HIDE DEF q, p
<1>5. PICK path : path = Append(p.path, n)
  BY Zenon
<1>6. IsSeq(path) /\ Len(path) = Len(p.path) + 1 /\ Front(path) = p.path
  BY Zenon, <1>2, <1>5, AppendIsSeq DEF DirOK
<1>7. /\ status' \in 0 .. 2 /\ status' >= status /\ CurOK'
      /\ cur' = None \/ (ParentFd > 0 /\ cur'.path = path /\ cur'.step # "read" /\ cur'.st = Stat(cur'.st.ino))
  BY Zenon, <1>1, <1>2, <1>5, StatNameOK
<1>8. /\ IsSeq(stack') /\ Len(stack') = Len(stack) /\ DOMAIN stack' = DOMAIN stack
      /\ stack'[Depth] = q /\ \A k \in DOMAIN stack : k # Depth => stack'[k] = stack[k]
  <2>1. IsSeq(stack)
    BY Zenon DEF Inv, StackOK
  <2> QED BY <1>2, <1>3, <2>1, ExceptIsSeq
<1>9. StackOK'
  <2>1. \A d : DirOK(d)' <=> DirOK(d)
    BY Zenon, <1>1 DEF DirOK, Dumped, users, Shut, Gone, Bad, Stderr
  <2>2. DirOK(q)
    BY Zenon, <1>2, <1>4 DEF DirOK
  <2>3. \A k \in DOMAIN stack' : DirOK(stack'[k])
    BY Zenon, <1>8, <2>2 DEF Inv, StackOK
  <2> QED BY Zenon, <1>8, <2>1, <2>3 DEF StackOK, DirOK, Dumped
<1>10. CurPath'
  <2>1. Depth' = Depth
    BY Zenon, <1>8 DEF Depth
  <2> QED BY <1>2, <1>4, <1>6, <1>7, <1>8, <2>1 DEF CurPath, TopLevel
<1> QED BY Zenon, <1>1, <1>7, <1>9, <1>10, NothingWritten

\* open_failure_recover closes at most one descriptor, and never the parent's.
LEMMA RecoveredOK ==
    ASSUME Inv, NEW s, s = Recovered
    PROVE  /\ IsSeq(s) /\ Len(s) = Len(stack) /\ DOMAIN s = DOMAIN stack /\ \A k \in DOMAIN s : DirOK(s[k])
           /\ ~TopLevel => s[Depth] = stack[Depth]
           /\ \A k \in DOMAIN s : s[k].path = stack[k].path /\ s[k].ino = stack[k].ino /\ s[k].left = stack[k].left
<1> DEFINE held(fd) == fd > 0 \/ fd = Stderr
           free == {p \in 1 .. Len(stack) - 2 : held(stack[p].fd) /\ (p = 1 \/ ~held(stack[p - 1].fd))}
           k == Max(free)
           node == [stack[k] EXCEPT !.fd = Shut]
<1>1. IsSeq(stack) /\ \A p \in DOMAIN stack : DirOK(stack[p])
  BY Zenon DEF Inv, StackOK
<1>2. CASE s = stack
  BY Zenon, <1>1, <1>2
<1>3. CASE free # {} /\ s = [stack EXCEPT ![Max(free)].fd = Shut]
  <2>1. s = [stack EXCEPT ![k] = node]
    BY Zenon, <1>3
  <2>2. Len(stack) \in Nat /\ DOMAIN stack = 1 .. Len(stack)
    BY <1>1, EmptyIsSeq, FrontIsSeq
  <2>3. free \in SUBSET (1 .. Len(stack)) /\ \A p \in free : p <= Len(stack) - 2
    BY <2>2
  <2> HIDE DEF free, k
  <2>4. k \in free
    BY Zenon, <1>3, <2>2, <2>3, LastPlace DEF k
  <2>5. k \in DOMAIN stack /\ k # Depth
    <3>1. k \in 1 .. Len(stack) /\ k <= Len(stack) - 2
      BY Zenon, <2>3, <2>4
    <3>2. k \in DOMAIN stack
      BY <2>2, <3>1, Zenon
    <3>3. Len(stack) \in Nat
      BY Zenon, <2>2
    <3>4. k # Len(stack)
      BY <3>1, <3>3
    <3> QED BY Zenon, <3>2, <3>4 DEF Depth
  <2>6. DirOK(stack[k])
    BY Zenon, <1>1, <2>5
  <2>7. /\ node \in [ino : DOMAIN fs, path : {node.path}, fd : {node.ino, Shut, Gone, Bad, Stderr}, left : {node.left},
                     mtime : {node.mtime}]
        /\ node.path = stack[k].path /\ node.ino = stack[k].ino /\ node.left = stack[k].left
    BY Zenon, <2>6 DEF DirOK
  <2> HIDE DEF node
  <2>8. DirOK(node)
    BY Zenon, <2>6, <2>7 DEF DirOK
  <2>9. /\ IsSeq(s) /\ Len(s) = Len(stack) /\ DOMAIN s = DOMAIN stack /\ s[k] = node
        /\ \A p \in DOMAIN stack \ {k} : s[p] = stack[p]
    <3>1. IsSeq(stack) /\ k \in DOMAIN stack
      BY Zenon, <1>1, <2>5
    <3>2. LET e == [stack EXCEPT ![k] = node] IN
          /\ IsSeq(e) /\ Len(e) = Len(stack) /\ DOMAIN e = DOMAIN stack /\ e[k] = node
          /\ \A p \in DOMAIN stack \ {k} : e[p] = stack[p]
      BY <3>1, ExceptIsSeq
    <3> QED BY Zenon, <2>1, <3>2
  <2>10. ~TopLevel => Depth \in DOMAIN stack
    BY Zenon, LastDir
  <2> QED BY Zenon, <1>1, <2>5, <2>7, <2>8, <2>9, <2>10
<1>4. s = stack \/ (free # {} /\ s = [stack EXCEPT ![Max(free)].fd = Shut])
  BY Zenon DEF Recovered, OpenFailureRecover
<1> QED BY Zenon, <1>2, <1>3, <1>4

\* The invariant is kept by subfile_open: the parent's descriptor stays open,
\* and what fstat tells is about the file that was opened.
LEMMA OpenInv == Inv /\ Open => Inv'
<1> SUFFICES ASSUME Inv, Open PROVE Inv'
  BY Zenon
<1> DEFINE i == Lookup(ParentFd, cur.n)
           full == OpenFds(stack) >= sc.fds /\ Recovered = stack
           fails == i = 0 \/ full \/ fs[i].t = "lnk"
<1>1. /\ cur.step = "open" /\ stack' = Recovered
      /\ UNCHANGED users /\ UNCHANGED <<table, arch, aborted>>
      /\ fails => cur' = None /\ status' = FileRemovedDiag(i = 0 /\ ~full)
      /\ ~fails => i # 0 /\ cur' = Current("head", cur.n, cur.path, TRUE, i) /\ status' = status
  BY Zenon DEF Open
<1>2. cur # None
  BY <1>1 DEF None
<1>3. status \in 0 .. 2 /\ ops \in Nat /\ Tree(fs, ops)
  BY Zenon DEF Inv
<1>4. ParentFd \in DOMAIN fs
  <2>1. CASE TopLevel
    BY <1>3, <2>1 DEF ParentFd, Tree
  <2>2. CASE ~TopLevel
    BY Zenon, <1>2, <2>2, LastDir DEF Inv, CurPath, DirOK
  <2> QED BY Zenon, <2>1, <2>2
<1>5. PICK s : s = stack'
  BY Zenon
<1>6. /\ IsSeq(s) /\ Len(s) = Len(stack) /\ DOMAIN s = DOMAIN stack /\ \A k \in DOMAIN s : DirOK(s[k])
      /\ ~TopLevel => s[Depth] = stack[Depth]
  BY Zenon, <1>1, <1>5, RecoveredOK
<1>7. StackOK'
  BY <1>1, <1>5, <1>6 DEF StackOK, DirOK, Dumped, users, Shut, Gone, Bad, Stderr
<1>8. status' \in 0 .. 2 /\ status' >= status
  <2>1. (i = 0 /\ ~full) \in BOOLEAN
    BY Zenon
  <2> HIDE DEF i, full
  <2>2. CASE fails
    <3>1. status' \in 1 .. 2 /\ status' >= status
      BY Zenon, <1>1, <1>3, <2>1, <2>2, StatusGrows
    <3> QED BY <3>1
  <2>3. CASE ~fails
    BY <1>1, <1>3, <2>3
  <2> QED BY Zenon, <2>2, <2>3
<1>9. CASE cur' = None
  <2>1. CurOK' /\ CurPath'
    BY Zenon, <1>9 DEF CurOK, CurPath
  <2> QED BY Zenon, <1>1, <1>7, <1>8, <1>9, <2>1, NothingWritten
<1>10. CASE ~fails
  <2>1. i \in DOMAIN fs
    BY Zenon, <1>1, <1>3, <1>4, <1>10 DEF Lookup, Tree
  <2> HIDE DEF i
  <2>2. PICK c : c = cur'
    BY Zenon
  <2>3. PICK fd \in BOOLEAN : fd = TRUE
    BY Zenon
  <2>4. PICK step \in {"open", "head"} : step = "head"
    BY Zenon
  <2>5. c = Current(step, cur.n, cur.path, fd, i)
    BY Zenon, <1>1, <1>10, <2>2, <2>3, <2>4
  <2>6. ~(step = "head" /\ ~fd /\ fs[i].t = "file")
    BY Zenon, <2>3
  <2>7. /\ c # None /\ c.step = step /\ c.path = cur.path /\ c.n = cur.n /\ c.st = Stat(i) /\ c.st.ino = i
        /\ c \in [step : {"open", "head", "read"}, n : {c.n}, path : {c.path}, fd : BOOLEAN,
                  st : {c.st}, orig : Seq(Int), got : Seq(Int)]
        /\ c.st.mtime \in Int /\ c.st.mtime <= ops
        /\ c.st.size = Len(c.orig) /\ Len(c.got) <= Len(c.orig) /\ c.got = <<>>
        /\ fs[i].mtime = c.st.mtime /\ fs[i].data = c.orig
        /\ c.step # "open" /\ ~c.fd /\ c.st.t = "file" => c.orig = <<>>
    BY <1>3, <2>1, <2>5, <2>6, CurrentOK
  <2>8. fs' = fs /\ ops' = ops
    BY Zenon, <1>1 DEF users
  <2>9. CurOK'
    BY <2>1, <2>2, <2>4, <2>7, <2>8 DEF CurOK
  <2>10. CurPath'
    <3>1. Depth' = Depth /\ DOMAIN stack' = DOMAIN stack
      BY Zenon, <1>5, <1>6 DEF Depth
    <3>2. TopLevel' <=> TopLevel
      BY <1>5, <1>6, LastDir DEF TopLevel, Inv, StackOK
    <3>3. cur'.path = cur.path
      BY Zenon, <2>2, <2>7
    <3> QED BY Zenon, <1>2, <1>5, <1>6, <3>1, <3>2, <3>3 DEF Inv, CurPath
  <2>11. cur'.step # "read"
    BY Zenon, <2>2, <2>4, <2>7
  <2>12. cur'.st = Stat(cur'.st.ino)
    BY Zenon, <2>2, <2>7
  <2> QED BY Zenon, <1>1, <1>7, <1>8, <2>9, <2>10, <2>11, <2>12, NothingWritten
<1> QED BY Zenon, <1>1, <1>9, <1>10

\* The invariant is kept by the end of a directory: what restore_parent_fd opens
\* is the parent.
LEMMA AscendInv == Inv /\ Ascend => Inv'
<1> SUFFICES ASSUME Inv, Ascend PROVE Inv'
  BY Zenon
<1> DEFINE d == stack[Depth]
           up == Front(stack)
           k == Depth - 1
           p == up[k]
           fd == RestoreParentFd(p, d.fd)
           node == [p EXCEPT !.fd = fd]
<1>1. /\ ~TopLevel /\ cur = None /\ UNCHANGED users /\ UNCHANGED <<cur, table, arch, aborted>>
      /\ stack' = IF up = <<>> THEN up ELSE [up EXCEPT ![k].fd = fd]
  BY Zenon DEF Ascend
<1>2. status' \in 0 .. 2 /\ status' >= status
  <2>1. \/ status' = status \/ status' = Max2(status, 1) \/ status' = Max2(status, 2)
    BY Zenon DEF Ascend
  <2>2. status \in 0 .. 2
    BY Zenon DEF Inv
  <2> QED BY <2>1, <2>2 DEF Max2
<1>3. /\ IsSeq(up) /\ Len(up) = k /\ DOMAIN up = 1 .. k /\ k \in Nat
      /\ \A j \in DOMAIN up : j \in DOMAIN stack /\ up[j] = stack[j]
  <2>1. IsSeq(stack) /\ stack # <<>>
    BY Zenon, <1>1 DEF Inv, StackOK, TopLevel
  <2>2. /\ IsSeq(up) /\ Len(stack) \in Nat \ {0} /\ Len(up) = Len(stack) - 1
        /\ DOMAIN stack = 1 .. Len(stack) /\ DOMAIN up = 1 .. Len(stack) - 1
        /\ \A j \in 1 .. Len(stack) - 1 : up[j] = stack[j]
    BY Zenon, <2>1, FrontIsSeq
  <2> HIDE DEF up
  <2> QED BY <2>2 DEF Depth
<1>4. \A j \in DOMAIN up : DirOK(up[j])
  BY Zenon, <1>3 DEF Inv, StackOK
<1> HIDE DEF up
<1>5. IsSeq(stack') /\ \A j \in DOMAIN stack' : DirOK(stack'[j])
  <2>1. CASE up = <<>>
    BY Zenon, <1>1, <1>3, <1>4, <2>1
  <2>2. CASE up # <<>>
    <3>1. k \in DOMAIN up
      BY <1>3, <2>2, FrontIsSeq
    <3>2. DirOK(p)
      BY Zenon, <1>4, <3>1
    <3>3. fd \in {p.fd, p.ino, Bad, Gone, Stderr}
      BY Zenon DEF RestoreParentFd, ByName
    <3> HIDE DEF fd, p, k
    <3>4. stack' = [up EXCEPT ![k] = node]
      BY Zenon, <1>1, <2>2 DEF p
    <3>5. /\ node \in [ino : DOMAIN fs, path : {node.path}, fd : {node.ino, Shut, Gone, Bad, Stderr}, left : {node.left},
                       mtime : {node.mtime}]
          /\ node.path = p.path /\ node.ino = p.ino
      BY Zenon, <3>2, <3>3 DEF DirOK
    <3> HIDE DEF node
    <3>6. DirOK(node)
      BY Zenon, <3>2, <3>5 DEF DirOK
    <3>7. /\ IsSeq(stack') /\ DOMAIN stack' = DOMAIN up /\ stack'[k] = node
          /\ \A j \in DOMAIN up \ {k} : stack'[j] = up[j]
      BY Zenon, <1>3, <3>1, <3>4, ExceptIsSeq
    <3> QED BY Zenon, <1>4, <3>1, <3>6, <3>7
  <2> QED BY Zenon, <2>1, <2>2
<1>6. StackOK'
  BY <1>1, <1>5 DEF StackOK, DirOK, Dumped, users, Shut, Gone, Bad, Stderr
<1>7. CurOK' /\ CurPath' /\ cur' = None
  BY Zenon, <1>1 DEF CurOK, CurPath, None
<1> QED BY Zenon, <1>1, <1>2, <1>6, <1>7, NothingWritten

\* The invariant is kept by dump_hard_link.
LEMMA DumpHardLinkInv == Inv /\ DumpHardLink => Inv'
<1> SUFFICES ASSUME Inv, DumpHardLink PROVE Inv'
  BY Zenon
<1>1. /\ cur.step = "head" /\ Linked /\ arch' = Append(arch, Member("link", <<>>, table[cur.st.ino].name))
      /\ table' = [table EXCEPT ![cur.st.ino].nlink = IF @ > 0 THEN @ - 1 ELSE @]
      /\ cur' = None /\ UNCHANGED users /\ UNCHANGED stack /\ status' = status /\ UNCHANGED aborted
  BY Zenon DEF DumpHardLink
<1>2. cur # None
  BY <1>1 DEF None
<1>3. PICK target : target = table[cur.st.ino].name
  BY Zenon
<1>4. Archived(target, cur.st.ino)
  BY Zenon, <1>1, <1>3 DEF Linked, Inv, TableOK
<1>5. PICK t : t = "link"
  BY Zenon
<1>6. PICK m : m = Member(t, <<>>, target)
  BY Zenon
<1>7. arch' = Append(arch, m)
  BY Zenon, <1>1, <1>3, <1>5, <1>6
<1>8. status' \in 0 .. 2 /\ status' >= status /\ t # "file"
  BY <1>1, <1>5 DEF Inv
<1>9. /\ sc' \in Scenarios /\ ops' \in Nat /\ Tree(fs', ops') /\ IsSeq(arch') /\ CurOK' /\ CurPath'
      /\ Whole' /\ NoImpostor' /\ LinksTrue' /\ StackOK'
      /\ \A path, ino : Archived(path, ino) => Archived(path, ino)'
      /\ m.ino = cur.st.ino
  BY Zenon, <1>1, <1>2, <1>4, <1>6, <1>7, <1>8, MemberStep
<1>10. TableOK' /\ Counted'
  BY Zenon, <1>1, <1>2, <1>7, <1>9, LinkCounted
<1> QED BY Zenon, <1>8, <1>9, <1>10 DEF Inv

\* The invariant is kept by dump_dir: the directory is archived before what is
\* in it.
LEMMA DumpDirInv == Inv /\ DumpDir => Inv'
<1> SUFFICES ASSUME Inv, DumpDir PROVE Inv'
  BY Zenon
<1>0. PICK d : d = [ino |-> cur.st.ino, path |-> cur.path, fd |-> cur.st.ino, left |-> DOMAIN fs[cur.st.ino].kids,
                    mtime |-> cur.st.mtime]
  BY Zenon
<1>1. /\ cur.step = "head" /\ cur.st.t = "dir" /\ arch' = Append(arch, Member("dir", <<>>, <<>>))
      /\ stack' = Append(stack, d)
      /\ cur' = None /\ UNCHANGED users /\ status' = status /\ UNCHANGED <<table, aborted>>
  BY Zenon, <1>0 DEF DumpDir
<1>2. cur # None
  BY <1>1 DEF None
<1>3. /\ d \in [ino : {cur.st.ino}, path : {d.path}, fd : {d.ino, Shut, Gone, Bad, Stderr}, left : {d.left}, mtime : {d.mtime}]
      /\ d.ino = cur.st.ino /\ d.path = cur.path
  BY Zenon, <1>0
<1>4. PICK t : t = "dir"
  BY Zenon
<1>5. PICK m : m = Member(t, <<>>, <<>>)
  BY Zenon
<1>6. arch' = Append(arch, m)
  BY Zenon, <1>1, <1>4, <1>5
<1>7. status' \in 0 .. 2 /\ status' >= status /\ t # "file" /\ t # "link"
  BY <1>1, <1>4 DEF Inv
<1>8. /\ sc' \in Scenarios /\ ops' \in Nat /\ Tree(fs', ops') /\ IsSeq(arch') /\ CurOK' /\ CurPath'
      /\ Whole' /\ NoImpostor' /\ LinksTrue'
      /\ \A path, ino : Dumped(path, ino) => Dumped(path, ino)'
      /\ \A path, ino : Archived(path, ino) => Archived(path, ino)'
      /\ m.ino = cur.st.ino /\ m.path = cur.path
      /\ t = "dir" => Dumped(m.path, m.ino)'
  BY Zenon, <1>1, <1>2, <1>5, <1>6, <1>7, MemberStep
<1>9. m.ino \in DOMAIN fs
  BY Zenon, <1>2, <1>8 DEF Inv, CurOK
<1>10. TableOK' /\ Counted'
  <2>1. ops = 0 => cur.st = Stat(m.ino)
    BY Zenon, <1>2, <1>8 DEF Inv, Counted
  <2>2. ops = 0 => fs[m.ino].t \notin {"file", "lnk"}
    BY <1>1, <2>1 DEF Stat
  <2> QED BY Zenon, <1>1, <1>6, <1>8, <1>9, <2>2, NotCounted
<1>11. StackOK'
  <2>1. fs' = fs
    BY Zenon, <1>1 DEF users
  <2>2. /\ IsSeq(stack') /\ DOMAIN stack = 1 .. Len(stack) /\ DOMAIN stack' = 1 .. Len(stack) + 1 /\ Len(stack) \in Nat
        /\ \A k \in 1 .. Len(stack) : stack'[k] = stack[k]
        /\ stack'[Len(stack) + 1] = d
    BY <1>1, AppendIsSeq DEF Inv, StackOK
  <2>3. IsSeq(d.path) /\ Len(d.path) > 0
    <3>1. IsSeq(cur.path)
      BY Zenon, <1>2 DEF Inv, CurPath
    <3>2. Len(cur.path) > 0
      <4>1. CASE TopLevel
        <5>1. Len(cur.path) = 1
          BY Zenon, <1>2, <4>1 DEF Inv, CurPath
        <5> QED BY <5>1
      <4>2. CASE ~TopLevel
        <5>1. Len(cur.path) = Len(stack[Depth].path) + 1
          BY Zenon, <1>2, <4>2 DEF Inv, CurPath
        <5>2. Len(stack[Depth].path) > 0 /\ IsSeq(stack[Depth].path)
          BY Zenon, <4>2, LastDir DEF DirOK
        <5>3. Len(stack[Depth].path) \in Nat
          BY Zenon, <5>2, AppendIsSeq
        <5> QED BY <5>1, <5>2, <5>3
      <4> QED BY Zenon, <4>1, <4>2
    <3> QED BY Zenon, <1>3, <3>1, <3>2
  <2>4. DirOK(d)'
    BY Zenon, <1>3, <1>4, <1>8, <1>9, <2>1, <2>3 DEF DirOK, Dumped, Shut, Gone, Bad, Stderr
  <2>5. \A k \in 1 .. Len(stack) : DirOK(stack[k])
    BY Zenon, <2>2 DEF Inv, StackOK
  <2>6. \A e : DirOK(e) => DirOK(e)'
    BY Zenon, <1>8, <2>1 DEF DirOK, Shut, Gone, Bad, Stderr
  <2>7. ASSUME NEW k \in 1 .. Len(stack) + 1, NEW e, e = stack'[k] PROVE DirOK(e)'
    <3>1. CASE k \in 1 .. Len(stack)
      BY Zenon, <2>2, <2>5, <2>6, <2>7, <3>1
    <3>2. CASE k = Len(stack) + 1
      BY Zenon, <2>2, <2>4, <2>7, <3>2
    <3> QED BY <2>2, <3>1, <3>2
  <2> QED BY Zenon, <2>2, <2>7 DEF StackOK, DirOK, Dumped
<1> QED BY Zenon, <1>7, <1>8, <1>10, <1>11 DEF Inv

\* The invariant is kept by symbolic links and special files.
LEMMA DumpOtherInv == Inv /\ DumpOther => Inv'
<1> SUFFICES ASSUME Inv, DumpOther PROVE Inv'
  BY Zenon
<1> DEFINE i == IF ParentFd > 0 THEN Lookup(ParentFd, cur.n) ELSE 0
           fails == cur.st.t = "lnk" /\ (i = 0 \/ fs[i].t # "lnk")
<1>1. /\ cur.step = "head" /\ ~Linked /\ cur.st.t \in {"lnk", "fifo"}
      /\ fails => status' = FileRemovedDiag(i = 0) /\ UNCHANGED <<arch, table, aborted>>
      /\ ~fails => /\ arch' = Append(arch, Member(cur.st.t, <<>>, <<>>))
                   /\ IF cur.st.t = "lnk" THEN FileCountLinks ELSE UNCHANGED <<table, aborted>>
                   /\ status' = status
      /\ cur' = None /\ UNCHANGED users /\ UNCHANGED stack
  BY Zenon DEF DumpOther
<1>2. cur # None
  BY <1>1 DEF None
<1>3. CASE fails
  <2>1. (i = 0) \in BOOLEAN /\ status \in 0 .. 2
    BY Zenon DEF Inv
  <2> HIDE DEF i
  <2>2. status' \in 1 .. 2 /\ status' >= status
    BY Zenon, <1>1, <1>3, <2>1, StatusGrows
  <2>3. status' \in 0 .. 2
    BY <2>2
  <2>4. CurOK' /\ CurPath'
    BY Zenon, <1>1 DEF CurOK, CurPath
  <2>5. StackOK'
    BY <1>1, <1>3 DEF Inv, StackOK, DirOK, Dumped, users, Shut, Gone, Bad, Stderr
  <2> QED BY Zenon, <1>1, <1>3, <2>2, <2>3, <2>4, <2>5, NothingWritten
<1>4. CASE ~fails
  <2> HIDE DEF fails
  <2>1. PICK t : t = cur.st.t
    BY Zenon
  <2>2. PICK m : m = Member(t, <<>>, <<>>)
    BY Zenon
  <2>3. arch' = Append(arch, m)
    BY Zenon, <1>1, <1>4, <2>1, <2>2
  <2>4. status' \in 0 .. 2 /\ status' >= status /\ t # "file" /\ t # "link"
    BY <1>1, <1>4, <2>1 DEF Inv
  <2>5. /\ sc' \in Scenarios /\ ops' \in Nat /\ Tree(fs', ops') /\ IsSeq(arch') /\ CurOK' /\ CurPath'
        /\ Whole' /\ NoImpostor' /\ LinksTrue' /\ StackOK'
        /\ \A path, ino : Archived(path, ino) => Archived(path, ino)'
        /\ m.ino = cur.st.ino /\ m.path = cur.path
        /\ t \in {"file", "lnk"} => Archived(m.path, m.ino)'
    BY Zenon, <1>1, <1>2, <2>2, <2>3, <2>4, MemberStep
  <2>6. TableOK' /\ Counted'
    <3>1. CASE cur.st.t = "lnk"
      <4>1. FileCountLinks /\ Archived(m.path, m.ino)'
        BY Zenon, <1>1, <1>4, <2>1, <2>5, <3>1
      <4> QED BY Zenon, <1>1, <1>2, <2>3, <2>5, <3>1, <4>1, FileCounted
    <3>2. CASE cur.st.t # "lnk"
      <4>1. ops = 0 => cur.st = Stat(m.ino)
        BY Zenon, <1>2, <2>5 DEF Inv, Counted
      <4>2. ops = 0 => fs[m.ino].t \notin {"file", "lnk"}
        BY <1>1, <3>2, <4>1 DEF Stat
      <4>3. m.ino \in DOMAIN fs
        BY Zenon, <1>2, <2>5 DEF Inv, CurOK
      <4>4. UNCHANGED <<table, aborted>>
        BY Zenon, <1>1, <1>4, <3>2
      <4> QED BY Zenon, <1>1, <2>3, <2>5, <4>2, <4>3, <4>4, NotCounted
    <3> QED BY Zenon, <3>1, <3>2
  <2> QED BY Zenon, <2>4, <2>5, <2>6 DEF Inv
<1> QED BY Zenon, <1>3, <1>4

\* The end of dump_regular_file.
LEMMA FileEnds ==
    ASSUME Inv, cur.step = "read", NEW data, arch' = Append(arch, Member("file", data, <<>>)), FileCountLinks, cur' = None,
           UNCHANGED users, UNCHANGED stack, status' \in 0 .. 2, status' >= status, status' = 0 => data = cur.orig
    PROVE  Inv'
<1>1. cur # None
  BY DEF None
<1>2. PICK t : t = "file"
  BY Zenon
<1>3. PICK m : m = Member(t, data, <<>>)
  BY Zenon
<1>4. arch' = Append(arch, m) /\ t # "link"
  BY Zenon, <1>2, <1>3
<1>5. /\ sc' \in Scenarios /\ ops' \in Nat /\ Tree(fs', ops') /\ IsSeq(arch') /\ CurOK' /\ CurPath'
      /\ Whole' /\ NoImpostor' /\ LinksTrue' /\ StackOK'
      /\ \A path, ino : Archived(path, ino) => Archived(path, ino)'
      /\ m.ino = cur.st.ino /\ m.path = cur.path
      /\ t \in {"file", "lnk"} => Archived(m.path, m.ino)'
  BY <1>1, <1>3, <1>4, MemberStep
<1>6. TableOK' /\ Counted'
  <2>1. ~Linked /\ cur.st.t \in {"file", "lnk"}
    BY Zenon, <1>1 DEF Inv, TableOK, CurOK
  <2>2. Archived(m.path, m.ino)'
    BY Zenon, <1>2, <1>5
  <2> QED BY Zenon, <1>1, <1>4, <1>5, <2>1, <2>2, FileCounted
<1> QED BY Zenon, <1>5, <1>6 DEF Inv

\* The invariant is kept when a file shrank: the exit status is not 0 then.
LEMMA ShrankInv == Inv /\ Shrank => Inv'
<1> SUFFICES ASSUME Inv, Shrank PROVE Inv'
  BY Zenon
<1>1. PICK data : arch' = Append(arch, Member("file", data, <<>>))
  BY Zenon DEF Shrank
<1>2. /\ cur.step = "read" /\ FileCountLinks /\ status' = Max2(status, 1) /\ cur' = None /\ UNCHANGED users /\ UNCHANGED stack
  BY Zenon DEF Shrank
<1>3. status' \in 0 .. 2 /\ status' >= status /\ status' # 0
  <2>1. status \in 0 .. 2
    BY Zenon DEF Inv
  <2> QED BY <1>2, <2>1 DEF Max2
<1> QED BY Zenon, <1>1, <1>2, <1>3, FileEnds

\* The invariant is kept by the end of a file: with the same size and time it is
\* what was read.
LEMMA EndFileInv == Inv /\ EndFile => Inv'
<1> SUFFICES ASSUME Inv, EndFile PROVE Inv'
  BY Zenon
<1>1. /\ cur.step = "read" /\ Len(cur.got) = cur.st.size /\ arch' = Append(arch, Member("file", cur.got, <<>>))
      /\ FileCountLinks /\ cur' = None /\ UNCHANGED users /\ UNCHANGED stack
      /\ status' = IF ~cur.fd \/ SameFile(cur.st, cur.st.ino) THEN status ELSE Max2(status, 1)
  BY Zenon DEF EndFile
<1>2. cur # None
  BY <1>1 DEF None
<1>3. status \in 0 .. 2 /\ cur.orig \in Seq(Int) /\ cur.got \in Seq(Int) /\ Len(cur.got) = Len(cur.orig)
  BY Zenon, <1>1, <1>2 DEF Inv, CurOK
<1>4. status' \in 0 .. 2 /\ status' >= status
  BY <1>1, <1>3 DEF Max2
<1>5. status' = 0 => cur.got = cur.orig
  <2>1. CASE ~cur.fd
    <3>1. cur.orig = <<>>
      BY Zenon, <1>1, <1>2, <2>1 DEF Inv, CurOK
    <3> QED BY Zenon, <1>3, <3>1, EmptySeq
  <2>2. CASE SameFile(cur.st, cur.st.ino)
    <3>1. \A j \in 1 .. Len(cur.got) : cur.got[j] = cur.orig[j]
      BY Zenon, <1>2, <2>2 DEF Inv, CurOK, SameFile
    <3> QED BY Zenon, <1>3, <3>1, SeqEqual
  <2>3. CASE cur.fd /\ ~SameFile(cur.st, cur.st.ino)
    <3>1. status' = Max2(status, 1)
      BY Zenon, <1>1, <2>3
    <3> QED BY <1>3, <3>1 DEF Max2
  <2> QED BY Zenon, <2>1, <2>2, <2>3
<1> QED BY Zenon, <1>1, <1>4, <1>5, FileEnds

\* The invariant is kept by a step that changes nothing.
LEMMA StutterInv == Inv /\ UNCHANGED vars => Inv'
<1> SUFFICES ASSUME Inv, UNCHANGED vars PROVE Inv'
  BY Zenon
<1>1. UNCHANGED users /\ UNCHANGED <<table, arch, aborted>> /\ stack' = stack /\ cur' = cur /\ status' = status
  BY Zenon DEF vars
<1>2. fs' = fs /\ ops' = ops
  BY Zenon, <1>1 DEF users
<1>3. StackOK'
  BY Zenon, <1>1, <1>2 DEF Inv, StackOK, DirOK, Dumped, Shut, Gone, Bad, Stderr
<1>4. CurOK' /\ CurPath'
  BY Zenon, <1>1, <1>2 DEF Inv, CurOK, CurPath, TopLevel, Depth, None
<1>5. status' \in 0 .. 2 /\ status' >= status
  BY <1>1 DEF Inv
<1>6. cur' = None \/ (cur'.step = "read" => ~Linked')
  BY Zenon, <1>1 DEF Inv, TableOK, Linked, Trivial, users
<1>7. cur' = None \/ (ops = 0 => cur'.st = Stat(cur'.st.ino))
  BY Zenon, <1>1 DEF Inv, Counted
<1> QED BY Zenon, <1>1, <1>3, <1>4, <1>5, <1>6, <1>7, NothingWritten

\* The invariant holds in every state of tar and the users together.
THEOREM DumpInv == Spec => []Inv
<1>1. Inv /\ [Next]_vars => Inv'
  <2> SUFFICES ASSUME Inv, [Next]_vars PROVE Inv'
    BY Zenon
  <2>1. CASE Tar
    BY <2>1, NextNameInv, NextEntryInv, OpenInv, SkipInv, DumpHardLinkInv, DumpDirInv, DumpOtherInv, StartFileInv,
       ReadBlockInv, ShrankInv, EndFileInv, AscendInv DEF Tar
  <2>2. CASE Users
    BY Zenon, <2>2, UsersInv
  <2>3. CASE Over \/ UNCHANGED vars
    BY Zenon, <2>3, StutterInv DEF Over
  <2> QED BY Zenon, <2>1, <2>2, <2>3 DEF Next
<1> QED BY InitInv, <1>1, PTL DEF Spec

\* While the exit status is 0, every file in the archive has the contents that
\* it had when its header was written, whatever the users do while
\* dump_regular_file reads it in pieces: a file that they changed has another
\* time, and dump_file0 compares it.
THEOREM WholeAlways == Spec => []Whole
<1>1. Inv => Whole
  BY Zenon DEF Inv
<1> QED BY DumpInv, <1>1, PTL

\* What is archived below a directory's name was found in that directory,
\* although open_failure_recover closes descriptors of directories and
\* restore_parent_fd opens them again by ".." or by name.
THEOREM NoImpostorAlways == Spec => []NoImpostor
<1>1. Inv => NoImpostor
  BY Zenon DEF Inv
<1> QED BY DumpInv, <1>1, PTL

\* file_count_links does not abort, a hard link member names an earlier member
\* of the same file, and in a tree that nobody changes check_links knows how
\* many links are missing.
THEOREM LinksSoundAlways == Spec => []LinksSound
<1>1. Inv => LinksSound
  <2> SUFFICES ASSUME Inv PROVE LinksSound
    BY Zenon
  <2>1. NoAbort
    BY Zenon DEF Inv, TableOK, NoAbort
  <2>2. LinksCounted
    BY Zenon DEF Inv, Counted, Count, LinksCounted
  <2> QED BY Zenon, <2>1, <2>2 DEF Inv, LinksSound
<1> QED BY DumpInv, <1>1, PTL

-----------------------------------------------------------------------------
(* Nothing is left out.                                                    *)

\* What is still there of the first tree: the inodes, and the names that
\* nobody has used.
FirstTree ==
    /\ DOMAIN sc.fs \subseteq DOMAIN fs
    /\ \A i \in DOMAIN sc.fs : fs[i].t = sc.fs[i].t /\ sc.fs[i].mtime <= fs[i].mtime
    /\ \A i \in DOMAIN sc.fs : \A n \in DOMAIN sc.fs[i].kids : <<i, n>> \notin touched => SameName(sc.fs, fs, i, n)

\* fstat has told the type of the file, and no time before that of the start.
CurTrue ==
    cur # None => /\ cur.st.t = fs[cur.st.ino].t
                  /\ cur.st.ino \in DOMAIN sc.fs => sc.fs[cur.st.ino].mtime <= cur.st.mtime

\* A name of the first tree is in the archive, or dump_file0 is at it, or it is
\* one of those left to a directory or to create_archive.
ParentIno == IF TopLevel THEN 1 ELSE stack[Depth].ino
Found(d, path, n) == Present(path, sc.fs[d].kids[n])
InHand(d, path, n) ==
    cur # None /\ ParentIno = d /\ cur.path = path /\ cur.n = n /\ cur.st.ino = sc.fs[d].kids[n]
Waiting(d, path, n) == \E f \in DOMAIN stack : stack[f].ino = d /\ stack[f].path = path /\ n \in stack[f].left
InTodo(n) == \E a \in DOMAIN todo : todo[a] = n
Argument(n) == \E a \in DOMAIN sc.names : sc.names[a] = n

\* As long as the exit status is 0, none is forgotten.
Complete ==
    status = 0 =>
      /\ \A n : Argument(n) /\ Wanted(1, n) => Found(1, <<n>>, n) \/ InHand(1, <<n>>, n) \/ InTodo(n)
      /\ \A d, path, n : Dumped(path, d) /\ Wanted(d, n) =>
           Found(d, Append(path, n), n) \/ InHand(d, Append(path, n), n) \/ Waiting(d, path, n)

NothingLost == FirstTree /\ CurTrue /\ todo \in Seq(Nat) /\ Complete

\* Names only become used.
LEMMA StillWanted ==
    ASSUME sc' = sc, touched \subseteq touched' PROVE \A d, n : Wanted(d, n)' => Wanted(d, n)
BY Zenon DEF Wanted

\* What a step must do with each of the names.
LEMMA CompleteStep ==
    ASSUME Complete, sc' = sc, touched \subseteq touched', status' = 0 => status = 0,
           status' = 0 => \A d, path, n : Found(d, path, n) => Found(d, path, n)',
           status' = 0 => \A d, path, n : Wanted(d, n) /\ InHand(d, path, n) => InHand(d, path, n)' \/ Found(d, path, n)',
           status' = 0 => \A d, path, n : Wanted(d, n) /\ Waiting(d, path, n) =>
                            Waiting(d, path, n)' \/ InHand(d, Append(path, n), n)',
           status' = 0 => \A n : Wanted(1, n) /\ InTodo(n) => InTodo(n)' \/ InHand(1, <<n>>, n)',
           status' = 0 => \A d, path, n : Dumped(path, d)' /\ Wanted(d, n) => Dumped(path, d) \/ Waiting(d, path, n)'
    PROVE  Complete'
<1>1. \A d, n : Wanted(d, n)' => Wanted(d, n)
  BY Zenon, StillWanted
<1>2. \A n : Argument(n)' => Argument(n)
  BY Zenon DEF Argument
<1>3. ASSUME status' = 0, NEW n, Argument(n)', Wanted(1, n)'
      PROVE  Found(1, <<n>>, n)' \/ InHand(1, <<n>>, n)' \/ InTodo(n)'
  <2>1. Wanted(1, n) /\ (Found(1, <<n>>, n) \/ InHand(1, <<n>>, n) \/ InTodo(n))
    BY Zenon, <1>1, <1>2, <1>3 DEF Complete
  <2> QED BY Zenon, <1>3, <2>1
<1>4. ASSUME status' = 0, NEW d, NEW path, NEW n, Dumped(path, d)', Wanted(d, n)'
      PROVE  Found(d, Append(path, n), n)' \/ InHand(d, Append(path, n), n)' \/ Waiting(d, path, n)'
  <2>1. Wanted(d, n)
    BY Zenon, <1>1, <1>4
  <2>2. CASE Waiting(d, path, n)'
    BY Zenon, <2>2
  <2>3. CASE Dumped(path, d)
    <3>1. Found(d, Append(path, n), n) \/ InHand(d, Append(path, n), n) \/ Waiting(d, path, n)
      BY Zenon, <1>4, <2>1, <2>3 DEF Complete
    <3> QED BY Zenon, <1>4, <2>1, <3>1
  <2> QED BY Zenon, <1>4, <2>1, <2>2, <2>3
<1> QED BY Zenon, <1>3, <1>4 DEF Complete

\* A step of the users loses no name.
LEMMA UsersLost == Inv /\ NothingLost /\ Users => NothingLost'
<1> SUFFICES ASSUME Inv, NothingLost, Users PROVE NothingLost'
  BY Zenon
<1>1. /\ ops \in Nat /\ Tree(fs, ops) /\ UNCHANGED <<sc, todo, stack, cur, table, arch, status, aborted>>
      /\ \E used : touched' = touched \cup used /\ Changed(fs, fs', used)
  BY Zenon, UsersStep DEF Inv
<1>2. PICK used : touched' = touched \cup used /\ Changed(fs, fs', used)
  BY Zenon, <1>1
<1>3. sc' = sc /\ todo' = todo /\ stack' = stack /\ cur' = cur /\ arch' = arch /\ status' = status
  BY Zenon, <1>1
<1>4. FirstTree'
  <2>1. \A i \in DOMAIN sc.fs : i \in DOMAIN fs /\ i \in DOMAIN fs'
    BY Zenon, <1>2 DEF NothingLost, FirstTree, Changed
  <2>2. \A i \in DOMAIN sc.fs : fs'[i].t = sc.fs[i].t
    BY Zenon, <1>2, <2>1 DEF NothingLost, FirstTree, Changed
  <2>3. ASSUME NEW i \in DOMAIN sc.fs PROVE sc.fs[i].mtime <= fs'[i].mtime
    <3>1. sc.fs[i].mtime \in Int /\ sc.fs[i].mtime <= 0
      BY Zenon, ScenariosAssumption DEF Inv, IsNode
    <3>2. fs'[i].mtime = Now \/ fs'[i].mtime = fs[i].mtime
      BY Zenon, <1>2, <2>1 DEF Changed
    <3>3. sc.fs[i].mtime <= fs[i].mtime
      BY Zenon DEF NothingLost, FirstTree
    <3> QED BY <1>1, <3>1, <3>2, <3>3 DEF Now
  <2>4. ASSUME NEW i \in DOMAIN sc.fs, NEW n \in DOMAIN sc.fs[i].kids, <<i, n>> \notin touched'
        PROVE  SameName(sc.fs, fs', i, n)
    <3>1. <<i, n>> \notin touched /\ <<i, n>> \notin used
      BY Zenon, <1>2, <2>4
    <3>2. SameName(sc.fs, fs, i, n)
      BY Zenon, <3>1 DEF NothingLost, FirstTree
    <3>3. SameName(fs, fs', i, n)
      BY Zenon, <1>2, <2>1, <3>1, <3>2 DEF Changed, SameName
    <3> QED BY Zenon, <3>2, <3>3 DEF SameName
  <2> QED BY Zenon, <1>3, <2>1, <2>2, <2>3, <2>4 DEF FirstTree, SameName
<1>5. CurTrue'
  <2>1. cur # None => cur.st.ino \in DOMAIN fs
    BY Zenon DEF Inv, CurOK
  <2>2. cur # None => fs'[cur.st.ino].t = fs[cur.st.ino].t
    BY Zenon, <1>2, <2>1 DEF Changed
  <2> QED BY Zenon, <1>3, <2>2 DEF NothingLost, CurTrue, None
<1>6. Complete'
  <2>1. /\ \A d, path, n : Found(d, path, n) => Found(d, path, n)'
        /\ \A d, path : Dumped(path, d)' => Dumped(path, d)
    BY Zenon, <1>3 DEF Found, Present, Dumped
  <2>2. \A d, path, n : InHand(d, path, n) => InHand(d, path, n)'
    BY Zenon, <1>3 DEF InHand, ParentIno, TopLevel, Depth, None
  <2>3. /\ \A d, path, n : Waiting(d, path, n) => Waiting(d, path, n)'
        /\ \A n : InTodo(n) => InTodo(n)'
    BY Zenon, <1>3 DEF Waiting, InTodo
  <2>4. Complete /\ touched \subseteq touched'
    BY Zenon, <1>2 DEF NothingLost
  <2> QED BY Zenon, <1>3, <2>1, <2>2, <2>3, <2>4, CompleteStep
<1> QED BY Zenon, <1>3, <1>4, <1>5, <1>6 DEF NothingLost

\* The first tree does not change with a step of tar, and fstat tells the truth.
LEMMA TarTree ==
    ASSUME Inv, NothingLost, UNCHANGED users,
           cur' = None \/ cur'.st = Stat(cur'.st.ino) \/ (cur # None /\ cur'.st = cur.st)
    PROVE  /\ FirstTree' /\ CurTrue' /\ sc' = sc /\ touched' = touched
           /\ Complete /\ todo \in Seq(Nat)
<1>1. sc' = sc /\ fs' = fs /\ touched' = touched
  BY Zenon DEF users
<1>2. FirstTree'
  BY Zenon, <1>1 DEF NothingLost, FirstTree, SameName
<1>3. CurTrue'
  <2>1. CASE cur' = None
    BY Zenon, <2>1 DEF CurTrue, None
  <2>2. CASE cur'.st = Stat(cur'.st.ino)
    <3>1. PICK s : s = cur'.st
      BY Zenon
    <3>2. s.t = fs[s.ino].t /\ s.mtime = fs[s.ino].mtime
      BY <2>2, <3>1 DEF Stat
    <3>3. s.ino \in DOMAIN sc.fs => sc.fs[s.ino].mtime <= s.mtime
      BY Zenon, <3>2 DEF NothingLost, FirstTree
    <3> QED BY Zenon, <1>1, <3>1, <3>2, <3>3 DEF CurTrue
  <2>3. CASE cur # None /\ cur'.st = cur.st
    BY Zenon, <1>1, <2>3 DEF NothingLost, CurTrue
  <2> QED BY Zenon, <2>1, <2>2, <2>3
<1> QED BY Zenon, <1>1, <1>2, <1>3 DEF NothingLost

\* The inode of a wanted name.
LEMMA WantedFile ==
    ASSUME Inv, NothingLost, NEW d, NEW n, Wanted(d, n)
    PROVE  /\ d \in DOMAIN sc.fs /\ d \in DOMAIN fs /\ sc.fs[d].kids[n] \in DOMAIN sc.fs /\ n \notin sc.excluded
           /\ Lookup(d, n) = sc.fs[d].kids[n] /\ Lookup(d, n) # 0 /\ n \in DOMAIN fs[d].kids
<1>1. d \in DOMAIN sc.fs /\ n \in DOMAIN sc.fs[d].kids /\ n \notin sc.excluded /\ <<d, n>> \notin touched
  BY Zenon DEF Wanted
<1>2. sc.fs[d].kids[n] \in DOMAIN sc.fs
  BY Zenon, <1>1, ScenariosAssumption DEF Inv
<1>3. SameName(sc.fs, fs, d, n) /\ d \in DOMAIN fs /\ sc.fs[d].kids[n] \in DOMAIN fs
  BY Zenon, <1>1, <1>2 DEF NothingLost, FirstTree
<1>4. Lookup(d, n) = sc.fs[d].kids[n] /\ n \in DOMAIN fs[d].kids
  BY Zenon, <1>3 DEF Lookup, SameName
<1>5. 0 \notin DOMAIN fs
  BY DEF Inv, Tree
<1> QED BY Zenon, <1>1, <1>2, <1>3, <1>4, <1>5

\* The directory in which the file being dumped was found is open.
LEMMA ParentOpen == ASSUME Inv, cur # None PROVE ParentFd = ParentIno
BY Zenon DEF Inv, CurPath, ParentFd, ParentIno

\* A wanted file is not left out.
LEMMA NotSkipped ==
    ASSUME Inv, NothingLost, NEW d, NEW path, NEW n, Wanted(d, n), InHand(d, path, n)
    PROVE  ~Skipped
<1> DEFINE i == sc.fs[d].kids[n]
<1>1. i \in DOMAIN sc.fs /\ cur # None /\ cur.st.ino = i
  BY Zenon, WantedFile DEF InHand
<1>2. sc.fs[i].t \notin {"sock", "archive"} /\ (sc.fs[i].t = "dir" \/ sc.fs[i].mtime >= sc.newer)
  BY Zenon DEF Wanted
<1> HIDE DEF i
<1>3. cur.st.t = sc.fs[i].t /\ sc.fs[i].mtime <= cur.st.mtime
  BY Zenon, <1>1 DEF NothingLost, FirstTree, CurTrue
<1>4. cur.st.mtime \in Int /\ sc.newer \in Int
  BY Zenon, <1>1, ScenariosAssumption DEF Inv, CurOK
<1>5. sc.fs[i].mtime \in Int
  BY Zenon, <1>1, ScenariosAssumption DEF Inv, IsNode
<1>6. cur.st.t # "dir" => ~(cur.st.mtime < sc.newer)
  <2>1. cur.st.t # "dir" => sc.fs[i].mtime >= sc.newer
    BY Zenon, <1>2, <1>3
  <2>2. sc.fs[i].mtime >= sc.newer => ~(cur.st.mtime < sc.newer)
    BY <1>3, <1>4, <1>5
  <2> QED BY Zenon, <2>1, <2>2
<1> QED BY Zenon, <1>2, <1>3, <1>6 DEF Skipped

\* A step that neither starts nor ends a directory or an argument.
LEMMA OneFile ==
    ASSUME Inv, NothingLost, UNCHANGED users, UNCHANGED <<todo, stack>>, status' = 0 => status = 0,
           cur' = None \/ cur'.st = cur.st, cur # None,
           status' = 0 => \A d, path, n : Found(d, path, n) => Found(d, path, n)',
           status' = 0 => \A d, path, n : Wanted(d, n) /\ InHand(d, path, n) => InHand(d, path, n)' \/ Found(d, path, n)',
           status' = 0 => \A d, path : Dumped(path, d)' => Dumped(path, d)
    PROVE  NothingLost'
<1>1. /\ FirstTree' /\ CurTrue' /\ sc' = sc /\ touched' = touched /\ Complete /\ todo \in Seq(Nat)
  BY Zenon, TarTree
<1>2. todo' = todo /\ stack' = stack
  BY Zenon
<1>3. /\ \A d, path, n : Waiting(d, path, n) => Waiting(d, path, n)'
      /\ \A n : InTodo(n) => InTodo(n)'
  BY Zenon, <1>2 DEF Waiting, InTodo
<1>4. Complete'
  BY Zenon, <1>1, <1>3, CompleteStep
<1> QED BY Zenon, <1>1, <1>2, <1>4 DEF NothingLost

\* A member for the file being dumped.
LEMMA MemberFound ==
    ASSUME Inv, NothingLost, cur # None, UNCHANGED users, NEW m, arch' = Append(arch, m), m.path = cur.path,
           m.ino = cur.st.ino, Kept(m.t, cur.st.t)
    PROVE  /\ \A d, path, n : Found(d, path, n) => Found(d, path, n)'
           /\ \A d, path, n : Wanted(d, n) /\ InHand(d, path, n) => Found(d, path, n)'
           /\ \A d, path : Dumped(path, d)' => Dumped(path, d) \/ (m.t = "dir" /\ path = m.path /\ d = m.ino)
<1>1. /\ Len(arch) \in Nat /\ DOMAIN arch = 1 .. Len(arch) /\ DOMAIN arch' = 1 .. Len(arch) + 1
      /\ \A k \in 1 .. Len(arch) : arch'[k] = arch[k]
      /\ arch'[Len(arch) + 1] = m
  BY AppendIsSeq DEF Inv
<1>2. sc' = sc /\ Len(arch) + 1 \in DOMAIN arch' /\ DOMAIN arch \subseteq DOMAIN arch'
  BY <1>1 DEF users
<1>3. \A d, path, n : Found(d, path, n) => Found(d, path, n)'
  BY Zenon, <1>1, <1>2 DEF Found, Present
<1>4. \A d, path, n : Wanted(d, n) /\ InHand(d, path, n) => Found(d, path, n)'
  <2> SUFFICES ASSUME NEW d, NEW path, NEW n, Wanted(d, n), InHand(d, path, n) PROVE Found(d, path, n)'
    BY Zenon
  <2>1. PICK i : i = sc.fs[d].kids[n]
    BY Zenon
  <2>2. i \in DOMAIN sc.fs
    BY Zenon, <2>1, WantedFile
  <2>3. cur.path = path /\ cur.st.ino = i
    BY Zenon, <2>1 DEF InHand
  <2>4. cur.st.t = sc.fs[i].t
    BY Zenon, <2>2, <2>3 DEF NothingLost, FirstTree, CurTrue
  <2>5. m.path = path /\ m.ino = i /\ Kept(m.t, sc.fs[i].t)
    BY Zenon, <2>3, <2>4
  <2>6. Present(path, i)'
    BY Zenon, <1>1, <1>2, <2>5 DEF Present
  <2> QED BY Zenon, <1>2, <2>1, <2>6 DEF Found, Present
<1>5. \A k \in DOMAIN arch' : k \in DOMAIN arch \/ k = Len(arch) + 1
  BY <1>1
<1>6. \A d, path : Dumped(path, d)' => Dumped(path, d) \/ (m.t = "dir" /\ path = m.path /\ d = m.ino)
  BY Zenon, <1>1, <1>5 DEF Dumped
<1> QED BY Zenon, <1>3, <1>4, <1>6

\* A wanted name is not lost when a file is left out, which it is not.
LEMMA SkipLost == Inv /\ NothingLost /\ Skip => NothingLost'
<1> SUFFICES ASSUME Inv, NothingLost, Skip PROVE NothingLost'
  BY Zenon
<1>1. /\ cur.step = "head" /\ Skipped /\ cur' = None /\ UNCHANGED users /\ UNCHANGED <<todo, stack>> /\ status' = status
      /\ arch' = arch /\ sc' = sc
  BY Zenon DEF Skip, users
<1>2. cur # None
  BY <1>1 DEF None
<1>3. \A d, path, n : ~(Wanted(d, n) /\ InHand(d, path, n))
  BY Zenon, <1>1, NotSkipped
<1>4. /\ \A d, path, n : Found(d, path, n) => Found(d, path, n)'
      /\ \A d, path : Dumped(path, d)' => Dumped(path, d)
  BY Zenon, <1>1 DEF Found, Present, Dumped
<1> QED BY Zenon, <1>1, <1>2, <1>3, <1>4, OneFile

\* None is lost by the header of a file and by reading it: dump_file0 stays at it.
LEMMA ReadingLost ==
    ASSUME Inv, NothingLost, UNCHANGED users, UNCHANGED <<todo, stack, arch>>, status' = status, cur # None, cur' # None,
           cur'.n = cur.n, cur'.path = cur.path, cur'.st = cur.st
    PROVE  NothingLost'
<1>1. sc' = sc /\ arch' = arch /\ stack' = stack
  BY Zenon DEF users
<1>2. /\ \A d, path, n : Found(d, path, n) => Found(d, path, n)'
      /\ \A d, path : Dumped(path, d)' => Dumped(path, d)
  BY Zenon, <1>1 DEF Found, Present, Dumped
<1>3. ParentIno' = ParentIno
  BY Zenon, <1>1 DEF ParentIno, TopLevel, Depth
<1>4. None' = None
  BY Zenon DEF None
<1>5. \A d, path, n : InHand(d, path, n) => InHand(d, path, n)'
  BY Zenon, <1>1, <1>3, <1>4 DEF InHand
<1> QED BY Zenon, <1>2, <1>5, OneFile

\* The header of a file.
LEMMA StartFileLost == Inv /\ NothingLost /\ StartFile => NothingLost'
<1> SUFFICES ASSUME Inv, NothingLost, StartFile PROVE NothingLost'
  BY Zenon
<1>1. /\ cur.step = "head" /\ cur' = [cur EXCEPT !.step = "read"] /\ status' = status
      /\ UNCHANGED users /\ UNCHANGED <<todo, stack, arch>>
  BY Zenon DEF StartFile
<1>2. cur # None
  BY <1>1 DEF None
<1>3. /\ cur'.step = "read" /\ cur'.n = cur.n /\ cur'.path = cur.path /\ cur'.st = cur.st
  BY Zenon, <1>1, <1>2 DEF Inv, CurOK
<1>4. cur' # None
  BY <1>3 DEF None
<1> QED BY Zenon, <1>1, <1>2, <1>3, <1>4, ReadingLost

\* A block of it.
LEMMA ReadBlockLost == Inv /\ NothingLost /\ ReadBlock => NothingLost'
<1> SUFFICES ASSUME Inv, NothingLost, ReadBlock PROVE NothingLost'
  BY Zenon
<1>1. /\ cur.step = "read" /\ (\E x : cur' = [cur EXCEPT !.got = x]) /\ status' = status
      /\ UNCHANGED users /\ UNCHANGED <<todo, stack, arch>>
  BY Zenon DEF ReadBlock
<1>2. cur # None
  BY <1>1 DEF None
<1>3. /\ cur'.step = "read" /\ cur'.n = cur.n /\ cur'.path = cur.path /\ cur'.st = cur.st
  BY Zenon, <1>1, <1>2 DEF Inv, CurOK
<1>4. cur' # None
  BY <1>3 DEF None
<1> QED BY Zenon, <1>1, <1>2, <1>3, <1>4, ReadingLost

\* None is lost when a member that is no directory is written.
LEMMA MemberLost ==
    ASSUME Inv, NothingLost, cur # None, UNCHANGED users, UNCHANGED <<todo, stack>>, status' = 0 => status = 0, cur' = None,
           NEW t, t # "dir", Kept(t, cur.st.t), NEW data, NEW target, arch' = Append(arch, Member(t, data, target))
    PROVE  NothingLost'
<1>1. PICK m : m = Member(t, data, target)
  BY Zenon
<1>2. m.t = t /\ m.path = cur.path /\ m.ino = cur.st.ino
  BY Zenon, <1>1 DEF Member
<1>3. /\ \A d, path, n : Found(d, path, n) => Found(d, path, n)'
      /\ \A d, path, n : Wanted(d, n) /\ InHand(d, path, n) => Found(d, path, n)'
      /\ \A d, path : Dumped(path, d)' => Dumped(path, d) \/ (m.t = "dir" /\ path = m.path /\ d = m.ino)
  BY Zenon, <1>1, <1>2, MemberFound
<1>4. \A d, path : Dumped(path, d)' => Dumped(path, d)
  BY Zenon, <1>2, <1>3
<1> QED BY Zenon, <1>3, <1>4, OneFile

\* dump_hard_link.
LEMMA DumpHardLinkLost == Inv /\ NothingLost /\ DumpHardLink => NothingLost'
<1> SUFFICES ASSUME Inv, NothingLost, DumpHardLink PROVE NothingLost'
  BY Zenon
<1>1. /\ cur.step = "head" /\ arch' = Append(arch, Member("link", <<>>, table[cur.st.ino].name)) /\ cur' = None
      /\ UNCHANGED users /\ UNCHANGED <<todo, stack>> /\ status' = status
  BY Zenon DEF DumpHardLink
<1>2. cur # None
  BY <1>1 DEF None
<1>3. PICK t : t = "link"
  BY Zenon
<1>4. t # "dir" /\ arch' = Append(arch, Member(t, <<>>, table[cur.st.ino].name))
  BY Zenon, <1>1, <1>3
<1>5. Kept(t, cur.st.t)
  BY Zenon, <1>3 DEF DumpHardLink, Linked, Kept
<1> QED BY Zenon, <1>1, <1>2, <1>4, <1>5, MemberLost

\* The exit status is not 0 when a symbolic link is gone.
LEMMA DumpOtherLost == Inv /\ NothingLost /\ DumpOther => NothingLost'
<1> SUFFICES ASSUME Inv, NothingLost, DumpOther PROVE NothingLost'
  BY Zenon
<1> DEFINE i == IF ParentFd > 0 THEN Lookup(ParentFd, cur.n) ELSE 0
           fails == cur.st.t = "lnk" /\ (i = 0 \/ fs[i].t # "lnk")
<1>1. /\ cur.step = "head" /\ cur.st.t \in {"lnk", "fifo"}
      /\ fails => status' = FileRemovedDiag(i = 0) /\ arch' = arch
      /\ ~fails => arch' = Append(arch, Member(cur.st.t, <<>>, <<>>)) /\ status' = status
      /\ cur' = None /\ UNCHANGED users /\ UNCHANGED <<todo, stack>>
  BY Zenon DEF DumpOther
<1>2. cur # None
  BY <1>1 DEF None
<1>3. CASE fails
  <2>1. (i = 0) \in BOOLEAN /\ status \in 0 .. 2
    BY Zenon DEF Inv
  <2> HIDE DEF i
  <2>2. status' \in 1 .. 2
    BY Zenon, <1>1, <1>3, <2>1, StatusGrows
  <2>3. status' # 0
    BY <2>2
  <2> QED BY Zenon, <1>1, <1>2, <2>3, OneFile
<1>4. CASE ~fails
  <2> HIDE DEF fails
  <2>1. PICK t : t = cur.st.t
    BY Zenon
  <2>2. t # "dir" /\ arch' = Append(arch, Member(t, <<>>, <<>>))
    BY Zenon, <1>1, <1>4, <2>1
  <2>3. Kept(t, cur.st.t)
    BY Zenon, <2>1 DEF Kept
  <2> QED BY Zenon, <1>1, <1>2, <1>4, <2>2, <2>3, MemberLost
<1> QED BY Zenon, <1>3, <1>4

\* The end of a file.
LEMMA FileLost == Inv /\ NothingLost /\ (Shrank \/ EndFile) => NothingLost'
<1> SUFFICES ASSUME Inv, NothingLost, Shrank \/ EndFile PROVE NothingLost'
  BY Zenon
<1>1. PICK data : arch' = Append(arch, Member("file", data, <<>>))
  BY Zenon DEF Shrank, EndFile
<1>2. /\ cur.step = "read" /\ cur' = None /\ UNCHANGED users /\ UNCHANGED <<todo, stack>>
      /\ status' = status \/ status' = Max2(status, 1)
  BY Zenon DEF Shrank, EndFile
<1>3. cur # None
  BY <1>2 DEF None
<1>4. status' = 0 => status = 0
  <2>1. status \in 0 .. 2
    BY Zenon DEF Inv
  <2> QED BY <1>2, <2>1 DEF Max2
<1>5. PICK t : t = "file"
  BY Zenon
<1>6. t # "dir" /\ arch' = Append(arch, Member(t, data, <<>>))
  BY Zenon, <1>1, <1>5
<1>7. cur.st.t = "file"
  BY Zenon, <1>2, <1>3 DEF Inv, CurOK
<1>8. Kept(t, cur.st.t)
  BY Zenon, <1>5, <1>7 DEF Kept
<1> QED BY Zenon, <1>2, <1>3, <1>4, <1>6, <1>8, MemberLost

\* dump_dir: every name in the directory that nobody has used is in the list.
LEMMA DumpDirLost == Inv /\ NothingLost /\ DumpDir => NothingLost'
<1> SUFFICES ASSUME Inv, NothingLost, DumpDir PROVE NothingLost'
  BY Zenon
<1>0. PICK e : e = [ino |-> cur.st.ino, path |-> cur.path, fd |-> cur.st.ino, left |-> DOMAIN fs[cur.st.ino].kids,
                    mtime |-> cur.st.mtime]
  BY Zenon
<1>1. /\ cur.step = "head" /\ arch' = Append(arch, Member("dir", <<>>, <<>>)) /\ stack' = Append(stack, e) /\ cur' = None
      /\ UNCHANGED users /\ todo' = todo /\ status' = status
  BY Zenon, <1>0 DEF DumpDir
<1>2. cur # None
  BY <1>1 DEF None
<1>3. e.ino = cur.st.ino /\ e.path = cur.path /\ e.left = DOMAIN fs[cur.st.ino].kids
  BY Zenon, <1>0
<1>4. PICK m : m = Member("dir", <<>>, <<>>)
  BY Zenon
<1>5. m.path = cur.path /\ m.ino = cur.st.ino /\ arch' = Append(arch, m) /\ m.t = "dir" /\ cur.st.t = "dir"
  BY Zenon, <1>1, <1>4 DEF Member, DumpDir
<1>a. Kept(m.t, cur.st.t)
  BY Zenon, <1>5 DEF Kept
<1>6. /\ \A d, path, n : Found(d, path, n) => Found(d, path, n)'
      /\ \A d, path, n : Wanted(d, n) /\ InHand(d, path, n) => Found(d, path, n)'
      /\ \A d, path : Dumped(path, d)' => Dumped(path, d) \/ (m.t = "dir" /\ path = m.path /\ d = m.ino)
  BY Zenon, <1>a, <1>1, <1>2, <1>5, MemberFound
<1>7. /\ FirstTree' /\ CurTrue' /\ sc' = sc /\ touched' = touched /\ Complete /\ todo \in Seq(Nat)
  BY Zenon, <1>1, TarTree
<1>8. /\ DOMAIN stack = 1 .. Len(stack) /\ DOMAIN stack' = 1 .. Len(stack) + 1 /\ Len(stack) \in Nat
      /\ \A k \in 1 .. Len(stack) : stack'[k] = stack[k]
      /\ stack'[Len(stack) + 1] = e
  BY <1>1, AppendIsSeq DEF Inv, StackOK
<1>9. DOMAIN stack \subseteq DOMAIN stack' /\ Len(stack) + 1 \in DOMAIN stack'
  BY <1>8
<1>10. \A d, path, n : Waiting(d, path, n) => Waiting(d, path, n)'
  BY Zenon, <1>8, <1>9 DEF Waiting
<1>11. ASSUME NEW n, Wanted(m.ino, n) PROVE n \in e.left
  BY Zenon, <1>3, <1>5, <1>11, WantedFile
<1>12. \A d, path, n : Dumped(path, d)' /\ Wanted(d, n) => Dumped(path, d) \/ Waiting(d, path, n)'
  BY Zenon, <1>3, <1>5, <1>6, <1>8, <1>9, <1>11 DEF Waiting
<1>13. \A n : InTodo(n) => InTodo(n)'
  BY Zenon, <1>1 DEF InTodo
<1>14. Complete'
  BY Zenon, <1>1, <1>6, <1>7, <1>10, <1>12, <1>13, CompleteStep
<1> QED BY Zenon, <1>1, <1>7, <1>14 DEF NothingLost

\* fstatat finds a wanted name, or the exit status is not 0.
LEMMA StatNameHand ==
    ASSUME Inv, NothingLost, UNCHANGED users, NEW d, NEW n, NEW path, StatName(n, path), status' = 0, Wanted(d, n),
           ParentFd > 0 => ParentFd = d
    PROVE  cur' # None /\ cur'.path = path /\ cur'.n = n /\ cur'.st.ino = sc.fs[d].kids[n]
<1> DEFINE i == IF ParentFd > 0 THEN Lookup(ParentFd, n) ELSE 0
           step == IF FileDumpable(i) THEN "open" ELSE "head"
           e == ParentFd = Gone \/ (ParentFd > 0 /\ i = 0)
<1>1. n \notin sc.excluded
  BY Zenon, WantedFile
<1>2. \/ status' = FileRemovedDiag(e)
      \/ ParentFd > 0 /\ cur' = Current(step, n, path, FALSE, i)
  BY Zenon, <1>1 DEF StatName
<1>3. e \in BOOLEAN /\ status \in 0 .. 2
  BY Zenon DEF Inv
<1> HIDE DEF e
<1>4. FileRemovedDiag(e) \in 1 .. 2
  BY Zenon, <1>3, StatusGrows
<1>5. FileRemovedDiag(e) # 0
  BY <1>4
<1>6. ParentFd > 0 /\ cur' = Current(step, n, path, FALSE, i)
  BY Zenon, <1>2, <1>5
<1>7. i = sc.fs[d].kids[n]
  BY Zenon, <1>6, WantedFile
<1>8. step \in {"open", "head"}
  BY Zenon
<1> HIDE DEF i, step
<1>9. PICK c : c = cur'
  BY Zenon
<1>10. c.step = step /\ c.path = path /\ c.n = n /\ c.st = Stat(i)
  BY Zenon, <1>6, <1>9 DEF Current
<1>11. c # None
  BY <1>8, <1>10 DEF None
<1>12. c.st.ino = i
  BY <1>10 DEF Stat
<1> QED BY Zenon, <1>7, <1>9, <1>10, <1>11, <1>12

\* create_archive's loop.
LEMMA NextNameLost == Inv /\ NothingLost /\ NextName => NothingLost'
<1> SUFFICES ASSUME Inv, NothingLost, NextName PROVE NothingLost'
  BY Zenon
<1>0. PICK n : n = Head(todo)
  BY Zenon
<1>1. /\ TopLevel /\ cur = None /\ todo # <<>> /\ StatName(n, <<n>>) /\ todo' = Tail(todo)
      /\ UNCHANGED users /\ stack' = stack /\ arch' = arch
  BY Zenon, <1>0 DEF NextName
<1>2. ParentFd = 1 /\ ParentIno' = 1
  BY Zenon, <1>1 DEF ParentFd, ParentIno, TopLevel
<1>3. ParentFd \in DOMAIN fs
  BY <1>2 DEF Inv, Tree
<1>4. /\ status' \in 0 .. 2 /\ status' >= status
      /\ cur' = None \/ cur'.st = Stat(cur'.st.ino)
  BY Zenon, <1>1, <1>3, StatNameOK
<1>5. /\ FirstTree' /\ CurTrue' /\ sc' = sc /\ touched' = touched /\ Complete /\ todo \in Seq(Nat)
  BY Zenon, <1>1, <1>4, TarTree
<1>6. Tail(todo) \in Seq(Nat) /\ \A a \in DOMAIN todo : todo[a] = n \/ \E b \in DOMAIN Tail(todo) : Tail(todo)[b] = todo[a]
  <2>1. /\ Tail(todo) \in Seq(Nat) /\ Len(todo) \in Nat \ {0} /\ Len(Tail(todo)) = Len(todo) - 1 /\ DOMAIN todo = 1 .. Len(todo)
        /\ DOMAIN Tail(todo) = 1 .. Len(todo) - 1 /\ n = todo[1]
        /\ \A b \in 1 .. Len(todo) - 1 : Tail(todo)[b] = todo[b + 1]
    BY <1>0, <1>1, <1>5, EmptySeq
  <2>2. ASSUME NEW a \in 1 .. Len(todo), a # 1 PROVE a - 1 \in 1 .. Len(todo) - 1 /\ Tail(todo)[a - 1] = todo[a]
    BY <2>1, <2>2
  <2> QED BY Zenon, <2>1, <2>2
<1>7. \A x : InTodo(x) => InTodo(x)' \/ x = n
  BY Zenon, <1>1, <1>6 DEF InTodo
<1>8. status' = 0 /\ Wanted(1, n) => InHand(1, <<n>>, n)'
  <2> SUFFICES ASSUME status' = 0, Wanted(1, n) PROVE InHand(1, <<n>>, n)'
    BY Zenon
  <2>1. cur' # None /\ cur'.path = <<n>> /\ cur'.n = n /\ cur'.st.ino = sc.fs[1].kids[n]
    BY Zenon, <1>1, <1>2, StatNameHand
  <2> QED BY Zenon, <1>2, <1>5, <2>1 DEF InHand, None
<1>9. \A d, path, x : ~InHand(d, path, x)
  BY Zenon, <1>1 DEF InHand
<1>10. /\ \A d, path, x : Found(d, path, x) => Found(d, path, x)'
       /\ \A d, path : Dumped(path, d)' => Dumped(path, d)
       /\ \A d, path, x : Waiting(d, path, x) => Waiting(d, path, x)'
  BY Zenon, <1>1, <1>5 DEF Found, Present, Dumped, Waiting
<1>11. status' = 0 => status = 0
  BY <1>4 DEF Inv
<1>12. status' = 0 => \A x : Wanted(1, x) /\ InTodo(x) => InTodo(x)' \/ InHand(1, <<x>>, x)'
  BY Zenon, <1>7, <1>8
<1>13. Complete'
  BY Zenon, <1>5, <1>9, <1>10, <1>11, <1>12, CompleteStep
<1> QED BY Zenon, <1>1, <1>5, <1>6, <1>13 DEF NothingLost

\* dump_dir0's loop.
LEMMA NextEntryLost == Inv /\ NothingLost /\ NextEntry => NothingLost'
<1> SUFFICES ASSUME Inv, NothingLost, NextEntry PROVE NothingLost'
  BY Zenon
<1> DEFINE p == stack[Depth]
<1>0. PICK n : StatName(n, Append(p.path, n)) /\ stack' = [stack EXCEPT ![Depth].left = @ \ {n}]
  BY Zenon DEF NextEntry
<1> DEFINE q == [p EXCEPT !.left = @ \ {n}]
<1>1. /\ ~TopLevel /\ cur = None /\ UNCHANGED users /\ todo' = todo /\ arch' = arch
      /\ stack' = [stack EXCEPT ![Depth] = q]
  BY Zenon, <1>0 DEF NextEntry
<1>2. /\ Depth \in DOMAIN stack /\ DirOK(p) /\ ParentFd = p.fd
      /\ ParentFd > 0 => ParentFd = p.ino /\ ParentFd \in DOMAIN fs
  BY Zenon, <1>1, LastDir
<1>3. q.ino = p.ino /\ q.path = p.path /\ q.left = p.left \ {n}
  BY Zenon, <1>2 DEF DirOK
<1>4. /\ IsSeq(stack') /\ Len(stack') = Len(stack) /\ DOMAIN stack' = DOMAIN stack
      /\ stack'[Depth] = q /\ \A k \in DOMAIN stack : k # Depth => stack'[k] = stack[k]
  <2>1. IsSeq(stack)
    BY Zenon DEF Inv, StackOK
  <2>2. stack' = [stack EXCEPT ![Depth] = q] /\ Depth \in DOMAIN stack
    BY Zenon, <1>1, <1>2
  <2> HIDE DEF p, q
  <2> QED BY <2>1, <2>2, ExceptIsSeq
<1> HIDE DEF p, q
<1>5. /\ status' \in 0 .. 2 /\ status' >= status
      /\ cur' = None \/ cur'.st = Stat(cur'.st.ino)
  BY Zenon, <1>0, <1>1, <1>2, StatNameOK
<1>6. /\ FirstTree' /\ CurTrue' /\ sc' = sc /\ touched' = touched /\ Complete /\ todo \in Seq(Nat)
  BY Zenon, <1>1, <1>5, TarTree
<1>a. PICK i, up : i = p.ino /\ up = p.path
  BY Zenon
<1>7. ParentIno' = i
  <2>1. Depth' = Depth /\ ~TopLevel'
    <3>1. Len(stack) # 0
      BY Zenon, <1>1, FrontIsSeq DEF Inv, StackOK, TopLevel
    <3> QED BY Zenon, <1>4, <3>1 DEF Depth, TopLevel
  <2> QED BY Zenon, <1>a, <1>3, <1>4, <2>1 DEF ParentIno
<1>8. status' = 0 /\ Wanted(i, n) => InHand(i, Append(up, n), n)'
  <2> SUFFICES ASSUME status' = 0, Wanted(i, n) PROVE InHand(i, Append(up, n), n)'
    BY Zenon
  <2>1. cur' # None /\ cur'.path = Append(up, n) /\ cur'.n = n /\ cur'.st.ino = sc.fs[i].kids[n]
    BY <1>a, <1>0, <1>1, <1>2, StatNameHand
  <2> QED BY Zenon, <1>6, <1>7, <2>1 DEF InHand, None
<1>9. \A d, path, x : Waiting(d, path, x) => Waiting(d, path, x)' \/ (d = i /\ path = up /\ x = n)
  <2> SUFFICES ASSUME NEW d, NEW path, NEW x, Waiting(d, path, x), ~(d = i /\ path = up /\ x = n)
               PROVE  Waiting(d, path, x)'
    BY Zenon
  <2>1. PICK f \in DOMAIN stack : stack[f].ino = d /\ stack[f].path = path /\ x \in stack[f].left
    BY Zenon DEF Waiting
  <2>2. CASE f # Depth
    BY Zenon, <1>4, <2>1, <2>2 DEF Waiting
  <2>3. CASE f = Depth
    <3>1. q.ino = d /\ q.path = path /\ x \in q.left
      BY Zenon, <1>a, <1>3, <2>1, <2>3 DEF p
    <3> QED BY Zenon, <1>2, <1>4, <3>1 DEF Waiting
  <2> QED BY Zenon, <2>2, <2>3
<1>10. \A d, path, x : ~InHand(d, path, x)
  BY Zenon, <1>1 DEF InHand
<1>11. /\ \A d, path, x : Found(d, path, x) => Found(d, path, x)'
       /\ \A d, path : Dumped(path, d)' => Dumped(path, d)
       /\ \A x : InTodo(x) => InTodo(x)'
  BY Zenon, <1>1, <1>6 DEF Found, Present, Dumped, InTodo
<1>12. status' = 0 => status = 0
  BY <1>5 DEF Inv
<1>13. status' = 0 => \A d, path, x : Wanted(d, x) /\ Waiting(d, path, x) =>
                        Waiting(d, path, x)' \/ InHand(d, Append(path, x), x)'
  BY Zenon, <1>8, <1>9
<1>14. Complete'
  BY Zenon, <1>6, <1>10, <1>11, <1>12, <1>13, CompleteStep
<1> QED BY Zenon, <1>1, <1>6, <1>14 DEF NothingLost

\* subfile_open opens the file that fstatat has found, or the exit status is
\* not 0, also when open_failure_recover closes another directory.
LEMMA OpenLost == Inv /\ NothingLost /\ Open => NothingLost'
<1> SUFFICES ASSUME Inv, NothingLost, Open PROVE NothingLost'
  BY Zenon
<1> DEFINE i == Lookup(ParentFd, cur.n)
           full == OpenFds(stack) >= sc.fds /\ Recovered = stack
           fails == i = 0 \/ full \/ fs[i].t = "lnk"
<1>1. /\ cur.step = "open" /\ stack' = Recovered /\ UNCHANGED users /\ todo' = todo /\ arch' = arch
      /\ fails => cur' = None /\ status' = FileRemovedDiag(i = 0 /\ ~full)
      /\ ~fails => cur' = Current("head", cur.n, cur.path, TRUE, i) /\ status' = status
  BY Zenon DEF Open
<1>2. cur # None
  BY <1>1 DEF None
<1>3. status \in 0 .. 2 /\ (i = 0 /\ ~full) \in BOOLEAN
  BY Zenon DEF Inv
<1> HIDE DEF i, full
<1>4. fails => status' # 0
  <2>1. fails => status' \in 1 .. 2
    BY Zenon, <1>1, <1>3, StatusGrows
  <2> QED BY <2>1
<1> HIDE DEF fails
<1>5. PICK s : s = stack'
  BY Zenon
<1>6. /\ IsSeq(s) /\ Len(s) = Len(stack) /\ DOMAIN s = DOMAIN stack
      /\ ~TopLevel => s[Depth] = stack[Depth]
      /\ \A k \in DOMAIN s : s[k].path = stack[k].path /\ s[k].ino = stack[k].ino /\ s[k].left = stack[k].left
  BY Zenon, <1>1, <1>5, RecoveredOK
<1>7. ~fails => /\ cur' # None /\ cur'.n = cur.n /\ cur'.path = cur.path /\ cur'.st.ino = i /\ cur'.st = Stat(cur'.st.ino)
  <2> SUFFICES ASSUME ~fails
               PROVE  cur' # None /\ cur'.n = cur.n /\ cur'.path = cur.path /\ cur'.st.ino = i /\ cur'.st = Stat(cur'.st.ino)
    BY Zenon
  <2>1. PICK c : c = cur'
    BY Zenon
  <2>2. c.step = "head" /\ c.n = cur.n /\ c.path = cur.path /\ c.st = Stat(i)
    BY <1>1, <2>1 DEF Current
  <2>3. c # None /\ c.st.ino = i
    BY <2>2 DEF None, Stat
  <2> QED BY Zenon, <2>1, <2>2, <2>3
<1>8. cur' = None \/ cur'.st = Stat(cur'.st.ino)
  BY Zenon, <1>1, <1>7
<1>9. /\ FirstTree' /\ CurTrue' /\ sc' = sc /\ touched' = touched /\ Complete /\ todo \in Seq(Nat)
  BY Zenon, <1>1, <1>8, TarTree
<1>10. ParentIno' = ParentIno
  <2>1. Depth' = Depth
    BY Zenon, <1>5, <1>6 DEF Depth
  <2>2. TopLevel' <=> TopLevel
    BY Zenon, <1>5, <1>6, FrontIsSeq DEF Inv, StackOK, TopLevel
  <2> QED BY Zenon, <1>5, <1>6, <2>1, <2>2 DEF ParentIno
<1>11. ASSUME status' = 0, NEW d, NEW path, NEW n, Wanted(d, n), InHand(d, path, n) PROVE InHand(d, path, n)'
  <2>1. ParentIno = d /\ cur.path = path /\ cur.n = n
    BY Zenon, <1>11 DEF InHand
  <2>2. ParentFd = d
    BY Zenon, <1>2, <2>1, ParentOpen
  <2>3. i = sc.fs[d].kids[n]
    BY Zenon, <1>11, <2>1, <2>2, WantedFile DEF i
  <2>4. cur' # None /\ cur'.n = n /\ cur'.path = path /\ cur'.st.ino = sc.fs[d].kids[n]
    BY Zenon, <1>4, <1>7, <1>11, <2>1, <2>3
  <2> QED BY Zenon, <1>9, <1>10, <2>1, <2>4 DEF InHand, None
<1>12. /\ \A d, path, n : Found(d, path, n) => Found(d, path, n)'
       /\ \A d, path : Dumped(path, d)' => Dumped(path, d)
       /\ \A n : InTodo(n) => InTodo(n)'
  BY Zenon, <1>1, <1>9 DEF Found, Present, Dumped, InTodo
<1>13. \A d, path, n : Waiting(d, path, n) => Waiting(d, path, n)'
  BY Zenon, <1>5, <1>6 DEF Waiting
<1>14. status' = 0 => status = 0
  BY Zenon, <1>1, <1>4
<1>15. Complete'
  BY Zenon, <1>9, <1>11, <1>12, <1>13, <1>14, CompleteStep
<1> QED BY Zenon, <1>1, <1>9, <1>15 DEF NothingLost

\* dump_dir ends with no entry left, and restore_parent_fd changes nothing but
\* a descriptor.
LEMMA AscendLost == Inv /\ NothingLost /\ Ascend => NothingLost'
<1> SUFFICES ASSUME Inv, NothingLost, Ascend PROVE NothingLost'
  BY Zenon
<1> DEFINE up == Front(stack)
           k == Depth - 1
           p == up[k]
           fd == RestoreParentFd(p, stack[Depth].fd)
           node == [p EXCEPT !.fd = fd]
<1>1. /\ ~TopLevel /\ cur = None /\ stack[Depth].left = {} /\ UNCHANGED users /\ UNCHANGED <<todo, cur, arch>>
      /\ stack' = IF up = <<>> THEN up ELSE [up EXCEPT ![k].fd = fd]
  BY Zenon DEF Ascend
<1>2. status' = 0 => status = 0
  <2>1. \/ status' = status \/ status' = Max2(status, 1) \/ status' = Max2(status, 2)
    BY Zenon DEF Ascend
  <2>2. status \in 0 .. 2
    BY Zenon DEF Inv
  <2> QED BY <2>1, <2>2 DEF Max2
<1>3. /\ IsSeq(up) /\ Len(up) = k /\ DOMAIN up = 1 .. k /\ k \in Nat
      /\ \A j \in DOMAIN up : up[j] = stack[j]
      /\ \A j \in DOMAIN stack : j \in DOMAIN up \/ j = Depth
  <2>1. IsSeq(stack) /\ stack # <<>>
    BY Zenon, <1>1 DEF Inv, StackOK, TopLevel
  <2>2. /\ IsSeq(up) /\ Len(stack) \in Nat \ {0} /\ Len(up) = Len(stack) - 1
        /\ DOMAIN stack = 1 .. Len(stack) /\ DOMAIN up = 1 .. Len(stack) - 1
        /\ \A j \in 1 .. Len(stack) - 1 : up[j] = stack[j]
    BY Zenon, <2>1, FrontIsSeq
  <2> HIDE DEF up
  <2> QED BY <2>2 DEF Depth
<1>4. \A j \in DOMAIN up : DirOK(up[j])
  <2>1. \A j \in DOMAIN up : j \in DOMAIN stack
    <3>1. DOMAIN stack = 1 .. Depth /\ Depth \in Nat
      BY Zenon, <1>1, LastDir
    <3> HIDE DEF up
    <3> QED BY <1>3, <3>1
  <2> QED BY Zenon, <1>3, <2>1 DEF Inv, StackOK
<1> HIDE DEF up
<1>5. /\ DOMAIN stack' = DOMAIN up
      /\ \A j \in DOMAIN up : stack'[j].ino = up[j].ino /\ stack'[j].path = up[j].path /\ stack'[j].left = up[j].left
  <2>1. CASE up = <<>>
    BY Zenon, <1>1, <2>1
  <2>2. CASE up # <<>>
    <3>1. k \in DOMAIN up
      BY <1>3, <2>2, FrontIsSeq
    <3>2. DirOK(p)
      BY Zenon, <1>4, <3>1
    <3> HIDE DEF fd, p, k
    <3>3. stack' = [up EXCEPT ![k] = node]
      BY Zenon, <1>1, <2>2 DEF p
    <3>4. node.ino = p.ino /\ node.path = p.path /\ node.left = p.left
      BY Zenon, <3>2 DEF DirOK
    <3> HIDE DEF node
    <3>5. /\ DOMAIN stack' = DOMAIN up /\ stack'[k] = node
          /\ \A j \in DOMAIN up \ {k} : stack'[j] = up[j]
      BY Zenon, <1>3, <3>1, <3>3, ExceptIsSeq
    <3>6. node.ino = up[k].ino /\ node.path = up[k].path /\ node.left = up[k].left
      BY Zenon, <3>4 DEF p
    <3> QED BY Zenon, <3>5, <3>6
  <2> QED BY Zenon, <2>1, <2>2
<1>6. \A d, path, n : Waiting(d, path, n) => Waiting(d, path, n)'
  <2> SUFFICES ASSUME NEW d, NEW path, NEW n, Waiting(d, path, n) PROVE Waiting(d, path, n)'
    BY Zenon
  <2>1. PICK f \in DOMAIN stack : stack[f].ino = d /\ stack[f].path = path /\ n \in stack[f].left
    BY Zenon DEF Waiting
  <2>2. f \in DOMAIN up /\ up[f] = stack[f]
    BY Zenon, <1>1, <1>3, <2>1
  <2> QED BY Zenon, <1>5, <2>1, <2>2 DEF Waiting
<1>7. /\ FirstTree' /\ CurTrue' /\ sc' = sc /\ touched' = touched /\ Complete /\ todo \in Seq(Nat)
  <2>1. cur' = None
    BY Zenon, <1>1 DEF None
  <2> QED BY Zenon, <1>1, <2>1, TarTree
<1>8. \A d, path, n : ~InHand(d, path, n)
  BY Zenon, <1>1 DEF InHand
<1>9. /\ \A d, path, n : Found(d, path, n) => Found(d, path, n)'
      /\ \A d, path : Dumped(path, d)' => Dumped(path, d)
      /\ \A n : InTodo(n) => InTodo(n)'
  BY Zenon, <1>1, <1>7 DEF Found, Present, Dumped, InTodo
<1>10. Complete'
  BY Zenon, <1>2, <1>6, <1>7, <1>8, <1>9, CompleteStep
<1> QED BY Zenon, <1>1, <1>7, <1>10 DEF NothingLost

\* A step in which nothing changes.
LEMMA StutterLost == NothingLost /\ UNCHANGED vars => NothingLost'
<1> SUFFICES ASSUME NothingLost, UNCHANGED vars PROVE NothingLost'
  BY Zenon
<1>1. /\ sc' = sc /\ fs' = fs /\ touched' = touched /\ todo' = todo /\ stack' = stack /\ cur' = cur /\ arch' = arch
      /\ status' = status
  BY Zenon DEF vars, users
<1>2. FirstTree' /\ CurTrue' /\ todo' \in Seq(Nat) /\ Complete
  BY Zenon, <1>1 DEF NothingLost, FirstTree, SameName, CurTrue, None
<1>3. /\ \A d, path, n : Found(d, path, n) => Found(d, path, n)'
      /\ \A d, path : Dumped(path, d)' => Dumped(path, d)
      /\ \A n : InTodo(n) => InTodo(n)'
      /\ \A d, path, n : Waiting(d, path, n) => Waiting(d, path, n)'
  BY Zenon, <1>1 DEF Found, Present, Dumped, InTodo, Waiting
<1>4. \A d, path, n : InHand(d, path, n) => InHand(d, path, n)'
  BY Zenon, <1>1 DEF InHand, ParentIno, TopLevel, Depth, None
<1>5. Complete'
  BY Zenon, <1>1, <1>2, <1>3, <1>4, CompleteStep
<1> QED BY Zenon, <1>2, <1>5 DEF NothingLost

\* At the start all arguments are left and the tree is the first one.
LEMMA InitLost == Init => NothingLost
<1> SUFFICES ASSUME Init PROVE NothingLost
  BY Zenon
<1>1. sc \in Scenarios /\ fs = sc.fs /\ todo = sc.names /\ cur = None /\ arch = <<>>
  BY Zenon DEF Init
<1>2. FirstTree
  <2>1. \A i \in DOMAIN sc.fs : sc.fs[i].mtime \in Int
    BY Zenon, <1>1, ScenariosAssumption DEF IsNode
  <2>2. \A i \in DOMAIN sc.fs : sc.fs[i].mtime <= sc.fs[i].mtime
    BY <2>1
  <2> QED BY Zenon, <1>1, <2>2 DEF FirstTree, SameName
<1>3. CurTrue
  BY Zenon, <1>1 DEF CurTrue
<1>4. todo \in Seq(Nat)
  BY Zenon, <1>1, ScenariosAssumption
<1>5. Complete
  <2>1. \A n : Argument(n) => InTodo(n)
    BY Zenon, <1>1 DEF Argument, InTodo
  <2>2. \A d, path : ~Dumped(path, d)
    <3>1. DOMAIN arch = {}
      BY <1>1, EmptyIsSeq
    <3> QED BY Zenon, <3>1 DEF Dumped
  <2> QED BY Zenon, <2>1, <2>2 DEF Complete
<1> QED BY Zenon, <1>2, <1>3, <1>4, <1>5 DEF NothingLost

\* As long as the exit status is 0, no name that nobody used is forgotten: it
\* is in the archive, or at hand, or on one of the lists of names to come.
THEOREM NothingLostAlways == Spec => []NothingLost
<1>1. Inv /\ NothingLost /\ [Next]_vars => NothingLost'
  <2> SUFFICES ASSUME Inv, NothingLost, [Next]_vars PROVE NothingLost'
    BY Zenon
  <2>1. CASE Tar
    BY <2>1, NextNameLost, NextEntryLost, OpenLost, SkipLost, DumpHardLinkLost, DumpDirLost, DumpOtherLost,
       StartFileLost, ReadBlockLost, FileLost, AscendLost DEF Tar
  <2>2. CASE Users
    BY Zenon, <2>2, UsersLost
  <2>3. CASE Over \/ UNCHANGED vars
    BY Zenon, <2>3, StutterLost DEF Over
  <2> QED BY Zenon, <2>1, <2>2, <2>3 DEF Next
<1> QED BY InitLost, DumpInv, <1>1, PTL DEF Spec

\* When tar ends with exit status 0, every argument and every entry of an
\* archived directory that nobody has touched is in the archive, in whatever
\* order a directory lists its entries, whatever users change around them,
\* and however few descriptors there are: what dump_file0, subfile_open and
\* restore_parent_fd cannot find they report.
THEOREM UntouchedArchivedAlways == Spec => []UntouchedArchived
<1>1. NothingLost => UntouchedArchived
  <2> SUFFICES ASSUME NothingLost, Done, status = 0 PROVE UntouchedArchived
    BY Zenon DEF UntouchedArchived
  <2>1. DOMAIN todo = {} /\ DOMAIN stack = {} /\ cur = None
    BY EmptyIsSeq DEF Done, TopLevel
  <2>2. /\ \A d, path, n : ~InHand(d, path, n) /\ ~Waiting(d, path, n)
        /\ \A n : ~InTodo(n)
    BY Zenon, <2>1 DEF InHand, Waiting, InTodo
  <2>3. ASSUME NEW a \in DOMAIN sc.names, Wanted(1, sc.names[a])
        PROVE  Present(<<sc.names[a]>>, sc.fs[1].kids[sc.names[a]])
    <3>1. PICK n : n = sc.names[a]
      BY Zenon
    <3>2. Found(1, <<n>>, n)
      BY Zenon, <2>2, <2>3, <3>1 DEF NothingLost, Complete, Argument
    <3> QED BY Zenon, <3>1, <3>2 DEF Found, Present
  <2>4. ASSUME NEW k \in DOMAIN arch, arch[k].t = "dir", NEW n, Wanted(arch[k].ino, n)
        PROVE  Present(Append(arch[k].path, n), sc.fs[arch[k].ino].kids[n])
    <3>1. PICK d, path : d = arch[k].ino /\ path = arch[k].path
      BY Zenon
    <3>2. Dumped(path, d)
      BY Zenon, <2>4, <3>1 DEF Dumped
    <3>3. Found(d, Append(path, n), n)
      BY Zenon, <2>2, <2>4, <3>1, <3>2 DEF NothingLost, Complete
    <3> QED BY Zenon, <3>1, <3>3 DEF Found, Present
  <2> QED BY Zenon, <2>3, <2>4 DEF UntouchedArchived
<1> QED BY NothingLostAlways, <1>1, PTL
=============================================================================
