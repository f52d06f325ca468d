------------------------------ MODULE MCSelect ------------------------------
(* Small command lines, lists and archives for Select.                     *)
EXTENDS Select

Nm(p) == [t |-> "name", v |-> p]
Cd(d) == [t |-> "chdir", v |-> d]
Lst(i) == [t |-> "file", v |-> i, pos |-> 0]
Mem(p, d, t) == [k |-> "member", path |-> p, dir |-> d, time |-> t, vol |-> FALSE]
Vol == [k |-> "member", path |-> <<9>>, dir |-> FALSE, time |-> 1, vol |-> TRUE]

\* d = <<1>> is a directory with f, g and a directory e; <<2>> is a file.
D == <<1>>
F == <<1, 1>>
G == <<1, 2>>
E == <<1, 3>>
X == <<1, 3, 1>>
B == <<2>>
Star == <<0>>

\* A list with an option, a list that asks for the other and for itself.
MCLists == [l1 |-> <<Nm(D), Cd(2), Nm(B)>>, l2 |-> <<Lst("l1"), Lst("l2"), Cd(1), Nm(F)>>]

Lines == {<<Nm(D)>>, <<Nm(F), Cd(1), Nm(D)>>, <<Nm(F), Nm(B)>>, <<Nm(D), Nm(<<7>>), Nm(B)>>, <<Cd(1)>>,
          <<Nm(Star)>>, <<Cd(1), Nm(B), Cd(2)>>, <<Lst("l1"), Nm(G)>>, <<Lst("l2"), Lst("l1")>>,
          <<Nm(D), Lst("l1")>>, <<Nm(G), Lst("l2")>>}

Stored == {Mem(D, TRUE, 1), Mem(F, FALSE, 1), Mem(G, FALSE, 2), Mem(B, FALSE, 1)}
Seqs(S, n) == UNION {[1 .. l -> S] : l \in 0 .. n}

NoFiles == [d \in 0 .. 2 |-> <<>>]

Base == [cmd |-> "read", elts |-> <<>>, start |-> <<>>, same |-> FALSE, occ |-> 0, rec |-> TRUE,
         zeros |-> FALSE, newer |-> 1, excl |-> {}, arch |-> <<>>, fs |-> NoFiles]

\* Names and members in every order, with copies.
Reading == {[Base EXCEPT !.elts = e, !.same = s, !.occ = o, !.arch = a] :
               e \in Lines, s \in BOOLEAN, o \in 0 .. 2, a \in Seqs(Stored, 3) \ Seqs(Stored, 1)}

\* Directories stored twice and volume headers.
Longer == {<<Mem(D, TRUE, 1), Mem(F, FALSE, 1), Mem(B, FALSE, 1), Mem(D, TRUE, 2), Mem(F, FALSE, 2), Mem(B, FALSE, 1)>>,
           <<Vol, Mem(D, TRUE, 1), Mem(F, FALSE, 1), Mem(G, FALSE, 1), Mem(B, FALSE, 1), Mem(G, FALSE, 1)>>}
Copies == {[Base EXCEPT !.elts = e, !.same = s, !.occ = o, !.arch = a, !.rec = r, !.excl = x, !.newer = w] :
              e \in Lines, s \in BOOLEAN, o \in 0 .. 2, a \in Longer, r \in BOOLEAN, x \in {{}, {D}, {B}}, w \in {1, 2}}

\* Damaged archives, and zero blocks in the middle.
Damaged == {[Base EXCEPT !.elts = e, !.occ = o, !.zeros = z, !.arch = a] :
               e \in {<<Nm(D)>>, <<Nm(F), Nm(B)>>}, o \in 0 .. 1, z \in BOOLEAN,
               a \in Seqs({Mem(D, TRUE, 1), Mem(F, FALSE, 1), Mem(B, FALSE, 1), [k |-> "zero"], [k |-> "bad"]}, 3)}

\* Updates: the files that exist, the newest being of time 2.
OnDisk(T) == [p \in T |-> [dir |-> p \in {D, E}, time |-> IF p \in {F, X} THEN 2 ELSE 1]]
Disks == {{D, F, G, B}, {D, F, E, X, B}, {D, G, E, B}, {D}}
Updated == {<<>>, <<Mem(D, TRUE, 1)>>}
UpdateArchives ==
    {a \o b : a \in Updated, b \in Seqs({Mem(D, TRUE, 1), Mem(F, FALSE, 1), Mem(F, FALSE, 2), Mem(E, TRUE, 1), Mem(X, FALSE, 1),
                                       Mem(B, FALSE, 1), [k |-> "bad"], [k |-> "zero"]}, 2)}
Updates == {[Base EXCEPT !.cmd = "update", !.elts = e, !.arch = a, !.excl = x,
                         !.fs = [d \in 0 .. 2 |-> IF d = 0 THEN OnDisk(T) ELSE <<>>]] :
               e \in {<<Nm(D)>>, <<Nm(F), Nm(D)>>, <<Nm(B), Cd(1)>>, <<Nm(Star)>>, <<Nm(F), Nm(E), Nm(B)>>, <<Nm(B), Nm(D)>>}, T \in Disks, x \in {{}, {G}},
               a \in UpdateArchives}

\* -K, with names and without.
Started == {[Base EXCEPT !.start = t, !.elts = e, !.arch = a] :
               t \in {B, F}, e \in {<<>>, <<Nm(D)>>, <<Nm(F), Nm(B)>>}, a \in Seqs(Stored, 3)}

MCScenarios == Reading \cup Copies \cup Damaged \cup Updates \cup Started
=============================================================================
