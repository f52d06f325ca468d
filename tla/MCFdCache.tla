----------------------------- MODULE MCFdCache -----------------------------
(* Instances of FdCache for TLC. *)
EXTENDS FdCache

a == <<"a">>
b == <<"b">>
c == <<"c">>
ab == <<"a", "b">>
aSb == <<"a", "/", "b">>
aS == <<"a", "/">>
bS == <<"b", "/">>
cS == <<"c", "/">>
abS == <<"a", "b", "/">>
aSbS == <<"a", "/", "b", "/">>
Sc == <<"/", "c">>

Base == [wd |-> <<>>, dirs |-> {a, aSb, c}, look |-> {}, look1 |-> {},
         search |-> {}, made |-> {}, missing |-> FALSE, fds |-> 3..8]

\* Extraction: two names at a time, directories made and removed.
MCExtract ==
    {[Base EXCEPT !.look = {aS, aSbS, cS}, !.look1 = {aS, aSbS, cS},
                  !.made = {<<aS, b>>, <<<<>>, c>>}],
     [Base EXCEPT !.wd = <<a, b, Sc>>, !.look = {bS, aS}, !.look1 = {bS},
                  !.made = {<<aS, b>>}]}

\* -C options: a chain of relative names and absolute ones.
MCChdir == {[Base EXCEPT !.wd = <<a, b, Sc>>, !.look = {bS, cS}]}

\* Incremental creation, without lookups of fdbase in between.
MCSearch == {[Base EXCEPT !.search = {a, aSb, c}, !.look1 = {aS, aSbS}]}

\* fdbase of a name whose directory is made only later, is below one that is
\* not there, or starts with the name of another.
MCMissing ==
    {[Base EXCEPT !.dirs = {a}, !.look = {aS, bS}, !.made = {<<<<>>, b>>}, !.missing = TRUE],
     [Base EXCEPT !.dirs = {a, ab}, !.look = {aS, abS, aSbS}, !.look1 = {aS, bS, aSbS},
                  !.made = {<<<<>>, b>>, <<aS, b>>}, !.missing = TRUE],
     [Base EXCEPT !.wd = <<a>>, !.dirs = {a, ab, aSb}, !.look = {aS, abS, aSbS},
                  !.made = {<<aS, b>>}, !.missing = TRUE]}

\* The same when one or two descriptors are free, and -C directories take one.
MCScarce ==
    {[in EXCEPT !.fds = 3..n] : in \in MCMissing, n \in 3..4}
    \cup {[in EXCEPT !.fds = 3..5] : in \in MCChdir}

MCMain == MCExtract \cup MCChdir \cup MCSearch \cup MCMissing \cup MCScarce

\* Incremental creation: the directory is open while files in it are looked up.
MCOwner == {[Base EXCEPT !.look = {aS}, !.search = {a}]}
=============================================================================
