--------------------------- MODULE MCMultiVolume ---------------------------
(***************************************************************************)
(* Up to three members of up to five blocks and records of one to three    *)
(* blocks.  Volumes of two or three records end between two records, as    *)
(* with -L or on a tape; volumes of any number of blocks end inside one,   *)
(* as on a disk that is full.  A volume of another archive claims to       *)
(* continue a member of the same name, at the right place, of another      *)
(* size.                                                                   *)
(***************************************************************************)
EXTENDS MultiVolume

Archive(b, s, p, l, r, f, o) ==
    [bf |-> b, size |-> s, plain |-> [j \in DOMAIN s |-> s[j] = 0 /\ p], label |-> l,
     room |-> r, files |-> 2, first |-> f, other |-> o]
Records(b, r) == [j \in DOMAIN r |-> r[j] * b]

\* A volume of another archive.
Alien == [t |-> "alien", m |-> 0, k |-> 0]
Foreign(m, k, left) == <<Continued(m, k, left), Alien, Zero, Zero>>

\* Whole records.
Whole ==
    {Archive(b, s, p, FALSE, Records(b, r), f, <<>>) :
       b \in 1 .. 3, s \in [1 .. 3 -> {0, 1, 4}], p \in BOOLEAN, r \in {<<2, 2>>, <<2, 3>>, <<3, 2>>},
       f \in {1}}
    \cup {Archive(2, s, TRUE, FALSE, <<4, 4>>, 2, <<>>) : s \in [1 .. 3 -> {0, 1, 4}]}
    \cup {Archive(b, <<n>>, FALSE, TRUE, Records(b, r), f, <<>>) :
            b \in 1 .. 3, n \in 1 .. 9, r \in [1 .. 2 -> {2, 3}], f \in {1, 2}}

\* Records that the medium takes in part.
Partly ==
    {Archive(3, <<n>>, FALSE, FALSE, r, 1, <<>>) : n \in 1 .. 10, r \in [1 .. 2 -> {4, 5, 7}]}
    \cup {Archive(3, s, p, l, r, 1, <<>>) :
            s \in [1 .. 2 -> {0, 1, 4}], p \in {TRUE}, l \in BOOLEAN, r \in [1 .. 2 -> {4, 5, 7}]}

\* Volumes of other archives.
Strange ==
    {Archive(2, <<5, 5>>, FALSE, FALSE, <<4, 6>>, f, <<Foreign(m, k, left)>>) :
       f \in {1, 2}, m \in {1, 2, 3}, k \in 0 .. 4, left \in {1, 4, 6}}

MCInputs == Whole \cup Partly \cup {in \in Strange : \A m \in 1 .. 2 :
    LET h == in.other[1][1] IN h.m = m => h.k + h.left # in.size[m]}

\* Two members in a record of which the medium takes a part.
Uneven == {Archive(3, s, FALSE, FALSE, r, 1, <<>>) : s \in [1 .. 2 -> 1 .. 9], r \in [1 .. 2 -> 4 .. 8]}
=============================================================================
