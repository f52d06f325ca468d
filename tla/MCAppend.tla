------------------------------ MODULE MCAppend ------------------------------
(* Instances of Append for TLC. *)
EXTENDS Append

Mem(e, k, s, f) ==
    [name |-> "a", ext |-> e, kind |-> k, exact |-> FALSE, size |-> s,
     frac |-> f, junk |-> FALSE]
Junk == [name |-> "junk", ext |-> 0, kind |-> "gnu", exact |-> FALSE,
         size |-> 1, frac |-> 0, junk |-> TRUE]

Members == {Mem(0, "gnu", 0, 0), Mem(0, "gnu", 2, 1), Mem(0, "gnu", 7, 0),
            Mem(2, "gnu", 1, 0), Mem(3, "pax", 0, 0), Junk}
Archs(S, n) == UNION {[1..i -> S] : i \in 1..n}

\* The blocks of a new member or archive: n blocks of the j-th thing added
\* and z blocks of zeros.
New(j, n, z) == [i \in 1..n + z |->
                   IF i <= n THEN [m |-> 10 + j, k |-> i] ELSE Zero]

Adds == {<<>>} \cup {<<New(1, n, 0)>> : n \in {1, 2, 3, 7}}
        \cup {<<New(1, n, 0), New(2, k, 0)>> : n \in {1, 2}, k \in {1, 4}}

Run(archs, tails, adds) ==
    [arch : archs, tail : tails, filter : {FALSE}, add : adds]

\* Files added to archives with a marker of one block, of a record or more,
\* and without one; one archive with its marker added; archives cut short.
MCInputs ==
    Run(Archs(Members, 2), {0, 1, 2, 5}, Adds \cup {<<New(1, 3, 4)>>})
    \cup Run(Archs(Members \ {Junk}, 2), {-1}, {<<New(1, 1, 0)>>})

\* Two archives with their markers.
MCConcat == Run(Archs({Mem(0, "gnu", 2, 1)}, 1), {2}, {<<New(1, 3, 2), New(2, 3, 2)>>})
=============================================================================
