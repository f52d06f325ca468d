--------------------------- MODULE MCIncremental ---------------------------
(***************************************************************************)
(* Two trees: two directories with a file each, and a directory in a       *)
(* directory.  Two backups with two changes at any time and crashes, and   *)
(* three backups with two changes between them.  The file of a directory   *)
(* always has the same name, so that a directory can be taken for another. *)
(***************************************************************************)
EXTENDS Incremental

D(i) == [dir |-> TRUE, ino |-> i, data |-> 0, time |-> 0]
F(p) == [dir |-> FALSE, ino |-> 0, data |-> -p[1], time |-> 0]

Tree(dirs, files) ==
    [p \in {<<>>} \cup ToSet(dirs) \cup files |->
       IF p = <<>> THEN D(1) ELSE IF p \in files THEN F(p)
       ELSE D(1 + CHOOSE i \in DOMAIN dirs : dirs[i] = p)]

Pair == Tree(<<<<1>>, <<2>>>>, {<<1, 1>>, <<2, 1>>})
Nest == Tree(<<<<2>>, <<2, 1>>>>, {<<2, 1, 1>>})
Flat == {<<1>>, <<2>>, <<1, 1>>, <<2, 1>>}
Deep == Flat \cup {<<1, 1, 1>>, <<2, 1, 1>>}

Scenario(tree, paths, ops0, dumps0, busy) ==
    [tree |-> tree, paths |-> paths, ops |-> ops0, dumps |-> dumps0, busy |-> busy, kills |-> busy]

MCScenarios ==
    {Scenario(Pair, Flat, 2, 2, TRUE), Scenario(Nest, Deep, 1, 2, TRUE),
     Scenario(Pair, Flat \cup {<<3>>, <<3, 1>>}, 2, 2, FALSE),
     Scenario(Pair, Flat, 2, 3, FALSE), Scenario(Nest, Deep, 2, 3, FALSE)}
MCInos == 1 .. 4

\* Two directories change their names between the first two of three backups.
Swapped == {Scenario(Pair, Flat, 1, 3, FALSE)}
=============================================================================
