------------------------------- MODULE MCDump -------------------------------
(***************************************************************************)
(* A deep tree dumped with few descriptors, and trees with hard links, a   *)
(* symbolic link, special files, an old file and the archive itself.       *)
(***************************************************************************)
EXTENDS Dump, TLC

Node(t, kids, data) == [t |-> t, kids |-> kids, mtime |-> 0, data |-> data]
NoKids == [x \in {} |-> 0]
D(kids) == Node("dir", kids, <<>>)
F(data) == Node("file", NoKids, data)
Old == [F(<<0>>) EXCEPT !.mtime = -1]

\* 1/1/1/1/1, with a file after each directory.
Deep == 1 :> D(1 :> 2) @@ 2 :> D(1 :> 3 @@ 3 :> 6) @@ 3 :> D(1 :> 4 @@ 3 :> 7) @@ 4 :> D(1 :> 5)
        @@ 5 :> D(1 :> 8) @@ 6 :> F(<<>>) @@ 7 :> F(<<0>>) @@ 8 :> F(<<0>>)

\* A file with three links, two of them in the directory, and other types.
Linked3 == 1 :> D(1 :> 2 @@ 2 :> 3) @@ 2 :> D(1 :> 3 @@ 2 :> 4 @@ 3 :> 3)
           @@ 3 :> F(<<0, 0>>) @@ 4 :> Node("lnk", NoKids, <<>>)

Mixed == 1 :> D(1 :> 2) @@ 2 :> D(1 :> 3 @@ 2 :> 4 @@ 3 :> 5 @@ 4 :> 6 @@ 5 :> 7)
         @@ 3 :> Old @@ 4 :> Node("archive", NoKids, <<0>>) @@ 5 :> Node("sock", NoKids, <<>>)
         @@ 6 :> Node("fifo", NoKids, <<>>) @@ 7 :> F(<<0>>)

Scenario(tree, names, fds, changes, new) ==
    [fs |-> tree, names |-> names, excluded |-> {}, fds |-> fds, newer |-> 0, ops |-> changes,
     new |-> new]

MCScenarios ==
    {Scenario(Deep, <<1>>, f, 1, {2}) : f \in {1, 3, 4}}
    \cup {Scenario(Linked3, n, 4, 2, {2}) : n \in {<<1>>, <<1, 2>>, <<2, 2>>}}
    \cup {[Scenario(Mixed, <<1>>, 4, 1, {4}) EXCEPT !.excluded = {5}]}

\* The deep tree, with three descriptors.
Crowded == {Scenario(Deep, <<1>>, 3, 1, {2})}
=============================================================================
