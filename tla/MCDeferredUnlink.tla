-------------------------- MODULE MCDeferredUnlink --------------------------
(* Instances of DeferredUnlink for TLC. *)
EXTENDS DeferredUnlink

File(o, n, ok) == [op |-> "file", obj |-> o, blocks |-> n, ok |-> ok,
                   wd |-> 0, cwd |-> FALSE]
Open(o) == [op |-> "open", obj |-> o, blocks |-> 1, ok |-> TRUE, wd |-> 0,
            cwd |-> FALSE]
Close(o, w, c) == [op |-> "close", obj |-> o, blocks |-> 0, ok |-> TRUE, wd |-> w,
                   cwd |-> c]

\* Two trees: the directory d with f and g, and d with f and a directory e
\* that holds g; h and k are files beside d.  In the X trees d also holds a file
\* that is excluded.
Flat  == [f : {"d"}, g : {"d"}, h : {"top"}, k : {"top"}, d : {"top"}]
FlatX == [f : {"d"}, g : {"d"}, h : {"top"}, k : {"top"}, d : {"top"}, x : {"d"}]
Deep  == [f : {"d"}, g : {"e"}, h : {"top"}, k : {"top"}, d : {"top"}, e : {"d"}]
DeepX == [f : {"d"}, g : {"e"}, h : {"top"}, k : {"top"}, d : {"top"}, e : {"d"},
          x : {"e"}]

Sizes == 1..3

\* tar -c d h k h; f may have changed while it was read.
DumpFlat(okf) ==
    {<<Open("d"), File("f", a, okf), File("g", b, TRUE), Close("d", 0, FALSE),
       File("h", c, TRUE), File("k", e, TRUE), File("h", 1, TRUE)>> :
     a \in Sizes, b \in Sizes, c \in Sizes, e \in Sizes}

\* tar -c h d k
DumpDeep(okf) ==
    {<<File("h", c, TRUE), Open("d"), Open("e"), File("g", b, TRUE),
       Close("e", 0, FALSE), File("f", a, okf), Close("d", 0, FALSE),
       File("k", e, TRUE)>> :
     a \in Sizes, b \in Sizes, c \in Sizes, e \in Sizes}

Run(ops, tree, stuck) == [ops : ops, parent : tree, stuck : stuck]

\* ... and d stays: it holds a file that is excluded, or f changed while it was
\* read, or f cannot be removed.
MCLinger ==
    Run(DumpFlat(TRUE), FlatX, {{}}) \cup Run(DumpDeep(TRUE), DeepX, {{}})
    \cup Run(DumpFlat(FALSE), Flat, {{}}) \cup Run(DumpDeep(TRUE), Deep, {{"f"}})

\* tar --no-recursion -C d . -C e . -C e2 . with e2 in e and e in d, and with
\* d the starting directory; tar -c h -C d . -C e .
At(o, w) == <<[Open(o) EXCEPT !.wd = w, !.cwd = TRUE], Close(o, w, TRUE)>>
MCCwd ==
    [ops : {At("d", w) \o At("e", 2) \o At("e2", 3) : w \in 0..1},
     parent : [d : {"top"}, e : {"d"}, e2 : {"e"}], stuck : {{}}]
    \cup [ops : {<<File("h", 1, TRUE)>> \o At("d", 1) \o At("e", 2)},
          parent : [h : {"top"}, d : {"top"}, e : {"d"}], stuck : {{}}]

\* Every directory is empty when its turn comes.
MCPlain ==
    Run(DumpFlat(TRUE), Flat, {{}, {"h"}}) \cup Run(DumpDeep(TRUE), Deep, {{}})
    \cup MCCwd

MCAll == MCPlain \cup MCLinger
=============================================================================
