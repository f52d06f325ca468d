----------------------------- MODULE MCExtract -----------------------------
(***************************************************************************)
(* Archives of up to three members over a small tree, in four families:    *)
(* directories and their modes, links that are held back, old files under  *)
(* every option, and backups, with a medium that can be full.              *)
(***************************************************************************)
EXTENDS Extract

M(type, name, mode, time, body) ==
    [type |-> type, name |-> name, mode |-> mode, time |-> time, body |-> body,
     out |-> Head(body) = "..", xattr |-> FALSE]

Dir(name, mode, time) == M("dir", name, mode, time, <<"/">>)
File(name, mode, time, body) == M("file", name, mode, time, <<body>>)

d == <<"d">>
f == <<"f">>
df == <<"d", "f">>
dl == <<"d", "l">>

Node(kind, mode, time, body) ==
    [kind |-> kind, mode |-> mode, time |-> time, body |-> body, birth |-> 0]
Top == Node("dir", {"w"}, 5, <<>>)
EmptyTree == [tree |-> (<<>> :> 1), node |-> (1 :> Top), born |-> 1]
OldTree ==
    [tree |-> (<<>> :> 1) @@ (d :> 2) @@ (df :> 3) @@ (f :> 4) @@ (<<"l">> :> 5),
     node |-> <<Top, Top, Node("file", {"w", "s"}, 2, <<"old">>),
                Node("file", {"w"}, 1, <<"old">>), Node("sym", {}, 1, d)>>,
     born |-> 5]

Options ==
    [old |-> "default", root |-> FALSE, perm |-> FALSE, deref |-> FALSE,
     abs |-> FALSE, delay |-> FALSE, backup |-> FALSE, keepsym |-> FALSE,
     recursive |-> FALSE, reuse |-> FALSE, birth |-> FALSE, short |-> FALSE]

Upto(S, n) == UNION {[1 .. k -> S] : k \in 1 .. n}

Modes ==
    [arch : Upto({Dir(d, {}, 1), Dir(d, ModeAll, 2), Dir(<<"d", "e">>, {"w", "g"}, 1),
                  File(df, {"w", "s"}, 1, "A"), File(<<"d", "e", "f">>, {}, 2, "B"),
                  [File(f, {"w", "g"}, 2, "C") EXCEPT !.xattr = TRUE],
                  Dir(<<>>, {"w", "g"}, 1), M("dumpdir", <<"e">>, {}, 1, <<"/">>)}, 3),
     opt : {[Options EXCEPT !.root = r, !.perm = p, !.delay = dl1] :
              r, p, dl1 \in BOOLEAN},
     fs : {EmptyTree}]

Held ==
    [arch : Upto({Dir(d, {}, 1), File(df, {"w"}, 1, "A"), File(dl, {"w"}, 2, "C"),
                  M("sym", dl, {}, 1, <<"..", "x">>), M("link", <<"h">>, {}, 1, dl),
                  M("link", <<"h">>, {}, 1, df), M("sym", <<"s">>, {}, 1, d)}, 3),
     opt : {[Options EXCEPT !.root = r, !.deref = h, !.abs = a] : r, h, a \in BOOLEAN},
     fs : {EmptyTree}]

Olds ==
    [arch : Upto({Dir(d, {}, 1), Dir(<<"l">>, {"w"}, 1), File(df, {"w", "s"}, 2, "A"),
                  File(f, {"w", "g"}, 1, "B"), File(<<"l", "f">>, {"w"}, 1, "C"),
                  File(<<"l">>, {"w"}, 1, "D"), M("node", f, {"w"}, 2, <<"dev">>),
                  M("node", f, {"w"}, 1, <<"fifo">>), Dir(f, {"w"}, 1)}, 2),
     opt : {[Options EXCEPT !.old = o, !.root = r, !.deref = h, !.keepsym = k,
                            !.recursive = k] :
              o \in {"default", "overwrite", "unlink", "nodir", "newer", "keep", "skip"},
              r, h, k \in BOOLEAN},
     fs : {OldTree}]

Backups ==
    [arch : Upto({File(f, {"w"}, 2, "A"), File(f, {"w"}, 2, "B"), Dir(f, {"w"}, 1),
                  M("none", f, {}, 1, <<"label">>), M("link", f, {}, 1, <<"d", "x">>),
                  File(df, {}, 1, "C"), Dir(d, {}, 1)}, 3),
     opt : {[Options EXCEPT !.old = o, !.backup = TRUE, !.delay = dl1, !.short = w] :
              o \in {"default", "keep"}, dl1, w \in BOOLEAN},
     fs : {OldTree}]

MCInputs == Modes \cup Held \cup Olds \cup Backups
MCBackupOf == [f |-> <<"f.1", "f.2", "f.3">>, l |-> <<"l.1", "l.2", "l.3">>]
=============================================================================
