----------------------------- MODULE MCChildren -----------------------------
(***************************************************************************)
(* Pipes of two blocks, records of two, archives of five: the pipes are    *)
(* full, and the last record is short.                                     *)
(***************************************************************************)
EXTENDS Children

Case(mode, regular, pipe, fails, early, ignore, list) ==
    [mode |-> mode, regular |-> regular, pipe |-> pipe, fails |-> fails, early |-> early, ignore |-> ignore, jobs |-> list]

MCScenarios ==
    {Case("compress", r, p, f, FALSE, FALSE, <<>>) : r \in BOOLEAN, p \in BOOLEAN, f \in BOOLEAN}
    \cup {Case("uncompress", r, FALSE, f, e, FALSE, <<>>) : r \in BOOLEAN, f \in BOOLEAN, e \in BOOLEAN}
    \cup {Case("script", TRUE, FALSE, f, FALSE, i, list) :
            f \in BOOLEAN, i \in BOOLEAN,
            list \in {<<"command", "command">>, <<"mtime", "checkpoint", "mtime">>, <<"info", "command">>,
                      <<"checkpoint", "info">>}}
=============================================================================
