------------------------------ MODULE MCSparse ------------------------------
(***************************************************************************)
(* Blocks of two bytes, records of one to three blocks, files of up to     *)
(* eleven bytes with up to three holes, so that the map of the old format  *)
(* needs up to two blocks of its own.                                      *)
(***************************************************************************)
EXTENDS Sparse

\* Files whose blocks are full, half full or holes; the last may be short.
Full == <<1, 1>>
Half == <<0, 1>>
Hole == <<0, 0>>
Files ==
    {a \o b \o c : a \in {Full, Hole}, b \in {Half, Hole}, c \in {Full, Hole, <<1>>, <<0>>}}
    \cup {Half \o Hole \o Full \o Hole \o Full \o <<1>>, Hole \o Full \o Hole \o Full \o Hole \o <<0>>,
          Full \o Half \o Full \o Hole}

Case(data, fmt, bf, detect, race, seekable, fails) ==
    [data |-> data, fmt |-> fmt, bf |-> bf, detect |-> detect, race |-> race, seekable |-> seekable,
     fails |-> fails]

MCScenarios ==
    {Case(d, f, b, s, r, k, ~k) :
       d \in Files, f \in {"oldgnu", "pax0.0", "pax0.1", "pax1"}, b \in {1, 3}, s \in {"raw", "seek"},
       r \in BOOLEAN, k \in BOOLEAN}

\* A file of three blocks and a hole, in records of three blocks.
Cut == {Case(Full \o Half \o Full \o Hole, "oldgnu", 3, "seek", TRUE, TRUE, FALSE)}
=============================================================================
