------------------------------ MODULE MCDelete ------------------------------
(* Instances of Delete for TLC. *)
EXTENDS Delete

\* A member with e blocks of extended header and s of data.
Mem(n, e, x, ex, s, f) ==
    [name |-> n, ext |-> e, kind |-> x, exact |-> ex, size |-> s, frac |-> f,
     junk |-> FALSE]
Junk == [name |-> "junk", ext |-> 0, kind |-> "gnu", exact |-> FALSE,
         size |-> 1, frac |-> 0, junk |-> TRUE]

\* Members that fill a part of a record, a record, and more than two; GNU and
\* pax extended headers whose data do not fill their last block.
Shapes(n) == {Mem(n, 0, "gnu", FALSE, 0, 0), Mem(n, 0, "gnu", FALSE, 1, 1),
              Mem(n, 0, "gnu", FALSE, 2, 0), Mem(n, 0, "gnu", FALSE, 7, 1),
              Mem(n, 2, "gnu", FALSE, 1, 0), Mem(n, 3, "pax", FALSE, 0, 0)}
Members == Shapes("a") \cup Shapes("b") \cup {Junk}

Archs(S, n) == UNION {[1..i -> S] : i \in 1..n}

Run(archs, tails, occs, filters, izs) ==
    [arch : archs, tail : tails, del : {{"a"}}, occ : occs,
     filter : filters, izeros : izs]

\* Archives that lack up to 4 blocks of their last member.
MCCut ==
    {in \in Run(Archs(Shapes("b") \cup {Mem("a", 0, "gnu", FALSE, 1, 1),
                                        Mem("a", 2, "pax", FALSE, 7, 1)}, 2),
                -4..-1, {0}, BOOLEAN, BOOLEAN) :
        LET last == in.arch[Len(in.arch)] IN in.tail + MemberLen(last) >= 0}

\* Archives with an end-of-archive marker, in place and as a filter; as a
\* filter also with -i and without the marker; cut short.
MCInputs ==
    Run(Archs(Members, 3), {1, 3}, {0, 2}, BOOLEAN, {FALSE})
    \cup Run(Archs(Members, 2), {0, 2}, {0}, {TRUE}, BOOLEAN)
    \cup MCCut

\* No end-of-archive marker.
MCNoMarker ==
    Run(Archs({Mem("a", 0, "gnu", FALSE, 1, 0), Mem("b", 0, "gnu", FALSE, 1, 0)}, 4),
        {0}, {0}, {FALSE}, {FALSE})

\* A pax header whose data end at a block boundary.
MCExact ==
    Run(Archs({Mem("a", 0, "gnu", FALSE, 1, 0), Mem("b", 2, "pax", TRUE, 1, 0)}, 3),
        {2}, {0}, {FALSE}, {FALSE})
=============================================================================
