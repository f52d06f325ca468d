------------------------------ MODULE MCHeader ------------------------------
(***************************************************************************)
(* Header on small fields: names of up to 7 bytes for a name field of 2    *)
(* and a prefix of 3, a uid of 10 bits in a field of 3 bytes, a time of    *)
(* the same width and sign, and uintmax_t of 16 bits.                      *)
(***************************************************************************)
EXTENDS Header

MCFields == [uid |-> [size |-> 3, width |-> 10, min |-> 0, max |-> 1023],
             mtime |-> [size |-> 3, width |-> 10, min |-> -512, max |-> 511]]

Formats == {"v7", "ustar", "oldgnu", "gnu", "posix"}
No == [k \in {} |-> 0]

\* Every name over a and /, up to one byte more than ustar can hold, and a
\* few that are not ASCII.
Names == UNION {[1 .. n -> {97, 47}] : n \in 1 .. 7} \cup {<<200>>, <<200, 97>>, <<97, 200, 97>>}
Links == {<<>>} \cup {[i \in 1 .. n |-> 99] : n \in 1 .. 4}

Member(name, link, uid, mtime) == [name |-> name, link |-> link, num |-> [uid |-> uid, mtime |-> mtime]]
Other == Member(<<98>>, <<>>, 7, 8)

Archive(fmt, ms) == [kind |-> "archive", fmt |-> fmt, members |-> ms, wglobal |-> No, wover |-> No, wdel |-> {},
                     rglobal |-> No, rover |-> No, rdel |-> {}]

NameJobs == {Archive(f, <<Member(n, <<>>, 1, 2), Other>>) : f \in Formats, n \in Names}
LinkJobs == {Archive(f, <<Member(n, l, 1, 2), [Other EXCEPT !.link = k]>>) :
                f \in Formats, n \in {<<97>>, <<97, 47, 97, 97, 97>>, <<97, 47, 97, 97>>}, l \in Links, k \in {<<>>, <<100>>}}
ValueJobs == {Archive(f, <<Member(<<97>>, <<>>, u, t), Other>>) :
                 f \in Formats, u \in {0, 63, 64, 99, 100, 511, 512, 1023}, t \in {-512, -511, -1, 0, 63, 64, 511}}
Values == {No} \cup {[k \in {"uid"} |-> v] : v \in {5, 2000}}
Value2 == {No} \cup {[k \in {"uid"} |-> v] : v \in {6, 2000}}
OptionJobs == {[Archive("posix", <<Member(<<97>>, <<>>, u, 2), Other>>) EXCEPT
                   !.wglobal = wg, !.wover = wo, !.wdel = wd, !.rglobal = rg, !.rover = ro, !.rdel = rd] :
                  u \in {9, 100}, wg \in {No, [k \in {"uid"} |-> 3]}, wo \in Values, wd \in SUBSET {"atime", "uid"},
                  rg \in {No, [k \in {"uid"} |-> 4]}, ro \in Value2, rd \in {{}, {"uid"}}}

Job(k, v, w, n, f, sub, min, max) == [kind |-> k, v |-> v, width |-> w, size |-> n, fmt |-> f, sub |-> sub,
                                      min |-> min, max |-> max, octal |-> FALSE]
SignedJobs == {Job("number", v, 16, n, f, <<>>, -32768, 32767) :
                  n \in 2 .. 4, f \in Formats,
                  v \in {-32768, -32767, -513, -512, -257, -256, -255, -129, -128, -9, -1, 0, 1, 7, 8, 63, 64,
                         127, 128, 255, 256, 511, 512, 4095, 4096, 32767}}
UnsignedJobs == {Job("number", v, 16, n, f, <<65534>>, 0, 65535) :
                    n \in 2 .. 4, f \in Formats, v \in {0, 7, 8, 63, 64, 255, 256, 511, 512, 32768, 65535}}

Field(f, min, max, o) == [kind |-> "field", f |-> f, min |-> min, max |-> max, octal |-> o]
Octals == UNION {[1 .. n -> {48, 49, 50, 55}] : n \in {3, 6}}
FieldJobs == {Field(f, -128, 127, FALSE) : f \in [1 .. 4 -> {0, 32, 48, 51, 55, 45, 122, 128, 255}]}
             \cup {Field(f, 0, 4095, o) : f \in [1 .. 4 -> {0, 32, 49, 55, 43, 65, 128, 255}], o \in BOOLEAN}
             \cup {Field(f, -32768, 32767, FALSE) : f \in Octals \cup {<<45>> \o g : g \in [1 .. 3 -> {65, 72, 56, 47}]}}

MCJobs == NameJobs \cup LinkJobs \cup ValueJobs \cup OptionJobs \cup SignedJobs \cup UnsignedJobs \cup FieldJobs
=============================================================================
