------------------------------- MODULE Header -------------------------------
(***************************************************************************)
(* The headers of members: how numbers, names and links are put into the   *)
(* fields of a block, into GNU long name blocks and into pax extended      *)
(* headers (create.c, xheader.c), and how read_header and decode_header    *)
(* (list.c) get them back.                                                 *)
(*                                                                         *)
(* Bytes are numbers with their ASCII codes.  The sizes of the fields and  *)
(* the width of uintmax_t are parameters; a value is an integer, its bits  *)
(* are taken modulo 2^UW where the code does.                              *)
(***************************************************************************)
EXTENDS Integers, SequencesExt, FiniteSetsExt

CONSTANTS
    UW,         \* UINTMAX_WIDTH
    NameSize,   \* NAME_FIELD_SIZE
    PrefixSize, \* PREFIX_FIELD_SIZE
    Fields,     \* size of a numeric field, width and range of its type
    Jobs        \* what is written and read, with the options of both sides

ASSUME WidthsAssumption ==
    /\ UW \in 14 .. 20 /\ NameSize \in Nat \ {0} /\ PrefixSize \in Nat \ {0}
    \* As on every host: all octal fields are in the range of an unsigned type,
    \* and in the GNU formats every value fits.
    /\ \A k \in DOMAIN Fields :
          LET w == Fields[k] IN
          /\ w.max < 2 ^ UW /\ w.max <= 256 ^ (w.size - 1) - 1 /\ -1 - w.min <= w.max
          /\ w.min = 0 => 8 ^ w.size - 1 <= w.max

VARIABLES
    job,
    phase,
    left,     \* members still to be written
    tape,     \* header blocks
    errs,     \* members that tar complained about
    long,     \* next_long_name, next_long_link and info->xhdr
    global,   \* global_header_override_list
    read      \* what is decoded

vars == <<job, phase, left, tape, errs, long, global, read>>

-----------------------------------------------------------------------------
(* Numbers.                                                                *)

Nul == 0
Space(c) == c = 32 \/ c \in 9 .. 13
Octal(c) == c \in 48 .. 55
Word == 2 ^ UW

\* max_val_with_digits.
MaxVal(digits, bits) == IF digits * bits < UW THEN 2 ^ (digits * bits) - 1 ELSE Word - 1
MaxOctal(size) == MaxVal(size - 1, 3)

\* to_octal and to_base256: digit i of n.
Digit(v, base, n, i) == (v \div base ^ (n - i)) % base
ToOctal(v, n) == [i \in 1 .. n |-> 48 + Digit(v, 8, n, i)]
ToBase256(v, n) == [i \in 1 .. n |-> Digit(v, 256, n, i)]

None == [ok |-> FALSE, f |-> <<>>]
Gnu(fmt) == fmt \in {"gnu", "oldgnu"}

\* to_chars, for value v of a type of width bits; sub is the substitute or
\* None.  The octal form of a negative value modulo 2^width comes last.
ToChars(v, width, fmt, size, sub) ==
    LET fits(x) == x >= 0 /\ x <= MaxOctal(size)
        octal(x) == [ok |-> TRUE, f |-> ToOctal(x, size - 1) \o <<Nul>>]
        wide(x) == (IF x < 0 THEN -1 - x ELSE x) <= MaxVal(size - 1, 8)
        base(x) == [ok |-> TRUE, f |-> <<IF x < 0 THEN 255 ELSE 128>> \o ToBase256(x, size - 1)]
    IN  IF fits(v) THEN octal(v)
        ELSE IF ~Gnu(fmt) THEN None
        ELSE IF wide(v) THEN base(v)
        ELSE IF v < 0 /\ width <= 3 * (size - 1) THEN octal(v % 2 ^ width)
        ELSE IF sub = <<>> THEN None
        ELSE LET s == sub[1] % (MaxVal(size - 1, 8) + 1) IN
             IF fits(s) THEN octal(s) ELSE base(s)

\* Runs of digits in a field, from i.
Run(f, i, S) == CHOOSE j \in i .. Len(f) + 1 :
                   (\A k \in i .. j - 1 : f[k] \in S) /\ (j = Len(f) + 1 \/ f[j] \notin S)

\* A sum of digits in machine words, and whether a product overflowed.
Words(ds, base) ==
    FoldLeft(LAMBDA a, d : [v |-> ((a.v * base) % Word) + d, over |-> a.over \/ a.v * base >= Word],
             [v |-> 0, over |-> FALSE], ds)

Base64 == [c \in 43 .. 122 |-> CASE c \in 65 .. 90 -> c - 65
                                 [] c \in 97 .. 122 -> c - 71
                                 [] c \in 48 .. 57 -> c + 4
                                 [] c = 43 -> 62
                                 [] c = 47 -> 63
                                 [] OTHER -> -1]
Is64 == {c \in DOMAIN Base64 : Base64[c] >= 0}

Err == [ok |-> FALSE, v |-> 0]

\* Altered: the top bits are not checked.
KeepsBitsAlways(value, neg) == TRUE
\* from_header, base 256: another shift loses no bit.
KeepsBits(value, neg) ==
    value = (value % 2 ^ (UW - 8)) + (IF neg THEN Word - 2 ^ (UW - 8) ELSE 0)

\* from_header, base 256 from position i, bytes k and on.
RECURSIVE Shift(_, _, _, _)
Shift(f, k, value, neg) ==
    LET v == ((value * 256) % Word) + f[k] IN
    IF k = Len(f) THEN [ok |-> TRUE, v |-> IF neg THEN (-v) % Word ELSE v, neg |-> neg, i |-> k + 1]
    ELSE IF ~KeepsBits(v, neg) THEN [ok |-> FALSE, v |-> 0, neg |-> neg, i |-> k]
    ELSE Shift(f, k + 1, v, neg)

\* from_header, octal from position i: a value that is too large may be two's
\* complement of an older tar when the leading digit is 2 or more.
FromOctal(f, i, min, max, typed) ==
    LET j == Run(f, i, 48 .. 55)
        plain == Words([k \in 1 .. j - i |-> f[i + k - 1] - 48], 8)
        lead == IF f[i] - 48 < 4 THEN f[i] - 44 ELSE f[i] - 48
        neg == Words([k \in 1 .. j - i |-> 7 - (IF k = 1 THEN lead ELSE f[i + k - 1] - 48)], 8)
        twos == (plain.over \/ max < plain.v) /\ f[i] >= 50 /\ typed
        over == neg.over \/ neg.v + 1 >= Word
    IN  IF twos THEN [ok |-> ~over, v |-> (neg.v + 1) % Word, neg |-> ~over /\ neg.v + 1 <= (-min) % Word, i |-> j]
        ELSE [ok |-> ~plain.over, v |-> plain.v, neg |-> FALSE, i |-> j]

From64(f, i) ==
    LET j == Run(f, i + 1, Is64)
        r == Words([k \in 1 .. j - i - 1 |-> Base64[f[i + k]]], 64)
    IN  [ok |-> ~r.over, v |-> r.v, neg |-> f[i] = 45, i |-> j]

\* from_header: field f as a value from min to max.
FromHeader(f, min, max, octalonly, typed) ==
    LET w == IF f[1] = Nul THEN 2 ELSE 1
        text == {k \in w .. Len(f) : ~Space(f[k])}
        i == Min(text)
        r == IF Octal(f[i]) THEN FromOctal(f, i, min, max, typed)
             ELSE IF octalonly THEN [ok |-> TRUE, v |-> 0, neg |-> FALSE, i |-> i]
             ELSE IF f[i] \in {43, 45} THEN From64(f, i)
             ELSE IF i <= Len(f) - 1 /\ f[i] \in {128, 255}
             THEN Shift(f, i + 1, IF f[i] = 255 THEN Word - 1 ELSE 0, f[i] = 255)
             ELSE [ok |-> TRUE, v |-> 0, neg |-> FALSE, i |-> i]
    IN  IF text = {} THEN Err
        ELSE IF ~r.ok THEN Err
        ELSE IF r.i <= Len(f) /\ f[r.i] # Nul /\ ~Space(f[r.i]) THEN Err
        ELSE IF r.v <= (IF r.neg THEN (-min) % Word ELSE max)
        THEN [ok |-> TRUE, v |-> IF r.neg THEN -r.v ELSE r.v]
        ELSE Err

\* uid_from_header, time_from_header, ...: what an error leaves is -1 in the type.
Number(k, f) ==
    LET w == Fields[k]
        r == FromHeader(f, w.min, w.max, FALSE, TRUE)
    IN  IF r.ok THEN r.v ELSE IF w.min < 0 THEN -1 ELSE w.max

-----------------------------------------------------------------------------
(* Writing a member: name, link (or <<>>) and the numbers num[k].           *)

Slash == 47
Ascii(s) == \A i \in DOMAIN s : s[i] < 128

\* tar_copy_str and tar_name_copy_str.
Copy(s, n) == [i \in 1 .. n |-> IF i <= Len(s) THEN s[i] ELSE Nul]
NameCopy(s, n, fmt) == IF fmt = "oldgnu" THEN [Copy(s, n) EXCEPT ![n] = Nul] ELSE Copy(s, n)

TooLong(s, fmt) == Len(s) > NameSize - (IF fmt = "oldgnu" THEN 1 ELSE 0)

\* split_long_name: an offset in the name (from 0).
SplitLongName(s) ==
    LET length == IF Len(s) > PrefixSize + 1 THEN PrefixSize + 1
                  ELSE IF s[Len(s)] = Slash THEN Len(s) - 1 ELSE Len(s)
    IN  Max({0} \cup {i \in 1 .. length - 1 : s[i + 1] = Slash})

\* write_ustar_long_name: prefix and name, or no header.
UstarLongName(s) ==
    LET i == SplitLongName(s)
        nlen == Len(s) - i - 1
    IN  IF Len(s) > PrefixSize + NameSize + 1 \/ i = 0 \/ nlen <= 0 \/ nlen > NameSize
        THEN <<>>
        ELSE <<[prefix |-> Copy(SubSeq(s, 1, i), PrefixSize), name |-> Copy(SubSeq(s, i + 2, Len(s)), NameSize)]>>

\* write_short_name.
ShortName(s, fmt) == <<[prefix |-> Copy(<<>>, PrefixSize), name |-> NameCopy(s, NameSize, fmt)]>>

\* write_header_name and write_long_name: the name in the header.
HeaderName(s, fmt) ==
    CASE TooLong(s, fmt) /\ fmt = "ustar" -> UstarLongName(s)
      [] TooLong(s, fmt) /\ fmt = "v7" -> <<>>
      [] OTHER -> ShortName(s, fmt)

\* write_gnu_long_link.
LongLink(t, s, fmt) == IF Gnu(fmt) /\ TooLong(s, fmt) THEN <<[type |-> t, data |-> s \o <<Nul>>]>> ELSE <<>>

\* Decimal digits of n.
RECURSIVE Decimals(_)
Decimals(n) == IF n < 10 THEN 1 ELSE 1 + Decimals(n \div 10)

\* xheader_print_n: the length of a record counts its own digits.
RecordLength(len) ==
    LET n == CHOOSE n \in 1 .. 9 : Decimals(len + n) = n /\ \A p \in 1 .. n - 1 : Decimals(len + p) # p
    IN  len + n

\* A record of the extended header: the length it states, and the one it has.
KeyLen == [path |-> 4, linkpath |-> 8, uid |-> 3, gid |-> 3, mtime |-> 5, atime |-> 5]
ValueLen(k, v) == IF k \in {"path", "linkpath"} THEN Len(v)
                  ELSE IF v < 0 THEN 1 + Decimals(-v) ELSE Decimals(v)
Record(k, v) ==
    LET rest == KeyLen[k] + ValueLen(k, v) + 3
        says == RecordLength(rest)
    IN  [k |-> k, v |-> v, says |-> says, is |-> rest + Decimals(says)]
Records(kv) == LET ks == SetToSeq(DOMAIN kv) IN [i \in DOMAIN ks |-> Record(ks[i], kv[ks[i]])]

\* start_header: the number does not go into the octal digits of its field
\* (the comparison is unsigned).
Large(k, v) == v > MaxOctal(Fields[k].size) \/ v < 0

\* write_header_name, start_header and dump_file0: the keywords to store.
Wanted(m) ==
    {k \in DOMAIN m.num : Large(k, m.num[k])} \cup {"atime"}
    \cup (IF TooLong(m.name, "posix") \/ ~Ascii(m.name) THEN {"path"} ELSE {})
    \cup (IF TooLong(m.link, "posix") THEN {"linkpath"} ELSE {})

Coded(m, k) == CASE k = "path" -> m.name
                 [] k = "linkpath" -> m.link
                 [] k = "atime" -> 0
                 [] OTHER -> m.num[k]

\* xheader_store and xheader_finish: a header is made once a keyword is not
\* deleted; the options' values come after the member's own.
XHeader(m, over, del) ==
    LET kept == Wanted(m) \ del
        own == kept \ DOMAIN over
    IN  IF kept = {} THEN <<>>
        ELSE <<[type |-> "x", recs |-> Records([k \in own |-> Coded(m, k)]) \o Records(over)]>>

\* dump_file0 for a link, start_header, finish_header: the blocks of a member.
WriteMember ==
    LET m == left[1]
        fmt == job.fmt
        name == HeaderName(m.name, fmt)
        field(k) == IF fmt = "posix" /\ Large(k, m.num[k]) THEN 0 ELSE m.num[k]
        num == [k \in DOMAIN m.num |->
                   ToChars(field(k), Fields[k].width, fmt, Fields[k].size, IF k = "mtime" THEN <<>> ELSE <<Fields[k].max - 1>>)]
        ok == name # <<>> /\ \A k \in DOMAIN num : num[k].ok
        header == [type |-> "0", prefix |-> name[1].prefix, name |-> name[1].name, ustar |-> fmt \in {"ustar", "posix"},
                   link |-> Copy(m.link, NameSize), num |-> [k \in DOMAIN num |-> num[k].f]]
    IN  /\ phase = "write" /\ left # <<>>
        /\ left' = Tail(left)
        /\ tape' = tape \o LongLink("K", m.link, fmt) \o LongLink("L", m.name, fmt)
                        \o (IF ok /\ fmt = "posix" THEN XHeader(m, job.wover, job.wdel) ELSE <<>>)
                        \o (IF ok THEN <<header>> ELSE <<>>)
        /\ errs' = IF ok /\ ~(fmt \in {"v7", "ustar"} /\ TooLong(m.link, fmt)) THEN errs ELSE errs \cup {m}
        /\ UNCHANGED <<job, phase, long, global, read>>

\* xheader_write_global, at the start of the archive.
WriteGlobal ==
    /\ phase = "start" /\ job.kind = "archive"
    /\ tape' = IF DOMAIN job.wglobal = {} \/ job.fmt # "posix" THEN <<>>
               ELSE <<[type |-> "g", recs |-> Records(job.wglobal)]>>
    /\ phase' = "write"
    /\ UNCHANGED <<job, left, errs, long, global, read>>

\* The archive is closed, and opened for reading.
Reopen ==
    /\ phase = "write" /\ left = <<>>
    /\ phase' = "read"
    /\ UNCHANGED <<job, left, tape, errs, long, global, read>>

-----------------------------------------------------------------------------
(* Reading.                                                                *)

NoLong == [name |-> <<>>, link |-> <<>>, recs |-> <<>>]

\* Up to the first NUL.
String(s) == LET n == Run(s, 1, 1 .. 255) IN SubSeq(s, 1, n - 1)
\* strip_trailing_slashes.
Strip(s) == LET n == Max({1} \cup {i \in DOMAIN s : s[i] # Slash}) IN SubSeq(s, 1, n)

\* decode_record: the records up to the first one that is malformed.
Decoded(recs) ==
    LET bad == {i \in DOMAIN recs : recs[i].says # recs[i].is}
    IN  SubSeq(recs, 1, IF bad = {} THEN Len(recs) ELSE Min(bad) - 1)

\* The decoders: a number that is out of range is reported and ignored.
Decode(m, k, v) ==
    CASE k = "path" -> IF v = <<>> THEN m ELSE [m EXCEPT !.name = Strip(v)]
      [] k = "linkpath" -> [m EXCEPT !.link = v]
      [] k = "atime" -> m
      [] OTHER -> IF v \in Fields[k].min .. Fields[k].max THEN [m EXCEPT !.num[k] = v] ELSE m

\* run_override_list.
Overrides(m, kv) == FoldSet(LAMBDA k, acc : Decode(acc, k, kv[k]), m, DOMAIN kv)

\* Altered: the options are applied before what the header says.
XHeaderDecodeFirst(m, recs) ==
    FoldLeft(LAMBDA acc, r : IF r.k \in job.rdel THEN acc ELSE Decode(acc, r.k, r.v),
             Overrides(Overrides(Overrides(m, job.rglobal), global), job.rover), Decoded(recs))
\* xheader_decode.
XHeaderDecode(m, recs) ==
    LET own == FoldLeft(LAMBDA acc, r : IF r.k \in job.rdel \cup DOMAIN job.rover THEN acc ELSE Decode(acc, r.k, r.v),
                        Overrides(Overrides(m, job.rglobal), global), Decoded(recs))
    IN  Overrides(own, job.rover)

\* read_header: a block before the member's own.
ReadExtended ==
    LET b == tape[1] IN
    /\ phase = "read" /\ tape # <<>> /\ b.type # "0"
    /\ tape' = Tail(tape)
    /\ long' = CASE b.type = "L" -> [long EXCEPT !.name = b.data]
                 [] b.type = "K" -> [long EXCEPT !.link = b.data]
                 [] b.type = "x" -> [long EXCEPT !.recs = b.recs]
                 [] OTHER -> long
    \* xheader_decode_global: the last one counts.
    /\ global' = IF b.type = "g" THEN [k \in {r.k : r \in ToSet(Decoded(b.recs))} |->
                                         (CHOOSE r \in ToSet(Decoded(b.recs)) : r.k = k).v]
                 ELSE global
    /\ UNCHANGED <<job, phase, left, errs, read>>

\* read_header, decode_header and tar_stat_destroy: the names are the long
\* ones or the header's, then come the numbers and the extended header.
MemberOf(b) ==
    LET prefix == IF b.prefix[1] # Nul /\ b.ustar THEN String(b.prefix) \o <<Slash>> ELSE <<>>
        name == IF long.name # <<>> THEN String(long.name) ELSE prefix \o String(b.name)
        link == IF long.link # <<>> THEN String(long.link) ELSE String(b.link)
    IN  XHeaderDecode([name |-> Strip(name), link |-> link, num |-> [k \in DOMAIN b.num |-> Number(k, b.num[k])]], long.recs)

\* Altered: next_long_link is not freed.
ReadMemberKeep ==
    /\ phase = "read" /\ tape # <<>> /\ tape[1].type = "0"
    /\ tape' = Tail(tape)
    /\ read' = Append(read, MemberOf(tape[1]))
    /\ long' = [NoLong EXCEPT !.link = long.link]
    /\ UNCHANGED <<job, phase, left, errs, global>>

ReadMember ==
    /\ phase = "read" /\ tape # <<>> /\ tape[1].type = "0"
    /\ tape' = Tail(tape)
    /\ read' = Append(read, MemberOf(tape[1]))
    /\ long' = NoLong
    /\ UNCHANGED <<job, phase, left, errs, global>>

EndOfArchive ==
    /\ phase = "read" /\ tape = <<>>
    /\ phase' = "done"
    /\ UNCHANGED <<job, left, tape, errs, long, global, read>>

\* A number alone, in a field of another size or as another tar wrote it.
WriteNumber ==
    LET c == ToChars(job.v, job.width, job.fmt, job.size, job.sub) IN
    /\ phase = "start" /\ job.kind = "number"
    /\ tape' = IF c.ok THEN <<c.f>> ELSE <<>>
    /\ errs' = IF c.ok THEN {} ELSE {job.v}
    /\ phase' = "number"
    /\ UNCHANGED <<job, left, long, global, read>>

ReadNumber ==
    /\ phase = "number" \/ (phase = "start" /\ job.kind = "field")
    /\ read' = IF tape = <<>> THEN <<>> ELSE <<FromHeader(tape[1], job.min, job.max, job.octal, TRUE)>>
    /\ phase' = "done"
    /\ UNCHANGED <<job, left, tape, errs, long, global>>

Init ==
    /\ job \in Jobs
    /\ phase = "start"
    /\ left = IF job.kind = "archive" THEN job.members ELSE <<>>
    /\ tape = IF job.kind = "field" THEN <<job.f>> ELSE <<>>
    /\ errs = {}
    /\ long = NoLong
    /\ global = [k \in {} |-> 0]
    /\ read = <<>>

Over == phase = "done" /\ UNCHANGED vars

Next == \/ WriteGlobal \/ WriteMember \/ Reopen \/ ReadExtended \/ ReadMember \/ EndOfArchive
        \/ WriteNumber \/ ReadNumber \/ Over

Spec == Init /\ [][Next]_vars

-----------------------------------------------------------------------------
(* Properties.                                                             *)

Done == phase = "done"

\* What a field stands for, in numbers without bounds: octal digits, those
\* of a negative number when they are too many (the sign is in the leading
\* digit), a sign and base-64 digits, or base 256 in two's complement.
Sum(ds, base) == FoldLeft(LAMBDA a, d : a * base + d, 0, ds)
Reference(f, max, octalonly) ==
    LET w == IF f[1] = Nul THEN 2 ELSE 1
        i == Min({k \in w .. Len(f) : ~Space(f[k])})
        j == CASE Octal(f[i]) -> Run(f, i, 48 .. 55)
               [] ~octalonly /\ f[i] \in {43, 45} -> Run(f, i + 1, Is64)
               [] ~octalonly /\ i < Len(f) /\ f[i] \in {128, 255} -> Len(f) + 1
               [] OTHER -> i
        ds == SubSeq(f, IF Octal(f[i]) THEN i ELSE i + 1, j - 1)
        oct == Sum([k \in DOMAIN ds |-> ds[k] - 48], 8)
        low == oct % 8 ^ (Len(ds) - 1)
        top == f[i] - 48
    IN  IF \A k \in w .. Len(f) : Space(f[k]) THEN {}
        ELSE IF j <= Len(f) /\ f[j] # Nul /\ ~Space(f[j]) THEN {}
        ELSE IF Octal(f[i]) THEN
             IF oct > max /\ top >= 2 THEN {low - (8 - (IF top < 4 THEN top + 4 ELSE top)) * 8 ^ (Len(ds) - 1)} ELSE {oct}
        ELSE IF j = i THEN {0}
        ELSE IF f[i] \in {43, 45} THEN {(IF f[i] = 45 THEN -1 ELSE 1) * Sum([k \in DOMAIN ds |-> Base64[ds[k]]], 64)}
        ELSE {Sum(ds, 256) - (IF f[i] = 255 THEN 256 ^ Len(ds) ELSE 0)}

Exact ==
    LET d == {v \in Reference(job.f, job.max, job.octal) : job.min <= v /\ v <= job.max}
    IN  IF d = {} THEN ~read[1].ok ELSE read[1].ok /\ read[1].v \in d

\* from_header gives the number that a field stands for when that number is
\* in the range of the type, and an error otherwise: no sum of digits wraps
\* around, whatever the width of the field, except for -2^UW.
FieldsRead ==
    (Done /\ job.kind = "field") => (-Word \in Reference(job.f, job.max, job.octal) \/ Exact)

\* What the comment on from_header says: every number that is out of range
\* is an error.  The code reads -2^UW in base 256 as 0.
OutOfRangeIsError == (Done /\ job.kind = "field") => Exact

\* to_chars and from_header: a value comes back from its field as it was, in
\* every format and size of field; what cannot be represented is reported
\* or, in the GNU formats, replaced by the substitute.
NumbersRead ==
    (Done /\ job.kind = "number") =>
        LET octal == 0 <= job.v /\ job.v < 8 ^ (job.size - 1)
            base256 == -(256 ^ (job.size - 1)) <= job.v /\ job.v < 256 ^ (job.size - 1)
        IN  CASE octal \/ (Gnu(job.fmt) /\ base256) -> read = <<[ok |-> TRUE, v |-> job.v]>> /\ errs = {}
              [] Gnu(job.fmt) /\ ~base256 /\ job.sub # <<>> ->
                     read = <<[ok |-> TRUE, v |-> job.sub[1] % 256 ^ (job.size - 1)]>>
              [] OTHER -> read = <<>> /\ errs = {job.v}

\* to_chars and from_header are exact: no number is read as another one.
NumbersExact == NumbersRead /\ FieldsRead

\* What the format can hold.
NameFits(s, fmt) ==
    \/ fmt \in {"gnu", "oldgnu", "posix"} \/ Len(s) <= NameSize
    \/ fmt = "ustar" /\ \E i \in 2 .. Len(s) - 1 : s[i] = Slash /\ i - 1 <= PrefixSize /\ Len(s) - i <= NameSize
NumbersFit(m, fmt) ==
    fmt \in {"gnu", "oldgnu", "posix"} \/ \A k \in DOMAIN m.num : 0 <= m.num[k] /\ m.num[k] < 8 ^ (Fields[k].size - 1)
LinkFits(m, fmt) == fmt \in {"gnu", "oldgnu", "posix"} \/ Len(m.link) <= NameSize
Written(ms, fmt) == SelectSeq(ms, LAMBDA m : NameFits(m.name, fmt) /\ NumbersFit(m, fmt))
NoOptions == /\ DOMAIN job.wglobal \cup DOMAIN job.wover \cup DOMAIN job.rglobal \cup DOMAIN job.rover = {}
             /\ job.wdel \cup job.rdel \subseteq {"atime"}

\* Whatever the lengths of names and links, each member that the format can
\* hold is read with the name, the link and the numbers it was written with,
\* and no long name, link or record of one member reaches another.  (The
\* link of a ustar or v7 member that is too long is cut, with a complaint.)
MembersRead ==
    (Done /\ job.kind = "archive" /\ NoOptions) =>
        read = LET w == Written(job.members, job.fmt) IN
               [i \in DOMAIN w |-> [name |-> Strip(w[i].name), num |-> w[i].num,
                                    link |-> IF LinkFits(w[i], job.fmt) THEN w[i].link ELSE SubSeq(w[i].link, 1, NameSize)]]

\* tar complains of a member exactly when the format cannot hold its name,
\* its numbers or its link: a split of a long name is found if there is one.
Complaints ==
    (Done /\ job.kind = "archive") =>
        errs = {m \in ToSet(job.members) : ~(NameFits(m.name, job.fmt) /\ NumbersFit(m, job.fmt) /\ LinkFits(m, job.fmt))}

\* A member is read as it was written, or tar has complained of it
\* (start_header, write_long_name, write_extended, read_header).
MembersExact == MembersRead /\ Complaints

\* One side gives a value for keyword k and deletes it too, or the reader
\* deletes what the global header has: delete= does not reach the records of a
\* global header nor values of the command line.
Contradictory(k) ==
    \/ k \in job.wdel /\ k \in DOMAIN job.wover \cup DOMAIN job.wglobal
    \/ k \in job.rdel /\ k \in DOMAIN job.rover \cup DOMAIN job.rglobal \cup DOMAIN job.wglobal

\* Member m has an extended header: some record that is not deleted belongs in it.
HasXHeader(m) ==
    \/ \E k \in DOMAIN m.num : k \notin job.wdel /\ m.num[k] \notin 0 .. 8 ^ (Fields[k].size - 1) - 1
    \/ "atime" \notin job.wdel \/ Len(m.name) > NameSize \/ ~Ascii(m.name) \/ Len(m.link) > NameSize

\* The --pax-option of both sides: "keyword:=value" of the reader counts most,
\* then the member's own extended header, where the writer's "keyword:=value"
\* takes the place of the member's value, unless the reader deletes it, then the
\* global header, then the reader's "keyword=value", then the field, which is 0
\* if the number did not go into it.  Values that are out of range never count.
\* Nothing is claimed where the code does not do what the manual says of these
\* options: for "keyword:=value" and a member that needs no record of its own,
\* which gets no extended header and so not this one either, and for keywords
\* that are Contradictory.
OptionsObeyed ==
    (Done /\ job.kind = "archive" /\ job.fmt = "posix" /\ errs = {}) =>
        \A i \in DOMAIN job.members : \A k \in DOMAIN job.members[i].num :
            LET m == job.members[i]
                big == m.num[k] \notin 0 .. 8 ^ (Fields[k].size - 1) - 1
                good(kv) == k \in DOMAIN kv /\ kv[k] \in Fields[k].min .. Fields[k].max
            IN  ~Contradictory(k) /\ (k \in DOMAIN job.wover => HasXHeader(m)) =>
                read[i].num[k] =
                CASE good(job.rover) -> job.rover[k]
                  [] k \notin job.rdel \cup DOMAIN job.rover /\ good(job.wover) -> job.wover[k]
                  [] k \notin job.rdel \cup DOMAIN job.rover \cup job.wdel \cup DOMAIN job.wover /\ big -> m.num[k]
                  [] good(job.wglobal) -> job.wglobal[k]
                  [] good(job.rglobal) -> job.rglobal[k]
                  [] OTHER -> IF big THEN 0 ELSE m.num[k]
=============================================================================
