------------------------ MODULE DeferredUnlinkProofs ------------------------
(***************************************************************************)
(* Proofs about DeferredUnlink, for every blocking factor and every input: *)
(* the types, and that no object is removed before the archive holds it.   *)
(***************************************************************************)
EXTENDS DeferredUnlink, TLAPS

CellType(n, k) == [next : 0..n, tok : 1..k, rw : Nat]

\* Where the program is.
Control ==
    /\ force => pc \in {"scan", "last", "done"}
    /\ ~force => pc \in {"dump", "insert", "scan", "fatal"}
    /\ force => buf = <<>> /\ i = Len(Ops) + 1
    /\ pc \in {"insert", "scan"} /\ ~force => i <= Len(Ops) /\ Op.op # "open"

\* The operation of a cell is over; when a record has been written since the
\* cell was filled in, the record buffer holds only blocks of later ones.  This
\* is also true of cells that have been reclaimed.
CellSafe(c) ==
    /\ c.tok < i
    /\ Ops[c.tok].op # "open"
    /\ c.rw < records_written => \A k \in 1..Len(buf) : buf[k] > c.tok

Inv ==
    /\ input \in Inputs
    /\ TypeOK
    /\ Control
    /\ \A c \in 1..Len(cell) : CellSafe(cell[c])
    /\ NoEarlyUnlink

\* An object is dumped no later than it is queued.
LEMMA DumpedBefore ==
    ASSUME input \in Inputs, NEW t \in 1..Len(Ops), Ops[t].op # "open",
           NEW j \in 1..Len(Ops), Dumps(j, Ops[t].obj)
    PROVE  j <= t
<1>1. Ops \in Seq(OpType)
  BY Zenon, InputsAssumption DEF Ops
<1>2. CASE Ops[t].op = "close"
  <2>1. PICK o \in 1..t - 1 : Ops[o].op = "open" /\ Ops[o].obj = Ops[t].obj
    BY Zenon, <1>2, InputsAssumption DEF Ops
  <2>. QED BY <1>1, <2>1 DEF Dumps
<1>3. CASE Ops[t].op # "close"
  BY <1>1, <1>3 DEF Dumps
<1>. QED BY Zenon, <1>2, <1>3

-----------------------------------------------------------------------------
(***************************************************************************)
(* Cells.                                                                  *)
(***************************************************************************)
WithNext(cs, c, x) == [cs EXCEPT ![c].next = x]

LEMMA SetNext ==
    ASSUME NEW n \in Nat, NEW k \in Nat, NEW cs \in Seq(CellType(n, k)),
           NEW c \in 1..Len(cs), NEW x \in 0..n
    PROVE  /\ WithNext(cs, c, x) \in Seq(CellType(n, k))
           /\ Len(WithNext(cs, c, x)) = Len(cs)
           /\ \A e \in 1..Len(cs) : /\ WithNext(cs, c, x)[e].tok = cs[e].tok
                                     /\ WithNext(cs, c, x)[e].rw = cs[e].rw
<1> DEFINE d == WithNext(cs, c, x)
<1>1. cs \in [1..Len(cs) -> CellType(n, k)] /\ Len(cs) \in Nat
  OBVIOUS
<1>2. d \in [1..Len(cs) -> CellType(n, k)]
  BY Zenon, <1>1 DEF CellType, WithNext
<1>3. d \in Seq(CellType(n, k)) /\ Len(d) = Len(cs)
  BY <1>1, <1>2
<1>4. \A e \in 1..Len(cs) : d[e].tok = cs[e].tok /\ d[e].rw = cs[e].rw
  BY Zenon, <1>1 DEF CellType, WithNext
<1>. QED BY Zenon, <1>3, <1>4

WithCell(cs, c, x) == [cs EXCEPT ![c] = x]

LEMMA AddCell ==
    ASSUME NEW n \in Nat, NEW k \in Nat, NEW cs \in Seq(CellType(n, k)),
           NEW x \in CellType(n, k)
    PROVE  /\ Append(cs, x) \in Seq(CellType(n + 1, k))
           /\ Len(Append(cs, x)) = Len(cs) + 1
           /\ \A e \in 1..Len(cs) + 1 :
                 Append(cs, x)[e] = IF e = Len(cs) + 1 THEN x ELSE cs[e]
<1>1. CellType(n, k) \subseteq CellType(n + 1, k)
  <2>1. 0..n \subseteq 0..n + 1
    OBVIOUS
  <2>. QED BY Zenon, <2>1 DEF CellType
<1>2. cs \in Seq(CellType(n + 1, k)) /\ x \in CellType(n + 1, k)
  BY <1>1
<1>. QED BY <1>2

-----------------------------------------------------------------------------
(***************************************************************************)
(* The steps.                                                              *)
(***************************************************************************)
LEMMA OpsType ==
    ASSUME input \in Inputs
    PROVE  Ops \in Seq(OpType) /\ Len(Ops) \in Nat
BY InputsAssumption DEF Ops

LEMMA Facts ==
    ASSUME Inv
    PROVE  /\ i \in Nat /\ done \in Nat /\ records_written \in Nat
           /\ i \in 1..Len(Ops) + 1
           /\ Len(cell) \in Nat /\ Len(buf) \in Nat
           /\ \A k \in 1..Len(buf) : buf[k] \in Nat
           /\ \A c \in 1..Len(cell) :
                 /\ cell[c].tok \in 1..Len(Ops) /\ cell[c].tok \in Nat
                 /\ cell[c].rw \in Nat
                 /\ cell[c].next \in 0..Len(cell)
                 /\ CellSafe(cell[c])
<1>1. Len(Ops) \in Nat
  BY Zenon, OpsType DEF Inv
<1>2. i \in 1..Len(Ops) + 1 /\ done \in Nat /\ records_written \in Nat
  BY Zenon DEF Inv, TypeOK
<1>3. buf \in Seq(1..Len(Ops)) /\ cell \in Seq(CellType(Len(cell), Len(Ops)))
  BY Zenon DEF Inv, TypeOK, CellType
<1>4. \A c \in 1..Len(cell) : cell[c] \in CellType(Len(cell), Len(Ops))
  BY <1>3
<1>5. \A c \in 1..Len(cell) :
         /\ cell[c].tok \in 1..Len(Ops)
         /\ cell[c].rw \in Nat
         /\ cell[c].next \in 0..Len(cell)
  BY Zenon, <1>4 DEF CellType
<1>6. \A c \in 1..Len(cell) : CellSafe(cell[c])
  BY Zenon DEF Inv
<1>. QED BY <1>1, <1>2, <1>3, <1>5, <1>6

LEMMA InitInv == Init => Inv
<1>. SUFFICES ASSUME Init PROVE Inv
  BY Zenon
<1>1. input \in Inputs /\ Len(Ops) \in Nat
  BY Zenon, OpsType DEF Init
<1>2. TypeOK
  <2>1. <<>> \in Seq(1..Len(Ops)) /\ Len(<<>>) = 0 /\ BF \in Nat
    BY BFAssumption
  <2>2. cell = <<>> /\ buf = <<>>
    BY Zenon DEF Init
  <2>3. cell \in Seq([next : 0..Len(cell), tok : 1..Len(Ops), rw : Nat])
    BY <2>2
  <2>4. {head, tail, avail, p, prev} \subseteq 0..Len(cell)
    BY <2>1, <2>2 DEF Init
  <2>5. i \in 1..Len(Ops) + 1 /\ done \in Nat /\ records_written \in Nat
    BY <1>1 DEF Init
  <2>6. buf \in Seq(1..Len(Ops)) /\ Len(buf) <= BF
    BY <2>1, <2>2, BFAssumption
  <2>7. /\ fs \subseteq DOMAIN input.parent /\ force \in BOOLEAN
        /\ pc \in {"dump", "insert", "scan", "last", "done", "fatal"}
    BY Zenon DEF Init
  <2>. QED BY Zenon, <2>3, <2>4, <2>5, <2>6, <2>7 DEF TypeOK
<1>3. Control
  BY Zenon DEF Init, Control
<1>4. \A j \in 1..Len(Ops) : Ops[j].obj \in fs
  BY Zenon, <1>1, InputsAssumption DEF Init, Ops
<1>5. NoEarlyUnlink
  BY Zenon, <1>4 DEF NoEarlyUnlink
<1>. QED BY <1>1, <1>2, <1>3, <1>5 DEF Init, Inv

\* A step that leaves the list and the file system alone.
LEMMA DumpSteps ==
    ASSUME Inv, FileGone \/ NotQueued \/ WriteFails \/ QueueUnlink
    PROVE  Inv'
<1>1. Len(Ops) \in Nat /\ Ops \in Seq(OpType) /\ input \in Inputs
  BY Zenon, OpsType DEF Inv
<1>2. /\ UNCHANGED <<input, fs, buf, records_written, cell, head, tail, avail, force>>
      /\ Ops' = Ops
  BY Zenon DEF FileGone, NotQueued, WriteFails, QueueUnlink, dumpVars, listVars, Ops
<1>3. \/ i' = i + 1 /\ i <= Len(Ops) /\ done' \in {0, done} /\ pc = "dump" /\ pc' = pc
      \/ UNCHANGED <<i, done>>
  BY Zenon DEF FileGone, NotQueued, WriteFails, QueueUnlink, dumpVars, Dumping
<1>4. TypeOK'
  <2>1. {p', prev'} \subseteq 0..Len(cell)
    BY DEF Inv, TypeOK, FileGone, NotQueued, WriteFails, QueueUnlink
  <2>2. i' \in 1..Len(Ops) + 1 /\ done' \in Nat
    BY <1>1, <1>3 DEF Inv, TypeOK
  <2>3. pc' \in {"dump", "insert", "scan", "last", "done", "fatal"}
    BY Zenon DEF Inv, TypeOK, FileGone, NotQueued, WriteFails, QueueUnlink
  <2>. QED BY Zenon, <1>2, <2>1, <2>2, <2>3 DEF Inv, TypeOK
<1>5. Control'
  BY Zenon, <1>1, <1>2 DEF Inv, Control, TypeOK, FileGone, NotQueued, WriteFails,
     QueueUnlink, Dumping, dumpVars, Op
<1>6. ASSUME NEW c \in 1..Len(cell)
      PROVE  CellSafe(cell[c])'
  <2>1. CellSafe(cell[c]) /\ cell[c].tok \in Nat /\ i \in Nat
    BY Zenon, Facts
  <2>2. cell[c].tok < i'
    BY <1>3, <2>1 DEF CellSafe
  <2>. QED BY Zenon, <1>2, <2>1, <2>2 DEF CellSafe
<1>7. NoEarlyUnlink'
  <2>. SUFFICES ASSUME NEW j \in 1..Len(Ops), NEW o \in {Ops[j].obj} \ fs, Dumps(j, o)
                PROVE  /\ j < i' \/ (j = i' /\ done' = Ops[j].blocks)
                       /\ \A k \in 1..Len(buf) : buf[k] # j
    BY <1>2 DEF NoEarlyUnlink, Dumps
  <2>1. /\ j < i \/ (j = i /\ done = Ops[j].blocks)
        /\ \A k \in 1..Len(buf) : buf[k] # j
    BY Zenon DEF Inv, NoEarlyUnlink
  <2>2. i \in Nat
    BY Zenon, Facts
  <2>. QED BY <1>1, <1>3, <2>1, <2>2
<1>. QED BY Zenon, <1>1, <1>2, <1>4, <1>5, <1>6, <1>7 DEF Inv

\* What PutBlock does to the record buffer.
PutTo(b, e) == IF Len(b) = BF THEN <<e>> ELSE Append(b, e)

LEMMA PutFacts ==
    ASSUME NEW n \in Nat, NEW b \in Seq(1..n), Len(b) <= BF, NEW e \in 1..n
    PROVE  /\ PutTo(b, e) \in Seq(1..n) /\ Len(PutTo(b, e)) <= BF
           /\ \A k \in 1..Len(PutTo(b, e)) :
                 PutTo(b, e)[k] = e \/ (k \in 1..Len(b) /\ PutTo(b, e)[k] = b[k])
           /\ Len(b) = BF => \A k \in 1..Len(PutTo(b, e)) : PutTo(b, e)[k] = e
<1>1. CASE Len(b) = BF
  <2>1. PutTo(b, e) = <<e>> /\ <<e>> \in Seq(1..n) /\ Len(<<e>>) = 1 /\ <<e>>[1] = e
    BY <1>1 DEF PutTo
  <2>2. BF >= 1
    BY BFAssumption
  <2>. QED BY <1>1, <2>1, <2>2
<1>2. CASE Len(b) # BF
  <2>1. PutTo(b, e) = Append(b, e)
    BY Zenon, <1>2 DEF PutTo
  <2>2. Len(b) + 1 <= BF
    BY <1>2, BFAssumption
  <2>. QED BY <1>2, <2>1, <2>2
<1>. QED BY Zenon, <1>1, <1>2

LEMMA PutBlockStep ==
    ASSUME Inv, PutBlock
    PROVE  Inv'
<1>1. Len(Ops) \in Nat /\ Ops \in Seq(OpType) /\ input \in Inputs
  BY Zenon, OpsType DEF Inv
<1>2. /\ UNCHANGED <<input, fs, i, cell, head, tail, avail, force, pc, p, prev>>
      /\ Ops' = Ops
  BY Zenon DEF PutBlock, listVars, Ops
<1>3. pc = "dump" /\ i \in 1..Len(Ops) /\ done < Ops[i].blocks /\ done' = done + 1
  BY DEF PutBlock, Dumping, Inv, TypeOK, Op
<1>4. PICK d : buf' = d
  BY Zenon
<1>5. /\ d = PutTo(buf, i)
      /\ records_written' = IF Len(buf) = BF THEN records_written + 1 ELSE records_written
  BY Zenon, <1>4 DEF PutBlock, Full, PutTo
<1>6. /\ d \in Seq(1..Len(Ops)) /\ Len(d) <= BF
      /\ \A k \in 1..Len(d) : d[k] = i \/ (k \in 1..Len(buf) /\ d[k] = buf[k])
      /\ Len(buf) = BF => \A k \in 1..Len(d) : d[k] = i
  <2>1. buf \in Seq(1..Len(Ops)) /\ Len(buf) <= BF
    BY Zenon DEF Inv, TypeOK
  <2>. QED BY ONLY <1>1, <1>3, <1>5, <2>1, PutFacts
<1>7. TypeOK'
  <2>1. records_written' \in Nat /\ done' \in Nat
    BY <1>3, <1>5, Facts
  <2>. QED BY Zenon, <1>2, <1>3, <1>4, <1>6, <2>1 DEF Inv, TypeOK
<1>8. Control'
  BY Zenon, <1>2, <1>3 DEF Inv, Control, Op
<1>9. ASSUME NEW c \in 1..Len(cell)
      PROVE  CellSafe(cell[c])'
  <2>1. /\ CellSafe(cell[c]) /\ cell[c].tok \in Nat /\ cell[c].rw \in Nat
        /\ records_written \in Nat /\ i \in Nat
    BY Zenon, Facts
  <2>2. ASSUME cell[c].rw < records_written', NEW k \in 1..Len(d)
        PROVE  d[k] > cell[c].tok
    <3>1. CASE d[k] = i
      BY Zenon, <2>1, <3>1 DEF CellSafe
    <3>2. CASE d[k] # i
      <4>1. k \in 1..Len(buf) /\ d[k] = buf[k] /\ records_written' = records_written
        BY Zenon, <1>5, <1>6, <3>2
      <4>. QED BY Zenon, <2>1, <2>2, <4>1 DEF CellSafe
    <3>. QED BY Zenon, <3>1, <3>2
  <2>. QED BY Zenon, <1>2, <1>4, <2>1, <2>2 DEF CellSafe
<1>10. NoEarlyUnlink'
  <2>. SUFFICES ASSUME NEW j \in 1..Len(Ops), NEW o \in {Ops[j].obj} \ fs, Dumps(j, o)
                PROVE  /\ j < i
                       /\ \A k \in 1..Len(d) : d[k] # j
    BY Zenon, <1>2, <1>4 DEF NoEarlyUnlink, Dumps
  <2>1. /\ j < i \/ (j = i /\ done = Ops[j].blocks)
        /\ \A k \in 1..Len(buf) : buf[k] # j
    BY Zenon DEF Inv, NoEarlyUnlink
  <2>2. Ops[i].blocks \in Nat /\ done \in Nat /\ i \in Nat
    <3>1. Ops[i] \in OpType
      BY <1>1, <1>3
    <3>2. Ops[i].blocks \in Nat
      BY Zenon, <3>1 DEF OpType
    <3>. QED BY Zenon, <3>2, Facts
  <2>3. j < i
    BY <1>3, <2>1, <2>2
  <2>. QED BY <1>1, <1>6, <2>1, <2>2, <2>3
<1>. QED BY Zenon, <1>1, <1>2, <1>7, <1>8, <1>9, <1>10 DEF Inv

LEMMA CloseStep ==
    ASSUME Inv, CloseArchive
    PROVE  Inv'
<1>1. Len(Ops) \in Nat /\ Ops \in Seq(OpType) /\ input \in Inputs
  BY Zenon, OpsType DEF Inv
<1>2. /\ UNCHANGED <<input, fs, i, done, cell, head, tail, avail>>
      /\ Ops' = Ops /\ buf' = <<>> /\ pc' = "scan" /\ force' = TRUE
      /\ p' = head /\ prev' = 0 /\ i > Len(Ops)
  BY Zenon DEF CloseArchive, listVars, Ops
<1>3. records_written' \in Nat
  <2>1. BF \in Nat /\ BF > 0 /\ Len(buf) \in Nat /\ records_written \in Nat
    BY BFAssumption, Facts
  <2>2. (Len(buf) + 1 + BF) \div BF \in Nat
    BY <2>1
  <2>. QED BY <2>1, <2>2 DEF CloseArchive
<1>4. <<>> \in Seq(1..Len(Ops)) /\ Len(<<>>) = 0 /\ 0 <= BF /\ i = Len(Ops) + 1
  BY <1>1, <1>2, BFAssumption, Facts
<1>5. TypeOK'
  BY <1>2, <1>3, <1>4 DEF Inv, TypeOK
<1>6. Control'
  BY Zenon, <1>2, <1>4 DEF Control
<1>7. ASSUME NEW c \in 1..Len(cell)
      PROVE  CellSafe(cell[c])'
  <2>1. CellSafe(cell[c])
    BY Zenon, Facts
  <2>. QED BY <1>2, <1>4, <2>1 DEF CellSafe
<1>8. NoEarlyUnlink'
  BY <1>1, <1>2, <1>4 DEF NoEarlyUnlink
<1>. QED BY Zenon, <1>1, <1>2, <1>5, <1>6, <1>7, <1>8 DEF Inv

\* A step of a loop that only moves p and prev.
LEMMA MoveSteps ==
    ASSUME Inv, FindPlace \/ ScanKeep
    PROVE  Inv'
<1>1. /\ UNCHANGED <<input, fs, i, done, buf, records_written>>
      /\ UNCHANGED <<cell, head, tail, avail, pc, force>>
      /\ Ops' = Ops /\ p # 0 /\ prev' = p /\ p' = cell[p].next
  BY Zenon DEF FindPlace, ScanKeep, Skip, dumpVars, listVars, Ops
<1>2. p \in 1..Len(cell)
  <2>1. p \in 0..Len(cell) /\ Len(cell) \in Nat
    BY Zenon, Facts DEF Inv, TypeOK
  <2>. QED BY <1>1, <2>1
<1>3. {p', prev'} \subseteq 0..Len(cell)
  BY <1>1, <1>2, Facts
<1>4. TypeOK'
  BY Zenon, <1>1, <1>3 DEF Inv, TypeOK
<1>5. Control'
  BY Zenon, <1>1 DEF Inv, Control, Op
<1>6. \A c \in 1..Len(cell) : CellSafe(cell[c])'
  BY Zenon, <1>1 DEF Inv, CellSafe
<1>7. NoEarlyUnlink'
  BY <1>1 DEF Inv, NoEarlyUnlink, Dumps
<1>. QED BY Zenon, <1>1, <1>4, <1>5, <1>6, <1>7 DEF Inv

\* The end of a loop.
LEMMA EndSteps ==
    ASSUME Inv, ScanEnd \/ LastEnd
    PROVE  Inv'
<1>1. /\ UNCHANGED <<input, fs, i, done, buf, records_written>>
      /\ UNCHANGED <<cell, avail, force>>
      /\ Ops' = Ops /\ head' \in {0, head} /\ tail' \in {0, tail}
      /\ p' \in {p, head} /\ prev' \in {0, prev}
  BY Zenon DEF ScanEnd, LastEnd, TailAfter, dumpVars, Ops
<1>2. \/ pc = "last" /\ pc' = "done"
      \/ pc = "scan" /\ force /\ pc' \in {"done", "last"}
      \/ pc = "scan" /\ ~force /\ pc' = "insert"
  BY Zenon DEF ScanEnd, LastEnd, Inv, TypeOK
<1>3. {head', tail', avail', p', prev'} \subseteq 0..Len(cell)
  <2>1. /\ {head, tail, avail, p, prev} \subseteq 0..Len(cell)
        /\ 0 \in 0..Len(cell)
    BY Facts DEF Inv, TypeOK
  <2>. QED BY Zenon, <1>1, <2>1
<1>4. TypeOK'
  BY Zenon, <1>1, <1>2, <1>3 DEF Inv, TypeOK
<1>5. Control'
  BY Zenon, <1>1, <1>2 DEF Inv, Control, Op
<1>6. \A c \in 1..Len(cell) : CellSafe(cell[c])'
  BY Zenon, <1>1 DEF Inv, CellSafe
<1>7. NoEarlyUnlink'
  BY <1>1 DEF Inv, NoEarlyUnlink, Dumps
<1>. QED BY Zenon, <1>1, <1>4, <1>5, <1>6, <1>7 DEF Inv

\* The cells after dunlink_alloc and the assignments to the new entry.
LEMMA AllocFacts ==
    ASSUME Inv, i <= Len(Ops)
    PROVE  /\ WithNewCell \in Seq(CellType(Len(WithNewCell), Len(Ops)))
           /\ Alloc \in 1..Len(WithNewCell)
           /\ Len(cell) <= Len(WithNewCell) /\ Len(WithNewCell) \in Nat
           /\ \A e \in 1..Len(WithNewCell) :
                 \/ WithNewCell[e] = NewCell
                 \/ e \in 1..Len(cell) /\ WithNewCell[e] = cell[e]
<1>1. /\ cell \in Seq(CellType(Len(cell), Len(Ops))) /\ avail \in 0..Len(cell)
      /\ Len(cell) \in Nat /\ Len(Ops) \in Nat
  BY Zenon, Facts, OpsType DEF Inv, TypeOK, CellType
<1>2. NewCell \in CellType(Len(cell), Len(Ops))
  BY <1>1, Facts DEF NewCell, CellType
<1>3. CASE avail = 0
  <2> DEFINE w == Append(cell, NewCell)
  <2>2. /\ w \in Seq(CellType(Len(cell) + 1, Len(Ops)))
        /\ Len(w) = Len(cell) + 1
        /\ \A e \in 1..Len(cell) + 1 :
              w[e] = IF e = Len(cell) + 1 THEN NewCell ELSE cell[e]
    BY ONLY <1>1, <1>2, AddCell
  <2> HIDE DEF w
  <2>3. Alloc = Len(cell) + 1 /\ WithNewCell = w
    BY Zenon, <1>3 DEF Alloc, WithNewCell, w
  <2>. QED BY <1>1, <2>2, <2>3
<1>4. CASE avail # 0
  <2> DEFINE w == WithCell(cell, avail, NewCell)
  <2>1. avail \in 1..Len(cell)
    BY <1>1, <1>4
  <2>2. /\ w \in Seq(CellType(Len(cell), Len(Ops)))
        /\ Len(w) = Len(cell)
        /\ \A e \in 1..Len(cell) : w[e] = IF e = avail THEN NewCell ELSE cell[e]
    <3>1. cell \in [1..Len(cell) -> CellType(Len(cell), Len(Ops))]
      BY ONLY <1>1
    <3>2. w \in [1..Len(cell) -> CellType(Len(cell), Len(Ops))]
      BY ONLY Zenon, <1>2, <2>1, <3>1 DEF WithCell
    <3>3. w \in Seq(CellType(Len(cell), Len(Ops))) /\ Len(w) = Len(cell)
      BY ONLY <1>1, <3>2
    <3>4. \A e \in 1..Len(cell) : w[e] = IF e = avail THEN NewCell ELSE cell[e]
      BY ONLY Zenon, <2>1, <3>1 DEF WithCell
    <3>. QED BY ONLY Zenon, <3>3, <3>4
  <2>3. Alloc = avail /\ WithNewCell = w
    BY Zenon, <1>4 DEF Alloc, WithNewCell, WithCell
  <2> HIDE DEF w
  <2>. QED BY <1>1, <2>1, <2>2, <2>3
<1>. QED BY Zenon, <1>3, <1>4

LEMMA AddEntryStep ==
    ASSUME Inv, AddEntry
    PROVE  Inv'
<1>1. Len(Ops) \in Nat /\ Ops \in Seq(OpType) /\ input \in Inputs
  BY Zenon, OpsType DEF Inv
<1>2. /\ UNCHANGED <<input, fs, buf, records_written, force, p, prev>>
      /\ Ops' = Ops /\ pc = "insert" /\ pc' = "dump" /\ i' = i + 1 /\ done' = 0
      /\ avail' = AvailAfter
      /\ Insert(WithNewCell, Anchor, Alloc)
  BY Zenon DEF AddEntry, Ops
<1>3. ~force /\ i <= Len(Ops) /\ Op.op # "open"
  BY Zenon, <1>2 DEF Inv, Control
<1>4. /\ {head, tail, avail, p, prev} \subseteq 0..Len(cell)
      /\ Len(cell) \in Nat
  BY Zenon, Facts DEF Inv, TypeOK
<1> DEFINE cs == WithNewCell
           c  == Alloc
           a  == Anchor
<1>5. /\ cs \in Seq(CellType(Len(cs), Len(Ops)))
      /\ c \in 1..Len(cs)
      /\ Len(cell) <= Len(cs) /\ Len(cs) \in Nat
      /\ \A e \in 1..Len(cs) :
            cs[e] = NewCell \/ (e \in 1..Len(cell) /\ cs[e] = cell[e])
  BY Zenon, <1>3, AllocFacts
<1>6. a \in 0..Len(cell)
  BY Zenon, <1>4 DEF Anchor
<1>7. PICK d : cell' = d
  BY Zenon
<1>8. /\ d = IF a # 0 THEN WithNext(WithNext(cs, c, cs[a].next), a, c)
              ELSE WithNext(cs, c, head)
      /\ head' \in {head, c} /\ tail' \in {tail, c}
  BY Zenon, <1>2, <1>7 DEF Insert, WithNext
<1> HIDE DEF cs, c, a
<1>9. /\ d \in Seq(CellType(Len(cs), Len(Ops)))
      /\ Len(d) = Len(cs)
      /\ \A e \in 1..Len(cs) : d[e].tok = cs[e].tok /\ d[e].rw = cs[e].rw
  <2>1. CASE a # 0
    <3>1. a \in 1..Len(cs)
      BY <1>4, <1>5, <1>6, <2>1
    <3>2. cs[a].next \in 0..Len(cs)
      <4>1. cs[a] \in CellType(Len(cs), Len(Ops))
        BY <1>5, <3>1
      <4>. QED BY Zenon, <4>1 DEF CellType
    <3>3. PICK f : f = WithNext(cs, c, cs[a].next)
      BY Zenon
    <3>4. /\ f \in Seq(CellType(Len(cs), Len(Ops)))
          /\ Len(f) = Len(cs)
          /\ \A e \in 1..Len(cs) : f[e].tok = cs[e].tok /\ f[e].rw = cs[e].rw
      <4>1. PICK k, x : k = Len(Ops) /\ x = cs[a].next
        BY Zenon
      <4>2. Len(cs) \in Nat /\ k \in Nat /\ cs \in Seq(CellType(Len(cs), k))
            /\ c \in 1..Len(cs) /\ x \in 0..Len(cs)
        BY ONLY Zenon, <1>1, <1>5, <3>2, <4>1
      <4>3. /\ WithNext(cs, c, x) \in Seq(CellType(Len(cs), k))
            /\ Len(WithNext(cs, c, x)) = Len(cs)
            /\ \A e \in 1..Len(cs) : /\ WithNext(cs, c, x)[e].tok = cs[e].tok
                                      /\ WithNext(cs, c, x)[e].rw = cs[e].rw
        BY ONLY Zenon, <4>2, SetNext
      <4>. QED BY ONLY Zenon, <3>3, <4>1, <4>3
    <3>5. d = WithNext(f, a, c) /\ c \in 0..Len(cs) /\ a \in 1..Len(f)
      BY <1>5, <1>8, <2>1, <3>1, <3>3, <3>4
    <3>6. /\ d \in Seq(CellType(Len(cs), Len(Ops)))
          /\ Len(d) = Len(f)
          /\ \A e \in 1..Len(f) : d[e].tok = f[e].tok /\ d[e].rw = f[e].rw
      BY ONLY <1>1, <1>5, <3>4, <3>5, SetNext
    <3>. QED BY Zenon, <3>4, <3>6
  <2>2. CASE a = 0
    <3>1. d = WithNext(cs, c, head) /\ head \in 0..Len(cs)
      BY <1>4, <1>5, <1>8, <2>2
    <3>. QED BY ONLY <1>1, <1>5, <3>1, SetNext
  <2>. QED BY Zenon, <2>1, <2>2
<1>10. {head', tail', avail', p', prev'} \subseteq 0..Len(d)
  <2>1. AvailAfter \in 0..Len(cell)
    <3>1. CASE avail = 0
      BY Zenon, <1>4, <3>1 DEF AvailAfter
    <3>2. CASE avail # 0
      <4>1. avail \in 1..Len(cell)
        BY <1>4, <3>2
      <4>. QED BY Zenon, <3>2, <4>1, Facts DEF AvailAfter
    <3>. QED BY Zenon, <3>1, <3>2
  <2>. QED BY <1>2, <1>4, <1>5, <1>8, <1>9, <2>1
<1>11. TypeOK'
  <2>1. i' \in 1..Len(Ops) + 1 /\ done' \in Nat
    BY <1>1, <1>2, <1>3, Facts
  <2>2. d \in Seq([next : 0..Len(d), tok : 1..Len(Ops), rw : Nat])
    BY Zenon, <1>9 DEF CellType
  <2>. QED BY Zenon, <1>2, <1>7, <1>10, <2>1, <2>2 DEF Inv, TypeOK
<1>12. Control'
  BY Zenon, <1>2, <1>3 DEF Control
<1>13. ASSUME NEW e \in 1..Len(d)
       PROVE  CellSafe(d[e])'
  <2>1. d[e].tok = cs[e].tok /\ d[e].rw = cs[e].rw
    BY Zenon, <1>9
  <2>2. i \in Nat /\ records_written \in Nat
    BY Zenon, Facts
  <2>3. CASE cs[e] = NewCell
    <3>1. cs[e].tok = i /\ cs[e].rw = records_written
      BY <2>3 DEF NewCell
    <3>. QED BY <1>2, <1>3, <2>1, <2>2, <3>1 DEF CellSafe, Op
  <2>4. CASE e \in 1..Len(cell) /\ cs[e] = cell[e]
    <3>1. CellSafe(cell[e]) /\ cell[e].tok \in Nat
      BY Zenon, <2>4, Facts
    <3>. QED BY <1>2, <2>1, <2>2, <2>4, <3>1 DEF CellSafe
  <2>. QED BY Zenon, <1>5, <1>9, <2>3, <2>4
<1>14. NoEarlyUnlink'
  <2>. SUFFICES ASSUME NEW j \in 1..Len(Ops), NEW o \in {Ops[j].obj} \ fs, Dumps(j, o)
                PROVE  j < i + 1 /\ \A k \in 1..Len(buf) : buf[k] # j
    BY Zenon, <1>2 DEF NoEarlyUnlink, Dumps
  <2>1. /\ j <= i
        /\ \A k \in 1..Len(buf) : buf[k] # j
    BY <1>1, Facts DEF Inv, NoEarlyUnlink
  <2>. QED BY <1>1, <2>1, Facts
<1>. QED BY Zenon, <1>1, <1>2, <1>7, <1>11, <1>12, <1>13, <1>14 DEF Inv

\* A removal that is due may happen.
LEMMA RemovalSafe ==
    ASSUME Inv, p \in 1..Len(cell), Due(p),
           NEW j \in 1..Len(Ops), Dumps(j, Obj(p))
    PROVE  j < i /\ \A k \in 1..Len(buf) : buf[k] # j
<1>1. /\ Len(Ops) \in Nat /\ input \in Inputs
      /\ cell[p].tok \in 1..Len(Ops) /\ cell[p].tok \in Nat
      /\ CellSafe(cell[p]) /\ i \in Nat
      /\ \A k \in 1..Len(buf) : buf[k] \in Nat
  BY Zenon, Facts, OpsType DEF Inv
<1>2. j <= cell[p].tok
  BY Zenon, <1>1, DumpedBefore DEF Obj, CellSafe
<1>3. j < i
  BY <1>1, <1>2 DEF CellSafe
<1>4. CASE force
  BY <1>3, <1>4 DEF Inv, Control
<1>5. CASE ~force
  <2>1. \A k \in 1..Len(buf) : buf[k] > cell[p].tok
    BY Zenon, <1>1, <1>5 DEF Due, CellSafe
  <2>. QED BY <1>1, <1>2, <1>3, <2>1
<1>. QED BY Zenon, <1>4, <1>5

LEMMA RemoveSteps ==
    ASSUME Inv, ScanRemove \/ LastRemove
    PROVE  Inv'
<1>1. Len(Ops) \in Nat /\ Ops \in Seq(OpType) /\ input \in Inputs
  BY Zenon, OpsType DEF Inv
<1>2. /\ UNCHANGED <<input, i, done, buf, records_written, tail, pc, force, prev>>
      /\ Ops' = Ops /\ avail' = p /\ p # 0 /\ p' = cell[p].next
      /\ head' \in {head, cell[p].next}
      /\ fs' \in {fs, fs \ {Obj(p)}}
  BY Zenon DEF ScanRemove, LastRemove, AfterUnlink, Ops
<1>3. /\ {head, tail, avail, p, prev} \subseteq 0..Len(cell)
      /\ Len(cell) \in Nat
  BY Zenon, Facts DEF Inv, TypeOK
<1>4. p \in 1..Len(cell) /\ cell[p].next \in 0..Len(cell)
  BY <1>2, <1>3, Facts
<1>5. Due(p)
  BY Zenon DEF ScanRemove, LastRemove, Due, Inv, Control
<1>6. PICK d : cell' = d
  BY Zenon
<1> DEFINE f == WithNext(cell, p, avail)
<1>7. d = f \/ (prev # 0 /\ d = WithNext(f, prev, cell[p].next))
  BY Zenon, <1>6 DEF ScanRemove, LastRemove, WithNext
<1>8. cell \in Seq(CellType(Len(cell), Len(Ops)))
  BY Zenon DEF Inv, TypeOK, CellType
<1>9. /\ f \in Seq(CellType(Len(cell), Len(Ops)))
      /\ Len(f) = Len(cell)
      /\ \A e \in 1..Len(cell) : f[e].tok = cell[e].tok /\ f[e].rw = cell[e].rw
  BY ONLY <1>1, <1>3, <1>4, <1>8, SetNext
<1> HIDE DEF f
<1>10. /\ d \in Seq(CellType(Len(cell), Len(Ops)))
       /\ Len(d) = Len(cell)
       /\ \A e \in 1..Len(cell) : d[e].tok = cell[e].tok /\ d[e].rw = cell[e].rw
  <2>1. CASE d = f
    BY Zenon, <1>9, <2>1
  <2>2. CASE prev # 0 /\ d = WithNext(f, prev, cell[p].next)
    <3>1. prev \in 1..Len(f)
      BY <1>3, <1>9, <2>2
    <3>2. /\ d \in Seq(CellType(Len(cell), Len(Ops)))
          /\ Len(d) = Len(f)
          /\ \A e \in 1..Len(f) : d[e].tok = f[e].tok /\ d[e].rw = f[e].rw
      BY ONLY <1>1, <1>3, <1>4, <1>9, <2>2, <3>1, SetNext
    <3>. QED BY Zenon, <1>9, <3>2
  <2>. QED BY Zenon, <1>7, <2>1, <2>2
<1>11. TypeOK'
  <2>1. {head', tail', avail', p', prev'} \subseteq 0..Len(d)
    BY <1>2, <1>3, <1>4, <1>10
  <2>2. d \in Seq([next : 0..Len(d), tok : 1..Len(Ops), rw : Nat])
    BY Zenon, <1>10 DEF CellType
  <2>. QED BY Zenon, <1>2, <1>6, <2>1, <2>2 DEF Inv, TypeOK
<1>12. Control'
  BY Zenon, <1>2 DEF Inv, Control, Op
<1>13. ASSUME NEW e \in 1..Len(d)
       PROVE  CellSafe(d[e])'
  <2>1. CellSafe(cell[e]) /\ d[e].tok = cell[e].tok /\ d[e].rw = cell[e].rw
    BY Zenon, <1>10, Facts
  <2>. QED BY Zenon, <1>2, <2>1 DEF CellSafe
<1>14. NoEarlyUnlink'
  <2>. SUFFICES ASSUME NEW j \in 1..Len(Ops), NEW o \in {Ops[j].obj} \ fs', Dumps(j, o)
                PROVE  /\ j < i \/ (j = i /\ done = Ops[j].blocks)
                       /\ \A k \in 1..Len(buf) : buf[k] # j
    BY <1>2 DEF NoEarlyUnlink, Dumps
  <2>1. CASE o \notin fs
    BY Zenon, <2>1 DEF Inv, NoEarlyUnlink
  <2>2. CASE o \in fs
    <3>1. o = Obj(p)
      BY Zenon, <1>2, <2>2
    <3>. QED BY Zenon, <1>4, <1>5, <3>1, RemovalSafe
  <2>. QED BY Zenon, <2>1, <2>2
<1>. QED BY Zenon, <1>1, <1>2, <1>6, <1>11, <1>12, <1>13, <1>14 DEF Inv

LEMMA Stutter ==
    ASSUME Inv, UNCHANGED vars
    PROVE  Inv'
<1>1. /\ UNCHANGED <<input, fs, i, done, buf, records_written, cell>>
      /\ UNCHANGED <<head, tail, avail, pc, force, p, prev>>
      /\ Ops' = Ops
  BY Zenon DEF vars, dumpVars, listVars, Ops
<1>. QED BY <1>1 DEF Inv, TypeOK, Control, CellSafe, NoEarlyUnlink, Dumps, Op

LEMMA NextInv == Inv /\ [Next]_vars => Inv'
<1>. SUFFICES ASSUME Inv, [Next]_vars PROVE Inv'
  BY Zenon
<1>1. CASE FileGone \/ NotQueued \/ WriteFails \/ QueueUnlink
  BY Zenon, <1>1, DumpSteps
<1>2. CASE PutBlock
  BY Zenon, <1>2, PutBlockStep
<1>3. CASE CloseArchive
  BY Zenon, <1>3, CloseStep
<1>4. CASE AddEntry
  BY Zenon, <1>4, AddEntryStep
<1>5. CASE FindPlace \/ ScanKeep
  BY Zenon, <1>5, MoveSteps
<1>6. CASE ScanRemove \/ LastRemove
  BY Zenon, <1>6, RemoveSteps
<1>7. CASE ScanEnd \/ LastEnd
  BY Zenon, <1>7, EndSteps
<1>8. CASE UNCHANGED vars
  BY Zenon, <1>8, Stutter
<1>. QED BY Zenon, <1>1, <1>2, <1>3, <1>4, <1>5, <1>6, <1>7, <1>8 DEF Next

-----------------------------------------------------------------------------
\* Queueing and flushing keep every variable in its type, so that every link
\* of the list is NULL or a cell, whatever is dumped.
THEOREM UnlinkTypes == Spec => []TypeOK
<1>1. Inv => TypeOK
  BY Zenon DEF Inv
<1>. QED BY <1>1, InitInv, NextInv, PTL DEF Spec

\* Whatever is dumped in whatever order, flush_deferred_unlinks removes nothing
\* whose blocks are not all in records that have been written: the comparison
\* of records_written is right for every blocking factor, also for entries in
\* cells that are used again.
THEOREM UnlinkAfterWrite == Spec => []NoEarlyUnlink
<1>1. Inv => NoEarlyUnlink
  BY Zenon DEF Inv
<1>. QED BY <1>1, InitInv, NextInv, PTL DEF Spec
=============================================================================
