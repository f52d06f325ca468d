--------------------------- MODULE ChildrenProofs ---------------------------
(***************************************************************************)
(* Proofs about Children, for every capacity of a pipe, size of a record,  *)
(* length of the archive and set of scenarios: the exit status of tar is   *)
(* right about all the processes it has started.  The three kinds of       *)
(* process trees (compressing, decompressing, scripts) never mix, and each *)
(* has an inductive invariant of its own.                                  *)
(***************************************************************************)
EXTENDS Children, TLAPS

PR == <<"p", "r">>
PW == <<"p", "w">>
CR == <<"c", "r">>
CW == <<"c", "w">>
Ends == {PR, PW, CR, CW}
Codes == {None, Run, 0, 1, 2, SIGPIPE, SIGKILL}
Nobody(e) == e \notin fds["tar"] /\ e \notin fds["kid"] /\ e \notin fds["grand"]
Under == src + buf["p"] + held["grand"] + buf["c"]

\* The types of the variables.
TypeOK ==
    /\ sc \in Scenarios
    /\ pc = [q \in Procs |-> pc[q]] /\ status \in [Procs -> Codes]
    /\ fds \in [Procs -> SUBSET Ends]
    /\ buf \in [{"p", "c"} -> Nat] /\ held \in [Procs -> Nat]
    /\ src \in Nat /\ got \in Nat /\ eof \in BOOLEAN /\ error \in {0, 2}

-----------------------------------------------------------------------------
(* Compression.                                                            *)

\* Where each process can be, and which processes there are.
CControl ==
    /\ pc["tar"] \in {"open", "close_end", "write", "close", "wait"}
    /\ status["tar"] \in {Run, 0, 2}
    /\ pc["tar"] # "wait" => status["tar"] = Run
    /\ status["kid"] = None <=> pc["tar"] = "open"
    /\ status["kid"] # None => pc["kid"] \in IF sc.regular THEN {"new", "exec", "prog"}
                                             ELSE {"new", "fork", "open", "gather", "last", "wait"}
    /\ status["kid"] # None /\ pc["kid"] \in {"new", "fork"} => status["kid"] = Run
    /\ status["grand"] = None <=> sc.regular \/ status["kid"] = None \/ pc["kid"] \in {"new", "fork"}
    /\ status["grand"] # None => pc["grand"] \in {"new", "exec", "prog"}
    /\ eof = FALSE

\* Which ends of the pipes each process has.
CEnds ==
    /\ status["tar"] # Run \/ pc["tar"] \in {"open", "wait"} => fds["tar"] = {}
    /\ pc["tar"] = "close_end" => fds["tar"] = {PR, PW}
    /\ pc["tar"] \in {"write", "close"} => fds["tar"] = {PW}
    /\ status["kid"] # Run => fds["kid"] = {}
    /\ status["kid"] = Run => /\ pc["kid"] = "new" => fds["kid"] = {PR, PW}
                              /\ pc["kid"] \in {"exec", "prog", "fork"} => fds["kid"] = {PR}
                              /\ pc["kid"] = "open" => fds["kid"] = {PR, CR, CW}
                              /\ pc["kid"] \in {"gather", "last", "wait"} => fds["kid"] = {CR}
    /\ status["grand"] # Run => fds["grand"] = {}
    /\ status["grand"] = Run => /\ pc["grand"] = "new" => fds["grand"] = {PR, CR, CW}
                                /\ pc["grand"] \in {"exec", "prog"} => fds["grand"] = {PR, CW}

\* The second tar has written its last record.
PastLast == ~sc.regular /\ status["kid"] # None /\ pc["kid"] = "wait"

\* No block is lost or made up: those that are under way and those that have
\* arrived are all.  The last record of a second tar is filled up.
CFlow ==
    /\ ~PastLast => Under + held["kid"] + got = N
    /\ PastLast => got < N - Under + Rec /\ N - Under <= got /\ held["kid"] = 0
    /\ IF sc.regular THEN held["grand"] = 0 /\ buf["c"] = 0 ELSE held["kid"] <= Rec
    /\ ~sc.regular /\ status["kid"] # None /\ pc["kid"] = "last" => held["kid"] < Rec
CRecords == ~sc.regular => \E k \in Nat : got = k * Rec

\* What is known of the data when a process has done its part.
CDone ==
    /\ pc["tar"] = "close" => error = 2
    /\ pc["tar"] = "wait" /\ error = 0 => src = 0
    /\ sc.regular /\ status["kid"] = 0 => held["kid"] = 0 /\ buf["p"] = 0 /\ Nobody(PW)
    /\ status["grand"] = 0 => held["grand"] = 0 /\ buf["p"] = 0 /\ Nobody(PW)
    /\ ~sc.regular /\ status["kid"] # None /\ pc["kid"] \in {"last", "wait"} => buf["c"] = 0 /\ Nobody(CW)

\* How the processes have ended: the second tar as the compressor did, unless
\* it failed itself or lost the reader of the archive, and tar as its child did.
CStatus ==
    /\ status["kid"] = SIGPIPE => sc.pipe
    /\ ~sc.regular /\ status["kid"] \notin {None, Run} =>
         \/ status["kid"] = 2 \/ status["kid"] = SIGPIPE
         \/ status["kid"] = status["grand"] /\ status["kid"] # SIGPIPE /\ pc["kid"] = "wait"
    /\ status["grand"] = SIGPIPE => status["kid"] = 2 \/ status["kid"] = SIGPIPE
    /\ status["tar"] # Run =>
         /\ status["kid"] \notin {None, Run}
         /\ status["tar"] = IF WaitForChild(status["kid"], eof) # 0 THEN 2 ELSE error

CInv == CControl /\ CEnds /\ CFlow /\ CRecords /\ CDone /\ CStatus

-----------------------------------------------------------------------------
(* Decompression.                                                          *)

Uncompress == sc.mode = "uncompress"

\* Where each process can be, and which processes there are.
UControl ==
    /\ pc["tar"] \in {"open", "close_end", "read", "close", "wait"}
    /\ status["tar"] \in {Run, 0, 2}
    /\ pc["tar"] # "wait" => status["tar"] = Run
    /\ status["kid"] = None <=> pc["tar"] = "open"
    /\ status["kid"] # None => pc["kid"] \in IF sc.regular THEN {"new", "exec", "prog"}
                                             ELSE {"new", "fork", "open", "record", "wait"}
    /\ status["kid"] # None /\ pc["kid"] \in {"new", "fork"} => status["kid"] = Run
    /\ status["grand"] = None <=> sc.regular \/ status["kid"] = None \/ pc["kid"] \in {"new", "fork"}
    /\ status["grand"] # None => pc["grand"] \in {"new", "exec", "prog"}
    /\ error = 0

\* Which ends of the pipes each process has.
UEnds ==
    /\ status["tar"] # Run \/ pc["tar"] \in {"open", "wait"} => fds["tar"] = {}
    /\ pc["tar"] = "close_end" => fds["tar"] = {PR, PW}
    /\ pc["tar"] \in {"read", "close"} => fds["tar"] = {PR}
    /\ status["kid"] # Run => fds["kid"] = {}
    /\ status["kid"] = Run => /\ pc["kid"] = "new" => fds["kid"] = {PR, PW}
                              /\ pc["kid"] \in {"exec", "prog", "fork"} => fds["kid"] = {PW}
                              /\ pc["kid"] = "open" => fds["kid"] = {PW, CR, CW}
                              /\ pc["kid"] = "record" => fds["kid"] = {CW}
                              /\ pc["kid"] = "wait" => fds["kid"] = {}
    /\ status["grand"] # Run => fds["grand"] = {}
    /\ status["grand"] = Run => /\ pc["grand"] = "new" => fds["grand"] = {PW, CR, CW}
                                /\ pc["grand"] \in {"exec", "prog"} => fds["grand"] = {PW, CR}

\* No block is lost or made up.
UFlow ==
    /\ Under + held["kid"] + got = N
    /\ sc.regular => held["grand"] = 0 /\ buf["c"] = 0

\* What is known of the data when a process has met the end of its input.
UDone ==
    /\ eof = TRUE => buf["p"] = 0 /\ Nobody(PW) /\ pc["tar"] \in {"close", "wait"}
    /\ sc.regular /\ status["kid"] = 0 => held["kid"] = 0 /\ src = 0
    /\ status["grand"] = 0 => held["grand"] = 0 /\ buf["c"] = 0 /\ Nobody(CW)
    /\ ~sc.regular /\ status["kid"] # None /\ pc["kid"] = "wait" => src = 0 /\ held["kid"] = 0
    /\ ~sc.regular /\ status["kid"] = 0 => status["grand"] = 0 /\ pc["kid"] = "wait"

\* How the processes have ended: a signal that no failure has caused means
\* that tar has closed the pipe before its end.
UStatus ==
    /\ status["grand"] = SIGPIPE \/ (status["kid"] = SIGPIPE /\ (sc.regular \/ ~sc.fails)) =>
         pc["tar"] = "wait" /\ eof = FALSE
    /\ ~sc.fails => status["kid"] \in {None, Run, 0, SIGPIPE} /\ status["grand"] \in {None, Run, 0, SIGPIPE}
    /\ status["tar"] # Run =>
         /\ status["kid"] \notin {None, Run}
         /\ status["tar"] = IF WaitForChild(status["kid"], eof) # 0 THEN 2 ELSE error

UInv == UControl /\ UEnds /\ UFlow /\ UDone /\ UStatus

-----------------------------------------------------------------------------
(* Scripts.                                                                *)

Scripts == sc.mode = "script"
SeenType == [job : Jobs, status : Codes, left : Nat, lines : Nat]
HasBad == \E i \in DOMAIN seen : Bad(seen[i])

\* Where each process can be, and for which script.
SControl ==
    /\ jobs \in Seq(Jobs) /\ seen \in Seq(SeenType)
    /\ pc["tar"] \in {"open", "script_end", "feed", "line", "poll", "script_wait"}
    /\ status["grand"] = None /\ eof = FALSE
    /\ status["kid"] = Run => pc["kid"] \in {"script_new", "script"}
    /\ status["tar"] = Run /\ pc["tar"] = "open" => status["kid"] # Run
    /\ status["tar"] = Run /\ pc["tar"] # "open" =>
         /\ jobs # <<>> /\ status["kid"] # None
         /\ pc["tar"] = "feed" => Job = "command"
         /\ pc["tar"] = "line" => Job = "info"
         /\ pc["tar"] = "poll" => Job = "mtime"
         /\ pc["tar"] = "script_end" => Job # "checkpoint"
         /\ pc["tar"] = "script_wait" /\ Job = "info" => got > 0

\* The end of the pipe that keeps a script of --set-mtime-command from being
\* killed: tar reads until the script has closed its own.
SEnds ==
    /\ status["tar"] = Run => /\ pc["tar"] \in {"open", "script_wait"} => fds["tar"] = {}
                              /\ pc["tar"] = "script_end" => fds["tar"] = {PR, PW}
                              /\ pc["tar"] = "feed" => fds["tar"] = {PW}
                              /\ pc["tar"] \in {"line", "poll"} => fds["tar"] = {PR}
    /\ status["tar"] = Run /\ pc["tar"] # "open" /\ Job = "mtime" =>
         /\ status["kid"] # SIGPIPE
         /\ status["kid"] = Run => PW \in fds["kid"] /\ pc["tar"] \in {"script_end", "poll"}

\* What is said of the scripts that have ended.
SStatus ==
    /\ status["kid"] # 2
    /\ status["tar"] = Run => (error = 2 <=> HasBad)
    /\ status["tar"] # Run => IF HasBad THEN status["tar"] = 2 ELSE status["tar"] = 0 \/ Job = "info"

SInv == SControl /\ SEnds /\ SStatus

-----------------------------------------------------------------------------

\* The inductive invariant.
Inv == /\ TypeOK
       /\ Compress => CInv
       /\ Uncompress => UInv
       /\ Scripts => SInv

-----------------------------------------------------------------------------
(* Facts about the constants and the operators.                            *)

\* The ends of the pipes are four.
LEMMA EndsDiffer ==
    PR # PW /\ PR # CR /\ PR # CW /\ PW # CR /\ PW # CW /\ CR # CW
BY Zenon DEF PR, PW, CR, CW

\* A pipe has two of them.
LEMMA PipeEnds == \E both \in SUBSET Ends : both = {PR, PW}
BY Zenon DEF Ends

\* A process that runs, or is not there, has no exit status; a signal is none.
LEMMA CodesDiffer ==
    /\ None # Run /\ None # 0 /\ None # 1 /\ None # 2 /\ None # SIGPIPE /\ None # SIGKILL
    /\ Run # 0 /\ Run # 1 /\ Run # 2 /\ Run # SIGPIPE /\ Run # SIGKILL
    /\ SIGPIPE # 0 /\ SIGPIPE # 1 /\ SIGPIPE # 2 /\ SIGPIPE # SIGKILL
    /\ SIGKILL # 0 /\ SIGKILL # 1 /\ SIGKILL # 2
BY DEF None, Run, SIGPIPE, SIGKILL

\* What the types say of the numbers ...
LEMMA Numbers ==
    ASSUME TypeOK
    PROVE  /\ src \in Nat /\ got \in Nat /\ buf["p"] \in Nat /\ buf["c"] \in Nat
           /\ held["kid"] \in Nat /\ held["grand"] \in Nat
           /\ Rec \in Nat /\ Rec > 0 /\ N \in Nat
BY BoundsAssumption DEF TypeOK, Procs

\* ... and of the rest.
LEMMA Facts ==
    ASSUME TypeOK
    PROVE  /\ sc.mode \in {"compress", "uncompress", "script"}
           /\ sc.regular \in BOOLEAN /\ sc.fails \in BOOLEAN /\ sc.early \in BOOLEAN /\ sc.ignore \in BOOLEAN
           /\ sc.jobs \in Seq(Jobs) /\ eof \in BOOLEAN /\ error \in {0, 2}
           /\ status["tar"] \in Codes /\ status["kid"] \in Codes /\ status["grand"] \in Codes
BY Zenon, ScenariosAssumption DEF TypeOK, Procs

\* The end of a pipe and a broken pipe, process by process.
LEMMA EndOfPipe ==
    /\ Eof("p") <=> buf["p"] = 0 /\ Nobody(PW)
    /\ Eof("c") <=> buf["c"] = 0 /\ Nobody(CW)
    /\ Broken("p") <=> Nobody(PR)
    /\ Broken("c") <=> Nobody(CR)
BY Zenon DEF Eof, Broken, Nobody, Procs, PR, PW, CR, CW

\* What xdup2 and xclose leave open in the kid, the grandchild and the copy.
LEMMA SetupEnds ==
    /\ CompressKid({PR, PW}) = {PR} /\ UncompressKid({PR, PW}) = {PW}
    /\ CompressGrand({PR, CR, CW}) = {PR, CW} /\ UncompressGrand({PW, CR, CW}) = {PW, CR}
    /\ CompressCopy({PR, CR, CW}) = {CR} /\ UncompressCopy({PW, CR, CW}) = {CW}
<1>1. PR[2] = "r" /\ PW[2] = "w" /\ CR[2] = "r" /\ CW[2] = "w"
  BY Zenon DEF PR, PW, CR, CW
<1>2. /\ \A set : CompressKid(set) = {PR} \cup (set \ ({PW} \cup {e \in set : e[2] = "r"}))
      /\ \A set : UncompressKid(set) = {PW} \cup (set \ ({PR} \cup {e \in set : e[2] = "w"}))
      /\ \A set : CompressGrand(set) = {CW} \cup (set \ ({CR} \cup {e \in set : e[2] = "w"}))
      /\ \A set : UncompressGrand(set) = {CR} \cup (set \ ({CW} \cup {e \in set : e[2] = "r"}))
      /\ \A set : CompressCopy(set) = {CR} \cup (set \ ({CW} \cup {e \in set : e[2] = "r"}))
      /\ \A set : UncompressCopy(set) = {CW} \cup (set \ ({CR} \cup {e \in set : e[2] = "w"}))
  BY Zenon DEF CompressKid, UncompressKid, CompressGrand, UncompressGrand, CompressCopy, UncompressCopy, Xdup2, PR, PW, CR, CW
<1> QED BY Zenon, <1>1, <1>2, EndsDiffer

\* The ends that xdup2 and xclose leave open are ends of the pipes.
LEMMA SetupTypes ==
    ASSUME NEW set \in SUBSET Ends
    PROVE  /\ CompressKid(set) \in SUBSET Ends /\ UncompressKid(set) \in SUBSET Ends
           /\ CompressGrand(set) \in SUBSET Ends /\ UncompressGrand(set) \in SUBSET Ends
           /\ CompressCopy(set) \in SUBSET Ends /\ UncompressCopy(set) \in SUBSET Ends
<1>1. \A drop : \A e \in Ends : Xdup2(set, e, drop) \in SUBSET Ends
  BY Zenon DEF Xdup2
<1> QED BY Zenon, <1>1 DEF CompressKid, UncompressKid, CompressGrand, UncompressGrand, CompressCopy, UncompressCopy,
                    Ends, PR, PW, CR, CW

\* One more record is again a number of records.
LEMMA NextRecord ==
    ASSUME NEW x, NEW r \in Nat, \E k \in Nat : x = k * r
    PROVE  \E k \in Nat : x + r = k * r
<1>1. PICK k \in Nat : x = k * r
  BY Zenon
<1>2. x + r = (k + 1) * r /\ k + 1 \in Nat
  BY <1>1
<1> QED BY Zenon, <1>2

\* The only number of records that holds n blocks and not a record more.
LEMMA FilledUp ==
    ASSUME NEW n \in Nat, NEW r \in Nat \ {0}, NEW k \in Nat, n <= k * r, k * r < n + r
    PROVE  k * r = ((n + r - 1) \div r) * r
<1> DEFINE d == (n + r - 1) \div r
<1>1. d \in Nat /\ d * r <= n + r - 1 /\ n + r - 1 < (d + 1) * r
  OBVIOUS
<1> HIDE DEF d
<1>2. ~(k < d)
  <2>1. ASSUME k < d PROVE FALSE
    <3>1. k + 1 <= d
      BY <1>1, <2>1
    <3>2. (k + 1) * r <= d * r
      BY <1>1, <3>1
    <3> QED BY <1>1, <3>2
  <2> QED BY Zenon, <2>1
<1>3. ~(d < k)
  <2>1. ASSUME d < k PROVE FALSE
    <3>1. d + 1 <= k
      BY <1>1, <2>1
    <3>2. (d + 1) * r <= k * r
      BY <1>1, <3>1
    <3> QED BY <1>1, <3>2
  <2> QED BY Zenon, <2>1
<1>4. k = d
  BY <1>1, <1>2, <1>3
<1> QED BY Zenon, <1>4 DEF d

\* Initially nothing has been started.
LEMMA InitInv == Init => Inv
<1> SUFFICES ASSUME Init PROVE Inv
  BY Zenon
<1>1. TypeOK
  <2>2. pc = [q \in Procs |-> pc[q]]
    BY Zenon DEF Init
  <2>3. fds \in [Procs -> SUBSET Ends]
    BY Zenon DEF Init
  <2>4. status \in [Procs -> Codes] /\ held \in [Procs -> Nat] /\ buf \in [{"p", "c"} -> Nat]
    BY Zenon DEF Init, Codes
  <2> QED BY Zenon, <2>2, <2>3, <2>4, BoundsAssumption DEF Init, TypeOK
<1>2. /\ pc["tar"] = "open" /\ pc["kid"] = "open" /\ pc["grand"] = "open"
      /\ status["tar"] = Run /\ status["kid"] = None /\ status["grand"] = None
      /\ fds["tar"] = {} /\ fds["kid"] = {} /\ fds["grand"] = {}
      /\ buf["p"] = 0 /\ buf["c"] = 0 /\ held["kid"] = 0 /\ held["grand"] = 0
      /\ src = N /\ got = 0 /\ eof = FALSE /\ jobs = sc.jobs /\ error = 0 /\ seen = <<>>
  BY Zenon DEF Init, Procs
<1>3. CInv
  <2>1. 0 = 0 * Rec
    BY BoundsAssumption
  <2>2. CFlow
    BY <1>1, <1>2, Numbers DEF CFlow, Under, PastLast
  <2>3. CControl /\ CEnds /\ CRecords /\ CDone /\ CStatus
    BY Zenon, <1>2, <2>1, CodesDiffer DEF CControl, CEnds, CRecords, CDone, CStatus
  <2> QED BY Zenon, <2>2, <2>3 DEF CInv
<1>4. UInv
  <2>1. UFlow
    BY <1>1, <1>2, Numbers DEF UFlow, Under
  <2>2. UControl /\ UEnds /\ UDone /\ UStatus
    BY Zenon, <1>2, CodesDiffer DEF UControl, UEnds, UDone, UStatus
  <2> QED BY Zenon, <2>1, <2>2 DEF UInv
<1>5. SInv
  <2>1. seen \in Seq(SeenType) /\ jobs \in Seq(Jobs)
    BY <1>1, <1>2, Facts
  <2>2. ~HasBad
    BY <1>2 DEF HasBad
  <2> QED BY <1>2, <2>1, <2>2, CodesDiffer DEF SInv, SControl, SEnds, SStatus
<1> QED BY Zenon, <1>1, <1>3, <1>4, <1>5 DEF Inv

-----------------------------------------------------------------------------
(* The types.                                                              *)

\* The steps of tar keep the types.
LEMMA TarTypes == TypeOK /\ Tar => TypeOK'
<1> SUFFICES ASSUME TypeOK, Tar PROVE TypeOK'
  BY Zenon
<1> USE DEF TypeOK, At, Goto, Procs
<1>1. CASE TarOpen
  <2>1. fds' \in [Procs -> SUBSET Ends]
    BY Zenon, <1>1 DEF TarOpen, Ends, PR, PW, CR, CW
  <2> QED BY Zenon, <1>1, <2>1 DEF TarOpen, Codes
<1>2. CASE TarCloseEnd
  BY Zenon, <1>2 DEF TarCloseEnd, Ends, PR, PW, CR, CW
<1>3. CASE TarWrite
  BY <1>3 DEF TarWrite, Put
<1>4. CASE TarRead
  <2>1. buf' \in [{"p", "c"} -> Nat] /\ got' \in Nat
    BY <1>4 DEF TarRead, Take
  <2>2. eof' \in BOOLEAN
    BY Zenon, <1>4 DEF TarRead
  <2>3. pc' = [q \in Procs |-> pc'[q]]
    BY Zenon, <1>4 DEF TarRead
  <2> QED BY Zenon, <1>4, <2>1, <2>2, <2>3 DEF TarRead
<1>5. CASE TarClose
  BY Zenon, <1>5 DEF TarClose
<1>6. CASE TarWait
  BY Zenon, <1>6 DEF TarWait, Exit, Codes
<1>7. CASE TarExec
  <2>1. PICK both \in SUBSET Ends : both = {PR, PW}
    BY Zenon, PipeEnds
  <2>2. fds' = fds \/ fds' = [fds EXCEPT !["tar"] = @ \cup both, !["kid"] = fds["tar"] \cup both]
    BY Zenon, <1>7, <2>1 DEF TarExec, PR, PW
  <2>3. fds' \in [Procs -> SUBSET Ends]
    BY <2>1, <2>2
  <2>5. pc' = [q \in Procs |-> pc'[q]] /\ status' \in [Procs -> Codes]
    BY Zenon, <1>7 DEF TarExec, Codes
  <2>6. buf' \in [{"p", "c"} -> Nat] /\ src' \in Nat
    BY Zenon, <1>7, BoundsAssumption DEF TarExec
  <2> QED BY Zenon, <1>7, <2>3, <2>5, <2>6 DEF TarExec
<1>8. CASE TarScriptEnd
  BY Zenon, <1>8 DEF TarScriptEnd
<1>9. CASE TarFeed
  <2>1. buf' \in [{"p", "c"} -> Nat] /\ src' \in Nat
    <3>1. CASE FeedOver
      BY Zenon, <1>9, <3>1 DEF TarFeed
    <3>2. CASE ~FeedOver
      BY <1>9, <3>2 DEF TarFeed, FeedOver, Put
    <3> QED BY Zenon, <3>1, <3>2
  <2>2. fds' \in [Procs -> SUBSET Ends] /\ pc' = [q \in Procs |-> pc'[q]]
    BY <1>9 DEF TarFeed
  <2> QED BY Zenon, <1>9, <2>1, <2>2 DEF TarFeed
<1>10. CASE TarLine
  <2>1. CASE Eof("p") /\ Exit("tar", 2) /\ deaf' = [deaf EXCEPT !["tar"] = FALSE] /\ UNCHANGED <<buf, got, pc>>
    BY Zenon, <1>10, <2>1 DEF TarLine, Exit, Codes
  <2>2. CASE /\ buf["p"] > 0 /\ Take("p") /\ got' = got + 1
            /\ fds' = [fds EXCEPT !["tar"] = @ \ {<<"p", "r">>}] /\ Goto("tar", "script_wait")
            /\ UNCHANGED <<deaf, status>>
    <3>1. buf' \in [{"p", "c"} -> Nat] /\ got' \in Nat
      BY <1>10, <2>2 DEF TarLine, Take
    <3>2. fds' \in [Procs -> SUBSET Ends] /\ pc' = [q \in Procs |-> pc'[q]]
      BY Zenon, <1>10, <2>2 DEF TarLine
    <3> QED BY Zenon, <1>10, <2>2, <3>1, <3>2 DEF TarLine
  <2> QED BY Zenon, <1>10, <2>1, <2>2 DEF TarLine
<1>11. CASE TarPoll
  <2>1. buf' \in [{"p", "c"} -> Nat] /\ got' \in Nat
    BY <1>11 DEF TarPoll, Take
  <2>2. fds' \in [Procs -> SUBSET Ends] /\ pc' = [q \in Procs |-> pc'[q]]
    BY <1>11 DEF TarPoll
  <2> QED BY Zenon, <1>11, <2>1, <2>2 DEF TarPoll
<1>12. CASE TarScriptWait
  <2>1. fds' \in [Procs -> SUBSET Ends] /\ status' \in [Procs -> Codes]
    BY <1>12 DEF TarScriptWait, Exit, Codes
  <2>2. pc' = [q \in Procs |-> pc'[q]] /\ error' \in {0, 2}
    BY Zenon, <1>12 DEF TarScriptWait
  <2> QED BY Zenon, <1>12, <2>1, <2>2 DEF TarScriptWait
<1>13. CASE TarEnd
  BY Zenon, <1>13 DEF TarEnd, Exit, Codes
<1> QED BY Zenon, <1>1, <1>2, <1>3, <1>4, <1>5, <1>6, <1>7, <1>8, <1>9, <1>10, <1>11, <1>12, <1>13 DEF Tar

\* The compressor keeps the types.
LEMMA ProgTypes ==
    ASSUME TypeOK, NEW q \in {"kid", "grand"}, Exec(q) \/ ProgRead(q) \/ ProgWrite(q) \/ ProgEnd(q)
    PROVE  TypeOK'
<1> USE DEF TypeOK, At, Goto, Procs
<1>0. q \in Procs /\ InPipe(q) \in {"p", "c", "file"} /\ OutPipe(q) \in {"p", "c", "file"}
  BY Zenon DEF InPipe, OutPipe
<1>1. CASE Exec(q)
  BY <1>0, <1>1 DEF Exec, Exit, Codes
<1>2. CASE ProgRead(q)
  BY <1>0, <1>2 DEF ProgRead, Take
<1>3. CASE ProgWrite(q)
  BY <1>0, <1>3 DEF ProgWrite, Put, Exit, Codes
<1>4. CASE ProgEnd(q)
  BY <1>0, <1>4 DEF ProgEnd, Exit, Codes
<1> QED BY Zenon, <1>1, <1>2, <1>3, <1>4

\* The steps of the kid and of the grandchild keep the types.
LEMMA KidTypes == TypeOK /\ (Kid \/ Grand) => TypeOK'
<1> SUFFICES ASSUME TypeOK, Kid \/ Grand PROVE TypeOK'
  BY Zenon
<1> USE DEF TypeOK, At, Goto, Procs
<1>1. CASE KidSetup
  <2>1. fds' \in [Procs -> SUBSET Ends]
    BY Zenon, <1>1, SetupTypes DEF KidSetup
  <2> QED BY Zenon, <1>1, <2>1 DEF KidSetup
<1>2. CASE KidFork
  <2>1. PICK all \in SUBSET Ends : all = fds["kid"] \cup {<<"c", "r">>, <<"c", "w">>}
    BY Zenon DEF Ends, CR, CW
  <2>2. fds' = [fds EXCEPT !["kid"] = all, !["grand"] = all]
    BY Zenon, <1>2, <2>1 DEF KidFork
  <2> QED BY Zenon, <1>2, <2>2 DEF KidFork, Codes
<1>3. CASE KidOpen
  <2>1. fds' \in [Procs -> SUBSET Ends]
    BY <1>3, SetupTypes DEF KidOpen, Exit
  <2> QED BY <1>3, <2>1 DEF KidOpen, Exit, Codes
<1>4. CASE KidGather
  BY <1>4 DEF KidGather, Take
<1>5. CASE KidWrite
  BY <1>5, BoundsAssumption DEF KidWrite, LastRecord, Exit, Codes
<1>6. CASE KidRecord
  BY <1>6, BoundsAssumption DEF KidRecord
<1>7. CASE KidFeed
  BY <1>7 DEF KidFeed, Put, Exit, Codes
<1>8. CASE KidWait
  BY Zenon, <1>8 DEF KidWait, WaitForGrandchild, Exit
<1>9. CASE KidScript
  BY Zenon, <1>9 DEF KidScript
<1>10. CASE KidScriptStep
  <2>1. status' = status \/ \E s \in Codes : status' = [status EXCEPT !["kid"] = s]
    BY Zenon, <1>10 DEF KidScriptStep, Exit, Codes
  <2>2. fds' = fds \/ fds' = [fds EXCEPT !["kid"] = {}]
    BY Zenon, <1>10 DEF KidScriptStep, Exit
  <2>3. buf' \in [{"p", "c"} -> Nat] /\ held' \in [Procs -> Nat]
    BY <1>10 DEF KidScriptStep, Put, Take
  <2> QED BY <1>10, <2>1, <2>2, <2>3 DEF KidScriptStep
<1>11. CASE GrandSetup
  <2>1. fds' \in [Procs -> SUBSET Ends]
    BY Zenon, <1>11, SetupTypes DEF GrandSetup
  <2> QED BY Zenon, <1>11, <2>1 DEF GrandSetup
<1>12. ASSUME NEW q \in {"kid", "grand"}, Exec(q) \/ ProgRead(q) \/ ProgWrite(q) \/ ProgEnd(q) PROVE TypeOK'
  BY Zenon, <1>12, ProgTypes
<1> QED BY Zenon, <1>1, <1>2, <1>3, <1>4, <1>5, <1>6, <1>7, <1>8, <1>9, <1>10, <1>11, <1>12 DEF Kid, Grand

-----------------------------------------------------------------------------
(* The steps of a compression.                                             *)

\* tar starts the kid.
LEMMA CompressTarOpen ==
    ASSUME TypeOK, CInv, Compress, TarOpen
    PROVE  CInv'
<1>0. /\ pc["tar"] = "open" /\ status["tar"] = Run
      /\ pc'["tar"] = "close_end" /\ pc'["kid"] = "new" /\ pc'["grand"] = pc["grand"]
      /\ status'["tar"] = status["tar"] /\ status'["kid"] = Run /\ status'["grand"] = status["grand"]
      /\ fds'["tar"] = {PR, PW} /\ fds'["kid"] = {PR, PW} /\ fds'["grand"] = fds["grand"]
      /\ UNCHANGED <<sc, buf, held, src, got, eof, error, jobs, seen>>
  BY Zenon, CodesDiffer DEF TypeOK, Procs, Compress, TarOpen, At, Running, PR, PW
<1>1. CControl'
  BY Zenon, <1>0, CodesDiffer, Facts DEF CInv, CControl
<1>2. CEnds'
  BY Zenon, <1>0, CodesDiffer, Facts DEF CInv, CControl, CEnds
<1>3. CFlow'
  BY Zenon, <1>0, CodesDiffer DEF CInv, CControl, CFlow, Under, PastLast
<1>4. CRecords'
  BY Zenon, <1>0 DEF CInv, CRecords
<1>5. CDone'
  BY Zenon, <1>0, CodesDiffer, EndsDiffer DEF CInv, CControl, CEnds, CDone, Nobody
<1>6. CStatus'
  BY Zenon, <1>0, CodesDiffer, Facts DEF CInv, CControl, CStatus
<1> QED BY Zenon, <1>1, <1>2, <1>3, <1>4, <1>5, <1>6 DEF CInv

\* tar keeps the writing end.
LEMMA CompressTarCloseEnd ==
    ASSUME TypeOK, CInv, Compress, TarCloseEnd
    PROVE  CInv'
<1>0. /\ pc["tar"] = "close_end" /\ status["tar"] = Run
      /\ pc'["tar"] = "write" /\ pc'["kid"] = pc["kid"] /\ pc'["grand"] = pc["grand"]
      /\ fds'["tar"] = {PW} /\ fds'["kid"] = fds["kid"] /\ fds'["grand"] = fds["grand"]
      /\ UNCHANGED <<sc, status, buf, held, src, got, eof, error, jobs, seen>>
  BY Zenon, CodesDiffer DEF TypeOK, Procs, Compress, TarCloseEnd, At, Running, Goto, PW
<1>1. CControl'
  BY Zenon, <1>0, CodesDiffer, Facts DEF CInv, CControl
<1>2. CEnds'
  BY Zenon, <1>0, CodesDiffer, Facts DEF CInv, CControl, CEnds
<1>3. CFlow'
  BY Zenon, <1>0, CodesDiffer DEF CInv, CControl, CFlow, Under, PastLast
<1>4. CRecords'
  BY Zenon, <1>0 DEF CInv, CRecords
<1>5. CDone'
  BY Zenon, <1>0, CodesDiffer, EndsDiffer DEF CInv, CControl, CEnds, CDone, Nobody
<1>6. CStatus'
  BY Zenon, <1>0, CodesDiffer, Facts DEF CInv, CControl, CStatus
<1> QED BY Zenon, <1>1, <1>2, <1>3, <1>4, <1>5, <1>6 DEF CInv

\* tar writes a block, or finds the pipe broken.
LEMMA CompressTarWrite ==
    ASSUME TypeOK, CInv, Compress, TarWrite
    PROVE  CInv'
<1>0. /\ pc["tar"] = "write" /\ status["tar"] = Run /\ src > 0
      /\ \/ /\ pc'["tar"] = "close" /\ pc'["kid"] = pc["kid"] /\ pc'["grand"] = pc["grand"]
            /\ error' = 2
            /\ buf' = buf /\ src' = src
         \/ /\ buf'["p"] = buf["p"] + 1 /\ buf'["c"] = buf["c"]
            /\ src' = src - 1
            /\ pc' = pc /\ error' = error
      /\ UNCHANGED <<sc, status, fds, held, got, eof, jobs, seen>>
  BY Zenon, CodesDiffer DEF TypeOK, Procs, Compress, TarWrite, At, Running, Goto, Put
<1>a. Under' = Under /\ Under \in Nat
  BY <1>0, Numbers DEF Under
<1>b. PastLast' <=> PastLast
  BY Zenon, <1>0, CodesDiffer DEF PastLast, CInv, CControl
<1>1. CControl'
  BY Zenon, <1>0, <1>a, <1>b, CodesDiffer, Facts DEF CInv, CControl
<1>2. CEnds'
  BY <1>0, <1>a, <1>b, CodesDiffer, Facts DEF CInv, CControl, CEnds
<1>3. CFlow'
  BY Zenon, <1>0, <1>a, <1>b, Numbers DEF CInv, CFlow
<1>4. CRecords'
  BY Zenon, <1>0, <1>a, <1>b DEF CInv, CRecords
<1>5. CDone'
  BY Zenon, <1>0, <1>a, <1>b, CodesDiffer, EndsDiffer DEF CInv, CControl, CEnds, CDone, Nobody
<1>6. CStatus'
  BY Zenon, <1>0, <1>a, <1>b, CodesDiffer, Facts DEF CInv, CControl, CStatus
<1> QED BY Zenon, <1>1, <1>2, <1>3, <1>4, <1>5, <1>6 DEF CInv

\* tar closes the pipe.
LEMMA CompressTarClose ==
    ASSUME TypeOK, CInv, Compress, TarClose
    PROVE  CInv'
<1>0. /\ status["tar"] = Run /\ (pc["tar"] = "close" \/ (pc["tar"] = "write" /\ src = 0))
      /\ pc'["tar"] = "wait" /\ pc'["kid"] = pc["kid"] /\ pc'["grand"] = pc["grand"]
      /\ fds'["tar"] = {} /\ fds'["kid"] = fds["kid"] /\ fds'["grand"] = fds["grand"]
      /\ UNCHANGED <<sc, status, buf, held, src, got, eof, error, jobs, seen>>
  BY Zenon, CodesDiffer DEF TypeOK, Procs, Compress, TarClose, At, Running, Goto
<1>1. CControl'
  BY Zenon, <1>0, CodesDiffer, Facts DEF CInv, CControl
<1>2. CEnds'
  BY Zenon, <1>0, CodesDiffer, Facts DEF CInv, CControl, CEnds
<1>3. CFlow'
  BY Zenon, <1>0, CodesDiffer DEF CInv, CControl, CFlow, Under, PastLast
<1>4. CRecords'
  BY Zenon, <1>0 DEF CInv, CRecords
<1>m. \A e : Nobody(e) => Nobody(e)'
  BY Zenon, <1>0 DEF Nobody
<1>5. CDone'
  BY <1>0, <1>m, CodesDiffer DEF CInv, CControl, CDone
<1>6. CStatus'
  BY Zenon, <1>0, CodesDiffer, Facts DEF CInv, CControl, CStatus
<1> QED BY Zenon, <1>1, <1>2, <1>3, <1>4, <1>5, <1>6 DEF CInv

\* tar ends as the kid did.
LEMMA CompressTarWait ==
    ASSUME TypeOK, CInv, Compress, TarWait
    PROVE  CInv'
<1>0. /\ pc["tar"] = "wait" /\ status["tar"] = Run /\ status["kid"] # Run
      /\ status'["tar"] = (IF WaitForChild(status["kid"], eof) # 0 THEN 2 ELSE error) /\ status'["kid"] = status["kid"] /\ status'["grand"] = status["grand"]
      /\ fds'["tar"] = {} /\ fds'["kid"] = fds["kid"] /\ fds'["grand"] = fds["grand"]
      /\ UNCHANGED <<sc, pc, buf, held, src, got, eof, error, jobs, seen>>
  BY Zenon, CodesDiffer DEF TypeOK, Procs, Compress, TarWait, At, Running, Exit
<1>1. CControl'
  BY Zenon, <1>0, CodesDiffer, Facts DEF CInv, CControl
<1>2. CEnds'
  BY Zenon, <1>0, CodesDiffer, Facts DEF CInv, CControl, CEnds
<1>3. CFlow'
  BY Zenon, <1>0, CodesDiffer DEF CInv, CControl, CFlow, Under, PastLast
<1>4. CRecords'
  BY Zenon, <1>0 DEF CInv, CRecords
<1>m. \A e : Nobody(e) => Nobody(e)'
  BY Zenon, <1>0 DEF Nobody
<1>5. CDone'
  BY Zenon, <1>0, <1>m, CodesDiffer DEF CInv, CControl, CDone
<1>6. CStatus'
  BY <1>0, CodesDiffer, Facts DEF CInv, CControl, CStatus
<1> QED BY Zenon, <1>1, <1>2, <1>3, <1>4, <1>5, <1>6 DEF CInv

\* The kid has the reading end.
LEMMA CompressKidSetup ==
    ASSUME TypeOK, CInv, Compress, KidSetup
    PROVE  CInv'
<1>0. /\ pc["kid"] = "new" /\ status["kid"] = Run
      /\ pc'["tar"] = pc["tar"] /\ pc'["kid"] = (IF sc.regular THEN "exec" ELSE "fork") /\ pc'["grand"] = pc["grand"]
      /\ fds'["tar"] = fds["tar"] /\ fds'["kid"] = {PR} /\ fds'["grand"] = fds["grand"]
      /\ UNCHANGED <<sc, status, buf, held, src, got, eof, error, jobs, seen>>
  BY Zenon, SetupEnds, CodesDiffer DEF TypeOK, Procs, Compress, KidSetup, At, Running, Goto, CInv, CEnds
<1>1. CControl'
  BY Zenon, <1>0, CodesDiffer, Facts DEF CInv, CControl
<1>2. CEnds'
  BY Zenon, <1>0, CodesDiffer, Facts DEF CInv, CControl, CEnds
<1>3. CFlow'
  BY Zenon, <1>0, CodesDiffer DEF CInv, CControl, CFlow, Under, PastLast
<1>4. CRecords'
  BY Zenon, <1>0 DEF CInv, CRecords
<1>5. CDone'
  BY Zenon, <1>0, CodesDiffer, EndsDiffer DEF CInv, CControl, CEnds, CDone, Nobody
<1>6. CStatus'
  BY Zenon, <1>0, CodesDiffer, Facts DEF CInv, CControl, CStatus
<1> QED BY Zenon, <1>1, <1>2, <1>3, <1>4, <1>5, <1>6 DEF CInv

\* The kid runs the compressor.
LEMMA CompressKidExec ==
    ASSUME TypeOK, CInv, Compress, Exec("kid")
    PROVE  CInv'
<1>0. /\ pc["kid"] = "exec" /\ status["kid"] = Run
      /\ \/ /\ pc'["tar"] = pc["tar"] /\ pc'["kid"] = "prog" /\ pc'["grand"] = pc["grand"]
            /\ status' = status /\ fds' = fds
         \/ /\ status'["tar"] = status["tar"] /\ status'["kid"] = 2 /\ status'["grand"] = status["grand"]
            /\ fds'["tar"] = fds["tar"] /\ fds'["kid"] = {} /\ fds'["grand"] = fds["grand"]
            /\ pc' = pc
      /\ UNCHANGED <<sc, buf, held, src, got, eof, error, jobs, seen>>
  BY Zenon, CodesDiffer DEF TypeOK, Procs, Compress, Exec, At, Running, Goto, Exit
<1>1. CControl'
  BY Zenon, <1>0, CodesDiffer, Facts DEF CInv, CControl
<1>2. CEnds'
  BY Zenon, <1>0, CodesDiffer, Facts DEF CInv, CControl, CEnds
<1>3. CFlow'
  BY Zenon, <1>0, CodesDiffer DEF CInv, CControl, CFlow, Under, PastLast
<1>4. CRecords'
  BY Zenon, <1>0 DEF CInv, CRecords
<1>m. \A e : Nobody(e) => Nobody(e)'
  BY Zenon, <1>0 DEF Nobody
<1>5. CDone'
  BY <1>0, <1>m, CodesDiffer DEF CInv, CControl, CDone
<1>6. CStatus'
  BY Zenon, <1>0, CodesDiffer, Facts DEF CInv, CControl, CStatus
<1> QED BY Zenon, <1>1, <1>2, <1>3, <1>4, <1>5, <1>6 DEF CInv

\* The grandchild runs the compressor.
LEMMA CompressGrandExec ==
    ASSUME TypeOK, CInv, Compress, Exec("grand")
    PROVE  CInv'
<1>0. /\ pc["grand"] = "exec" /\ status["grand"] = Run
      /\ \/ /\ pc'["tar"] = pc["tar"] /\ pc'["kid"] = pc["kid"] /\ pc'["grand"] = "prog"
            /\ status' = status /\ fds' = fds
         \/ /\ status'["tar"] = status["tar"] /\ status'["kid"] = status["kid"] /\ status'["grand"] = 2
            /\ fds'["tar"] = fds["tar"] /\ fds'["kid"] = fds["kid"] /\ fds'["grand"] = {}
            /\ pc' = pc
      /\ UNCHANGED <<sc, buf, held, src, got, eof, error, jobs, seen>>
  BY Zenon, CodesDiffer DEF TypeOK, Procs, Compress, Exec, At, Running, Goto, Exit
<1>1. CControl'
  BY Zenon, <1>0, CodesDiffer, Facts DEF CInv, CControl
<1>2. CEnds'
  BY Zenon, <1>0, CodesDiffer, Facts DEF CInv, CControl, CEnds
<1>3. CFlow'
  BY Zenon, <1>0, CodesDiffer DEF CInv, CControl, CFlow, Under, PastLast
<1>4. CRecords'
  BY Zenon, <1>0 DEF CInv, CRecords
<1>m. \A e : Nobody(e) => Nobody(e)'
  BY Zenon, <1>0 DEF Nobody
<1>5. CDone'
  BY <1>0, <1>m, CodesDiffer DEF CInv, CControl, CDone
<1>6. CStatus'
  BY <1>0, CodesDiffer, Facts DEF CInv, CControl, CStatus
<1> QED BY Zenon, <1>1, <1>2, <1>3, <1>4, <1>5, <1>6 DEF CInv

\* The kid starts the grandchild.
LEMMA CompressKidFork ==
    ASSUME TypeOK, CInv, Compress, KidFork
    PROVE  CInv'
<1>0. /\ pc["kid"] = "fork" /\ status["kid"] = Run
      /\ pc'["tar"] = pc["tar"] /\ pc'["kid"] = "open" /\ pc'["grand"] = "new"
      /\ status'["tar"] = status["tar"] /\ status'["kid"] = status["kid"] /\ status'["grand"] = Run
      /\ fds'["tar"] = fds["tar"] /\ fds'["kid"] = {PR, CR, CW} /\ fds'["grand"] = {PR, CR, CW}
      /\ UNCHANGED <<sc, buf, held, src, got, eof, error, jobs, seen>>
  BY Zenon, CodesDiffer DEF TypeOK, Procs, Compress, KidFork, At, Running, CInv, CEnds, CR, CW
<1>1. CControl'
  BY Zenon, <1>0, CodesDiffer, Facts DEF CInv, CControl
<1>2. CEnds'
  BY Zenon, <1>0, CodesDiffer, Facts DEF CInv, CControl, CEnds
<1>3. CFlow'
  BY Zenon, <1>0, CodesDiffer DEF CInv, CControl, CFlow, Under, PastLast
<1>4. CRecords'
  BY Zenon, <1>0 DEF CInv, CRecords
<1>5. CDone'
  BY Zenon, <1>0, CodesDiffer, EndsDiffer DEF CInv, CControl, CEnds, CDone, Nobody
<1>6. CStatus'
  BY Zenon, <1>0, CodesDiffer, Facts DEF CInv, CControl, CStatus
<1> QED BY Zenon, <1>1, <1>2, <1>3, <1>4, <1>5, <1>6 DEF CInv

\* The grandchild has its ends.
LEMMA CompressGrandSetup ==
    ASSUME TypeOK, CInv, Compress, GrandSetup
    PROVE  CInv'
<1>0. /\ pc["grand"] = "new" /\ status["grand"] = Run
      /\ pc'["tar"] = pc["tar"] /\ pc'["kid"] = pc["kid"] /\ pc'["grand"] = "exec"
      /\ fds'["tar"] = fds["tar"] /\ fds'["kid"] = fds["kid"] /\ fds'["grand"] = {PR, CW}
      /\ UNCHANGED <<sc, status, buf, held, src, got, eof, error, jobs, seen>>
  BY Zenon, SetupEnds, CodesDiffer DEF TypeOK, Procs, Compress, GrandSetup, At, Running, Goto, CInv, CEnds
<1>1. CControl'
  BY Zenon, <1>0, CodesDiffer, Facts DEF CInv, CControl
<1>2. CEnds'
  BY Zenon, <1>0, CodesDiffer, Facts DEF CInv, CControl, CEnds
<1>3. CFlow'
  BY Zenon, <1>0, CodesDiffer DEF CInv, CControl, CFlow, Under, PastLast
<1>4. CRecords'
  BY Zenon, <1>0 DEF CInv, CRecords
<1>5. CDone'
  BY Zenon, <1>0, CodesDiffer, EndsDiffer DEF CInv, CControl, CEnds, CDone, Nobody
<1>6. CStatus'
  BY Zenon, <1>0, CodesDiffer, Facts DEF CInv, CControl, CStatus
<1> QED BY Zenon, <1>1, <1>2, <1>3, <1>4, <1>5, <1>6 DEF CInv

\* The kid keeps the reading end of the second pipe.
LEMMA CompressKidOpen ==
    ASSUME TypeOK, CInv, Compress, KidOpen
    PROVE  CInv'
<1>z. pc["kid"] = "open" /\ status["kid"] = Run /\ CompressCopy(fds["kid"]) = {CR}
  BY Zenon, SetupEnds, CodesDiffer DEF KidOpen, At, Running, CInv, CEnds
<1>0. /\ pc["kid"] = "open" /\ status["kid"] = Run
      /\ \/ /\ pc'["tar"] = pc["tar"] /\ pc'["kid"] = "gather" /\ pc'["grand"] = pc["grand"]
            /\ fds'["tar"] = fds["tar"] /\ fds'["kid"] = {CR} /\ fds'["grand"] = fds["grand"]
            /\ status' = status
         \/ /\ status'["tar"] = status["tar"] /\ status'["kid"] = 2 /\ status'["grand"] = status["grand"]
            /\ fds'["tar"] = fds["tar"] /\ fds'["kid"] = {} /\ fds'["grand"] = fds["grand"]
            /\ pc' = pc
      /\ UNCHANGED <<sc, buf, held, src, got, eof, error, jobs, seen>>
  BY Zenon, <1>z, CodesDiffer DEF TypeOK, Procs, Compress, KidOpen, At, Running, Goto, Exit
<1>1. CControl'
  BY Zenon, <1>0, CodesDiffer, Facts DEF CInv, CControl
<1>2. CEnds'
  BY Zenon, <1>0, CodesDiffer, Facts DEF CInv, CControl, CEnds
<1>3. CFlow'
  BY Zenon, <1>0, CodesDiffer DEF CInv, CControl, CFlow, Under, PastLast
<1>4. CRecords'
  BY Zenon, <1>0 DEF CInv, CRecords
<1>5. CDone'
  BY Zenon, <1>0, CodesDiffer, EndsDiffer DEF CInv, CControl, CEnds, CDone, Nobody
<1>6. CStatus'
  BY Zenon, <1>0, CodesDiffer, Facts DEF CInv, CControl, CStatus
<1> QED BY Zenon, <1>1, <1>2, <1>3, <1>4, <1>5, <1>6 DEF CInv

\* The kid gathers a record.
LEMMA CompressKidGather ==
    ASSUME TypeOK, CInv, Compress, KidGather
    PROVE  CInv'
<1>0. /\ pc["kid"] = "gather" /\ status["kid"] = Run /\ held["kid"] < Rec
      /\ \/ /\ buf["c"] > 0
            /\ buf'["p"] = buf["p"] /\ buf'["c"] = buf["c"] - 1
            /\ held'["kid"] = held["kid"] + 1 /\ held'["grand"] = held["grand"]
            /\ pc' = pc
         \/ /\ buf["c"] = 0 /\ Nobody(CW)
            /\ pc'["tar"] = pc["tar"] /\ pc'["kid"] = "last" /\ pc'["grand"] = pc["grand"]
            /\ buf' = buf /\ held' = held
      /\ UNCHANGED <<sc, status, fds, src, got, eof, error, jobs, seen>>
  BY Zenon, EndOfPipe, CodesDiffer DEF TypeOK, Procs, Compress, KidGather, At, Running, Goto, Take
<1>a. ~PastLast /\ ~PastLast' /\ ~sc.regular
  BY Zenon, <1>0, CodesDiffer, Facts DEF PastLast, CInv, CControl
<1>b. Under + held["kid"] + got = N
  BY Zenon, <1>0, <1>a DEF CInv, CFlow
<1>c. buf'["c"] + held'["kid"] = buf["c"] + held["kid"] /\ buf'["c"] \in Nat /\ held'["kid"] \in Nat
  BY <1>0, Numbers
<1>d. Under' + held'["kid"] + got' = N
  BY <1>0, <1>b, <1>c, Numbers DEF Under
<1>e. held'["kid"] <= Rec /\ (pc'["kid"] = "last" => held'["kid"] < Rec)
  BY <1>0, Numbers
<1>1. CControl'
  BY Zenon, <1>0, <1>a, <1>b, <1>c, <1>d, <1>e, CodesDiffer, Facts DEF CInv, CControl
<1>2. CEnds'
  BY Zenon, <1>0, <1>a, <1>b, <1>c, <1>d, <1>e, CodesDiffer, Facts DEF CInv, CControl, CEnds
<1>3. CFlow'
  BY Zenon, <1>0, <1>a, <1>b, <1>c, <1>d, <1>e DEF CFlow
<1>4. CRecords'
  BY Zenon, <1>0, <1>a, <1>b, <1>c, <1>d, <1>e DEF CInv, CRecords
<1>5. CDone'
  BY Zenon, <1>0, <1>a, <1>b, <1>c, <1>d, <1>e, CodesDiffer, EndsDiffer DEF CInv, CControl, CEnds, CDone, Nobody
<1>6. CStatus'
  BY Zenon, <1>0, <1>a, <1>b, <1>c, <1>d, <1>e, CodesDiffer, Facts DEF CInv, CControl, CStatus
<1> QED BY Zenon, <1>1, <1>2, <1>3, <1>4, <1>5, <1>6 DEF CInv

\* The kid ends as the grandchild did.
LEMMA CompressKidWait ==
    ASSUME TypeOK, CInv, Compress, KidWait
    PROVE  CInv'
<1>0. /\ pc["kid"] = "wait" /\ status["kid"] = Run /\ status["grand"] # Run
      /\ status'["tar"] = status["tar"] /\ status'["kid"] = status["grand"] /\ status'["grand"] = status["grand"]
      /\ fds'["tar"] = fds["tar"] /\ fds'["kid"] = {} /\ fds'["grand"] = fds["grand"]
      /\ UNCHANGED <<sc, pc, buf, held, src, got, eof, error, jobs, seen>>
  BY Zenon, CodesDiffer DEF TypeOK, Procs, Compress, KidWait, At, Running, WaitForGrandchild, Exit
<1>1. CControl'
  BY Zenon, <1>0, CodesDiffer, Facts DEF CInv, CControl
<1>2. CEnds'
  BY Zenon, <1>0, CodesDiffer, Facts DEF CInv, CControl, CEnds
<1>3. CFlow'
  BY Zenon, <1>0, CodesDiffer DEF CInv, CControl, CFlow, Under, PastLast
<1>4. CRecords'
  BY Zenon, <1>0 DEF CInv, CRecords
<1>m. \A e : Nobody(e) => Nobody(e)'
  BY Zenon, <1>0 DEF Nobody
<1>5. CDone'
  BY Zenon, <1>0, <1>m, CodesDiffer DEF CInv, CControl, CDone
<1>6. CStatus'
  BY Zenon, <1>0, CodesDiffer, Facts DEF CInv, CControl, CStatus
<1> QED BY Zenon, <1>1, <1>2, <1>3, <1>4, <1>5, <1>6 DEF CInv

\* The kid writes a record, the last one at full length, or fails, or is killed
\* because the reader of the archive has gone.
LEMMA CompressKidWrite ==
    ASSUME TypeOK, CInv, Compress, KidWrite
    PROVE  CInv'
<1>0. /\ status["kid"] = Run
      /\ \/ /\ pc["kid"] = "gather" /\ held["kid"] = Rec
            /\ held'["kid"] = 0 /\ held'["grand"] = held["grand"]
            /\ got' = got + Rec
            /\ pc' = pc /\ status' = status /\ fds' = fds
         \/ /\ pc["kid"] = "last" /\ held["kid"] > 0
            /\ pc'["tar"] = pc["tar"] /\ pc'["kid"] = "wait" /\ pc'["grand"] = pc["grand"]
            /\ held'["kid"] = 0 /\ held'["grand"] = held["grand"]
            /\ got' = got + Rec
            /\ status' = status /\ fds' = fds
         \/ /\ pc["kid"] = "last" /\ held["kid"] = 0
            /\ pc'["tar"] = pc["tar"] /\ pc'["kid"] = "wait" /\ pc'["grand"] = pc["grand"]
            /\ status' = status /\ fds' = fds /\ held' = held /\ got' = got
         \/ /\ pc["kid"] \in {"gather", "last"}
            /\ status'["tar"] = status["tar"] /\ status'["grand"] = status["grand"]
            /\ status'["kid"] = 2 \/ (status'["kid"] = SIGPIPE /\ sc.pipe)
            /\ fds'["tar"] = fds["tar"] /\ fds'["kid"] = {} /\ fds'["grand"] = fds["grand"]
            /\ pc' = pc /\ held' = held /\ got' = got
      /\ UNCHANGED <<sc, buf, src, eof, error, jobs, seen>>
  BY Numbers, Facts, CodesDiffer DEF TypeOK, Procs, Compress, KidWrite, At, Running, Goto, Exit, LastRecord
<1>a. Under' = Under /\ Under \in Nat
  BY <1>0, Numbers DEF Under
<1>b. ~PastLast /\ ~sc.regular
  BY Zenon, <1>0, Facts, CodesDiffer DEF PastLast, CInv, CControl
<1>c. Under + held["kid"] + got = N /\ held["kid"] <= Rec /\ (pc["kid"] = "last" => held["kid"] < Rec)
  BY Zenon, <1>0, <1>b, CodesDiffer DEF CInv, CFlow
<1>d. (got' = got \/ got' = got + Rec) /\ (PastLast' <=> pc'["kid"] = "wait")
  BY Zenon, <1>0, <1>b, CodesDiffer DEF PastLast
<1>e. PastLast' => got' < N - Under' + Rec /\ N - Under' <= got' /\ held'["kid"] = 0
  BY <1>0, <1>a, <1>c, <1>d, Numbers
<1>f. ~PastLast' => Under' + held'["kid"] + got' = N
  BY <1>0, <1>a, <1>c, <1>d, Numbers
<1>g. held'["kid"] <= Rec /\ (pc'["kid"] = "last" => held'["kid"] < Rec)
  BY <1>0, <1>c, Numbers
<1>h. \E k \in Nat : got = k * Rec
  BY Zenon, <1>b DEF CInv, CRecords
<1>i. \E k \in Nat : got + Rec = k * Rec
  BY Zenon, <1>h, NextRecord, Numbers
<1>1. CControl'
  BY Zenon, <1>0, <1>b, CodesDiffer, Facts DEF CInv, CControl
<1>2. CEnds'
  BY <1>0, <1>b, CodesDiffer, Facts DEF CInv, CControl, CEnds
<1>3. CFlow'
  BY Zenon, <1>a, <1>b, <1>e, <1>f, <1>g, <1>0 DEF CFlow
<1>4. CRecords'
  BY Zenon, <1>d, <1>h, <1>i DEF CRecords
<1>m. \A e : Nobody(e) => Nobody(e)'
  BY Zenon, <1>0 DEF Nobody
<1>5. CDone'
  BY Zenon, <1>0, <1>b, <1>m, CodesDiffer DEF CInv, CControl, CDone
<1>6. CStatus'
  BY Zenon, <1>0, <1>b, CodesDiffer, Facts DEF CInv, CControl, CStatus
<1> QED BY Zenon, <1>1, <1>2, <1>3, <1>4, <1>5, <1>6 DEF CInv

\* The compressor in the kid reads a block.
LEMMA CompressKidRead ==
    ASSUME TypeOK, CInv, Compress, ProgRead("kid")
    PROVE  CInv'
<1>0. /\ pc["kid"] = "prog" /\ status["kid"] = Run /\ held["kid"] = 0 /\ buf["p"] > 0
      /\ buf'["p"] = buf["p"] - 1 /\ buf'["c"] = buf["c"]
      /\ held'["kid"] = 1 /\ held'["grand"] = held["grand"]
      /\ UNCHANGED <<sc, pc, status, fds, src, got, eof, error, jobs, seen>>
  BY Zenon, CodesDiffer DEF TypeOK, Procs, Compress, ProgRead, InPipe, At, Running, Take
<1>a. Under' + held'["kid"] = Under + held["kid"] /\ Under' \in Nat
  BY <1>0, Numbers DEF Under
<1>b. sc.regular /\ ~PastLast /\ ~PastLast'
  BY Zenon, <1>0, CodesDiffer, Facts DEF CInv, CControl, PastLast
<1>1. CControl'
  BY Zenon, <1>0, CodesDiffer, Facts DEF CInv, CControl
<1>2. CEnds'
  BY Zenon, <1>0, CodesDiffer, Facts DEF CInv, CControl, CEnds
<1>3. CFlow'
  BY Zenon, <1>0, <1>a, <1>b, Numbers DEF CInv, CFlow
<1>4. CRecords'
  BY Zenon, <1>0 DEF CInv, CRecords
<1>5. CDone'
  BY Zenon, <1>0, CodesDiffer, EndsDiffer DEF CInv, CControl, CEnds, CDone, Nobody
<1>6. CStatus'
  BY Zenon, <1>0, CodesDiffer, Facts DEF CInv, CControl, CStatus
<1> QED BY Zenon, <1>1, <1>2, <1>3, <1>4, <1>5, <1>6 DEF CInv

\* It writes one to the archive, or is killed because that has no reader.
LEMMA CompressKidProgWrite ==
    ASSUME TypeOK, CInv, Compress, ProgWrite("kid")
    PROVE  CInv'
<1>0. /\ pc["kid"] = "prog" /\ status["kid"] = Run /\ held["kid"] = 1
      /\ \/ /\ held'["kid"] = 0 /\ held'["grand"] = held["grand"]
            /\ got' = got + 1
            /\ status' = status /\ fds' = fds
         \/ /\ status'["tar"] = status["tar"] /\ status'["grand"] = status["grand"]
            /\ status'["kid"] = SIGPIPE /\ sc.pipe
            /\ fds'["tar"] = fds["tar"] /\ fds'["kid"] = {} /\ fds'["grand"] = fds["grand"]
            /\ held' = held /\ got' = got
      /\ UNCHANGED <<sc, pc, buf, src, eof, error, jobs, seen>>
  BY Zenon, Facts, CodesDiffer DEF TypeOK, Procs, Compress, ProgWrite, OutPipe, At, Running, Exit, CInv, CControl
<1>a. Under' = Under /\ Under \in Nat
  BY <1>0, Numbers DEF Under
<1>b. sc.regular /\ ~PastLast /\ ~PastLast'
  BY Zenon, <1>0, CodesDiffer, Facts DEF PastLast, CInv, CControl
<1>1. CControl'
  BY Zenon, <1>0, <1>b, CodesDiffer, Facts DEF CInv, CControl
<1>2. CEnds'
  BY <1>0, <1>b, CodesDiffer, Facts DEF CInv, CControl, CEnds
<1>3. CFlow'
  BY <1>0, <1>a, <1>b, Numbers DEF CInv, CFlow
<1>4. CRecords'
  BY Zenon, <1>0, <1>b DEF CRecords
<1>m. \A e : Nobody(e) => Nobody(e)'
  BY Zenon, <1>0 DEF Nobody
<1>5. CDone'
  BY Zenon, <1>0, <1>b, <1>m, CodesDiffer DEF CInv, CControl, CDone
<1>6. CStatus'
  BY Zenon, <1>0, <1>b, CodesDiffer, Facts DEF CInv, CControl, CStatus
<1> QED BY Zenon, <1>1, <1>2, <1>3, <1>4, <1>5, <1>6 DEF CInv

\* It ends at the end of its input, or fails.
LEMMA CompressKidEnd ==
    ASSUME TypeOK, CInv, Compress, ProgEnd("kid")
    PROVE  CInv'
<1>0. /\ pc["kid"] = "prog" /\ status["kid"] = Run
      /\ \/ /\ held["kid"] = 0 /\ buf["p"] = 0 /\ Nobody(PW)
            /\ status'["tar"] = status["tar"] /\ status'["kid"] = 0 /\ status'["grand"] = status["grand"]
            /\ fds'["tar"] = fds["tar"] /\ fds'["kid"] = {} /\ fds'["grand"] = fds["grand"]
         \/ /\ status'["tar"] = status["tar"] /\ status'["kid"] = 1 /\ status'["grand"] = status["grand"]
            /\ fds'["tar"] = fds["tar"] /\ fds'["kid"] = {} /\ fds'["grand"] = fds["grand"]
      /\ UNCHANGED <<sc, pc, buf, held, src, got, eof, error, jobs, seen>>
  BY Zenon, EndOfPipe, CodesDiffer DEF TypeOK, Procs, Compress, ProgEnd, InPipe, At, Running, Exit
<1>1. CControl'
  BY Zenon, <1>0, CodesDiffer, Facts DEF CInv, CControl
<1>2. CEnds'
  BY Zenon, <1>0, CodesDiffer, Facts DEF CInv, CControl, CEnds
<1>3. CFlow'
  BY Zenon, <1>0, CodesDiffer DEF CInv, CControl, CFlow, Under, PastLast
<1>4. CRecords'
  BY Zenon, <1>0 DEF CInv, CRecords
<1>m. \A e : Nobody(e) => Nobody(e)'
  BY Zenon, <1>0 DEF Nobody
<1>5. CDone'
  BY <1>0, <1>m, CodesDiffer DEF CInv, CControl, CDone
<1>6. CStatus'
  BY Zenon, <1>0, CodesDiffer, Facts DEF CInv, CControl, CStatus
<1> QED BY Zenon, <1>1, <1>2, <1>3, <1>4, <1>5, <1>6 DEF CInv

\* The compressor in the grandchild reads a block.
LEMMA CompressGrandRead ==
    ASSUME TypeOK, CInv, Compress, ProgRead("grand")
    PROVE  CInv'
<1>0. /\ pc["grand"] = "prog" /\ status["grand"] = Run /\ held["grand"] = 0 /\ buf["p"] > 0
      /\ buf'["p"] = buf["p"] - 1 /\ buf'["c"] = buf["c"]
      /\ held'["kid"] = held["kid"] /\ held'["grand"] = 1
      /\ UNCHANGED <<sc, pc, status, fds, src, got, eof, error, jobs, seen>>
  BY Zenon, CodesDiffer DEF TypeOK, Procs, Compress, ProgRead, InPipe, At, Running, Take
<1>1. CControl'
  BY Zenon, <1>0, CodesDiffer, Facts DEF CInv, CControl
<1>2. CEnds'
  BY Zenon, <1>0, CodesDiffer, Facts DEF CInv, CControl, CEnds
<1>3. CFlow'
  BY <1>0, CodesDiffer, Numbers, Facts DEF CInv, CControl, CFlow, Under, PastLast
<1>4. CRecords'
  BY Zenon, <1>0 DEF CInv, CRecords
<1>5. CDone'
  BY Zenon, <1>0, CodesDiffer, EndsDiffer DEF CInv, CControl, CEnds, CDone, Nobody
<1>6. CStatus'
  BY Zenon, <1>0, CodesDiffer, Facts DEF CInv, CControl, CStatus
<1> QED BY Zenon, <1>1, <1>2, <1>3, <1>4, <1>5, <1>6 DEF CInv

\* It writes one to the kid, or is killed when that has failed.
LEMMA CompressGrandWrite ==
    ASSUME TypeOK, CInv, Compress, ProgWrite("grand")
    PROVE  CInv'
<1>0. /\ pc["grand"] = "prog" /\ status["grand"] = Run /\ held["grand"] = 1
      /\ \/ /\ Nobody(CR)
            /\ status'["tar"] = status["tar"] /\ status'["kid"] = status["kid"] /\ status'["grand"] = SIGPIPE
            /\ fds'["tar"] = fds["tar"] /\ fds'["kid"] = fds["kid"] /\ fds'["grand"] = {}
            /\ buf' = buf /\ held' = held
         \/ /\ buf'["p"] = buf["p"] /\ buf'["c"] = buf["c"] + 1
            /\ held'["kid"] = held["kid"] /\ held'["grand"] = 0
            /\ status' = status /\ fds' = fds
      /\ UNCHANGED <<sc, pc, src, got, eof, error, jobs, seen>>
  BY Zenon, Facts, EndOfPipe, CodesDiffer DEF TypeOK, Procs, Compress, ProgWrite, OutPipe, At, Running, Put, Exit, CInv, CControl
<1>a. Under' = Under /\ Under \in Nat
  BY <1>0, Numbers DEF Under
<1>b. PastLast' <=> PastLast
  BY Zenon, <1>0, CodesDiffer DEF PastLast, CInv, CControl
<1>1. CControl'
  BY Zenon, <1>0, <1>a, <1>b, CodesDiffer, Facts DEF CInv, CControl
<1>2. CEnds'
  BY <1>0, <1>a, <1>b, CodesDiffer, Facts DEF CInv, CControl, CEnds
<1>3. CFlow'
  BY <1>0, <1>a, <1>b, Numbers DEF CInv, CFlow
<1>4. CRecords'
  BY Zenon, <1>0, <1>a, <1>b DEF CInv, CRecords
<1>m. \A e : Nobody(e) => Nobody(e)'
  BY Zenon, <1>0 DEF Nobody
<1>w. ~Nobody(CW)
  BY Zenon, <1>0, CodesDiffer DEF CInv, CEnds, Nobody
<1>5. CDone'
  BY Zenon, <1>0, <1>m, <1>w, CodesDiffer DEF CInv, CControl, CDone
<1>6. CStatus'
  BY <1>0, <1>a, <1>b, CodesDiffer, Facts DEF CInv, CControl, CEnds, CStatus, Nobody
<1> QED BY Zenon, <1>1, <1>2, <1>3, <1>4, <1>5, <1>6 DEF CInv

\* It ends at the end of its input, or fails.
LEMMA CompressGrandEnd ==
    ASSUME TypeOK, CInv, Compress, ProgEnd("grand")
    PROVE  CInv'
<1>0. /\ pc["grand"] = "prog" /\ status["grand"] = Run
      /\ \/ /\ held["grand"] = 0 /\ buf["p"] = 0 /\ Nobody(PW)
            /\ status'["tar"] = status["tar"] /\ status'["kid"] = status["kid"] /\ status'["grand"] = 0
            /\ fds'["tar"] = fds["tar"] /\ fds'["kid"] = fds["kid"] /\ fds'["grand"] = {}
         \/ /\ status'["tar"] = status["tar"] /\ status'["kid"] = status["kid"] /\ status'["grand"] = 1
            /\ fds'["tar"] = fds["tar"] /\ fds'["kid"] = fds["kid"] /\ fds'["grand"] = {}
      /\ UNCHANGED <<sc, pc, buf, held, src, got, eof, error, jobs, seen>>
  BY Zenon, EndOfPipe, CodesDiffer DEF TypeOK, Procs, Compress, ProgEnd, InPipe, At, Running, Exit
<1>1. CControl'
  BY Zenon, <1>0, CodesDiffer, Facts DEF CInv, CControl
<1>2. CEnds'
  BY <1>0, CodesDiffer, Facts DEF CInv, CControl, CEnds
<1>3. CFlow'
  BY Zenon, <1>0, CodesDiffer DEF CInv, CControl, CFlow, Under, PastLast
<1>4. CRecords'
  BY Zenon, <1>0 DEF CInv, CRecords
<1>m. \A e : Nobody(e) => Nobody(e)'
  BY Zenon, <1>0 DEF Nobody
<1>5. CDone'
  BY <1>0, <1>m, CodesDiffer DEF CInv, CControl, CDone
<1>6. CStatus'
  BY Zenon, <1>0, CodesDiffer, Facts DEF CInv, CControl, CStatus
<1> QED BY Zenon, <1>1, <1>2, <1>3, <1>4, <1>5, <1>6 DEF CInv

\* No other step is taken in a compression.
LEMMA CompressOnly ==
    ASSUME TypeOK, CInv, Compress, Next
    PROVE  \/ TarOpen \/ TarCloseEnd \/ TarWrite \/ TarClose \/ TarWait
           \/ KidSetup \/ KidFork \/ KidOpen \/ KidGather \/ KidWrite \/ KidWait
           \/ Exec("kid") \/ ProgRead("kid") \/ ProgWrite("kid") \/ ProgEnd("kid")
           \/ Grand \/ UNCHANGED vars
<1>1. ~TarRead /\ ~TarExec /\ ~TarScriptEnd /\ ~TarFeed /\ ~TarLine /\ ~TarPoll /\ ~TarScriptWait /\ ~TarEnd
  BY Zenon DEF CInv, CControl, Compress, TarRead, TarExec, TarScriptEnd, TarFeed, TarLine, TarPoll, TarScriptWait, TarEnd, At
<1>2. ~KidRecord /\ ~KidFeed /\ ~KidScript /\ ~KidScriptStep
  BY Zenon, CodesDiffer, Facts DEF CInv, CControl, KidRecord, KidFeed, KidScript, KidScriptStep, At, Running
<1> QED BY Zenon, <1>1, <1>2 DEF Next, Tar, Kid, Over

\* A compression keeps its invariant.
LEMMA CompressNext ==
    ASSUME TypeOK, CInv, Compress, [Next]_vars
    PROVE  CInv'
<1>1. CASE UNCHANGED vars
  <2>0. UNCHANGED <<sc, pc, status, fds, buf, held, src, got, eof, error>>
    BY Zenon, <1>1 DEF vars
  <2>1. CControl' /\ CEnds'
    BY <2>0 DEF CInv, CControl, CEnds
  <2>2. CFlow'
    BY Zenon, <2>0 DEF CInv, CFlow, PastLast, Under
  <2>3. CRecords' /\ CDone'
    BY Zenon, <2>0 DEF CInv, CRecords, CDone, Nobody
  <2>4. CStatus'
    BY Zenon, <2>0 DEF CInv, CStatus
  <2> QED BY Zenon, <2>1, <2>2, <2>3, <2>4 DEF CInv
<1>2. CASE Next
  BY Zenon, <1>1, <1>2, CompressOnly, CompressTarOpen, CompressTarCloseEnd, CompressTarWrite, CompressTarClose, CompressTarWait,
     CompressKidSetup, CompressKidFork, CompressKidOpen, CompressKidGather, CompressKidWrite, CompressKidWait,
     CompressKidExec, CompressKidRead, CompressKidProgWrite, CompressKidEnd, CompressGrandSetup, CompressGrandExec,
     CompressGrandRead, CompressGrandWrite, CompressGrandEnd DEF Grand
<1> QED BY Zenon, <1>1, <1>2

-----------------------------------------------------------------------------
(* The steps of a decompression.                                           *)

\* tar starts the kid.
LEMMA UncompressTarOpen ==
    ASSUME TypeOK, UInv, Uncompress, TarOpen
    PROVE  UInv'
<1>0. /\ pc["tar"] = "open" /\ status["tar"] = Run
      /\ pc'["tar"] = "close_end" /\ pc'["kid"] = "new" /\ pc'["grand"] = pc["grand"]
      /\ status'["tar"] = status["tar"] /\ status'["kid"] = Run /\ status'["grand"] = status["grand"]
      /\ fds'["tar"] = {PR, PW} /\ fds'["kid"] = {PR, PW} /\ fds'["grand"] = fds["grand"]
      /\ UNCHANGED <<sc, buf, held, src, got, eof, error, jobs, seen>>
  BY Zenon, CodesDiffer DEF TypeOK, Procs, Uncompress, Compress, TarOpen, At, Running, PR, PW
<1>1. UControl'
  BY Zenon, <1>0, CodesDiffer, Facts DEF UInv, UControl
<1>2. UEnds'
  BY Zenon, <1>0, CodesDiffer, Facts DEF UInv, UControl, UEnds
<1>3. UFlow'
  BY Zenon, <1>0 DEF UInv, UFlow, Under
<1>4. UDone'
  BY Zenon, <1>0, CodesDiffer, EndsDiffer DEF UInv, UControl, UEnds, UDone, Nobody
<1>5. UStatus'
  BY Zenon, <1>0, CodesDiffer, Facts DEF UInv, UControl, UStatus
<1> QED BY Zenon, <1>1, <1>2, <1>3, <1>4, <1>5 DEF UInv

\* tar keeps the reading end.
LEMMA UncompressTarCloseEnd ==
    ASSUME TypeOK, UInv, Uncompress, TarCloseEnd
    PROVE  UInv'
<1>0. /\ pc["tar"] = "close_end" /\ status["tar"] = Run
      /\ pc'["tar"] = "read" /\ pc'["kid"] = pc["kid"] /\ pc'["grand"] = pc["grand"]
      /\ fds'["tar"] = {PR} /\ fds'["kid"] = fds["kid"] /\ fds'["grand"] = fds["grand"]
      /\ UNCHANGED <<sc, status, buf, held, src, got, eof, error, jobs, seen>>
  BY Zenon, CodesDiffer DEF TypeOK, Procs, Uncompress, Compress, TarCloseEnd, At, Running, Goto, PR
<1>1. UControl'
  BY Zenon, <1>0, CodesDiffer, Facts DEF UInv, UControl
<1>2. UEnds'
  BY <1>0, CodesDiffer, Facts DEF UInv, UControl, UEnds
<1>3. UFlow'
  BY Zenon, <1>0 DEF UInv, UFlow, Under
<1>4. UDone'
  BY Zenon, <1>0, CodesDiffer, EndsDiffer DEF UInv, UControl, UEnds, UDone, Nobody
<1>5. UStatus'
  BY Zenon, <1>0, CodesDiffer, Facts DEF UInv, UControl, UStatus
<1> QED BY Zenon, <1>1, <1>2, <1>3, <1>4, <1>5 DEF UInv

\* tar reads a block, meets the end of the pipe, or wants no more.
LEMMA UncompressTarRead ==
    ASSUME TypeOK, UInv, Uncompress, TarRead
    PROVE  UInv'
<1>0. /\ pc["tar"] = "read" /\ status["tar"] = Run
      /\ \/ /\ buf["p"] > 0
            /\ buf'["p"] = buf["p"] - 1 /\ buf'["c"] = buf["c"]
            /\ got' = got + 1
            /\ pc' = pc /\ eof' = eof
         \/ /\ buf["p"] = 0 /\ Nobody(PW)
            /\ pc'["tar"] = "close" /\ pc'["kid"] = pc["kid"] /\ pc'["grand"] = pc["grand"]
            /\ eof' = TRUE
            /\ buf' = buf /\ got' = got
         \/ /\ pc'["tar"] = "close" /\ pc'["kid"] = pc["kid"] /\ pc'["grand"] = pc["grand"]
            /\ buf' = buf /\ got' = got /\ eof' = eof
      /\ UNCHANGED <<sc, status, fds, held, src, error, jobs, seen>>
  BY Zenon, EndOfPipe, CodesDiffer DEF TypeOK, Procs, Uncompress, Compress, TarRead, At, Running, Goto, Take
<1>a. Under' + held'["kid"] + got' = Under + held["kid"] + got
  BY <1>0, Numbers DEF Under
<1>1. UControl'
  BY Zenon, <1>0, <1>a, CodesDiffer, Facts DEF UInv, UControl
<1>2. UEnds'
  BY <1>0, <1>a, CodesDiffer, Facts DEF UInv, UControl, UEnds
<1>3. UFlow'
  BY Zenon, <1>0, <1>a, CodesDiffer, Facts DEF UInv, UControl, UFlow
<1>4. UDone'
  BY Zenon, <1>0, <1>a, CodesDiffer, EndsDiffer DEF UInv, UControl, UEnds, UDone, Nobody
<1>5. UStatus'
  BY Zenon, <1>0, <1>a, CodesDiffer, Facts DEF UInv, UControl, UStatus
<1> QED BY Zenon, <1>1, <1>2, <1>3, <1>4, <1>5 DEF UInv

\* tar closes the pipe.
LEMMA UncompressTarClose ==
    ASSUME TypeOK, UInv, Uncompress, TarClose
    PROVE  UInv'
<1>0. /\ status["tar"] = Run /\ pc["tar"] = "close"
      /\ pc'["tar"] = "wait" /\ pc'["kid"] = pc["kid"] /\ pc'["grand"] = pc["grand"]
      /\ fds'["tar"] = {} /\ fds'["kid"] = fds["kid"] /\ fds'["grand"] = fds["grand"]
      /\ UNCHANGED <<sc, status, buf, held, src, got, eof, error, jobs, seen>>
  BY Zenon, CodesDiffer DEF TypeOK, Procs, Uncompress, Compress, TarClose, At, Running, Goto, UInv, UControl
<1>1. UControl'
  BY Zenon, <1>0, CodesDiffer, Facts DEF UInv, UControl
<1>2. UEnds'
  BY Zenon, <1>0, CodesDiffer, Facts DEF UInv, UControl, UEnds
<1>3. UFlow'
  BY Zenon, <1>0 DEF UInv, UFlow, Under
<1>m. \A e : Nobody(e) => Nobody(e)'
  BY Zenon, <1>0 DEF Nobody
<1>4. UDone'
  BY Zenon, <1>0, <1>m, CodesDiffer DEF UInv, UControl, UDone
<1>5. UStatus'
  BY Zenon, <1>0, CodesDiffer, Facts DEF UInv, UControl, UStatus
<1> QED BY Zenon, <1>1, <1>2, <1>3, <1>4, <1>5 DEF UInv

\* tar ends as the kid did.
LEMMA UncompressTarWait ==
    ASSUME TypeOK, UInv, Uncompress, TarWait
    PROVE  UInv'
<1>0. /\ pc["tar"] = "wait" /\ status["tar"] = Run /\ status["kid"] # Run
      /\ status'["tar"] = (IF WaitForChild(status["kid"], eof) # 0 THEN 2 ELSE error) /\ status'["kid"] = status["kid"] /\ status'["grand"] = status["grand"]
      /\ fds'["tar"] = {} /\ fds'["kid"] = fds["kid"] /\ fds'["grand"] = fds["grand"]
      /\ UNCHANGED <<sc, pc, buf, held, src, got, eof, error, jobs, seen>>
  BY Zenon, CodesDiffer DEF TypeOK, Procs, Uncompress, Compress, TarWait, At, Running, Exit
<1>1. UControl'
  BY Zenon, <1>0, CodesDiffer, Facts DEF UInv, UControl
<1>2. UEnds'
  BY Zenon, <1>0, CodesDiffer, Facts DEF UInv, UControl, UEnds
<1>3. UFlow'
  BY Zenon, <1>0 DEF UInv, UFlow, Under
<1>m. \A e : Nobody(e) => Nobody(e)'
  BY Zenon, <1>0 DEF Nobody
<1>4. UDone'
  BY Zenon, <1>0, <1>m, CodesDiffer DEF UInv, UControl, UDone
<1>5. UStatus'
  BY Zenon, <1>0, CodesDiffer, Facts DEF UInv, UControl, UStatus
<1> QED BY Zenon, <1>1, <1>2, <1>3, <1>4, <1>5 DEF UInv

\* The kid has the writing end.
LEMMA UncompressKidSetup ==
    ASSUME TypeOK, UInv, Uncompress, KidSetup
    PROVE  UInv'
<1>0. /\ pc["kid"] = "new" /\ status["kid"] = Run
      /\ pc'["tar"] = pc["tar"] /\ pc'["kid"] = (IF sc.regular THEN "exec" ELSE "fork") /\ pc'["grand"] = pc["grand"]
      /\ fds'["tar"] = fds["tar"] /\ fds'["kid"] = {PW} /\ fds'["grand"] = fds["grand"]
      /\ UNCHANGED <<sc, status, buf, held, src, got, eof, error, jobs, seen>>
  BY Zenon, SetupEnds, CodesDiffer DEF TypeOK, Procs, Uncompress, Compress, KidSetup, At, Running, Goto, UInv, UEnds
<1>1. UControl'
  BY Zenon, <1>0, CodesDiffer, Facts DEF UInv, UControl
<1>2. UEnds'
  BY Zenon, <1>0, CodesDiffer, Facts DEF UInv, UControl, UEnds
<1>3. UFlow'
  BY Zenon, <1>0 DEF UInv, UFlow, Under
<1>4. UDone'
  BY Zenon, <1>0, CodesDiffer, EndsDiffer DEF UInv, UControl, UEnds, UDone, Nobody
<1>5. UStatus'
  BY Zenon, <1>0, CodesDiffer, Facts DEF UInv, UControl, UStatus
<1> QED BY Zenon, <1>1, <1>2, <1>3, <1>4, <1>5 DEF UInv

\* The kid runs the decompressor.
LEMMA UncompressKidExec ==
    ASSUME TypeOK, UInv, Uncompress, Exec("kid")
    PROVE  UInv'
<1>0. /\ pc["kid"] = "exec" /\ status["kid"] = Run
      /\ \/ /\ pc'["tar"] = pc["tar"] /\ pc'["kid"] = "prog" /\ pc'["grand"] = pc["grand"]
            /\ status' = status /\ fds' = fds
         \/ /\ sc.fails
            /\ status'["tar"] = status["tar"] /\ status'["kid"] = 2 /\ status'["grand"] = status["grand"]
            /\ fds'["tar"] = fds["tar"] /\ fds'["kid"] = {} /\ fds'["grand"] = fds["grand"]
            /\ pc' = pc
      /\ UNCHANGED <<sc, buf, held, src, got, eof, error, jobs, seen>>
  BY Zenon, CodesDiffer DEF TypeOK, Procs, Uncompress, Compress, Exec, At, Running, Goto, Exit
<1>1. UControl'
  BY Zenon, <1>0, CodesDiffer, Facts DEF UInv, UControl
<1>2. UEnds'
  BY Zenon, <1>0, CodesDiffer, Facts DEF UInv, UControl, UEnds
<1>3. UFlow'
  BY Zenon, <1>0 DEF UInv, UFlow, Under
<1>m. \A e : Nobody(e) => Nobody(e)'
  BY Zenon, <1>0 DEF Nobody
<1>4. UDone'
  BY <1>0, <1>m, CodesDiffer DEF UInv, UControl, UDone
<1>5. UStatus'
  BY Zenon, <1>0, CodesDiffer, Facts DEF UInv, UControl, UStatus
<1> QED BY Zenon, <1>1, <1>2, <1>3, <1>4, <1>5 DEF UInv

\* The grandchild runs the decompressor.
LEMMA UncompressGrandExec ==
    ASSUME TypeOK, UInv, Uncompress, Exec("grand")
    PROVE  UInv'
<1>0. /\ pc["grand"] = "exec" /\ status["grand"] = Run
      /\ \/ /\ pc'["tar"] = pc["tar"] /\ pc'["kid"] = pc["kid"] /\ pc'["grand"] = "prog"
            /\ status' = status /\ fds' = fds
         \/ /\ sc.fails
            /\ status'["tar"] = status["tar"] /\ status'["kid"] = status["kid"] /\ status'["grand"] = 2
            /\ fds'["tar"] = fds["tar"] /\ fds'["kid"] = fds["kid"] /\ fds'["grand"] = {}
            /\ pc' = pc
      /\ UNCHANGED <<sc, buf, held, src, got, eof, error, jobs, seen>>
  BY Zenon, CodesDiffer DEF TypeOK, Procs, Uncompress, Compress, Exec, At, Running, Goto, Exit
<1>1. UControl'
  BY Zenon, <1>0, CodesDiffer, Facts DEF UInv, UControl
<1>2. UEnds'
  BY <1>0, CodesDiffer, Facts DEF UInv, UControl, UEnds
<1>3. UFlow'
  BY Zenon, <1>0 DEF UInv, UFlow, Under
<1>m. \A e : Nobody(e) => Nobody(e)'
  BY Zenon, <1>0 DEF Nobody
<1>4. UDone'
  BY <1>0, <1>m, CodesDiffer DEF UInv, UControl, UDone
<1>5. UStatus'
  BY <1>0, CodesDiffer, Facts DEF UInv, UControl, UStatus
<1> QED BY Zenon, <1>1, <1>2, <1>3, <1>4, <1>5 DEF UInv

\* The kid starts the grandchild.
LEMMA UncompressKidFork ==
    ASSUME TypeOK, UInv, Uncompress, KidFork
    PROVE  UInv'
<1>0. /\ pc["kid"] = "fork" /\ status["kid"] = Run
      /\ pc'["tar"] = pc["tar"] /\ pc'["kid"] = "open" /\ pc'["grand"] = "new"
      /\ status'["tar"] = status["tar"] /\ status'["kid"] = status["kid"] /\ status'["grand"] = Run
      /\ fds'["tar"] = fds["tar"] /\ fds'["kid"] = {PW, CR, CW} /\ fds'["grand"] = {PW, CR, CW}
      /\ UNCHANGED <<sc, buf, held, src, got, eof, error, jobs, seen>>
  BY Zenon, CodesDiffer DEF TypeOK, Procs, Uncompress, Compress, KidFork, At, Running, UInv, UEnds, CR, CW
<1>1. UControl'
  BY Zenon, <1>0, CodesDiffer, Facts DEF UInv, UControl
<1>2. UEnds'
  BY Zenon, <1>0, CodesDiffer, Facts DEF UInv, UControl, UEnds
<1>3. UFlow'
  BY Zenon, <1>0 DEF UInv, UFlow, Under
<1>4. UDone'
  BY Zenon, <1>0, CodesDiffer, EndsDiffer DEF UInv, UControl, UEnds, UDone, Nobody
<1>5. UStatus'
  BY Zenon, <1>0, CodesDiffer, Facts DEF UInv, UControl, UStatus
<1> QED BY Zenon, <1>1, <1>2, <1>3, <1>4, <1>5 DEF UInv

\* The grandchild has its ends.
LEMMA UncompressGrandSetup ==
    ASSUME TypeOK, UInv, Uncompress, GrandSetup
    PROVE  UInv'
<1>0. /\ pc["grand"] = "new" /\ status["grand"] = Run
      /\ pc'["tar"] = pc["tar"] /\ pc'["kid"] = pc["kid"] /\ pc'["grand"] = "exec"
      /\ fds'["tar"] = fds["tar"] /\ fds'["kid"] = fds["kid"] /\ fds'["grand"] = {PW, CR}
      /\ UNCHANGED <<sc, status, buf, held, src, got, eof, error, jobs, seen>>
  BY Zenon, SetupEnds, CodesDiffer DEF TypeOK, Procs, Uncompress, Compress, GrandSetup, At, Running, Goto, UInv, UEnds
<1>1. UControl'
  BY Zenon, <1>0, CodesDiffer, Facts DEF UInv, UControl
<1>2. UEnds'
  BY <1>0, CodesDiffer, Facts DEF UInv, UControl, UEnds
<1>3. UFlow'
  BY Zenon, <1>0 DEF UInv, UFlow, Under
<1>4. UDone'
  BY Zenon, <1>0, CodesDiffer, EndsDiffer DEF UInv, UControl, UEnds, UDone, Nobody
<1>5. UStatus'
  BY Zenon, <1>0, CodesDiffer, Facts DEF UInv, UControl, UStatus
<1> QED BY Zenon, <1>1, <1>2, <1>3, <1>4, <1>5 DEF UInv

\* The kid keeps the writing end of the second pipe.
LEMMA UncompressKidOpen ==
    ASSUME TypeOK, UInv, Uncompress, KidOpen
    PROVE  UInv'
<1>z. pc["kid"] = "open" /\ status["kid"] = Run /\ UncompressCopy(fds["kid"]) = {CW}
  BY Zenon, SetupEnds, CodesDiffer DEF KidOpen, At, Running, UInv, UEnds
<1>0. /\ pc["kid"] = "open" /\ status["kid"] = Run
      /\ \/ /\ pc'["tar"] = pc["tar"] /\ pc'["kid"] = "record" /\ pc'["grand"] = pc["grand"]
            /\ fds'["tar"] = fds["tar"] /\ fds'["kid"] = {CW} /\ fds'["grand"] = fds["grand"]
            /\ status' = status
         \/ /\ sc.fails
            /\ status'["tar"] = status["tar"] /\ status'["kid"] = 2 /\ status'["grand"] = status["grand"]
            /\ fds'["tar"] = fds["tar"] /\ fds'["kid"] = {} /\ fds'["grand"] = fds["grand"]
            /\ pc' = pc
      /\ UNCHANGED <<sc, buf, held, src, got, eof, error, jobs, seen>>
  BY Zenon, <1>z, CodesDiffer DEF TypeOK, Procs, Uncompress, Compress, KidOpen, At, Running, Goto, Exit
<1>1. UControl'
  BY Zenon, <1>0, CodesDiffer, Facts DEF UInv, UControl
<1>2. UEnds'
  BY Zenon, <1>0, CodesDiffer, Facts DEF UInv, UControl, UEnds
<1>3. UFlow'
  BY Zenon, <1>0 DEF UInv, UFlow, Under
<1>4. UDone'
  BY <1>0, CodesDiffer, EndsDiffer DEF UInv, UControl, UEnds, UDone, Nobody
<1>5. UStatus'
  BY Zenon, <1>0, CodesDiffer, Facts DEF UInv, UControl, UStatus
<1> QED BY Zenon, <1>1, <1>2, <1>3, <1>4, <1>5 DEF UInv

\* The kid reads a record, or meets the end of the archive.
LEMMA UncompressKidRecord ==
    ASSUME TypeOK, UInv, Uncompress, KidRecord
    PROVE  UInv'
<1>0. /\ pc["kid"] = "record" /\ status["kid"] = Run /\ held["kid"] = 0
      /\ \/ /\ src = 0
            /\ pc'["tar"] = pc["tar"] /\ pc'["kid"] = "wait" /\ pc'["grand"] = pc["grand"]
            /\ fds'["tar"] = fds["tar"] /\ fds'["kid"] = {} /\ fds'["grand"] = fds["grand"]
            /\ held'["kid"] = 0 /\ held'["grand"] = held["grand"]
            /\ src' = src
         \/ /\ src > 0
            /\ held'["kid"] = src - src' /\ held'["grand"] = held["grand"]
            /\ src' = IF src < Rec THEN 0 ELSE src - Rec
            /\ pc' = pc /\ fds' = fds
      /\ UNCHANGED <<sc, status, buf, got, eof, error, jobs, seen>>
  BY Numbers, CodesDiffer DEF TypeOK, Procs, Uncompress, Compress, KidRecord, At, Running, Goto
<1>z. /\ src' \in Nat /\ src' + held'["kid"] = src + held["kid"]
      /\ held'["grand"] = held["grand"] /\ buf' = buf /\ got' = got
      /\ held'["kid"] \in Nat
  <2>1. src' \in Nat /\ src' <= src /\ held'["kid"] = src - src'
    BY <1>0, Numbers
  <2> QED BY <1>0, <2>1, Numbers
<1>a. Under' + held'["kid"] + got' = Under + held["kid"] + got
  BY <1>z, Numbers DEF Under
<1>1. UControl'
  BY Zenon, <1>0, <1>a, CodesDiffer, Facts DEF UInv, UControl
<1>2. UEnds'
  BY <1>0, <1>a, CodesDiffer, Facts DEF UInv, UControl, UEnds
<1>3. UFlow'
  BY Zenon, <1>0, <1>a, CodesDiffer, Facts DEF UInv, UControl, UFlow
<1>4. UDone'
  BY Zenon, <1>0, <1>a, CodesDiffer, EndsDiffer DEF UInv, UControl, UEnds, UDone, Nobody
<1>5. UStatus'
  BY Zenon, <1>0, <1>a, CodesDiffer, Facts DEF UInv, UControl, UStatus
<1> QED BY Zenon, <1>1, <1>2, <1>3, <1>4, <1>5 DEF UInv

\* The kid feeds a block to the decompressor, or is killed when that has ended.
LEMMA UncompressKidFeed ==
    ASSUME TypeOK, UInv, Uncompress, KidFeed
    PROVE  UInv'
<1>0. /\ pc["kid"] = "record" /\ status["kid"] = Run /\ held["kid"] > 0
      /\ \/ /\ Nobody(CR)
            /\ status'["tar"] = status["tar"] /\ status'["kid"] = SIGPIPE /\ status'["grand"] = status["grand"]
            /\ fds'["tar"] = fds["tar"] /\ fds'["kid"] = {} /\ fds'["grand"] = fds["grand"]
            /\ buf' = buf /\ held' = held
         \/ /\ buf'["p"] = buf["p"] /\ buf'["c"] = buf["c"] + 1
            /\ held'["kid"] = held["kid"] - 1 /\ held'["grand"] = held["grand"]
            /\ status' = status /\ fds' = fds
      /\ UNCHANGED <<sc, pc, src, got, eof, error, jobs, seen>>
  BY Zenon, EndOfPipe, CodesDiffer DEF TypeOK, Procs, Uncompress, Compress, KidFeed, At, Running, Put, Exit
<1>a. Under' + held'["kid"] + got' = Under + held["kid"] + got
  BY <1>0, Numbers DEF Under
<1>1. UControl'
  BY Zenon, <1>0, <1>a, CodesDiffer, Facts DEF UInv, UControl
<1>2. UEnds'
  BY <1>0, <1>a, CodesDiffer, Facts DEF UInv, UControl, UEnds
<1>3. UFlow'
  BY Zenon, <1>0, <1>a, CodesDiffer, Facts DEF UInv, UControl, UFlow
<1>4. UDone'
  BY Zenon, <1>0, <1>a, CodesDiffer, EndsDiffer DEF UInv, UControl, UEnds, UDone, Nobody
<1>5. UStatus'
  BY Zenon, <1>0, <1>a, CodesDiffer, EndsDiffer DEF UInv, UControl, UEnds, UDone, UStatus, Nobody
<1> QED BY Zenon, <1>1, <1>2, <1>3, <1>4, <1>5 DEF UInv

\* The kid ends as the grandchild did.
LEMMA UncompressKidWait ==
    ASSUME TypeOK, UInv, Uncompress, KidWait
    PROVE  UInv'
<1>0. /\ pc["kid"] = "wait" /\ status["kid"] = Run /\ status["grand"] # Run
      /\ status'["tar"] = status["tar"] /\ status'["kid"] = status["grand"] /\ status'["grand"] = status["grand"]
      /\ fds'["tar"] = fds["tar"] /\ fds'["kid"] = {} /\ fds'["grand"] = fds["grand"]
      /\ UNCHANGED <<sc, pc, buf, held, src, got, eof, error, jobs, seen>>
  BY Zenon, CodesDiffer DEF TypeOK, Procs, Uncompress, Compress, KidWait, At, Running, WaitForGrandchild, Exit
<1>1. UControl'
  BY Zenon, <1>0, CodesDiffer, Facts DEF UInv, UControl
<1>2. UEnds'
  BY Zenon, <1>0, CodesDiffer, Facts DEF UInv, UControl, UEnds
<1>3. UFlow'
  BY Zenon, <1>0 DEF UInv, UFlow, Under
<1>m. \A e : Nobody(e) => Nobody(e)'
  BY Zenon, <1>0 DEF Nobody
<1>4. UDone'
  BY Zenon, <1>0, <1>m, CodesDiffer DEF UInv, UControl, UDone
<1>5. UStatus'
  BY Zenon, <1>0, CodesDiffer, Facts DEF UInv, UControl, UStatus
<1> QED BY Zenon, <1>1, <1>2, <1>3, <1>4, <1>5 DEF UInv

\* The decompressor in the kid reads a block of the archive.
LEMMA UncompressKidRead ==
    ASSUME TypeOK, UInv, Uncompress, ProgRead("kid")
    PROVE  UInv'
<1>0. /\ pc["kid"] = "prog" /\ status["kid"] = Run /\ held["kid"] = 0 /\ src > 0 /\ sc.regular
      /\ held'["kid"] = 1 /\ held'["grand"] = held["grand"]
      /\ src' = src - 1
      /\ UNCHANGED <<sc, pc, status, fds, buf, got, eof, error, jobs, seen>>
  BY Zenon, Facts, CodesDiffer DEF TypeOK, Procs, Uncompress, Compress, ProgRead, InPipe, At, Running, UInv, UControl
<1>a. Under' + held'["kid"] + got' = Under + held["kid"] + got
  BY <1>0, Numbers DEF Under
<1>1. UControl'
  BY Zenon, <1>0, <1>a, CodesDiffer, Facts DEF UInv, UControl
<1>2. UEnds'
  BY Zenon, <1>0, <1>a, CodesDiffer, Facts DEF UInv, UControl, UEnds
<1>3. UFlow'
  BY Zenon, <1>0, <1>a, CodesDiffer, Facts DEF UInv, UControl, UFlow
<1>4. UDone'
  BY Zenon, <1>0, <1>a, CodesDiffer, EndsDiffer DEF UInv, UControl, UEnds, UDone, Nobody
<1>5. UStatus'
  BY Zenon, <1>0, <1>a, CodesDiffer, Facts DEF UInv, UControl, UStatus
<1> QED BY Zenon, <1>1, <1>2, <1>3, <1>4, <1>5 DEF UInv

\* It writes one to tar, or is killed when that has closed the pipe.
LEMMA UncompressKidWrite ==
    ASSUME TypeOK, UInv, Uncompress, ProgWrite("kid")
    PROVE  UInv'
<1>0. /\ pc["kid"] = "prog" /\ status["kid"] = Run /\ held["kid"] = 1
      /\ \/ /\ Nobody(PR)
            /\ status'["tar"] = status["tar"] /\ status'["kid"] = SIGPIPE /\ status'["grand"] = status["grand"]
            /\ fds'["tar"] = fds["tar"] /\ fds'["kid"] = {} /\ fds'["grand"] = fds["grand"]
            /\ buf' = buf /\ held' = held
         \/ /\ buf'["p"] = buf["p"] + 1 /\ buf'["c"] = buf["c"]
            /\ held'["kid"] = 0 /\ held'["grand"] = held["grand"]
            /\ status' = status /\ fds' = fds
      /\ UNCHANGED <<sc, pc, src, got, eof, error, jobs, seen>>
  BY Zenon, EndOfPipe, CodesDiffer DEF TypeOK, Procs, Uncompress, Compress, ProgWrite, OutPipe, At, Running, Put, Exit
<1>a. Under' + held'["kid"] + got' = Under + held["kid"] + got
  BY <1>0, Numbers DEF Under
<1>1. UControl'
  BY Zenon, <1>0, <1>a, CodesDiffer, Facts DEF UInv, UControl
<1>2. UEnds'
  BY <1>0, <1>a, CodesDiffer, Facts DEF UInv, UControl, UEnds
<1>3. UFlow'
  BY Zenon, <1>0, <1>a, CodesDiffer, Facts DEF UInv, UControl, UFlow
<1>m. \A e : Nobody(e) => Nobody(e)'
  BY Zenon, <1>0 DEF Nobody
<1>w. ~Nobody(PW)
  BY Zenon, <1>0, CodesDiffer DEF UInv, UEnds, Nobody
<1>r. Nobody(PR) => pc["tar"] = "wait"
  BY Zenon, <1>0, CodesDiffer DEF UInv, UControl, UEnds, Nobody
<1>v. eof = FALSE
  BY Zenon, <1>w, Facts DEF UInv, UDone
<1>4. UDone'
  BY Zenon, <1>0, <1>m, <1>v, <1>w, CodesDiffer DEF UInv, UControl, UDone
<1>5. UStatus'
  BY Zenon, <1>0, <1>r, <1>v, CodesDiffer, Facts DEF UInv, UControl, UStatus
<1> QED BY Zenon, <1>1, <1>2, <1>3, <1>4, <1>5 DEF UInv

\* It ends at the end of its input, or fails.
LEMMA UncompressKidEnd ==
    ASSUME TypeOK, UInv, Uncompress, ProgEnd("kid")
    PROVE  UInv'
<1>0. /\ pc["kid"] = "prog" /\ status["kid"] = Run /\ sc.regular
      /\ \/ /\ held["kid"] = 0 /\ src = 0
            /\ status'["tar"] = status["tar"] /\ status'["kid"] = 0 /\ status'["grand"] = status["grand"]
            /\ fds'["tar"] = fds["tar"] /\ fds'["kid"] = {} /\ fds'["grand"] = fds["grand"]
         \/ /\ sc.fails
            /\ status'["tar"] = status["tar"] /\ status'["kid"] = 1 /\ status'["grand"] = status["grand"]
            /\ fds'["tar"] = fds["tar"] /\ fds'["kid"] = {} /\ fds'["grand"] = fds["grand"]
      /\ UNCHANGED <<sc, pc, buf, held, src, got, eof, error, jobs, seen>>
  BY Zenon, Facts, CodesDiffer DEF TypeOK, Procs, Uncompress, Compress, ProgEnd, InPipe, At, Running, Exit, UInv, UControl
<1>1. UControl'
  BY Zenon, <1>0, CodesDiffer, Facts DEF UInv, UControl
<1>2. UEnds'
  BY Zenon, <1>0, CodesDiffer, Facts DEF UInv, UControl, UEnds
<1>3. UFlow'
  BY Zenon, <1>0 DEF UInv, UFlow, Under
<1>m. \A e : Nobody(e) => Nobody(e)'
  BY Zenon, <1>0 DEF Nobody
<1>4. UDone'
  BY <1>0, <1>m, CodesDiffer DEF UInv, UControl, UDone
<1>5. UStatus'
  BY Zenon, <1>0, CodesDiffer, Facts DEF UInv, UControl, UStatus
<1> QED BY Zenon, <1>1, <1>2, <1>3, <1>4, <1>5 DEF UInv

\* The decompressor in the grandchild reads a block.
LEMMA UncompressGrandRead ==
    ASSUME TypeOK, UInv, Uncompress, ProgRead("grand")
    PROVE  UInv'
<1>0. /\ pc["grand"] = "prog" /\ status["grand"] = Run /\ held["grand"] = 0 /\ buf["c"] > 0 /\ ~sc.regular
      /\ buf'["p"] = buf["p"] /\ buf'["c"] = buf["c"] - 1
      /\ held'["kid"] = held["kid"] /\ held'["grand"] = 1
      /\ UNCHANGED <<sc, pc, status, fds, src, got, eof, error, jobs, seen>>
  BY Zenon, Facts, CodesDiffer DEF TypeOK, Procs, Uncompress, Compress, ProgRead, InPipe, At, Running, Take, UInv, UControl
<1>a. Under' + held'["kid"] + got' = Under + held["kid"] + got
  BY <1>0, Numbers DEF Under
<1>1. UControl'
  BY Zenon, <1>0, <1>a, CodesDiffer, Facts DEF UInv, UControl
<1>2. UEnds'
  BY Zenon, <1>0, <1>a, CodesDiffer, Facts DEF UInv, UControl, UEnds
<1>3. UFlow'
  BY Zenon, <1>0, <1>a, CodesDiffer, Facts DEF UInv, UControl, UFlow
<1>4. UDone'
  BY Zenon, <1>0, <1>a, CodesDiffer, EndsDiffer DEF UInv, UControl, UEnds, UDone, Nobody
<1>5. UStatus'
  BY Zenon, <1>0, <1>a, CodesDiffer, Facts DEF UInv, UControl, UStatus
<1> QED BY Zenon, <1>1, <1>2, <1>3, <1>4, <1>5 DEF UInv

\* It writes one to tar, or is killed when that has closed the pipe.
LEMMA UncompressGrandWrite ==
    ASSUME TypeOK, UInv, Uncompress, ProgWrite("grand")
    PROVE  UInv'
<1>0. /\ pc["grand"] = "prog" /\ status["grand"] = Run /\ held["grand"] = 1 /\ ~sc.regular
      /\ \/ /\ Nobody(PR)
            /\ status'["tar"] = status["tar"] /\ status'["kid"] = status["kid"] /\ status'["grand"] = SIGPIPE
            /\ fds'["tar"] = fds["tar"] /\ fds'["kid"] = fds["kid"] /\ fds'["grand"] = {}
            /\ buf' = buf /\ held' = held
         \/ /\ buf'["p"] = buf["p"] + 1 /\ buf'["c"] = buf["c"]
            /\ held'["kid"] = held["kid"] /\ held'["grand"] = 0
            /\ status' = status /\ fds' = fds
      /\ UNCHANGED <<sc, pc, src, got, eof, error, jobs, seen>>
  BY Zenon, Facts, EndOfPipe, CodesDiffer DEF TypeOK, Procs, Uncompress, Compress, ProgWrite, OutPipe, At, Running, Put, Exit, UInv, UControl
<1>a. Under' + held'["kid"] + got' = Under + held["kid"] + got
  BY <1>0, Numbers DEF Under
<1>1. UControl'
  BY Zenon, <1>0, <1>a, CodesDiffer, Facts DEF UInv, UControl
<1>2. UEnds'
  BY <1>0, <1>a, CodesDiffer, Facts DEF UInv, UControl, UEnds
<1>3. UFlow'
  BY Zenon, <1>0, <1>a, CodesDiffer, Facts DEF UInv, UControl, UFlow
<1>m. \A e : Nobody(e) => Nobody(e)'
  BY Zenon, <1>0 DEF Nobody
<1>w. ~Nobody(PW)
  BY Zenon, <1>0, CodesDiffer DEF UInv, UEnds, Nobody
<1>r. Nobody(PR) => pc["tar"] = "wait"
  BY Zenon, <1>0, CodesDiffer DEF UInv, UControl, UEnds, Nobody
<1>v. eof = FALSE
  BY Zenon, <1>w, Facts DEF UInv, UDone
<1>4. UDone'
  BY Zenon, <1>0, <1>m, <1>v, <1>w, CodesDiffer DEF UInv, UControl, UDone
<1>5. UStatus'
  BY <1>0, <1>r, <1>v, CodesDiffer, Facts DEF UInv, UControl, UStatus
<1> QED BY Zenon, <1>1, <1>2, <1>3, <1>4, <1>5 DEF UInv

\* It ends at the end of its input, or fails.
LEMMA UncompressGrandEnd ==
    ASSUME TypeOK, UInv, Uncompress, ProgEnd("grand")
    PROVE  UInv'
<1>0. /\ pc["grand"] = "prog" /\ status["grand"] = Run /\ ~sc.regular
      /\ \/ /\ held["grand"] = 0 /\ buf["c"] = 0 /\ Nobody(CW)
            /\ status'["tar"] = status["tar"] /\ status'["kid"] = status["kid"] /\ status'["grand"] = 0
            /\ fds'["tar"] = fds["tar"] /\ fds'["kid"] = fds["kid"] /\ fds'["grand"] = {}
         \/ /\ sc.fails
            /\ status'["tar"] = status["tar"] /\ status'["kid"] = status["kid"] /\ status'["grand"] = 1
            /\ fds'["tar"] = fds["tar"] /\ fds'["kid"] = fds["kid"] /\ fds'["grand"] = {}
      /\ UNCHANGED <<sc, pc, buf, held, src, got, eof, error, jobs, seen>>
  BY Zenon, Facts, EndOfPipe, CodesDiffer DEF TypeOK, Procs, Uncompress, Compress, ProgEnd, InPipe, At, Running, Exit, UInv, UControl
<1>1. UControl'
  BY Zenon, <1>0, CodesDiffer, Facts DEF UInv, UControl
<1>2. UEnds'
  BY Zenon, <1>0, CodesDiffer, Facts DEF UInv, UControl, UEnds
<1>3. UFlow'
  BY Zenon, <1>0 DEF UInv, UFlow, Under
<1>m. \A e : Nobody(e) => Nobody(e)'
  BY Zenon, <1>0 DEF Nobody
<1>4. UDone'
  BY <1>0, <1>m, CodesDiffer DEF UInv, UControl, UDone
<1>5. UStatus'
  BY <1>0, CodesDiffer, Facts DEF UInv, UControl, UStatus
<1> QED BY Zenon, <1>1, <1>2, <1>3, <1>4, <1>5 DEF UInv

\* No other step is taken in a decompression.
LEMMA UncompressOnly ==
    ASSUME TypeOK, UInv, Uncompress, Next
    PROVE  \/ TarOpen \/ TarCloseEnd \/ TarRead \/ TarClose \/ TarWait
           \/ KidSetup \/ KidFork \/ KidOpen \/ KidRecord \/ KidFeed \/ KidWait
           \/ Exec("kid") \/ ProgRead("kid") \/ ProgWrite("kid") \/ ProgEnd("kid")
           \/ Grand \/ UNCHANGED vars
<1>1. ~TarWrite /\ ~TarExec /\ ~TarScriptEnd /\ ~TarFeed /\ ~TarLine /\ ~TarPoll /\ ~TarScriptWait /\ ~TarEnd
  BY Zenon DEF UInv, UControl, Uncompress, Compress, TarWrite, TarExec, TarScriptEnd, TarFeed, TarLine, TarPoll, TarScriptWait, TarEnd, At
<1>2. ~KidGather /\ ~KidWrite /\ ~KidScript /\ ~KidScriptStep
  BY Zenon, CodesDiffer, Facts DEF UInv, UControl, KidGather, KidWrite, KidScript, KidScriptStep, At, Running
<1> QED BY Zenon, <1>1, <1>2 DEF Next, Tar, Kid, Over

\* A decompression keeps its invariant.
LEMMA UncompressNext ==
    ASSUME TypeOK, UInv, Uncompress, [Next]_vars
    PROVE  UInv'
<1>1. CASE UNCHANGED vars
  <2>0. UNCHANGED <<sc, pc, status, fds, buf, held, src, got, eof, error>>
    BY Zenon, <1>1 DEF vars
  <2>1. UControl' /\ UEnds'
    BY <2>0 DEF UInv, UControl, UEnds
  <2>2. UFlow'
    BY Zenon, <2>0 DEF UInv, UFlow, Under
  <2>3. UDone'
    BY Zenon, <2>0 DEF UInv, UDone, Nobody
  <2>4. UStatus'
    BY Zenon, <2>0 DEF UInv, UStatus
  <2> QED BY Zenon, <2>1, <2>2, <2>3, <2>4 DEF UInv
<1>2. CASE Next
  BY Zenon, <1>1, <1>2, UncompressOnly, UncompressTarOpen, UncompressTarCloseEnd, UncompressTarRead, UncompressTarClose, UncompressTarWait,
     UncompressKidSetup, UncompressKidFork, UncompressKidOpen, UncompressKidRecord, UncompressKidFeed, UncompressKidWait,
     UncompressKidExec, UncompressKidRead, UncompressKidWrite, UncompressKidEnd, UncompressGrandSetup, UncompressGrandExec,
     UncompressGrandRead, UncompressGrandWrite, UncompressGrandEnd DEF Grand
<1> QED BY Zenon, <1>1, <1>2

-----------------------------------------------------------------------------
(* The steps of tar and of a script.                                       *)

\* A script that has ended is bad, or one that ended before it.
LEMMA AppendBad ==
    ASSUME NEW r \in SeenType, seen \in Seq(SeenType), seen' = Append(seen, r), sc' = sc
    PROVE  /\ seen' \in Seq(SeenType)
           /\ HasBad' <=> HasBad \/ Bad(r)
<1>1. seen' \in Seq(SeenType) /\ Len(seen') = Len(seen) + 1 /\ Len(seen) \in Nat
  OBVIOUS
<1>2. DOMAIN seen = 1 .. Len(seen) /\ DOMAIN seen' = 1 .. Len(seen) + 1
  BY <1>1
<1>3. seen'[Len(seen) + 1] = r /\ \A i \in 1 .. Len(seen) : seen'[i] = seen[i]
  OBVIOUS
<1>4. HasBad' <=> \E i \in DOMAIN seen' : Bad(seen'[i])
  BY Zenon DEF HasBad, Bad
<1>5. HasBad' => HasBad \/ Bad(r)
  BY <1>1, <1>2, <1>3, <1>4 DEF HasBad
<1>6. HasBad \/ Bad(r) => HasBad'
  BY <1>1, <1>2, <1>3, <1>4 DEF HasBad
<1> QED BY Zenon, <1>1, <1>5, <1>6

\* The script that is run is one of the four kinds.
LEMMA JobKnown ==
    ASSUME SInv, jobs # <<>>
    PROVE  Job \in Jobs
BY DEF SInv, SControl, Job

\* tar starts a script.
LEMMA ScriptsTarExec ==
    ASSUME TypeOK, SInv, Scripts, TarExec
    PROVE  SInv'
<1>1. Job \in Jobs /\ jobs # <<>>
  BY Zenon, JobKnown DEF TarExec
<1>2. Script.pipe = (Job # "checkpoint") /\ (Job = "checkpoint" => Script.next = "script_wait")
  BY Zenon, <1>1 DEF Script, Jobs, SysExecCommand, SysExecInfoScript, SysExecSetmtimeScript, SysExecCheckpointScript
<1>3. /\ status["tar"] = Run /\ pc["tar"] = "open" /\ fds["tar"] = {}
      /\ status'["tar"] = Run /\ status'["kid"] = Run /\ status'["grand"] = status["grand"]
      /\ pc'["kid"] = "script_new" /\ pc'["tar"] = IF Job = "checkpoint" THEN "script_wait" ELSE "script_end"
      /\ UNCHANGED <<sc, got, eof, jobs, error, seen>>
  BY Zenon, <1>2 DEF TypeOK, Procs, TarExec, At, Running, SInv, SEnds
<1>4. IF Job = "checkpoint" THEN fds' = fds ELSE fds'["tar"] = {PR, PW} /\ fds'["kid"] = {PR, PW}
  BY Zenon, <1>2, <1>3 DEF TypeOK, Procs, TarExec, PR, PW
<1>5. SControl'
  BY Zenon, <1>1, <1>3, CodesDiffer DEF SInv, SControl, Job
<1>6. SEnds'
  BY Zenon, <1>1, <1>3, <1>4, CodesDiffer DEF SInv, SEnds, Job
<1>7. SStatus'
  BY Zenon, <1>3, CodesDiffer DEF SInv, SStatus, HasBad, Bad, Job
<1> QED BY Zenon, <1>5, <1>6, <1>7 DEF SInv

\* tar keeps its end of the pipe.
LEMMA ScriptsTarScriptEnd ==
    ASSUME TypeOK, SInv, Scripts, TarScriptEnd
    PROVE  SInv'
<1>1. Job \in {"command", "info", "mtime"} /\ jobs # <<>>
  BY Zenon, JobKnown, CodesDiffer DEF TarScriptEnd, At, Running, SInv, SControl, Jobs
<1>2. Script.next = IF Job = "command" THEN "feed" ELSE IF Job = "info" THEN "line" ELSE "poll"
  BY Zenon, <1>1 DEF Script, SysExecCommand, SysExecInfoScript, SysExecSetmtimeScript, SysExecCheckpointScript
<1>3. /\ status["tar"] = Run /\ pc["tar"] = "script_end" /\ fds["tar"] = {PR, PW}
      /\ pc'["kid"] = pc["kid"]
      /\ pc'["tar"] = IF Job = "command" THEN "feed" ELSE IF Job = "info" THEN "line" ELSE "poll"
      /\ UNCHANGED <<sc, status, eof, jobs, error, seen>>
  BY Zenon, <1>2 DEF TypeOK, Procs, TarScriptEnd, At, Running, Goto, SInv, SEnds
<1>4. fds'["tar"] = (IF Job = "command" THEN {PW} ELSE {PR}) /\ fds'["kid"] = fds["kid"]
  BY Zenon, <1>3, EndsDiffer DEF TypeOK, Procs, TarScriptEnd, PR, PW
<1>5. SControl'
  BY Zenon, <1>1, <1>3, CodesDiffer DEF SInv, SControl, Job
<1>6. SEnds'
  BY Zenon, <1>1, <1>3, <1>4, CodesDiffer DEF SInv, SEnds, Job
<1>7. SStatus'
  BY Zenon, <1>3, CodesDiffer DEF SInv, SStatus, HasBad, Bad, Job
<1> QED BY Zenon, <1>5, <1>6, <1>7 DEF SInv

\* tar feeds a command, and closes the pipe.
LEMMA ScriptsTarFeed ==
    ASSUME TypeOK, SInv, Scripts, TarFeed
    PROVE  SInv'
<1>1. /\ status["tar"] = Run /\ pc["tar"] = "feed" /\ Job = "command" /\ fds["tar"] = {PW}
      /\ UNCHANGED <<sc, status, got, eof, jobs, error, seen>>
  BY Zenon DEF TarFeed, At, Running, SInv, SControl, SEnds
<1>2. \/ fds' = fds /\ pc' = pc
      \/ fds'["tar"] = {} /\ fds'["kid"] = fds["kid"] /\ pc'["tar"] = "script_wait" /\ pc'["kid"] = pc["kid"]
  BY <1>1 DEF TypeOK, Procs, TarFeed, Goto, PW
<1>3. SControl'
  BY Zenon, <1>1, <1>2, CodesDiffer DEF SInv, SControl, Job
<1>4. SEnds'
  BY Zenon, <1>1, <1>2, CodesDiffer DEF SInv, SEnds, Job
<1>5. SStatus'
  BY Zenon, <1>1, CodesDiffer DEF SInv, SStatus, HasBad, Bad, Job
<1> QED BY Zenon, <1>3, <1>4, <1>5 DEF SInv

\* tar reads the line of a script of --info-script, or finds none.
LEMMA ScriptsTarLine ==
    ASSUME TypeOK, SInv, Scripts, TarLine
    PROVE  SInv'
<1>1. /\ status["tar"] = Run /\ pc["tar"] = "line" /\ Job = "info" /\ fds["tar"] = {PR}
      /\ UNCHANGED <<sc, eof, jobs, error, seen>>
  BY Zenon DEF TarLine, At, Running, SInv, SControl, SEnds
<1>2. CASE pc'["tar"] = "script_wait" /\ status' = status /\ got' = got + 1 /\ fds'["tar"] = {}
           /\ fds'["kid"] = fds["kid"] /\ pc'["kid"] = pc["kid"]
  <2>1. got' > 0
    BY <1>2, Numbers
  <2>2. SControl'
    BY Zenon, <1>1, <1>2, <2>1, CodesDiffer DEF SInv, SControl, Job
  <2>3. SEnds'
    BY Zenon, <1>1, <1>2, CodesDiffer DEF SInv, SEnds, Job
  <2>4. SStatus'
    BY Zenon, <1>1, <1>2, CodesDiffer DEF SInv, SStatus, HasBad, Bad, Job
  <2> QED BY Zenon, <2>2, <2>3, <2>4 DEF SInv
<1>3. CASE pc' = pc /\ status'["tar"] = 2 /\ status'["kid"] = status["kid"] /\ status'["grand"] = status["grand"]
  <2>1. SControl' /\ SEnds'
    BY Zenon, <1>1, <1>3, CodesDiffer DEF SInv, SControl, SEnds, Job
  <2>2. SStatus'
    BY Zenon, <1>1, <1>3, CodesDiffer DEF SInv, SStatus, HasBad, Bad, Job
  <2> QED BY Zenon, <2>1, <2>2 DEF SInv
<1>4. \/ pc'["tar"] = "script_wait" /\ status' = status /\ got' = got + 1 /\ fds'["tar"] = {}
         /\ fds'["kid"] = fds["kid"] /\ pc'["kid"] = pc["kid"]
      \/ pc' = pc /\ status'["tar"] = 2 /\ status'["kid"] = status["kid"] /\ status'["grand"] = status["grand"]
  BY <1>1 DEF TypeOK, Procs, TarLine, Goto, Exit, PR
<1> QED BY Zenon, <1>2, <1>3, <1>4

\* tar reads all that a script of --set-mtime-command writes.
LEMMA ScriptsTarPoll ==
    ASSUME TypeOK, SInv, Scripts, TarPoll
    PROVE  SInv'
<1>1. /\ status["tar"] = Run /\ pc["tar"] = "poll" /\ Job = "mtime" /\ fds["tar"] = {PR}
      /\ UNCHANGED <<sc, status, eof, jobs, error, seen>>
  BY Zenon DEF TarPoll, At, Running, SInv, SControl, SEnds
<1>2. \/ fds' = fds /\ pc' = pc
      \/ /\ fds'["tar"] = {} /\ fds'["kid"] = fds["kid"] /\ pc'["tar"] = "script_wait" /\ pc'["kid"] = pc["kid"]
         /\ Nobody(PW)
  BY <1>1, EndOfPipe DEF TypeOK, Procs, TarPoll, Goto, PR
<1>3. SControl'
  BY Zenon, <1>1, <1>2, CodesDiffer DEF SInv, SControl, Job
<1>4. SEnds'
  BY Zenon, <1>1, <1>2, CodesDiffer DEF SInv, SEnds, Job, Nobody
<1>5. SStatus'
  BY Zenon, <1>1, CodesDiffer DEF SInv, SStatus, HasBad, Bad, Job
<1> QED BY Zenon, <1>3, <1>4, <1>5 DEF SInv

\* A script that has ended is awaited, and what it did counts.
LEMMA ScriptsTarScriptWait ==
    ASSUME TypeOK, SInv, Scripts, TarScriptWait
    PROVE  SInv'
<1> DEFINE s == status["kid"]
           r == [job |-> Job, status |-> s, left |-> src, lines |-> got]
<1>1. /\ status["tar"] = Run /\ pc["tar"] = "script_wait" /\ jobs # <<>> /\ s # Run /\ s # None /\ s # 2
      /\ fds["tar"] = {} /\ (Job = "info" => got > 0) /\ (Job = "mtime" => s # SIGPIPE)
  BY Zenon, CodesDiffer DEF TarScriptWait, At, Running, SInv, SControl, SEnds, SStatus
<1>2. Job \in Jobs /\ jobs \in Seq(Jobs) /\ seen \in Seq(SeenType) /\ s \in {0, 1, SIGPIPE, SIGKILL}
  BY Zenon, <1>1, JobKnown, Facts DEF SInv, SControl, Codes
<1>3. seen' = Append(seen, r) /\ UNCHANGED <<sc, got, eof>>
  BY Zenon DEF TarScriptWait
<1>4. r \in SeenType /\ r.job = Job /\ r.status = s /\ r.lines = got
  BY Zenon, <1>2, Numbers, Facts DEF SeenType
<1> HIDE DEF r
<1>5. seen' \in Seq(SeenType) /\ (HasBad' <=> HasBad \/ Bad(r))
  BY Zenon, <1>2, <1>3, <1>4, AppendBad
<1>6. Bad(r) <=> \/ Job = "command" /\ s = 1 /\ ~sc.ignore
                 \/ Job \in {"info", "mtime"} /\ (s # 0 \/ got = 0)
  BY Zenon, <1>4 DEF Bad
<1>7. CASE Fatal(Job, s)
  <2>1. /\ status'["tar"] = 2 /\ status'["kid"] = s /\ status'["grand"] = status["grand"]
        /\ pc' = pc /\ jobs' = jobs
    BY Zenon, <1>7 DEF TypeOK, Procs, TarScriptWait, Exit
  <2>2. Bad(r)
    BY Zenon, <1>6, <1>7 DEF Fatal, WaitForChild
  <2>3. SControl' /\ SEnds'
    BY Zenon, <1>1, <1>3, <1>5, <2>1, CodesDiffer DEF SInv, SControl, SEnds
  <2>4. SStatus'
    BY Zenon, <1>1, <1>5, <2>1, <2>2, CodesDiffer DEF SStatus
  <2> QED BY Zenon, <2>3, <2>4 DEF SInv
<1>8. CASE ~Fatal(Job, s)
  <2>1. /\ pc'["tar"] = "open" /\ pc'["kid"] = pc["kid"] /\ jobs' = Tail(jobs)
        /\ error' = (IF ScriptError(Job, s) # 0 THEN 2 ELSE error) /\ status' = status /\ fds' = fds
    BY Zenon, <1>8 DEF TypeOK, Procs, TarScriptWait, Goto
  <2>2. ScriptError(Job, s) # 0 <=> Bad(r)
    BY <1>1, <1>2, <1>6, <1>8, CodesDiffer, Numbers DEF Fatal, WaitForChild, ScriptError, Jobs
  <2>3. Tail(jobs) \in Seq(Jobs)
    BY <1>1, <1>2
  <2>4. SControl' /\ SEnds'
    BY Zenon, <1>1, <1>3, <1>5, <2>1, <2>3, CodesDiffer DEF SInv, SControl, SEnds
  <2>5. error' = 2 <=> HasBad'
    BY Zenon, <1>1, <1>5, <2>1, <2>2 DEF SInv, SStatus
  <2>6. SStatus'
    BY Zenon, <1>1, <2>1, <2>5 DEF SStatus
  <2> QED BY Zenon, <2>4, <2>6 DEF SInv
<1> QED BY Zenon, <1>7, <1>8

\* tar has run all the scripts.
LEMMA ScriptsTarEnd ==
    ASSUME TypeOK, SInv, Scripts, TarEnd
    PROVE  SInv'
<1>1. /\ status["tar"] = Run /\ status'["tar"] = error /\ status'["kid"] = status["kid"]
      /\ status'["grand"] = status["grand"] /\ error \in {0, 2}
      /\ UNCHANGED <<sc, pc, got, eof, jobs, error, seen>>
  BY Zenon DEF TypeOK, Procs, TarEnd, Exit, At, Running
<1>2. SControl' /\ SEnds'
  BY Zenon, <1>1, CodesDiffer DEF SInv, SControl, SEnds
<1>3. HasBad' <=> HasBad
  BY Zenon, <1>1 DEF HasBad, Bad
<1>4. SStatus'
  BY Zenon, <1>1, <1>3, CodesDiffer DEF SInv, SStatus
<1> QED BY Zenon, <1>2, <1>4 DEF SInv

\* The script has its end of the pipe.
LEMMA ScriptsKidScript ==
    ASSUME TypeOK, SInv, Scripts, KidScript
    PROVE  SInv'
<1>1. /\ status["kid"] = Run /\ pc'["tar"] = pc["tar"] /\ pc'["kid"] = "script"
      /\ fds'["tar"] = fds["tar"]
      /\ UNCHANGED <<sc, status, got, eof, jobs, error, seen>>
  BY Zenon DEF TypeOK, Procs, KidScript, At, Running, Goto
<1>2. Job = "mtime" /\ PW \in fds["kid"] => PW \in fds'["kid"]
  BY Zenon, EndsDiffer DEF TypeOK, Procs, KidScript, PR, PW
<1>3. SControl' /\ SEnds'
  BY Zenon, <1>1, <1>2, CodesDiffer DEF SInv, SControl, SEnds, Job
<1>4. SStatus'
  BY Zenon, <1>1 DEF SInv, SStatus, HasBad, Bad, Job
<1> QED BY Zenon, <1>3, <1>4 DEF SInv

\* The script does as it likes; one that tar still listens to is not killed
\* by a broken pipe.
LEMMA ScriptsKidScriptStep ==
    ASSUME TypeOK, SInv, Scripts, KidScriptStep
    PROVE  SInv'
<1>1. /\ status["kid"] = Run /\ status'["tar"] = status["tar"] /\ status'["grand"] = status["grand"]
      /\ fds'["tar"] = fds["tar"]
      /\ UNCHANGED <<sc, pc, got, eof, jobs, error, seen>>
  <2>1. status' = status \/ \E c : status' = [status EXCEPT !["kid"] = c]
    BY Zenon DEF KidScriptStep, Exit
  <2>2. fds' = fds \/ fds' = [fds EXCEPT !["kid"] = {}]
    BY Zenon DEF KidScriptStep, Exit
  <2> QED BY Zenon, <2>1, <2>2 DEF TypeOK, Procs, KidScriptStep, At, Running
<1>2. \/ status' = status /\ fds' = fds
      \/ status'["kid"] \in {0, 1, SIGKILL}
      \/ status'["kid"] = SIGPIPE /\ Nobody(PR)
  BY Zenon, EndOfPipe DEF TypeOK, Procs, KidScriptStep, Exit
<1>3. status["tar"] = Run /\ pc["tar"] # "open" /\ Job = "mtime" => ~Nobody(PR)
  BY Zenon, <1>1 DEF SInv, SEnds, Nobody
<1>4. SControl'
  BY Zenon, <1>1, <1>2, CodesDiffer DEF SInv, SControl, Job
<1>5. SEnds'
  BY Zenon, <1>1, <1>2, <1>3, CodesDiffer DEF SInv, SEnds, Job
<1>6. SStatus'
  BY <1>1, <1>2, CodesDiffer DEF SInv, SStatus, HasBad, Bad, Job
<1> QED BY Zenon, <1>4, <1>5, <1>6 DEF SInv

\* No other step is taken with scripts.
LEMMA ScriptsOnly ==
    ASSUME TypeOK, SInv, Scripts, Next
    PROVE  \/ TarExec \/ TarScriptEnd \/ TarFeed \/ TarLine \/ TarPoll \/ TarScriptWait \/ TarEnd
           \/ KidScript \/ KidScriptStep \/ UNCHANGED vars
<1>1. ~TarOpen /\ ~TarCloseEnd /\ ~TarWrite /\ ~TarRead /\ ~TarClose /\ ~TarWait
  BY Zenon DEF SInv, SControl, Scripts, TarOpen, TarCloseEnd, TarWrite, TarRead, TarClose, TarWait, At
<1>2. ~KidSetup /\ ~KidFork /\ ~KidOpen /\ ~KidGather /\ ~KidWrite /\ ~KidRecord /\ ~KidFeed /\ ~KidWait
  BY Zenon DEF SInv, SControl, KidSetup, KidFork, KidOpen, KidGather, KidWrite, KidRecord, KidFeed, KidWait, At, Running
<1>3. ~Exec("kid") /\ ~ProgRead("kid") /\ ~ProgWrite("kid") /\ ~ProgEnd("kid")
  BY Zenon DEF SInv, SControl, Exec, ProgRead, ProgWrite, ProgEnd, At, Running
<1>4. ~Grand
  BY Zenon, CodesDiffer DEF SInv, SControl, Grand, GrandSetup, Exec, ProgRead, ProgWrite, ProgEnd, At, Running
<1> QED BY Zenon, <1>1, <1>2, <1>3, <1>4 DEF Next, Tar, Kid, Over

\* The scripts keep their invariant.
LEMMA ScriptsNext ==
    ASSUME TypeOK, SInv, Scripts, [Next]_vars
    PROVE  SInv'
<1>1. CASE UNCHANGED vars
  BY <1>1 DEF vars, SInv, SControl, SEnds, SStatus, HasBad, Bad, Job
<1>2. CASE Next
  BY Zenon, <1>1, <1>2, ScriptsOnly, ScriptsTarExec, ScriptsTarScriptEnd, ScriptsTarFeed, ScriptsTarLine, ScriptsTarPoll,
     ScriptsTarScriptWait, ScriptsTarEnd, ScriptsKidScript, ScriptsKidScriptStep
<1> QED BY Zenon, <1>1, <1>2

-----------------------------------------------------------------------------
(* The theorem.                                                            *)

\* Every step keeps the inductive invariant.
LEMMA NextInv == Inv /\ [Next]_vars => Inv'
<1> SUFFICES ASSUME Inv, [Next]_vars PROVE Inv'
  BY Zenon
<1>1. TypeOK'
  BY Zenon, TarTypes, KidTypes DEF Inv, TypeOK, Next, Over, vars
<1>2. sc' = sc
  <2>1. CASE Tar
    BY Zenon, <2>1 DEF Tar, TarOpen, TarCloseEnd, TarWrite, TarRead, TarClose, TarWait, TarExec, TarScriptEnd, TarFeed,
                TarLine, TarPoll, TarScriptWait, TarEnd
  <2>2. CASE Kid
    BY Zenon, <2>2 DEF Kid, KidSetup, KidFork, KidOpen, KidGather, KidWrite, KidRecord, KidFeed, KidWait, KidScript,
                KidScriptStep, Exec, ProgRead, ProgWrite, ProgEnd
  <2>3. CASE Grand
    BY Zenon, <2>3 DEF Grand, GrandSetup, Exec, ProgRead, ProgWrite, ProgEnd
  <2> QED BY Zenon, <2>1, <2>2, <2>3 DEF Next, Over, vars
<1>3. (Compress' <=> Compress) /\ (Uncompress' <=> Uncompress) /\ (Scripts' <=> Scripts)
  BY Zenon, <1>2 DEF Compress, Uncompress, Scripts
<1>4. Compress => CInv'
  BY Zenon, CompressNext DEF Inv
<1>5. Uncompress => UInv'
  BY Zenon, UncompressNext DEF Inv
<1>6. Scripts => SInv'
  BY Zenon, ScriptsNext DEF Inv
<1> QED BY Zenon, <1>1, <1>3, <1>4, <1>5, <1>6 DEF Inv

\* What the inductive invariant says of a compression that has succeeded.
LEMMA ArchiveIsComplete == Inv => ArchiveComplete
<1> SUFFICES ASSUME Inv, status["tar"] = 0, Compress
             PROVE  /\ src = 0
                    /\ \/ ReaderGone
                       \/ /\ status["kid"] = 0 /\ status["grand"] \in {None, 0}
                          /\ got = IF sc.regular THEN N ELSE ((N + Rec - 1) \div Rec) * Rec
  BY Zenon DEF ArchiveComplete
<1>1. TypeOK /\ CInv
  BY Zenon DEF Inv
<1>2. /\ status["kid"] \notin {None, Run} /\ error = 0 /\ eof = FALSE /\ pc["tar"] = "wait"
      /\ WaitForChild(status["kid"], eof) = 0
  BY Zenon, <1>1, CodesDiffer DEF CInv, CControl, CStatus, WaitForChild
<1>a. src = 0 /\ (status["kid"] = 0 \/ ReaderGone)
  <2>1. src = 0
    BY Zenon, <1>1, <1>2 DEF CInv, CDone
  <2>2. status["kid"] = 0 \/ status["kid"] = SIGPIPE
    BY <1>2 DEF WaitForChild
  <2>3. status["kid"] = SIGPIPE => ReaderGone
    BY Zenon, <1>1 DEF CInv, CStatus, ReaderGone
  <2> QED BY Zenon, <2>1, <2>2, <2>3
<1>b. SUFFICES ASSUME status["kid"] = 0
               PROVE  /\ status["grand"] \in {None, 0}
                      /\ got = IF sc.regular THEN N ELSE ((N + Rec - 1) \div Rec) * Rec
  BY Zenon, <1>a
<1>3. status["kid"] = 0 /\ src = 0
  BY Zenon, <1>a, <1>b
<1>4. CASE sc.regular
  <2>1. /\ held["kid"] = 0 /\ buf["p"] = 0 /\ held["grand"] = 0 /\ buf["c"] = 0 /\ status["grand"] = None
        /\ Under + held["kid"] + got = N
    BY Zenon, <1>1, <1>3, <1>4 DEF CInv, CControl, CDone, CFlow, PastLast
  <2>2. got = N
    BY <1>1, <1>3, <2>1, Numbers DEF Under
  <2> QED BY Zenon, <1>3, <1>4, <2>1, <2>2
<1>5. CASE ~sc.regular
  <2>1. status["grand"] = 0 /\ pc["kid"] = "wait"
    <3>1. 0 # 2
      OBVIOUS
    <3> QED BY Zenon, <1>1, <1>2, <1>3, <1>5, <3>1, CodesDiffer DEF CInv, CStatus
  <2>2. held["grand"] = 0 /\ buf["p"] = 0 /\ buf["c"] = 0
    BY Zenon, <1>1, <1>3, <1>5, <2>1, CodesDiffer DEF CInv, CDone
  <2>3. got < N - Under + Rec /\ N - Under <= got
    BY Zenon, <1>1, <1>3, <1>5, <2>1, CodesDiffer DEF CInv, CFlow, PastLast
  <2>4. Under = 0
    BY <1>3, <2>2 DEF Under
  <2>5. N <= got /\ got < N + Rec
    BY <1>1, <2>3, <2>4, Numbers
  <2>6. PICK k \in Nat : got = k * Rec
    BY Zenon, <1>1, <1>5 DEF CInv, CRecords
  <2>7. got = ((N + Rec - 1) \div Rec) * Rec
    BY <2>5, <2>6, FilledUp, BoundsAssumption
  <2> QED BY Zenon, <1>3, <1>5, <2>1, <2>7
<1> QED BY Zenon, <1>4, <1>5

\* What it says of a decompression: of one that met the end of the archive, ...
LEMMA FailureIsNoticed == Inv => FailureNoticed
<1> SUFFICES ASSUME Inv, status["tar"] = 0, eof
             PROVE  got = N /\ status["kid"] = 0 /\ status["grand"] \in {None, 0}
  BY Zenon DEF FailureNoticed
<1>1. TypeOK /\ eof = TRUE
  BY Zenon DEF Inv, TypeOK
<1>2. Uncompress /\ UInv
  BY Zenon, <1>1, Facts DEF Inv, Compress, Uncompress, Scripts, CInv, CControl, SInv, SControl
<1>3. status["kid"] = 0
  BY <1>1, <1>2, CodesDiffer DEF UInv, UStatus, WaitForChild
<1>4. held["kid"] = 0 /\ src = 0 /\ buf["p"] = 0 /\ Under + held["kid"] + got = N
  BY Zenon, <1>1, <1>2, <1>3, CodesDiffer DEF UInv, UDone, UFlow
<1>5. held["grand"] = 0 /\ buf["c"] = 0 /\ status["grand"] \in {None, 0}
  BY Zenon, <1>1, <1>2, <1>3, Facts DEF UInv, UControl, UDone, UFlow
<1>6. got = N
  BY <1>1, <1>4, <1>5, Numbers DEF Under
<1> QED BY Zenon, <1>3, <1>5, <1>6

\* ... and of one that tar has cut short.
LEMMA EarlyStopIsNoError == Inv => EarlyStop
<1> SUFFICES ASSUME Inv, Uncompress, ~sc.fails, status["tar"] # Run
             PROVE  status["tar"] = 0
  BY Zenon DEF EarlyStop, Running, Uncompress
<1>1. UInv
  BY Zenon DEF Inv
<1> QED BY Zenon, <1>1, CodesDiffer DEF UInv, UControl, UStatus, WaitForChild

\* In every behaviour, for every size of the pipes, the records and the archive:
\* the exit status of tar is right about the processes it has started, where the
\* reader of an archive that is a pipe may leave at any time; that, a --to-command
\* ended by a signal and a checkpoint script are the exceptions ExitHonest names
\* (sys_child_open_for_compress, sys_child_open_for_uncompress,
\* wait_for_grandchild, sys_wait_for_child, sys_wait_command, sys_exec_*).
THEOREM ExitHonestAlways == Spec => []ExitHonest
<1>1. Inv => ExitHonest
  BY Zenon, ArchiveIsComplete, FailureIsNoticed, EarlyStopIsNoError
     DEF Inv, SInv, SStatus, HasBad, Scripts, Running, ExitHonest, ScriptsReported
<1> QED BY <1>1, InitInv, NextInv, PTL DEF Spec
=============================================================================
