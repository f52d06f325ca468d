------------------------------ MODULE Children ------------------------------
(***************************************************************************)
(* The processes that tar starts (system.c): the compressor, fed through a *)
(* pipe, with a second tar between it and an archive that is not a regular *)
(* file, and the scripts of --to-command, --info-script, --checkpoint-     *)
(* action=exec and --set-mtime-command.                                    *)
(*                                                                         *)
(* "tar" is the program, "kid" the process it forks and "grand" the one    *)
(* that the kid forks.  "p" is the pipe between tar and the kid, "c" the   *)
(* pipe between the kid and the grandchild.  A process has a set of open   *)
(* pipe ends; a pipe is at its end when nobody has its writing end, and is *)
(* broken when nobody has its reading end.  Data is counted in blocks.     *)
(* The archive is the compressor's own output where it is a regular file   *)
(* or tar's standard output (sc.regular); either it or the file that the   *)
(* second tar writes may be a pipe or FIFO, whose reader, a process of     *)
(* somebody else, can go away at any time (sc.pipe).                       *)
(***************************************************************************)
EXTENDS Integers, Sequences

CONSTANTS
    Cap,       \* what a pipe holds
    Rec,       \* blocks of a record
    N,         \* blocks of the archive, or of a member
    Scenarios  \* [mode, regular, pipe, fails, early, ignore, jobs]

ASSUME BoundsAssumption == Cap \in Nat \ {0} /\ Rec \in Nat \ {0} /\ N \in Nat

Jobs == {"command", "info", "mtime", "checkpoint"}

ASSUME ScenariosAssumption ==
    \A s \in Scenarios : /\ s.mode \in {"compress", "uncompress", "script"}
                         /\ {s.regular, s.pipe, s.fails, s.early, s.ignore} \subseteq BOOLEAN
                         /\ s.jobs \in Seq(Jobs)

Procs == {"tar", "kid", "grand"}

VARIABLES
    sc,
    pc,       \* where each process is
    status,   \* None, Run, an exit code, or the signal that ended it
    fds,      \* its pipe ends
    deaf,     \* it ignores SIGPIPE
    buf,      \* what is in the pipes
    held,     \* what the compressor, or the kid, has read and not yet written
    src,      \* blocks of the archive that are still to be read or written
    got,      \* blocks that arrived: in the archive, or in tar
    eof,      \* hit_eof
    jobs,     \* the scripts still to be run
    error,    \* the exit status so far
    seen      \* how the scripts ended

vars == <<sc, pc, status, fds, deaf, buf, held, src, got, eof, jobs, error, seen>>

\* States of a process that are no exit codes.
None == -2
Run == -1
SIGPIPE == 113
SIGKILL == 109
Running(x) == status[x] = Run
Eof(x) == buf[x] = 0 /\ \A q \in Procs : <<x, "w">> \notin fds[q]
Broken(x) == \A q \in Procs : <<x, "r">> \notin fds[q]
Room(x) == buf[x] < Cap

At(q, label) == Running(q) /\ pc[q] = label
Goto(q, label) == pc' = [pc EXCEPT ![q] = label]

\* Process q ends: its pipe ends are closed.
Exit(q, s) ==
    /\ status' = [status EXCEPT ![q] = s]
    /\ fds' = [fds EXCEPT ![q] = {}]

Put(x) == buf' = [buf EXCEPT ![x] = @ + 1]
Take(x) == buf' = [buf EXCEPT ![x] = @ - 1]

-----------------------------------------------------------------------------
(* The compressor, in the kid or in the grandchild.                        *)

Compress == sc.mode = "compress"
InPipe(q) == IF Compress THEN "p" ELSE IF sc.regular THEN "file" ELSE "c"
OutPipe(q) == IF ~Compress THEN "p" ELSE IF sc.regular THEN "file" ELSE "c"

\* It reads a block ...
ProgRead(q) ==
    LET x == InPipe(q) IN
    /\ At(q, "prog") /\ held[q] = 0
    /\ held' = [held EXCEPT ![q] = 1]
    /\ IF x = "file" THEN src > 0 /\ src' = src - 1 /\ UNCHANGED buf ELSE buf[x] > 0 /\ Take(x) /\ UNCHANGED src
    /\ UNCHANGED <<sc, pc, status, fds, deaf, got, eof, jobs, error, seen>>

\* ... and writes one; a broken pipe kills it, and so does the archive when it
\* is a pipe whose reader has gone: the kid has put SIGPIPE back to its default.
ProgWrite(q) ==
    LET x == OutPipe(q) IN
    /\ At(q, "prog") /\ held[q] = 1
    /\ \/ x # "file" /\ Broken(x) /\ Exit(q, SIGPIPE) /\ UNCHANGED <<held, buf, got>>
       \/ x # "file" /\ ~Broken(x) /\ Room(x) /\ Put(x) /\ held' = [held EXCEPT ![q] = 0] /\ UNCHANGED <<status, fds, got>>
       \/ x = "file" /\ sc.pipe /\ Exit(q, SIGPIPE) /\ UNCHANGED <<held, buf, got>>
       \/ x = "file" /\ got' = got + 1 /\ held' = [held EXCEPT ![q] = 0] /\ UNCHANGED <<status, fds, buf>>
    /\ UNCHANGED <<sc, pc, deaf, src, eof, jobs, error, seen>>

\* It ends, or fails.
ProgEnd(q) ==
    LET x == InPipe(q) IN
    /\ At(q, "prog")
    /\ \/ held[q] = 0 /\ (IF x = "file" THEN src = 0 ELSE Eof(x)) /\ Exit(q, 0)
       \/ sc.fails /\ Exit(q, 1)
    /\ UNCHANGED <<sc, pc, deaf, buf, held, src, got, eof, jobs, error, seen>>

-----------------------------------------------------------------------------
(* The kid and the grandchild of a compressed archive.                     *)

\* xdup2 and xclose: one end becomes the standard input or output, whatever
\* that was before is closed, and so is the other end.
Xdup2(set, from, drop) == {from} \cup (set \ (drop \cup {e \in set : e[2] = from[2]}))

CompressKid(set) == Xdup2(set, <<"p", "r">>, {<<"p", "w">>})
UncompressKid(set) == Xdup2(set, <<"p", "w">>, {<<"p", "r">>})
CompressGrand(set) == Xdup2(set, <<"c", "w">>, {<<"c", "r">>})
UncompressGrand(set) == Xdup2(set, <<"c", "r">>, {<<"c", "w">>})
CompressCopy(set) == Xdup2(set, <<"c", "r">>, {<<"c", "w">>})
UncompressCopy(set) == Xdup2(set, <<"c", "w">>, {<<"c", "r">>})

\* The kid has its end of the pipe, and tar's end is closed.
KidSetup ==
    /\ At("kid", "new") /\ sc.mode \in {"compress", "uncompress"}
    /\ deaf' = [deaf EXCEPT !["kid"] = FALSE]
    /\ fds' = [fds EXCEPT !["kid"] = IF Compress THEN CompressKid(@) ELSE UncompressKid(@)]
    /\ Goto("kid", IF sc.regular THEN "exec" ELSE "fork")
    /\ UNCHANGED <<sc, status, buf, held, src, got, eof, jobs, error, seen>>

\* The archive is opened and the compressor is run; either may fail.
Exec(q) ==
    /\ At(q, "exec")
    /\ \/ Goto(q, "prog") /\ UNCHANGED <<status, fds>>
       \/ sc.fails /\ Exit(q, 2) /\ UNCHANGED pc
    /\ UNCHANGED <<sc, deaf, buf, held, src, got, eof, jobs, error, seen>>

KidFork ==
    /\ At("kid", "fork")
    /\ LET all == fds["kid"] \cup {<<"c", "r">>, <<"c", "w">>} IN
       fds' = [fds EXCEPT !["kid"] = all, !["grand"] = all]
    /\ status' = [status EXCEPT !["grand"] = Run]
    /\ pc' = [pc EXCEPT !["kid"] = "open", !["grand"] = "new"]
    /\ deaf' = [deaf EXCEPT !["grand"] = deaf["kid"]]
    /\ UNCHANGED <<sc, buf, held, src, got, eof, jobs, error, seen>>

GrandSetup ==
    /\ At("grand", "new")
    /\ fds' = [fds EXCEPT !["grand"] = IF Compress THEN CompressGrand(@) ELSE UncompressGrand(@)]
    /\ Goto("grand", "exec")
    /\ UNCHANGED <<sc, status, deaf, buf, held, src, got, eof, jobs, error, seen>>

\* The kid keeps the other end of the second pipe, and opens the archive.
KidOpen ==
    /\ At("kid", "open")
    /\ \/ /\ fds' = [fds EXCEPT !["kid"] = IF Compress THEN CompressCopy(@) ELSE UncompressCopy(@)]
          /\ Goto("kid", IF Compress THEN "gather" ELSE "record")
          /\ UNCHANGED status
       \/ sc.fails /\ Exit("kid", 2) /\ UNCHANGED pc
    /\ UNCHANGED <<sc, deaf, buf, held, src, got, eof, jobs, error, seen>>

\* Altered: the loop goes on at the end of the pipe.
KidGatherAgain ==
    /\ At("kid", "gather") /\ held["kid"] < Rec
    /\ \/ buf["c"] > 0 /\ Take("c") /\ held' = [held EXCEPT !["kid"] = @ + 1]
       \/ Eof("c") /\ UNCHANGED <<buf, held>>
    /\ UNCHANGED <<sc, pc, status, fds, deaf, src, got, eof, jobs, error, seen>>

\* Compression: a record is assembled ...
KidGather ==
    /\ At("kid", "gather") /\ held["kid"] < Rec
    /\ \/ buf["c"] > 0 /\ Take("c") /\ held' = [held EXCEPT !["kid"] = @ + 1] /\ UNCHANGED pc
       \/ Eof("c") /\ Goto("kid", "last") /\ UNCHANGED <<buf, held>>
    /\ UNCHANGED <<sc, status, fds, deaf, src, got, eof, jobs, error, seen>>

\* The last record is written at full length.
LastRecord(n) == IF n > 0 THEN Rec ELSE 0

\* ... and written; the last one is filled up.  A write may fail, or kill the
\* kid when the archive is a pipe or FIFO whose reader has gone.
KidWrite ==
    /\ \/ At("kid", "gather") /\ held["kid"] = Rec
       \/ At("kid", "last")
    /\ \/ /\ got' = got + (IF pc["kid"] = "last" THEN LastRecord(held["kid"]) ELSE Rec)
          /\ held' = [held EXCEPT !["kid"] = 0]
          /\ Goto("kid", IF pc["kid"] = "last" THEN "wait" ELSE "gather")
          /\ UNCHANGED <<status, fds>>
       \/ sc.fails /\ held["kid"] > 0 /\ Exit("kid", 2) /\ UNCHANGED <<got, held, pc>>
       \/ sc.pipe /\ held["kid"] > 0 /\ Exit("kid", SIGPIPE) /\ UNCHANGED <<got, held, pc>>
    /\ UNCHANGED <<sc, deaf, buf, src, eof, jobs, error, seen>>

\* Decompression: a record is read from the archive ...
KidRecord ==
    LET n == IF src < Rec THEN src ELSE Rec IN
    /\ At("kid", "record") /\ held["kid"] = 0
    /\ src' = src - n /\ held' = [held EXCEPT !["kid"] = n]
    /\ IF n = 0
       THEN fds' = [fds EXCEPT !["kid"] = {}] /\ Goto("kid", "wait")
       ELSE UNCHANGED <<fds, pc>>
    /\ UNCHANGED <<sc, status, deaf, buf, got, eof, jobs, error, seen>>

\* ... and fed block by block to the grandchild.
KidFeed ==
    /\ At("kid", "record") /\ held["kid"] > 0
    /\ \/ Broken("c") /\ Exit("kid", SIGPIPE) /\ UNCHANGED <<buf, held>>
       \/ ~Broken("c") /\ Room("c") /\ Put("c") /\ held' = [held EXCEPT !["kid"] = @ - 1] /\ UNCHANGED <<status, fds>>
    /\ UNCHANGED <<sc, pc, deaf, src, got, eof, jobs, error, seen>>

\* wait_for_grandchild: the kid ends as the grandchild did.
WaitForGrandchild == Exit("kid", status["grand"])
KidWait ==
    /\ At("kid", "wait") /\ ~Running("grand")
    /\ WaitForGrandchild
    /\ UNCHANGED <<sc, pc, deaf, buf, held, src, got, eof, jobs, error, seen>>

-----------------------------------------------------------------------------
(* tar, with a compressed archive.                                         *)

\* sys_child_open_for_compress, sys_child_open_for_uncompress.
TarOpen ==
    /\ At("tar", "open") /\ sc.mode \in {"compress", "uncompress"}
    /\ fds' = [fds EXCEPT !["tar"] = {<<"p", "r">>, <<"p", "w">>}, !["kid"] = {<<"p", "r">>, <<"p", "w">>}]
    /\ deaf' = [deaf EXCEPT !["tar"] = Compress, !["kid"] = Compress]
    /\ status' = [status EXCEPT !["kid"] = Run]
    /\ pc' = [pc EXCEPT !["tar"] = "close_end", !["kid"] = "new"]
    /\ UNCHANGED <<sc, buf, held, src, got, eof, jobs, error, seen>>

TarCloseEnd ==
    /\ At("tar", "close_end")
    /\ fds' = [fds EXCEPT !["tar"] = IF Compress THEN {<<"p", "w">>} ELSE {<<"p", "r">>}]
    /\ Goto("tar", IF Compress THEN "write" ELSE "read")
    /\ UNCHANGED <<sc, status, deaf, buf, held, src, got, eof, jobs, error, seen>>

\* A record is written; a broken pipe is an error, after which tar closes the
\* pipe and waits for the kid.
TarWrite ==
    /\ At("tar", "write") /\ src > 0
    /\ \/ Broken("p") /\ error' = 2 /\ Goto("tar", "close") /\ UNCHANGED <<buf, src>>
       \/ ~Broken("p") /\ Room("p") /\ Put("p") /\ src' = src - 1 /\ UNCHANGED <<error, pc>>
    /\ UNCHANGED <<sc, status, fds, deaf, held, got, eof, jobs, seen>>

\* A record is read, until the pipe is at its end or nothing more is wanted.
TarRead ==
    /\ At("tar", "read")
    /\ \/ buf["p"] > 0 /\ Take("p") /\ got' = got + 1 /\ UNCHANGED <<eof, pc>>
       \/ Eof("p") /\ eof' = TRUE /\ Goto("tar", "close") /\ UNCHANGED <<buf, got>>
       \/ sc.early /\ Goto("tar", "close") /\ UNCHANGED <<buf, got, eof>>
    /\ UNCHANGED <<sc, status, fds, deaf, held, src, jobs, error, seen>>

\* close_archive, write_fatal_details: the pipe is closed ...
TarClose ==
    /\ \/ At("tar", "close")
       \/ At("tar", "write") /\ src = 0
    /\ fds' = [fds EXCEPT !["tar"] = {}]
    /\ Goto("tar", "wait")
    /\ UNCHANGED <<sc, status, deaf, buf, held, src, got, eof, jobs, error, seen>>

\* Altered: SIGPIPE is never taken for an error.
WaitForChildDeaf(s, e) == IF s \in {0, SIGPIPE} THEN 0 ELSE 2

\* sys_wait_for_child: the exit status, when the child ended with s.
WaitForChild(s, e) == IF s = 0 \/ (s = SIGPIPE /\ ~e) THEN 0 ELSE 2

\* ... and the kid awaited.
TarWait ==
    /\ At("tar", "wait") /\ ~Running("kid")
    /\ Exit("tar", IF WaitForChild(status["kid"], eof) # 0 THEN 2 ELSE error)
    /\ UNCHANGED <<sc, pc, deaf, buf, held, src, got, eof, jobs, error, seen>>

-----------------------------------------------------------------------------
(* Scripts.  "command" is fed a member, "info" writes a line, "mtime" all  *)
(* of its output, "checkpoint" nothing.                                    *)

Job == jobs[1]

\* What is done before the fork: a pipe, SIGPIPE ignored; and what tar does
\* with the pipe then.
SysExecCommand == [pipe |-> TRUE, deaf |-> TRUE, next |-> "feed"]
SysExecInfoScript == [pipe |-> TRUE, deaf |-> TRUE, next |-> "line"]
SysExecSetmtimeScript == [pipe |-> TRUE, deaf |-> FALSE, next |-> "poll"]
SysExecCheckpointScript == [pipe |-> FALSE, deaf |-> FALSE, next |-> "script_wait"]
Script == CASE Job = "command" -> SysExecCommand
            [] Job = "info" -> SysExecInfoScript
            [] Job = "mtime" -> SysExecSetmtimeScript
            [] Job = "checkpoint" -> SysExecCheckpointScript

TarExec ==
    LET both == {<<"p", "r">>, <<"p", "w">>} IN
    /\ At("tar", "open") /\ sc.mode = "script" /\ jobs # <<>>
    /\ deaf' = [deaf EXCEPT !["tar"] = @ \/ Script.deaf, !["kid"] = deaf["tar"] \/ Script.deaf]
    /\ fds' = IF Script.pipe THEN [fds EXCEPT !["tar"] = @ \cup both, !["kid"] = fds["tar"] \cup both] ELSE fds
    /\ status' = [status EXCEPT !["kid"] = Run]
    /\ pc' = [pc EXCEPT !["tar"] = IF Script.pipe THEN "script_end" ELSE Script.next, !["kid"] = "script_new"]
    /\ buf' = [buf EXCEPT !["p"] = 0] /\ src' = N
    /\ UNCHANGED <<sc, held, got, eof, jobs, error, seen>>

TarScriptEnd ==
    /\ At("tar", "script_end")
    /\ fds' = [fds EXCEPT !["tar"] = @ \ {IF Job = "command" THEN <<"p", "r">> ELSE <<"p", "w">>}]
    /\ Goto("tar", Script.next)
    /\ got' = 0
    /\ UNCHANGED <<sc, status, deaf, buf, held, src, eof, jobs, error, seen>>

FeedOver == src = 0 \/ Broken("p")

\* The command gets the member; when it does not read all of it the rest is
\* skipped without a word.
TarFeed ==
    /\ At("tar", "feed")
    /\ \/ ~FeedOver /\ Room("p") /\ Put("p") /\ src' = src - 1 /\ UNCHANGED <<fds, pc>>
       \/ /\ FeedOver
          /\ fds' = [fds EXCEPT !["tar"] = @ \ {<<"p", "w">>}] /\ Goto("tar", "script_wait") /\ UNCHANGED <<buf, src>>
    /\ UNCHANGED <<sc, status, deaf, held, got, eof, jobs, error, seen>>

\* getline takes one line; a script of --info-script that writes nothing is
\* fatal, and is not awaited.
TarLine ==
    /\ At("tar", "line")
    /\ \/ /\ buf["p"] > 0 /\ Take("p") /\ got' = got + 1
          /\ fds' = [fds EXCEPT !["tar"] = @ \ {<<"p", "r">>}] /\ Goto("tar", "script_wait")
          /\ UNCHANGED <<deaf, status>>
       \/ /\ Eof("p") /\ Exit("tar", 2)
          /\ deaf' = [deaf EXCEPT !["tar"] = FALSE] /\ UNCHANGED <<buf, got, pc>>
    /\ UNCHANGED <<sc, held, src, eof, jobs, error, seen>>

\* The loop on poll takes all that there is.
TarPoll ==
    /\ At("tar", "poll")
    /\ \/ buf["p"] > 0 /\ Take("p") /\ got' = got + 1 /\ UNCHANGED <<fds, pc>>
       \/ /\ Eof("p") /\ fds' = [fds EXCEPT !["tar"] = @ \ {<<"p", "r">>}]
          /\ Goto("tar", "script_wait") /\ UNCHANGED <<buf, got>>
    /\ UNCHANGED <<sc, status, deaf, held, src, eof, jobs, error, seen>>

\* sys_wait_command: only an exit code counts, when it is not ignored.
\* sys_exec_setmtime_script: no output is an error.
ScriptError(job, s) ==
    IF (job = "command" /\ s \in {1, 2} /\ ~sc.ignore) \/ (job = "mtime" /\ got = 0) THEN 2 ELSE 0

\* A script of --info-script or --set-mtime-command that fails is fatal.
Fatal(job, s) == \/ job = "info" /\ s # 0
                 \/ job = "mtime" /\ WaitForChild(s, FALSE) # 0

\* The handler of SIGPIPE is put back.
Restored == [deaf EXCEPT !["tar"] = FALSE]

TarScriptWait ==
    LET s == status["kid"] IN
    /\ At("tar", "script_wait") /\ ~Running("kid")
    /\ deaf' = Restored
    /\ seen' = Append(seen, [job |-> Job, status |-> s, left |-> src, lines |-> got])
    /\ IF Fatal(Job, s)
       THEN Exit("tar", 2) /\ UNCHANGED <<pc, jobs, error>>
       ELSE /\ Goto("tar", "open") /\ jobs' = Tail(jobs)
            /\ error' = IF ScriptError(Job, s) # 0 THEN 2 ELSE error
            /\ UNCHANGED <<status, fds>>
    /\ UNCHANGED <<sc, buf, held, src, got, eof>>

TarEnd ==
    /\ At("tar", "open") /\ sc.mode = "script" /\ jobs = <<>>
    /\ Exit("tar", error)
    /\ UNCHANGED <<sc, pc, deaf, buf, held, src, got, eof, jobs, error, seen>>

\* The script has its end of the pipe.
KidScript ==
    /\ At("kid", "script_new")
    /\ fds' = [fds EXCEPT !["kid"] = @ \ {IF Job = "command" THEN <<"p", "w">> ELSE <<"p", "r">>}]
    /\ Goto("kid", "script") /\ held' = [held EXCEPT !["kid"] = 0]
    /\ UNCHANGED <<sc, status, deaf, buf, src, got, eof, jobs, error, seen>>

\* It reads its input or writes a line, as it likes, and ends.
KidScriptStep ==
    /\ At("kid", "script")
    /\ \/ Job = "command" /\ buf["p"] > 0 /\ Take("p") /\ UNCHANGED <<status, fds, held>>
       \/ /\ Job \in {"info", "mtime"} /\ held["kid"] < N /\ held' = [held EXCEPT !["kid"] = @ + 1]
          /\ \/ ~Broken("p") /\ Room("p") /\ Put("p") /\ UNCHANGED <<status, fds>>
             \/ Broken("p") /\ Exit("kid", IF deaf["kid"] THEN 1 ELSE SIGPIPE) /\ UNCHANGED buf
       \/ /\ Job = "command" => Eof("p")
          /\ Exit("kid", 0) /\ UNCHANGED <<buf, held>>
       \/ /\ sc.fails /\ \E s \in {0, 1, SIGKILL} : Exit("kid", s)
          /\ UNCHANGED <<buf, held>>
    /\ UNCHANGED <<sc, pc, deaf, src, got, eof, jobs, error, seen>>

-----------------------------------------------------------------------------

Tar == \/ TarOpen \/ TarCloseEnd \/ TarWrite \/ TarRead \/ TarClose \/ TarWait
       \/ TarExec \/ TarScriptEnd \/ TarFeed \/ TarLine \/ TarPoll \/ TarScriptWait \/ TarEnd
Kid == \/ KidSetup \/ KidFork \/ KidOpen \/ KidGather \/ KidWrite \/ KidRecord \/ KidFeed \/ KidWait
       \/ KidScript \/ KidScriptStep
       \/ Exec("kid") \/ ProgRead("kid") \/ ProgWrite("kid") \/ ProgEnd("kid")
Grand == GrandSetup \/ Exec("grand") \/ ProgRead("grand") \/ ProgWrite("grand") \/ ProgEnd("grand")
Over == (\A q \in Procs : ~Running(q)) /\ UNCHANGED vars

Init ==
    /\ sc \in Scenarios
    /\ pc = [q \in Procs |-> "open"]
    /\ status = [q \in Procs |-> IF q = "tar" THEN Run ELSE None]
    /\ fds = [q \in Procs |-> {}] /\ deaf = [q \in Procs |-> FALSE]
    /\ buf = [x \in {"p", "c"} |-> 0] /\ held = [q \in Procs |-> 0]
    /\ src = N /\ got = 0 /\ eof = FALSE /\ jobs = sc.jobs /\ error = 0 /\ seen = <<>>

Next == Tar \/ Kid \/ Grand \/ Over

\* Every process runs on its own.
Spec == Init /\ [][Next]_vars /\ WF_vars(Tar) /\ WF_vars(Kid) /\ WF_vars(Grand)
-----------------------------------------------------------------------------

\* The archive is a pipe or FIFO whose reader has gone, and that has killed the
\* process that writes it.
ReaderGone == sc.pipe /\ status["kid"] = SIGPIPE

\* When tar succeeds the compressed archive is complete, up to the end of a
\* record where there is a second tar, and every process has succeeded; or the
\* archive is a pipe whose reader did not want all of it, which
\* sys_wait_for_child takes for success when all of tar's own data had gone
\* into the first pipe before.
ArchiveComplete ==
    status["tar"] = 0 /\ Compress =>
        /\ src = 0
        /\ \/ ReaderGone
           \/ /\ status["kid"] = 0 /\ status["grand"] \in {None, 0}
              /\ got = IF sc.regular THEN N ELSE ((N + Rec - 1) \div Rec) * Rec

\* When tar read the archive to the end of the pipe and succeeds, nothing is
\* missing and the decompressor has succeeded.
FailureNoticed ==
    status["tar"] = 0 /\ eof => got = N /\ status["kid"] = 0 /\ status["grand"] \in {None, 0}

\* When tar stops reading early the signal that ends the others is no error.
EarlyStop == sc.mode = "uncompress" /\ ~sc.fails /\ ~Running("tar") => status["tar"] = 0

\* A script whose failure counts: a --to-command that exits with an error code
\* (unless --ignore-command-error), an --info-script or --set-mtime-command that
\* exits with one, is killed, or writes nothing.  Not a --to-command that a
\* signal ends, for which sys_wait_command only prints a warning, and not a
\* checkpoint script, whose status sys_exec_checkpoint_script does not look at.
Bad(r) == \/ r.job = "command" /\ r.status = 1 /\ ~sc.ignore
          \/ r.job \in {"info", "mtime"} /\ (r.status # 0 \/ r.lines = 0)

\* The exit status is 2 exactly when the failure of some script counts (or an
\* --info-script wrote nothing and was not awaited).
ScriptsReported ==
    sc.mode = "script" /\ ~Running("tar") =>
        IF \E i \in DOMAIN seen : Bad(seen[i]) THEN status["tar"] = 2
        ELSE status["tar"] = 0 \/ Job = "info"

\* The exit status of tar is right about the processes it started: success
\* means that the data went through all of them, except when the archive is a
\* pipe whose reader left; a decompressor that was only cut short is no error;
\* and a script that exits with an error is one, except a checkpoint script
\* (wait_for_grandchild, sys_wait_for_child, sys_wait_command, sys_exec_*).
ExitHonest == ArchiveComplete /\ FailureNoticed /\ EarlyStop /\ ScriptsReported

\* All processes end: none waits for ever for another one.
Terminates == <>[](\A q \in Procs : ~Running(q))
=============================================================================
