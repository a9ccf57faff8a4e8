------------------------------- MODULE Runtime -------------------------------
(***************************************************************************)
(* The command flows of ns-runtime, src/src/main.c, for one container id.  *)
(* Every runtime in Runtimes is a process that executes one command from   *)
(* main() to its exit status and may then be used for another one.  All    *)
(* they share is the state file (StateFile) and the process table          *)
(* (InitProcess); what a command learned from them it keeps in mem, the    *)
(* nk_container_t it loaded, however old that is.                          *)
(***************************************************************************)
EXTENDS InitProcess, Naturals, Commands

CONSTANTS Jobs,         \* the commands that may be issued: a subset of JobSpace
          MaxCommands,  \* bound: how many commands are issued in a behaviour
          Overlap       \* which commands may be in progress when one is issued

ASSUME JobsAssumption        == Jobs \subseteq JobSpace
ASSUME MaxCommandsAssumption == MaxCommands \in Nat
(* "none": commands are issued one after the other; "waiting": also while
   others wait for the container or for an exec session; "any": at any time. *)
ASSUME OverlapAssumption     == Overlap \in {"none", "waiting", "any"}

VARIABLES pc,           \* where each runtime is; "ok" and "fail" are exits
          job,          \* its command line
          mem,          \* its in-memory nk_container_t
          child,        \* the pid it cloned, or whose session it is in
          left,         \* commands still to be issued
          pidFile       \* the pid in the --pid-file, NoPid while it is empty or missing

cmdVars == <<pc, job, mem, child>>
vars    == <<fileVars, procVars, cmdVars, left, pidFile>>

Rest     == {"ok", "fail"}
Waiting  == {"wait", "session"}
Pcs == Rest \cup Waiting \cup
       {"exists", "spec", "statdir", "mkdir", "open", "flush", "load", "clone",
        "read", "pidfile", "pidwrite", "xload", "probe", "dload", "term", "check", "kill",
        "unlink", "rmdir", "query"}

Init ==
  /\ FileInit /\ ProcInit
  /\ pc = [r \in Runtimes |-> "ok"]
  /\ job = [r \in Runtimes |-> NoJob]
  /\ mem = [r \in Runtimes |-> Absent]
  /\ child = [r \in Runtimes |-> NoPid]
  /\ left = MaxCommands
  /\ pidFile = NoPid

-----------------------------------------------------------------------------
(* Control.  Proceed moves runtime r on to t with the record m and pid c in
   its hands and t' as process table; an exit drops both and orphans r's
   child. *)
Proceed(r, t, m, c, table) ==
  /\ pc' = [pc EXCEPT ![r] = t]
  /\ IF t \in Rest
     THEN /\ job' = [job EXCEPT ![r] = NoJob]
          /\ mem' = [mem EXCEPT ![r] = Absent]
          /\ child' = [child EXCEPT ![r] = NoPid]
          /\ proc' = Orphan(r, table)
     ELSE /\ mem' = [mem EXCEPT ![r] = m]
          /\ child' = [child EXCEPT ![r] = c]
          /\ proc' = table
          /\ UNCHANGED job

(* A step that changes neither the record, the pid nor the process table. *)
Goto(r, t) == Proceed(r, t, mem[r], child[r], proc)

At(r, l) == pc[r] = l /\ UNCHANGED <<used, left>>

(* nk_container_run: a failed start is followed by a delete only with --rm. *)
AfterFailedStart(r) == IF job[r].rm THEN "dload" ELSE "fail"

(* main and nk_container_run, once nk_container_start has returned 0. *)
AfterStart(r) == IF job[r].rm THEN "dload"
                 ELSE IF job[r].pidfile THEN "pidfile" ELSE "ok"

(* Mutant of AfterSave: an attached start waits after each of its saves. *)
AfterSave_WaitAgain(r, saved) ==
  CASE job[r].attach /\ mem[r].st # "created" -> "wait"
    [] mem[r].st = "created" -> IF ~saved THEN "fail"
                                ELSE IF job[r].op = "run" THEN "load" ELSE "ok"
    [] mem[r].st = "running" -> AfterStart(r)
    [] OTHER -> IF child[r] = NoPid THEN "fail" ELSE "ok"

(* Where nk_state_save returns to.  Only nk_container_create looks at the
   result; start and update_stopped_state_if_dead warn and go on. *)
AfterSave(r, saved) ==
  CASE mem[r].st = "created" -> IF ~saved THEN "fail"
                                ELSE IF job[r].op = "run" THEN "load" ELSE "ok"
    [] mem[r].st = "running" -> IF job[r].attach THEN "wait" ELSE AfterStart(r)
    [] OTHER -> IF job[r].op # "exec" THEN AfterStart(r)
                ELSE IF child[r] = NoPid THEN "fail" ELSE "ok"

(* Mutant of AfterDelete: a run --rm hands on what its delete returned. *)
AfterDelete_Zero(r) == "ok"

(* nk_container_delete returns 0 whatever nk_state_delete said; a run --rm
   whose start failed still returns -1. *)
AfterDelete(r) == IF job[r].op = "run" /\ child[r] = NoPid THEN "fail" ELSE "ok"

EntryOf(op) == CASE op \in {"create", "run"} -> "exists" [] op = "start" -> "load"
                 [] op = "exec" -> "xload" [] op = "delete" -> "dload"
                 [] OTHER -> "query"

MayIssue ==
  \/ Overlap = "any"
  \/ \A r \in Runtimes : pc[r] \in Rest \cup (IF Overlap = "waiting" THEN Waiting ELSE {})

(* main: a new ns-runtime process, its arguments parsed. *)
Issue(r, j) ==
  /\ pc[r] \in Rest /\ left > 0 /\ MayIssue
  /\ pc' = [pc EXCEPT ![r] = EntryOf(j.op)]
  /\ job' = [job EXCEPT ![r] = j]
  /\ left' = left - 1
  /\ UNCHANGED <<fileVars, procVars, mem, child, pidFile>>

-----------------------------------------------------------------------------
(* nk_container_create *)

CheckExists(r) ==
  /\ At(r, "exists")
  /\ Goto(r, IF StateExists THEN "fail" ELSE "spec")
  /\ UNCHANGED <<fileVars, readied, pidFile>>

(* Mutant of LoadSpec: the directory is made before the bundle is looked at. *)
LoadSpec_DirFirst(r) ==
  /\ At(r, "spec")
  /\ \/ Goto(r, "fail")
     \/ Proceed(r, "statdir", Created, NoPid, proc)
  /\ dir' = TRUE
  /\ UNCHANGED <<file, linked, readied, pidFile>>

(* nk_oci_spec_load and nk_oci_spec_validate accept the bundle, or do not. *)
LoadSpec(r) ==
  /\ At(r, "spec")
  /\ \/ Goto(r, "fail")
     \/ Proceed(r, "statdir", Created, NoPid, proc)
  /\ UNCHANGED <<fileVars, readied, pidFile>>

-----------------------------------------------------------------------------
(* nk_state_save of mem[r], for create, start and exec alike *)

StatDir(r) ==
  /\ At(r, "statdir")
  /\ Goto(r, IF dir THEN "open" ELSE "mkdir")
  /\ UNCHANGED <<fileVars, readied, pidFile>>

MakeDir(r) ==
  /\ At(r, "mkdir")
  /\ \/ MkdirContainer /\ Goto(r, "open")
     \/ /\ dir \/ "disk" \in Faults
        /\ Goto(r, AfterSave(r, FALSE))
        /\ UNCHANGED fileVars
  /\ UNCHANGED <<readied, pidFile>>

OpenFile(r) ==
  /\ At(r, "open")
  /\ \/ OpenTruncate(r) /\ Goto(r, "flush")
     \/ /\ ~dir \/ "disk" \in Faults
        /\ Goto(r, AfterSave(r, FALSE))
        /\ UNCHANGED fileVars
  /\ UNCHANGED <<readied, pidFile>>

(* The save counts as done even if the buffered write fails at fclose. *)
WriteFile(r) ==
  /\ At(r, "flush")
  /\ FlushRecord(r, mem[r]) \/ ("disk" \in Faults /\ DropRecord(r))
  /\ Goto(r, AfterSave(r, TRUE))
  /\ UNCHANGED <<readied, pidFile>>

-----------------------------------------------------------------------------
(* nk_container_start *)

(* Mutants of MayStart: any record will do; a file that does not parse leaves
   the zeroed nk_container_t, which is CREATED. *)
MayStart_Any(c)      == Parses(c)
MayStart_Unparsed(c) == c.st \in {"created", "torn"}

MayStart(c) == Parses(c) /\ c.st = "created"

LoadForStart(r) ==
  /\ At(r, "load")
  /\ IF MayStart(file)
     THEN Proceed(r, "clone", file, NoPid, proc)
     ELSE Goto(r, AfterFailedStart(r))
  /\ UNCHANGED <<fileVars, readied, pidFile>>

(* The bundle does not load any more, the mode is vm, or nk_container_exec
   fails before or in clone(). *)
PrepareFails(r) ==
  /\ At(r, "clone")
  /\ Goto(r, AfterFailedStart(r))
  /\ UNCHANGED <<fileVars, readied, pidFile>>

CloneInit(r) ==
  /\ pc[r] = "clone"
  /\ \E p \in Available :
       /\ Proceed(r, "read", mem[r], p,
                  [proc EXCEPT ![p] = [st |-> "setup", par |-> r, ready |-> FALSE]])
       /\ used' = used \cup {p}
  /\ UNCHANGED <<fileVars, readied, left, pidFile>>

(* Mutants of the next two: any end of the read counts as ready; no end of
   file arrives, because the parent keeps its copy of the write end. *)
ReadyByte_OrEof(r)     == proc[child[r]].ready \/ proc[child[r]].st = "zombie"
NoReadyByte_Blocked(r) == FALSE

(* read() on the sync pipe returns CHILD_SYNC_READY; or it returns
   CHILD_SYNC_ERROR or 0, the child being gone with its end of the pipe. *)
ReadyByte(r)   == proc[child[r]].ready
NoReadyByte(r) == proc[child[r]].st = "zombie" /\ ~proc[child[r]].ready

(* Mutant of AwaitReady: the parent polls the child with waitpid and WNOHANG. *)
AwaitReady_Polls(r) ==
  /\ At(r, "read")
  /\ ReadyByte(r)
  /\ Proceed(r, "statdir", Running(child[r]), child[r],
             [proc EXCEPT ![child[r]] = IF @.st = "zombie" THEN NoProcess
                                        ELSE [@ EXCEPT !.ready = FALSE]])
  /\ UNCHANGED <<fileVars, readied, pidFile>>

(* nk_container_exec reads CHILD_SYNC_READY; start turns the record into
   RUNNING and saves it. *)
AwaitReady(r) ==
  /\ At(r, "read")
  /\ ReadyByte(r)
  /\ Proceed(r, "statdir", Running(child[r]), child[r],
             [proc EXCEPT ![child[r]].ready = FALSE])
  /\ UNCHANGED <<fileVars, readied, pidFile>>

(* nk_container_exec reads CHILD_SYNC_ERROR or end of file and reaps. *)
AwaitFailure(r) ==
  /\ At(r, "read")
  /\ NoReadyByte(r)
  /\ Proceed(r, AfterFailedStart(r), mem[r], NoPid, [proc EXCEPT ![child[r]] = NoProcess])
  /\ UNCHANGED <<fileVars, readied, pidFile>>

(* nk_container_wait, then the record becomes STOPPED and is saved: the file
   is not read again. *)
WaitInit(r) ==
  /\ At(r, "wait")
  /\ proc[child[r]].st = "zombie"
  /\ Proceed(r, "statdir", Stopped, child[r], [proc EXCEPT ![child[r]] = NoProcess])
  /\ UNCHANGED <<fileVars, readied, pidFile>>

(* write_container_pid_file loads the state file again; the fopen of
   write_pid_file empties what an earlier start has written. *)
OpenPidFile(r) ==
  /\ At(r, "pidfile")
  /\ \/ /\ Parses(file) /\ file.pid # NoPid
        /\ Proceed(r, "pidwrite", file, child[r], proc)
        /\ pidFile' = NoPid
     \/ /\ ~Parses(file) \/ file.pid = NoPid \/ "disk" \in Faults
        /\ Goto(r, "fail")
        /\ UNCHANGED pidFile
  /\ UNCHANGED <<fileVars, readied>>

(* Mutant of WritePidFile: the stream is never closed nor flushed. *)
WritePidFile_Unflushed(r) ==
  /\ At(r, "pidwrite")
  /\ Goto(r, "ok")
  /\ UNCHANGED <<fileVars, readied, pidFile>>

(* write_pid_file looks at neither fprintf nor fclose and returns 0.  Of two
   writers the later one's pid is the first line: both write from offset 0. *)
WritePidFile(r) ==
  /\ At(r, "pidwrite")
  /\ pidFile' = mem[r].pid \/ ("disk" \in Faults /\ UNCHANGED pidFile)
  /\ Goto(r, "ok")
  /\ UNCHANGED <<fileVars, readied>>

-----------------------------------------------------------------------------
(* nk_container_resume, the exec command *)

ExecLoad(r) ==
  /\ At(r, "xload")
  /\ IF Parses(file) /\ file.st = "running" /\ file.pid # NoPid
     THEN Proceed(r, "probe", file, NoPid, proc)
     ELSE Goto(r, "fail")
  /\ UNCHANGED <<fileVars, readied, pidFile>>

(* Mutant of ExecProbe: whatever keeps exec from entering stops the record. *)
ExecProbe_FailureStops(r) ==
  /\ At(r, "probe")
  /\ \/ Visible(mem[r].pid) /\ Proceed(r, "session", mem[r], mem[r].pid, proc)
     \/ Proceed(r, "statdir", Stopped, NoPid, proc)
  /\ UNCHANGED <<fileVars, readied, pidFile>>

(* is_pid_alive; no process: update_stopped_state_if_dead.  A missing /proc
   and a failing fork end the command and leave the state alone. *)
ExecProbe(r) ==
  /\ At(r, "probe")
  /\ IF Visible(mem[r].pid)
     THEN Goto(r, "fail") \/ Proceed(r, "session", mem[r], mem[r].pid, proc)
     ELSE Proceed(r, "statdir", Stopped, NoPid, proc)
  /\ UNCHANGED <<fileVars, readied, pidFile>>

(* Mutant of ExecSessionEnds: the end of the session stops the record. *)
ExecSessionEnds_Stops(r) ==
  /\ At(r, "session")
  /\ Proceed(r, "statdir", Stopped, child[r], proc)
  /\ UNCHANGED <<fileVars, readied, pidFile>>

(* nsenter ends, for whatever reason, and update_stopped_state_if_dead looks
   at the pid in the record loaded before the session. *)
ExecSessionEnds(r) ==
  /\ At(r, "session")
  /\ IF Visible(mem[r].pid)
     THEN Goto(r, "ok")
     ELSE Proceed(r, "statdir", Stopped, child[r], proc)
  /\ UNCHANGED <<fileVars, readied, pidFile>>

-----------------------------------------------------------------------------
(* nk_container_delete and nk_container_state *)

DeleteLoad(r) ==
  /\ At(r, "dload")
  /\ IF Parses(file)
     THEN Proceed(r, IF file.st = "running" /\ file.pid # NoPid THEN "term" ELSE "unlink",
                  file, child[r], proc)
     ELSE Goto(r, "fail")
  /\ UNCHANGED <<fileVars, readied, pidFile>>

Sigterm(r) ==
  /\ At(r, "term")
  /\ IF Visible(mem[r].pid)
     THEN \E table \in AfterSigterm(mem[r].pid) : Proceed(r, "check", mem[r], child[r], table)
     ELSE Goto(r, "unlink")
  /\ UNCHANGED <<fileVars, readied, pidFile>>

(* Mutant of CheckKilled: SIGTERM is taken to be enough. *)
CheckKilled_Trusting(r) ==
  /\ At(r, "check")
  /\ Goto(r, "unlink")
  /\ UNCHANGED <<fileVars, readied, pidFile>>

(* 100 ms later. *)
CheckKilled(r) ==
  /\ At(r, "check")
  /\ Goto(r, IF Visible(mem[r].pid) THEN "kill" ELSE "unlink")
  /\ UNCHANGED <<fileVars, readied, pidFile>>

Sigkill(r) ==
  /\ At(r, "kill")
  /\ Proceed(r, "unlink", mem[r], child[r], AfterSigkill(mem[r].pid))
  /\ UNCHANGED <<fileVars, readied, pidFile>>

Unlink(r) ==
  /\ At(r, "unlink")
  /\ UnlinkState \/ ("disk" \in Faults /\ UNCHANGED fileVars)
  /\ Goto(r, "rmdir")
  /\ UNCHANGED <<readied, pidFile>>

Rmdir(r) ==
  /\ At(r, "rmdir")
  /\ RemoveDir
  /\ Goto(r, AfterDelete(r))
  /\ UNCHANGED <<readied, pidFile>>

Query(r) ==
  /\ At(r, "query")
  /\ Goto(r, IF Parses(file) THEN "ok" ELSE "fail")
  /\ UNCHANGED <<fileVars, readied, pidFile>>

-----------------------------------------------------------------------------
(* An ns-runtime process is killed: its buffers and descriptors are gone, its
   child, if any, lives on. *)
Crash(r) ==
  /\ "crash" \in Faults
  /\ pc[r] \notin Rest
  /\ Goto(r, "fail")
  /\ DropRecord(r)
  /\ UNCHANGED <<used, readied, left, pidFile>>

(* The steps the scheduler owes a runtime: all but the end of a session. *)
Step(r) ==
  \/ CheckExists(r) \/ LoadSpec(r)
  \/ StatDir(r) \/ MakeDir(r) \/ OpenFile(r) \/ WriteFile(r)
  \/ LoadForStart(r) \/ PrepareFails(r) \/ CloneInit(r)
  \/ AwaitReady(r) \/ AwaitFailure(r) \/ WaitInit(r)
  \/ OpenPidFile(r) \/ WritePidFile(r)
  \/ ExecLoad(r) \/ ExecProbe(r)
  \/ DeleteLoad(r) \/ Sigterm(r) \/ CheckKilled(r) \/ Sigkill(r)
  \/ Unlink(r) \/ Rmdir(r) \/ Query(r)

Kernel(p) == ProcNext(p) /\ UNCHANGED <<fileVars, cmdVars, left, pidFile>>

Next ==
  \/ \E r \in Runtimes : \/ \E j \in Jobs : Issue(r, j)
                         \/ Step(r) \/ ExecSessionEnds(r) \/ Crash(r)
  \/ \E p \in Pids : Kernel(p)

Spec == Init /\ [][Next]_vars

(* What is promised to be scheduled: a runnable ns-runtime process, a child
   that has not reached its program yet, a pending fatal signal.  Programs
   and sessions may last forever. *)
Fairness ==
  /\ \A r \in Runtimes : WF_vars(Step(r))
  /\ \A p \in Pids : WF_vars((ChildReady(p) \/ ChildExec(p) \/ ProcDies(p))
                             /\ UNCHANGED <<fileVars, cmdVars, left, pidFile>>)

FairSpec == Spec /\ Fairness
=============================================================================
