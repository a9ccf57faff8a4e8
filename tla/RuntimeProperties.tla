-------------------------- MODULE RuntimeProperties --------------------------
(***************************************************************************)
(* The properties of Runtime.  Those of the first part hold whatever       *)
(* overlaps, crashes or fails; those of the second part are what a user    *)
(* who issues one command at a time may rely on, and several of them are   *)
(* refuted by other runs under wider conditions, see README.md.            *)
(***************************************************************************)
EXTENDS Runtime, FiniteSets

(* Every variable has the shape its declaration says. *)
TypeOK ==
  /\ dir \in BOOLEAN /\ file \in Contents /\ linked \in SUBSET Runtimes
  /\ proc \in [Pids -> Slots] /\ used \in SUBSET Pids /\ readied \in SUBSET Pids
  /\ pc \in [Runtimes -> Pcs] /\ job \in [Runtimes -> Jobs \cup {NoJob}]
  /\ mem \in [Runtimes -> Records \cup {Absent}]
  /\ child \in [Runtimes -> Pids \cup {NoPid}]
  /\ left \in Nat /\ pidFile \in Pids \cup {NoPid}

-----------------------------------------------------------------------------
(* Whatever overlaps and fails *)

(* The runtimes that are between clone() and the exit status of the process
   they started. *)
Expecting(r) ==
  \/ pc[r] \in {"read", "wait"}
  \/ pc[r] \in {"statdir", "mkdir", "open", "flush"} /\ mem[r].st = "running"

(* The pid a start holds until its waitpid is its own unreaped child: the
   read of the sync pipe and nk_container_wait never meet ECHILD or a process
   that got a recycled pid, whatever other runtimes kill, reap or start. *)
OwnChild ==
  \A r \in Runtimes : Expecting(r) =>
    /\ child[r] \in Pids
    /\ proc[child[r]].par = r
    /\ proc[child[r]].st \in {"setup", "ready", "running", "dying", "zombie"}

(* "Parent treats readiness failure as startup failure and avoids false
   running state": every pid that is recorded as running, is written to a
   --pid-file, is signalled by delete or is entered by exec belongs to a child
   whose CHILD_SYNC_READY was written for a start to read, through however
   many stale copies of the record it travelled. *)
OnlyReadiedPids ==
  /\ file.st = "running" => file.pid \in readied
  /\ pidFile # NoPid => pidFile \in readied
  /\ \A r \in Runtimes : pc[r] \in {"term", "check", "kill", "probe", "session", "pidwrite"}
                           => mem[r].pid \in readied

(* The read of the sync pipe returns or will: the byte is there, or the child
   is gone without it, or the child is in its setup or about to die.  The
   parent has closed its own copy of the write end, so no other process can
   keep it from seeing the end of file. *)
ReadHasSender ==
  \A r \in Runtimes : pc[r] = "read" =>
    \/ ReadyByte(r) \/ NoReadyByte(r)
    \/ proc[child[r]].st \in {"setup", "dying"}

(* How many steps a command has left at most.  A save goes back to where its
   caller goes on: stopped is the last record a command saves, created the
   first. *)
StepsAfterSave(st) == CASE st = "created" -> 18 [] st = "running" -> 11 [] OTHER -> 6

StepsFrom(t, st) ==
  CASE t \in Rest -> 0
    [] t \in {"query", "rmdir", "pidwrite"} -> 1
    [] t \in {"unlink", "pidfile"} -> 2   [] t = "kill" -> 3     [] t = "check" -> 4
    [] t = "term" -> 5     [] t = "dload" -> 6
    [] t \in Waiting -> 11 [] t = "probe" -> 12   [] t = "xload" -> 13
    [] t = "read" -> 16    [] t = "clone" -> 17   [] t = "load" -> 18
    [] t = "spec" -> 23    [] t = "exists" -> 24
    [] t = "flush"   -> StepsAfterSave(st) + 1
    [] t = "open"    -> StepsAfterSave(st) + 2
    [] t = "mkdir"   -> StepsAfterSave(st) + 3
    [] t = "statdir" -> StepsAfterSave(st) + 4

StepsLeft(r) == StepsFrom(pc[r], mem[r].st)

(* No command goes round in circles, whatever the others do to the record and
   the processes under it: each of its steps brings it nearer to its exit, so
   it takes 24 at most.  Nothing is retried. *)
CommandsAdvance ==
  [][\A r \in Runtimes : pc[r] \notin Rest /\ pc'[r] # pc[r]
       => StepsLeft(r)' < StepsLeft(r)]_vars

(* A state.json that is there and does not parse when all commands have ended
   (a writer died between truncation and flush, or two writers overlapped)
   stays like that: create finds the id taken, and what start, exec and delete
   do first is load it. *)
AtRest     == \A r \in Runtimes : pc[r] \in Rest
Unreadable == StateExists /\ ~Parses(file)

UnreadableStays == [](AtRest /\ Unreadable => []Unreadable)

(* Commands end: none waits for ever for a child in its setup, for another
   command or for a dead process.  Only a live container's attached start and
   an exec session go on as long as the program they wait for. *)
CommandsReturn ==
  \A r \in Runtimes : pc[r] \notin Rest \cup Waiting ~> pc[r] \in Rest \cup Waiting

AttachedReturns ==
  \A r \in Runtimes : (pc[r] = "wait" /\ ~Live(child[r])) ~> pc[r] \in Rest

(* A delete that found the container running gets rid of the process, also
   when SIGTERM is ignored and when other commands interfere, unless it is
   killed itself. *)
DeleteKills ==
  \A r \in Runtimes, p \in Pids :
    (pc[r] = "term" /\ mem[r].pid = p) ~> (~Live(p) \/ pc[r] = "fail")

-----------------------------------------------------------------------------
(* Whatever overlaps, without some of the faults *)

(* A delete that found the container running removes the record over a dead
   process: after SIGTERM, the wait and SIGKILL the pid it loaded names no
   live process, also when that was loaded long ago.  (Once pids are used
   again a later start may have got the number.) *)
DeletedIsDead ==
  \A r \in Runtimes : pc[r] \in {"unlink", "rmdir"} /\ mem[r].st = "running"
                        => ~Live(mem[r].pid)

(* A reader finds state.json empty only while a save of somebody else is under
   way, which will write it. *)
EmptyIsInFlight == file = Empty => \E r \in linked : pc[r] = "flush"

-----------------------------------------------------------------------------
(* One command at a time *)

Settled == \A r \in Runtimes : pc[r] \in Rest \cup Waiting

(* No more than one process of the container runs. *)
OneInit == Cardinality(LiveInits) <= 1

(* Between commands a live process is on record, so delete and exec can find
   it: no start leaves an orphan behind, not even one that fails. *)
InitIsRecorded == Settled => \A p \in LiveInits : file = Running(p)

(* exec-design: "Mark container stopped only when init PID is genuinely
   dead", for all who write STOPPED and for as long as it is recorded. *)
StoppedMeansDead == file.st = "stopped" => LiveInits = {}

(* Command reference, lifecycle: created is "Metadata saved, No process
   running". *)
CreatedMeansNoProcess == AtRest /\ file.st = "created" => LiveInits = {}

(* Between commands the state directory holds a readable record or nothing,
   so that what nk_state_exists sees is what nk_state_load can read. *)
RestIsReadable == AtRest => /\ file \in Records \cup {Absent}
                            /\ dir = StateExists

(* What each command has achieved when it exits with 0, c being the pid it
   cloned: created is on record; a detached start left its own child, which had
   reported ready, on record and in the --pid-file; an attached one reaped it and
   nothing lives. *)
Achieved(j, c) ==
  /\ j.op = "create" => file' = Created
  /\ j.op \in {"start", "run"} => c \in readied
  /\ j.op \in {"start", "run"} /\ ~j.attach => file' = Running(c)
  /\ j.pidfile => pidFile' = c
  /\ j.attach => LiveInits = {} /\ (~j.rm => file' = Stopped)

(* A delete and a run --rm, successful or not, leave neither record nor
   directory, unless the run found the id taken. *)
Removed(r) == (file' = Absent /\ ~dir') \/ pc[r] = "exists"

(* Without failures of the disk the result of a command tells its outcome,
   through the saves, warnings and ignored results on the way to it: command
   reference, "Runtime operation status", and cleanup on failure with --rm.  (What
   main makes of the program's own exit code is in Cli.) *)
ExitTellsOutcome ==
  [][\A r \in Runtimes : pc[r] \notin Rest /\ pc'[r] \in Rest =>
       /\ pc'[r] = "ok" => Achieved(job[r], child[r])
       /\ job[r].op = "delete" \/ job[r].rm => Removed(r)]_vars

(* exec moves a record only from running to stopped, and only after the
   process it names is gone: exec-design, "container state must remain RUNNING"
   when /proc, fork or nsenter fails, and "Exit of an exec shell must not
   mutate container state". *)
ExecOnlyNotesDeath ==
  [][\A r \in Runtimes : job[r].op = "exec" /\ pc[r] = "flush" /\ pc'[r] \in Rest
       => file' = Stopped /\ LiveInits = {}]_vars

-----------------------------------------------------------------------------
(* A statement of the documentation that the code does not keep, refuted by a
   run of its own *)

(* Lifecycle diagram: DELETED is final, only create makes a record. *)
OnlyCreateMakesRecords ==
  [][file.st = "absent" /\ file'.st # "absent"
       => \E r \in Runtimes : pc[r] = "open" /\ mem[r] = Created]_vars
=============================================================================
