----------------------------- MODULE InitProcess -----------------------------
(***************************************************************************)
(* The processes behind the pids: the child that nk_container_exec clones  *)
(* (src/src/container/process.c) from clone() to its reaping, as far as    *)
(* the commands of main.c observe it through waitpid, kill and the sync    *)
(* pipe.  A process that is not this container's is "foreign".             *)
(***************************************************************************)
EXTENDS StateFile

CONSTANTS Nobody,       \* the parent of a process whose runtime is gone
          Faults        \* what the environment may do: see FaultKinds

(* "crash": an ns-runtime process is killed at any point; "disk": a system
   call on the state directory fails; "recycle": the kernel gives a pid that
   was freed to another process. *)
FaultKinds == {"crash", "disk", "recycle"}

ASSUME NobodyAssumption == Nobody \notin Runtimes
ASSUME FaultsAssumption == Faults \subseteq FaultKinds

VARIABLES proc,         \* the process table, see Slots
          used,         \* the pids that have named a process
          readied       \* the pids whose CHILD_SYNC_READY reached a reader

procVars == <<proc, used, readied>>

(* st:    "setup"   before the child's write to the sync pipe
          "ready"   CHILD_SYNC_READY written, execve not done
          "running" the container's program
          "dying"   a fatal signal is pending
          "zombie"  exited, not waited for
   par:   who waits for it;  ready: the byte is in the pipe, not read yet. *)
Slots == [st : {"free", "setup", "ready", "running", "dying", "zombie", "foreign"},
          par : Runtimes \cup {Nobody}, ready : BOOLEAN]

NoProcess == [st |-> "free", par |-> Nobody, ready |-> FALSE]

Live(p)    == proc[p].st \in {"setup", "ready", "running"}
LiveInits  == {p \in Pids : Live(p)}

(* Mutant of Visible: only a process that has reached its program counts. *)
Visible_Running(p) == p \in Pids /\ proc[p].st = "running"

(* kill(pid, 0) succeeds: also for a zombie and for a stranger. *)
Visible(p) == p \in Pids /\ proc[p].st # "free"

ProcInit ==
  /\ proc = [p \in Pids |-> NoProcess]
  /\ used = {}
  /\ readied = {}

(* The pids the kernel may hand out. *)
Available == {p \in Pids : proc[p].st = "free" /\ ("recycle" \in Faults \/ p \notin used)}

(* The process table after p has exited: the init system reaps orphans. *)
Exited(p) == IF proc[p].par = Nobody THEN [proc EXCEPT ![p] = NoProcess]
                                     ELSE [proc EXCEPT ![p].st = "zombie"]

(* The process table after runtime r has exited, from table t. *)
Orphan(r, t) ==
  [p \in Pids |-> IF t[p].par # r THEN t[p]
                  ELSE IF t[p].st = "zombie" THEN NoProcess
                  ELSE [t[p] EXCEPT !.par = Nobody, !.ready = FALSE]]

(* The tables kill(p, SIGTERM) may leave: the program handles the signal, or
   the kernel withholds it from the first process of a pid namespace, or it
   kills. *)
AfterSigterm(p) ==
  IF proc[p].st \in {"dying", "zombie"} THEN {proc}
  ELSE {proc, [proc EXCEPT ![p].st = "dying"]}

(* Mutant of AfterSigkill: the signal is not sent. *)
AfterSigkill_NotSent(p) == proc

(* SIGKILL cannot be withheld; only its effect is not immediate. *)
AfterSigkill(p) ==
  IF proc[p].st \in {"free", "zombie"} THEN proc
  ELSE [proc EXCEPT ![p].st = "dying"]

(* container_child_fn up to its write of CHILD_SYNC_READY.  Without a reader
   the write fails: SIGPIPE ends the child (ProcExit), or, in the first process
   of a pid namespace, is skipped and the child goes on. *)
ChildReady(p) ==
  /\ proc[p].st = "setup"
  /\ IF proc[p].par = Nobody
     THEN proc' = [proc EXCEPT ![p].st = "ready"] /\ UNCHANGED readied
     ELSE /\ proc' = [proc EXCEPT ![p].st = "ready", ![p].ready = TRUE]
          /\ readied' = readied \cup {p}
  /\ UNCHANGED used

(* container_child_fn: execve succeeds. *)
ChildExec(p) ==
  /\ proc[p].st = "ready"
  /\ proc' = [proc EXCEPT ![p].st = "running"]
  /\ UNCHANGED <<used, readied>>

(* container_child_fn returns 1 because the root filesystem could not be set
   up or execve failed; the program exits; a signal from elsewhere kills it. *)
ProcExit(p) ==
  /\ proc[p].st \in {"setup", "ready", "running"}
  /\ proc' = Exited(p)
  /\ UNCHANGED <<used, readied>>

(* A pending fatal signal takes effect. *)
ProcDies(p) ==
  /\ proc[p].st = "dying"
  /\ proc' = Exited(p)
  /\ UNCHANGED <<used, readied>>

(* Another program gets a pid this container has had, and ends. *)
Recycle(p) ==
  /\ "recycle" \in Faults
  /\ p \in used /\ proc[p].st = "free"
  /\ proc' = [proc EXCEPT ![p].st = "foreign"]
  /\ UNCHANGED <<used, readied>>

ForeignExit(p) ==
  /\ proc[p].st = "foreign"
  /\ proc' = [proc EXCEPT ![p] = NoProcess]
  /\ UNCHANGED <<used, readied>>

ProcNext(p) == \/ ChildReady(p) \/ ChildExec(p) \/ ProcExit(p) \/ ProcDies(p)
               \/ Recycle(p) \/ ForeignExit(p)
=============================================================================
