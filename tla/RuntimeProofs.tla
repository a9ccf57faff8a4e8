---------------------------- MODULE RuntimeProofs ----------------------------
(***************************************************************************)
(* What holds of Runtime for every set of runtimes and pids, whatever      *)
(* overlaps, crashes or fails.                                             *)
(***************************************************************************)
EXTENDS RuntimeProperties, TLAPS

(* What TypeOK alone does not say and its preservation needs: a save has a
   record to write, and whoever looks at a pid got it from a running record. *)
LocalsOK ==
  \A r \in Runtimes :
    /\ pc[r] \in {"statdir", "mkdir", "open", "flush"} => mem[r] \in Records
    /\ pc[r] \in {"term", "check", "kill", "probe", "session", "pidwrite"}
         => mem[r] \in {Running(p) : p \in Pids}
    /\ pc[r] = "read" => child[r] \in Pids

Typed == TypeOK /\ LocalsOK

-----------------------------------------------------------------------------
(* The records and the control states. *)

LEMMA RecordFacts ==
  /\ \A c \in Records : Parses(c) /\ c \in Contents
  /\ \A c \in Contents : Parses(c) => c \in Records
  /\ \A c \in Contents : c.st = "absent" <=> c = Absent
  /\ \A c \in Records : c.st \in States /\ c.pid \in Pids \cup {NoPid}
  /\ \A c \in Records : c.pid # NoPid => c.st = "running"
  /\ \A c \in Records : c.st = "running" => c.pid \in Pids /\ c = Running(c.pid)
  /\ Created \in Records /\ Stopped \in Records
  /\ \A p \in Pids : Running(p) \in Records
  /\ Absent \notin Records
<1> USE NoPidAssumption
           DEF Records, Contents, Parses, States, Absent, Empty, Torn, Created, Running, Stopped
<1>1. /\ Created \in Records /\ Stopped \in Records /\ Absent \notin Records
      /\ \A p \in Pids : Running(p) \in Records
  OBVIOUS
<1>2. ASSUME NEW c \in Records
      PROVE  /\ Parses(c) /\ c \in Contents /\ c.st \in States /\ c.pid \in Pids \cup {NoPid}
             /\ c.pid # NoPid => c.st = "running"
             /\ c.st = "running" => c.pid \in Pids /\ c = Running(c.pid)
             /\ c.st # "absent"
  <2>1. CASE c \in {Created, Stopped}
    BY <2>1
  <2>2. CASE \E p \in Pids : c = Running(p)
    BY <2>2
  <2>3. QED
    BY <2>1, <2>2
<1>3. ASSUME NEW c \in {Absent, Empty, Torn}
      PROVE  ~Parses(c) /\ (c.st = "absent" <=> c = Absent)
  OBVIOUS
<1>4. QED
  BY <1>1, <1>2, <1>3

(* Where a save may return to. *)
LEMMA AfterSaveType ==
  ASSUME NEW r \in Runtimes, NEW b \in BOOLEAN
  PROVE  AfterSave(r, b) \in Rest \cup {"load", "wait", "dload", "pidfile"}
BY DEF AfterSave, AfterStart, Rest

(* What Proceed does to the control state and the locals. *)
LEMMA ProceedEffect ==
  ASSUME NEW r \in Runtimes, NEW t \in Pcs, NEW m, NEW c, NEW table,
         TypeOK, Proceed(r, t, m, c, table)
  PROVE  /\ pc' = [pc EXCEPT ![r] = t]
         /\ \A q \in Runtimes \ {r} : /\ mem'[q] = mem[q] /\ child'[q] = child[q]
                                      /\ job'[q] = job[q] /\ pc'[q] = pc[q]
         /\ pc'[r] = t
         /\ t \notin Rest => mem'[r] = m /\ child'[r] = c /\ proc' = table
         /\ t \in Rest => mem'[r] = Absent /\ child'[r] = NoPid /\ proc' = Orphan(r, table)
BY DEF Proceed, TypeOK

(* Proceed keeps the types when what it is given has them. *)
LEMMA ProceedType ==
  ASSUME NEW r \in Runtimes, NEW t \in Pcs, NEW m \in Records \cup {Absent},
         NEW c \in Pids \cup {NoPid}, NEW table \in [Pids -> Slots],
         TypeOK, Proceed(r, t, m, c, table)
  PROVE  /\ pc' \in [Runtimes -> Pcs] /\ job' \in [Runtimes -> Jobs \cup {NoJob}]
         /\ mem' \in [Runtimes -> Records \cup {Absent}]
         /\ child' \in [Runtimes -> Pids \cup {NoPid}]
         /\ proc' \in [Pids -> Slots]
<1>1. Orphan(r, table) \in [Pids -> Slots]
  BY DEF Orphan, Slots, NoProcess
<1>2. QED
  BY <1>1 DEF Proceed, TypeOK

-----------------------------------------------------------------------------
(* Typing *)

Saving(t)  == t \in {"statdir", "mkdir", "open", "flush"}
Holding(t) == t \in {"term", "check", "kill", "probe", "session", "pidwrite"}
RunningRecords == {Running(p) : p \in Pids}

(* A step of a runtime preserves the types if what it moves on with has the
   right ones. *)
LEMMA TypedProceed ==
  ASSUME Typed,
         NEW r \in Runtimes, NEW t \in Pcs, NEW m \in Records \cup {Absent},
         NEW c \in Pids \cup {NoPid}, NEW table \in [Pids -> Slots],
         Proceed(r, t, m, c, table),
         Saving(t) => m \in Records,
         Holding(t) => m \in RunningRecords,
         t = "read" => c \in Pids,
         dir' \in BOOLEAN, file' \in Contents, linked' \in SUBSET Runtimes,
         used' \in SUBSET Pids, readied' \in SUBSET Pids,
         left' \in Nat, pidFile' \in Pids \cup {NoPid}
  PROVE  Typed'
<1>1. TypeOK'
  BY ProceedType DEF Typed, TypeOK
<1>2. LocalsOK'
  BY ProceedEffect DEF Typed, LocalsOK, Saving, Holding, RunningRecords, Rest
<1>3. QED
  BY <1>1, <1>2 DEF Typed

(* The steps of StateFile keep its types. *)
LEMMA FileTypes ==
  ASSUME Typed, NEW r \in Runtimes, NEW rec \in Records,
         MkdirContainer \/ OpenTruncate(r) \/ FlushRecord(r, rec) \/ DropRecord(r)
           \/ UnlinkState \/ RemoveDir \/ UNCHANGED fileVars
  PROVE  dir' \in BOOLEAN /\ file' \in Contents /\ linked' \in SUBSET Runtimes
BY DEF Typed, TypeOK, MkdirContainer, OpenTruncate, FlushRecord, DropRecord, UnlinkState,
       RemoveDir, fileVars, Contents, Overlay

(* create, and the saving that start and exec share with it. *)
LEMMA TypedStepCreate ==
  ASSUME Typed, NEW r \in Runtimes,
         CheckExists(r) \/ LoadSpec(r) \/ StatDir(r) \/ MakeDir(r) \/ OpenFile(r) \/ WriteFile(r)
  PROVE  Typed'
<1> USE DEF Typed, At, Pcs, Rest, Waiting, Saving, Holding
<1>0. /\ proc \in [Pids -> Slots] /\ mem[r] \in Records \cup {Absent}
      /\ child[r] \in Pids \cup {NoPid} /\ left \in Nat /\ used \in SUBSET Pids
      /\ readied \in SUBSET Pids /\ pidFile \in Pids \cup {NoPid}
      /\ dir \in BOOLEAN /\ file \in Contents /\ linked \in SUBSET Runtimes
  BY DEF TypeOK
<1>1. CASE CheckExists(r)
  BY <1>0, <1>1, TypedProceed DEF CheckExists, Goto, fileVars
<1>2. CASE LoadSpec(r)
  BY <1>0, <1>2, TypedProceed, RecordFacts DEF LoadSpec, Goto, fileVars
<1>3. CASE StatDir(r)
  BY <1>0, <1>3, TypedProceed DEF StatDir, Goto, fileVars, LocalsOK
<1>4. CASE MakeDir(r)
  BY <1>0, <1>4, TypedProceed, FileTypes, AfterSaveType DEF MakeDir, Goto, LocalsOK
<1>5. CASE OpenFile(r)
  BY <1>0, <1>5, TypedProceed, FileTypes, AfterSaveType DEF OpenFile, Goto, LocalsOK
<1>6. CASE WriteFile(r)
  BY <1>0, <1>6, TypedProceed, FileTypes, AfterSaveType DEF WriteFile, Goto, LocalsOK
<1>7. QED
  BY <1>1, <1>2, <1>3, <1>4, <1>5, <1>6

(* start, from its load to the pid file. *)
LEMMA TypedStepStart ==
  ASSUME Typed, NEW r \in Runtimes,
         LoadForStart(r) \/ PrepareFails(r) \/ CloneInit(r) \/ AwaitReady(r)
           \/ AwaitFailure(r) \/ WaitInit(r) \/ OpenPidFile(r) \/ WritePidFile(r)
  PROVE  Typed'
<1> USE DEF Typed, At, Pcs, Rest, Waiting, Saving, Holding
<1>0. /\ proc \in [Pids -> Slots] /\ mem[r] \in Records \cup {Absent}
      /\ child[r] \in Pids \cup {NoPid} /\ left \in Nat /\ used \in SUBSET Pids
      /\ readied \in SUBSET Pids /\ pidFile \in Pids \cup {NoPid}
      /\ dir \in BOOLEAN /\ file \in Contents /\ linked \in SUBSET Runtimes
      /\ NoPid \in Pids \cup {NoPid}
  BY DEF TypeOK
<1>a. AfterFailedStart(r) \in {"dload", "fail"}
  BY DEF AfterFailedStart
<1>b. ASSUME NEW p \in Pids
      PROVE  /\ [proc EXCEPT ![p] = NoProcess] \in [Pids -> Slots]
             /\ [proc EXCEPT ![p].ready = FALSE] \in [Pids -> Slots]
             /\ [proc EXCEPT ![p] = [st |-> "setup", par |-> r, ready |-> FALSE]]
                  \in [Pids -> Slots]
  BY <1>0 DEF Slots, NoProcess
<1>1. CASE LoadForStart(r)
  BY <1>0, <1>1, <1>a, TypedProceed, RecordFacts DEF LoadForStart, MayStart, Goto, fileVars
<1>2. CASE PrepareFails(r)
  BY <1>0, <1>2, <1>a, TypedProceed DEF PrepareFails, Goto, fileVars
<1>3. CASE CloneInit(r)
  <2>1. PICK p \in Available :
          /\ Proceed(r, "read", mem[r], p,
                     [proc EXCEPT ![p] = [st |-> "setup", par |-> r, ready |-> FALSE]])
          /\ used' = used \cup {p}
    BY <1>3 DEF CloneInit
  <2> DEFINE table == [proc EXCEPT ![p] = [st |-> "setup", par |-> r, ready |-> FALSE]]
  <2>2. p \in Pids /\ table \in [Pids -> Slots]
    BY <1>b DEF Available
  <2>3. Proceed(r, "read", mem[r], p, table) /\ used' \in SUBSET Pids
    BY <1>0, <2>1, <2>2
  <2> HIDE DEF table
  <2>4. QED
    BY <1>0, <1>3, <2>2, <2>3, TypedProceed DEF CloneInit, fileVars
<1>4. CASE AwaitReady(r)
  <2> DEFINE table == [proc EXCEPT ![child[r]].ready = FALSE]
  <2>1. child[r] \in Pids
    BY <1>4 DEF AwaitReady, LocalsOK
  <2>2. table \in [Pids -> Slots] /\ Running(child[r]) \in Records
    BY <1>b, <2>1, RecordFacts
  <2>3. Proceed(r, "statdir", Running(child[r]), child[r], table)
    BY <1>4 DEF AwaitReady
  <2> HIDE DEF table
  <2>4. QED
    BY <1>0, <1>4, <2>2, <2>3, TypedProceed DEF AwaitReady, fileVars
<1>5. CASE AwaitFailure(r)
  <2>1. child[r] \in Pids
    BY <1>5 DEF AwaitFailure, LocalsOK
  <2>2. QED
    BY <1>0, <1>5, <1>a, <1>b, <2>1, TypedProceed, RecordFacts DEF AwaitFailure, fileVars
<1>6. CASE WaitInit(r)
  <2>1. [proc EXCEPT ![child[r]] = NoProcess] \in [Pids -> Slots]
    BY <1>0 DEF Slots, NoProcess
  <2>2. QED
    BY <1>0, <1>6, <2>1, TypedProceed, RecordFacts DEF WaitInit, fileVars
<1>7. CASE OpenPidFile(r)
  BY <1>0, <1>7, TypedProceed, RecordFacts DEF OpenPidFile, Goto, fileVars, RunningRecords
<1>8. CASE WritePidFile(r)
  <2>1. mem[r].pid \in Pids
    BY <1>8 DEF WritePidFile, LocalsOK, Running
  <2>2. QED
    BY <1>0, <1>8, <2>1, TypedProceed DEF WritePidFile, Goto, fileVars
<1>9. QED
  BY <1>1, <1>2, <1>3, <1>4, <1>5, <1>6, <1>7, <1>8

(* exec, state, and the death of a runtime. *)
LEMMA TypedStepExec ==
  ASSUME Typed, NEW r \in Runtimes,
         ExecLoad(r) \/ ExecProbe(r) \/ ExecSessionEnds(r) \/ Query(r) \/ Crash(r)
  PROVE  Typed'
<1> USE DEF Typed, At, Pcs, Rest, Waiting, Saving, Holding
<1>0. /\ proc \in [Pids -> Slots] /\ mem[r] \in Records \cup {Absent}
      /\ child[r] \in Pids \cup {NoPid} /\ left \in Nat /\ used \in SUBSET Pids
      /\ readied \in SUBSET Pids /\ pidFile \in Pids \cup {NoPid}
      /\ dir \in BOOLEAN /\ file \in Contents /\ linked \in SUBSET Runtimes
      /\ NoPid \in Pids \cup {NoPid}
  BY DEF TypeOK
<1>1. CASE ExecLoad(r)
  BY <1>0, <1>1, TypedProceed, RecordFacts DEF ExecLoad, Goto, fileVars, RunningRecords
<1>2. CASE ExecProbe(r)
  <2>1. mem[r] \in RunningRecords /\ mem[r].pid \in Pids
    BY <1>2 DEF ExecProbe, LocalsOK, RunningRecords, Running
  <2>2. QED
    BY <1>0, <1>2, <2>1, TypedProceed, RecordFacts DEF ExecProbe, Goto, fileVars
<1>3. CASE ExecSessionEnds(r)
  BY <1>0, <1>3, TypedProceed, RecordFacts DEF ExecSessionEnds, Goto, fileVars
<1>4. CASE Query(r)
  BY <1>0, <1>4, TypedProceed DEF Query, Goto, fileVars
<1>5. CASE Crash(r)
  BY <1>0, <1>5, TypedProceed DEF Crash, Goto, DropRecord
<1>6. QED
  BY <1>1, <1>2, <1>3, <1>4, <1>5

(* Signals leave a process table. *)
LEMMA SignalTypes ==
  ASSUME TypeOK, NEW p \in Pids
  PROVE  AfterSigterm(p) \subseteq [Pids -> Slots] /\ AfterSigkill(p) \in [Pids -> Slots]
BY DEF TypeOK, AfterSigterm, AfterSigkill, Slots

(* delete. *)
LEMMA TypedStepDelete ==
  ASSUME Typed, NEW r \in Runtimes,
         DeleteLoad(r) \/ Sigterm(r) \/ CheckKilled(r) \/ Sigkill(r) \/ Unlink(r) \/ Rmdir(r)
  PROVE  Typed'
<1> USE DEF Typed, At, Pcs, Rest, Waiting, Saving, Holding
<1>0. /\ proc \in [Pids -> Slots] /\ mem[r] \in Records \cup {Absent}
      /\ child[r] \in Pids \cup {NoPid} /\ left \in Nat /\ used \in SUBSET Pids
      /\ readied \in SUBSET Pids /\ pidFile \in Pids \cup {NoPid}
      /\ dir \in BOOLEAN /\ file \in Contents /\ linked \in SUBSET Runtimes
  BY DEF TypeOK
<1>a. pc[r] \in {"term", "check", "kill"} => mem[r] \in RunningRecords /\ mem[r].pid \in Pids
  BY DEF LocalsOK, RunningRecords, Running
<1>1. CASE DeleteLoad(r)
  BY <1>0, <1>1, TypedProceed, RecordFacts DEF DeleteLoad, Goto, fileVars, RunningRecords
<1>2. CASE Sigterm(r)
  BY <1>0, <1>2, <1>a, TypedProceed, SignalTypes DEF Sigterm, Goto, fileVars
<1>3. CASE CheckKilled(r)
  BY <1>0, <1>3, <1>a, TypedProceed DEF CheckKilled, Goto, fileVars
<1>4. CASE Sigkill(r)
  <2> DEFINE table == AfterSigkill(mem[r].pid)
  <2>1. table \in [Pids -> Slots]
    BY <1>4, <1>a, SignalTypes DEF Sigkill
  <2>2. Proceed(r, "unlink", mem[r], child[r], table)
    BY <1>4 DEF Sigkill
  <2> HIDE DEF table
  <2>3. QED
    BY <1>0, <1>4, <2>1, <2>2, TypedProceed DEF Sigkill, fileVars
<1>5. CASE Unlink(r)
  BY <1>0, <1>5, TypedProceed DEF Unlink, UnlinkState, Goto, fileVars, Contents
<1>6. CASE Rmdir(r)
  BY <1>0, <1>6, TypedProceed DEF Rmdir, RemoveDir, Goto, AfterDelete
<1>7. QED
  BY <1>1, <1>2, <1>3, <1>4, <1>5, <1>6

(* The steps of the children and of the kernel. *)
LEMMA TypedKernel ==
  ASSUME Typed, NEW p \in Pids, Kernel(p)
  PROVE  Typed'
<1>1. proc' \in [Pids -> Slots] /\ used' \in SUBSET Pids /\ readied' \in SUBSET Pids
  <2> USE DEF Typed, TypeOK, Slots, NoProcess
  <2>1. CASE ChildReady(p)
    BY <2>1 DEF ChildReady
  <2>2. CASE ChildExec(p)
    BY <2>2 DEF ChildExec
  <2>3. CASE ProcExit(p)
    BY <2>3 DEF ProcExit, Exited
  <2>4. CASE ProcDies(p)
    BY <2>4 DEF ProcDies, Exited
  <2>5. CASE Recycle(p)
    BY <2>5 DEF Recycle
  <2>6. CASE ForeignExit(p)
    BY <2>6 DEF ForeignExit
  <2>7. QED
    BY <2>1, <2>2, <2>3, <2>4, <2>5, <2>6 DEF Kernel, ProcNext
<1>2. QED
  BY <1>1 DEF Typed, TypeOK, LocalsOK, Kernel, fileVars, cmdVars

(* A new command. *)
LEMMA TypedIssue ==
  ASSUME Typed, NEW r \in Runtimes, NEW j \in Jobs, Issue(r, j)
  PROVE  Typed'
<1>1. EntryOf(j.op) \in {"exists", "load", "xload", "dload", "query"}
  BY DEF EntryOf
<1>2. QED
  BY <1>1 DEF Typed, TypeOK, LocalsOK, Issue, fileVars, procVars, Pcs

(* Typed is inductive. *)
LEMMA TypedNext == Typed /\ [Next]_vars => Typed'
<1> SUFFICES ASSUME Typed, [Next]_vars PROVE Typed'
  OBVIOUS
<1>1. CASE UNCHANGED vars
  BY <1>1 DEF vars, fileVars, procVars, cmdVars, Typed, TypeOK, LocalsOK
<1>2. CASE \E r \in Runtimes : \/ \E j \in Jobs : Issue(r, j)
                               \/ Step(r) \/ ExecSessionEnds(r) \/ Crash(r)
  BY <1>2, TypedIssue, TypedStepCreate, TypedStepStart, TypedStepExec, TypedStepDelete DEF Step
<1>3. CASE \E p \in Pids : Kernel(p)
  BY <1>3, TypedKernel
<1>4. QED
  BY <1>1, <1>2, <1>3 DEF Next

(* Typed holds initially. *)
LEMMA TypedInit == Init => Typed
<1> SUFFICES ASSUME Init PROVE Typed
  OBVIOUS
<1>1. NoProcess \in Slots
  BY DEF NoProcess, Slots
<1>2. TypeOK
  BY <1>1, MaxCommandsAssumption
     DEF Init, FileInit, ProcInit, TypeOK, Contents, Pcs, Rest
<1>3. LocalsOK
  BY DEF Init, LocalsOK
<1>4. QED
  BY <1>2, <1>3 DEF Typed

(* The invariant the other proofs start from. *)
LEMMA TypedAlways == Spec => []Typed
BY TypedInit, TypedNext, PTL DEF Spec

(* The type invariant of the command flows, the state file and the process
   table, with the facts about the locals that carry it. *)
THEOREM TypeCorrect == Spec => []TypeOK
<1>1. Typed => TypeOK
  BY DEF Typed
<1>2. QED
  BY <1>1, TypedAlways, PTL

-----------------------------------------------------------------------------
(* A start and its child *)

(* Process c of a table is an unreaped child of runtime q. *)
ChildOf(table, c, q) ==
  /\ c \in Pids
  /\ table[c].par = q
  /\ table[c].st \in {"setup", "ready", "running", "dying", "zombie"}

ExpectingAt(t, m) == t \in {"read", "wait"} \/ (Saving(t) /\ m.st = "running")

(* OwnChild in terms of ChildOf. *)
LEMMA OwnChildDef ==
  OwnChild <=> \A q \in Runtimes : ExpectingAt(pc[q], mem[q]) => ChildOf(proc, child[q], q)
BY DEF OwnChild, Expecting, ExpectingAt, Saving, ChildOf

(* A step of r keeps OwnChild if it harms no other runtime's child and r has
   a child wherever it goes on expecting one. *)
LEMMA OwnChildProceed ==
  ASSUME Typed, OwnChild,
         NEW r \in Runtimes, NEW t \in Pcs, NEW m, NEW c, NEW table,
         Proceed(r, t, m, c, table),
         \A q \in Runtimes \ {r} : ChildOf(proc, child[q], q) => ChildOf(table, child[q], q),
         ExpectingAt(t, m) => ChildOf(table, c, r)
  PROVE  OwnChild'
<1> DEFINE Owns(q) == ExpectingAt(pc[q], mem[q])' => ChildOf(proc', child'[q], q)
<1>0. TypeOK
  BY DEF Typed
<1>1. ASSUME NEW q \in Runtimes \ {r} PROVE Owns(q)
  <2>1. pc'[q] = pc[q] /\ mem'[q] = mem[q] /\ child'[q] = child[q]
    BY <1>0, ProceedEffect
  <2>2. SUFFICES ASSUME ExpectingAt(pc[q], mem[q]) PROVE ChildOf(proc', child[q], q)
    BY <2>1 DEF ExpectingAt
  <2>3. ChildOf(table, child[q], q)
    BY <2>2, OwnChildDef
  <2>4. CASE t \notin Rest
    BY <1>0, <2>3, <2>4, ProceedEffect
  <2>5. CASE t \in Rest
    <3>1. proc' = Orphan(r, table)
      BY <1>0, <2>5, ProceedEffect
    <3>2. QED
      BY <2>3, <3>1 DEF Orphan, ChildOf
  <2>6. QED
    BY <2>4, <2>5
<1>2. Owns(r)
  <2>1. CASE t \notin Rest
    BY <1>0, <2>1, ProceedEffect DEF ExpectingAt
  <2>2. CASE t \in Rest
    <3>1. pc'[r] = t
      BY <1>0, ProceedEffect
    <3>2. QED
      BY <2>2, <3>1 DEF ExpectingAt, Saving, Rest
  <2>3. QED
    BY <2>1, <2>2
<1>3. QED
  BY <1>1, <1>2 DEF OwnChild, Expecting, ExpectingAt, Saving, ChildOf

(* The steps of r that leave the process table alone. *)
LEMMA OwnChildGoto ==
  ASSUME Typed, OwnChild, NEW r \in Runtimes, NEW t \in Pcs, NEW m, NEW c,
         Proceed(r, t, m, c, proc),
         ExpectingAt(t, m) => ExpectingAt(pc[r], mem[r]) /\ c = child[r]
  PROVE  OwnChild'
BY OwnChildProceed, OwnChildDef

(* Only a start that saved running waits after a save. *)
LEMMA AfterSaveWaits ==
  ASSUME NEW r \in Runtimes, NEW b \in BOOLEAN, AfterSave(r, b) = "wait"
  PROVE  mem[r].st = "running"
BY DEF AfterSave, AfterStart

(* The other steps of a runtime: none touches the process table. *)
LEMMA OwnChildQuiet ==
  ASSUME Typed, OwnChild, NEW r \in Runtimes,
         \/ CheckExists(r) \/ LoadSpec(r) \/ StatDir(r) \/ MakeDir(r) \/ OpenFile(r) \/ WriteFile(r)
         \/ LoadForStart(r) \/ PrepareFails(r) \/ OpenPidFile(r) \/ WritePidFile(r)
         \/ ExecLoad(r) \/ ExecProbe(r) \/ ExecSessionEnds(r)
         \/ DeleteLoad(r) \/ CheckKilled(r) \/ Unlink(r) \/ Rmdir(r) \/ Query(r) \/ Crash(r)
  PROVE  OwnChild'
<1> USE DEF At, Goto, Pcs, Rest, Waiting, ExpectingAt, Saving
<1>a. /\ Created.st # "running" /\ Stopped.st # "running"
      /\ \A c \in Contents : MayStart(c) => c.st # "running"
  BY DEF Created, Stopped, MayStart
<1>b. AfterFailedStart(r) \in {"dload", "fail"} /\ AfterDelete(r) \in Rest
  BY DEF AfterFailedStart, AfterDelete
<1>1. CASE CheckExists(r)
  BY <1>1, OwnChildGoto DEF CheckExists
<1>2. CASE LoadSpec(r)
  BY <1>2, <1>a, OwnChildGoto DEF LoadSpec
<1>3. CASE StatDir(r)
  BY <1>3, OwnChildGoto DEF StatDir
<1>4. CASE MakeDir(r)
  BY <1>4, AfterSaveType, AfterSaveWaits, OwnChildGoto DEF MakeDir
<1>5. CASE OpenFile(r)
  BY <1>5, AfterSaveType, AfterSaveWaits, OwnChildGoto DEF OpenFile
<1>6. CASE WriteFile(r)
  BY <1>6, AfterSaveType, AfterSaveWaits, OwnChildGoto DEF WriteFile
<1>7. CASE LoadForStart(r)
  BY <1>7, <1>b, OwnChildGoto DEF LoadForStart
<1>8. CASE PrepareFails(r)
  BY <1>8, <1>b, OwnChildGoto DEF PrepareFails
<1>9. CASE OpenPidFile(r) \/ WritePidFile(r)
  BY <1>9, OwnChildGoto DEF OpenPidFile, WritePidFile
<1>10. CASE ExecLoad(r)
  BY <1>10, OwnChildGoto DEF ExecLoad
<1>11. CASE ExecProbe(r)
  BY <1>11, <1>a, OwnChildGoto DEF ExecProbe
<1>12. CASE ExecSessionEnds(r)
  BY <1>12, <1>a, OwnChildGoto DEF ExecSessionEnds
<1>13. CASE DeleteLoad(r)
  BY <1>13, OwnChildGoto DEF DeleteLoad
<1>14. CASE CheckKilled(r)
  BY <1>14, OwnChildGoto DEF CheckKilled
<1>15. CASE Unlink(r)
  BY <1>15, OwnChildGoto DEF Unlink
<1>16. CASE Rmdir(r)
  BY <1>16, <1>b, OwnChildGoto DEF Rmdir
<1>17. CASE Query(r)
  BY <1>17, OwnChildGoto DEF Query
<1>18. CASE Crash(r)
  BY <1>18, OwnChildGoto DEF Crash
<1>19. QED
  BY <1>1, <1>2, <1>3, <1>4, <1>5, <1>6, <1>7, <1>8, <1>9, <1>10, <1>11, <1>12, <1>13,
     <1>14, <1>15, <1>16, <1>17, <1>18

(* The steps that change the process table: a slot of somebody else's child
   is only ever signalled. *)
LEMMA OwnChildTable ==
  ASSUME Typed, OwnChild, NEW r \in Runtimes,
         CloneInit(r) \/ AwaitReady(r) \/ AwaitFailure(r) \/ WaitInit(r) \/ Sigterm(r) \/ Sigkill(r)
  PROVE  OwnChild'
<1> USE DEF At, Pcs, Rest, Waiting, ExpectingAt, Saving
<1>0. proc \in [Pids -> Slots] /\ TypeOK
  BY DEF Typed, TypeOK
<1>a. pc[r] \in {"read", "wait"} => ChildOf(proc, child[r], r)
  BY OwnChildDef
<1>b. AfterFailedStart(r) \in {"dload", "fail"}
  BY DEF AfterFailedStart
<1>1. CASE CloneInit(r)
  <2>1. PICK p \in Available :
          Proceed(r, "read", mem[r], p,
                  [proc EXCEPT ![p] = [st |-> "setup", par |-> r, ready |-> FALSE]])
    BY <1>1 DEF CloneInit
  <2> DEFINE table == [proc EXCEPT ![p] = [st |-> "setup", par |-> r, ready |-> FALSE]]
  <2>2. p \in Pids /\ proc[p].st = "free"
    BY DEF Available
  <2>3. ChildOf(table, p, r)
    BY <1>0, <2>2 DEF ChildOf
  <2>4. \A q \in Runtimes \ {r} : ChildOf(proc, child[q], q) => ChildOf(table, child[q], q)
    BY <1>0, <2>2 DEF ChildOf
  <2>5. Proceed(r, "read", mem[r], p, table)
    BY <2>1
  <2> HIDE DEF table
  <2>6. QED
    BY <2>3, <2>4, <2>5, OwnChildProceed
<1>2. CASE AwaitReady(r)
  <2> DEFINE table == [proc EXCEPT ![child[r]].ready = FALSE]
  <2>1. Proceed(r, "statdir", Running(child[r]), child[r], table) /\ ChildOf(proc, child[r], r)
    BY <1>2, <1>a DEF AwaitReady
  <2>2. \A q \in Runtimes : ChildOf(proc, child[q], q) => ChildOf(table, child[q], q)
    BY <1>0, <2>1 DEF ChildOf, Slots
  <2> HIDE DEF table
  <2>3. QED
    BY <2>1, <2>2, OwnChildProceed
<1>3. CASE AwaitFailure(r)
  <2> DEFINE table == [proc EXCEPT ![child[r]] = NoProcess]
  <2>1. Proceed(r, AfterFailedStart(r), mem[r], NoPid, table) /\ ChildOf(proc, child[r], r)
    BY <1>3, <1>a DEF AwaitFailure
  <2>2. \A q \in Runtimes \ {r} : ChildOf(proc, child[q], q) => ChildOf(table, child[q], q)
    BY <1>0, <2>1 DEF ChildOf
  <2> HIDE DEF table
  <2>3. QED
    BY <2>1, <2>2, <1>b, OwnChildProceed
<1>4. CASE WaitInit(r)
  <2> DEFINE table == [proc EXCEPT ![child[r]] = NoProcess]
  <2>1. Proceed(r, "statdir", Stopped, child[r], table) /\ ChildOf(proc, child[r], r)
    BY <1>4, <1>a DEF WaitInit
  <2>2. \A q \in Runtimes \ {r} : ChildOf(proc, child[q], q) => ChildOf(table, child[q], q)
    BY <1>0, <2>1 DEF ChildOf
  <2> HIDE DEF table
  <2>3. QED
    BY <2>1, <2>2, OwnChildProceed DEF Stopped
<1>5. CASE Sigterm(r)
  <2>1. mem[r].pid \in Pids
    BY <1>5 DEF Sigterm, Typed, LocalsOK, Running
  <2>2. ASSUME NEW table \in AfterSigterm(mem[r].pid), NEW q \in Runtimes,
               ChildOf(proc, child[q], q)
        PROVE  ChildOf(table, child[q], q)
    BY <1>0, <2>1, <2>2 DEF AfterSigterm, ChildOf, Slots
  <2>3. CASE ~Visible(mem[r].pid)
    BY <1>5, <2>3, OwnChildGoto DEF Sigterm, Goto
  <2>4. CASE Visible(mem[r].pid)
    <3>1. PICK table \in AfterSigterm(mem[r].pid) :
            Proceed(r, "check", mem[r], child[r], table)
      BY <1>5, <2>4 DEF Sigterm
    <3>2. QED
      BY <3>1, <2>2, OwnChildProceed
  <2>5. QED
    BY <2>3, <2>4
<1>6. CASE Sigkill(r)
  <2> DEFINE table == AfterSigkill(mem[r].pid)
  <2>1. mem[r].pid \in Pids
    BY <1>6 DEF Sigkill, Typed, LocalsOK, Running
  <2>2. ASSUME NEW q \in Runtimes, ChildOf(proc, child[q], q)
        PROVE  ChildOf(table, child[q], q)
    BY <1>0, <2>1, <2>2 DEF AfterSigkill, ChildOf, Slots
  <2>3. Proceed(r, "unlink", mem[r], child[r], table)
    BY <1>6 DEF Sigkill
  <2> HIDE DEF table
  <2>4. QED
    BY <2>2, <2>3, OwnChildProceed
<1>7. QED
  BY <1>1, <1>2, <1>3, <1>4, <1>5, <1>6

(* The steps of the children and of the kernel take no child away. *)
LEMMA OwnChildKernel ==
  ASSUME Typed, OwnChild, NEW p \in Pids, Kernel(p)
  PROVE  OwnChild'
<1>0. proc \in [Pids -> Slots]
  BY DEF Typed, TypeOK
<1>1. ASSUME NEW q \in Runtimes, ChildOf(proc, child[q], q)
      PROVE  ChildOf(proc', child[q], q)
  <2> USE DEF ChildOf
  <2>1. CASE ChildReady(p)
    BY <1>0, <1>1, <2>1 DEF ChildReady, Slots
  <2>2. CASE ChildExec(p)
    BY <1>0, <1>1, <2>2 DEF ChildExec, Slots
  <2>3. CASE ProcExit(p)
    BY <1>0, <1>1, <2>3, NobodyAssumption DEF ProcExit, Exited, Slots
  <2>4. CASE ProcDies(p)
    BY <1>0, <1>1, <2>4, NobodyAssumption DEF ProcDies, Exited, Slots
  <2>5. CASE Recycle(p)
    BY <1>0, <1>1, <2>5 DEF Recycle
  <2>6. CASE ForeignExit(p)
    BY <1>0, <1>1, <2>6 DEF ForeignExit
  <2>7. QED
    BY <2>1, <2>2, <2>3, <2>4, <2>5, <2>6 DEF Kernel, ProcNext
<1>2. UNCHANGED <<pc, mem, child>>
  BY DEF Kernel, cmdVars
<1>3. QED
  BY <1>1, <1>2 DEF OwnChild, Expecting, ChildOf

(* OwnChild is inductive relative to Typed. *)
LEMMA OwnChildNext == Typed /\ OwnChild /\ [Next]_vars => OwnChild'
<1> SUFFICES ASSUME Typed, OwnChild, [Next]_vars PROVE OwnChild'
  OBVIOUS
<1>1. CASE UNCHANGED vars
  BY <1>1 DEF vars, procVars, cmdVars, OwnChild, Expecting
<1>2. ASSUME NEW r \in Runtimes, NEW j \in Jobs, Issue(r, j)
      PROVE  OwnChild'
  <2>1. EntryOf(j.op) \in {"exists", "load", "xload", "dload", "query"}
    BY DEF EntryOf
  <2>2. /\ UNCHANGED <<proc, mem, child>>
        /\ pc' = [pc EXCEPT ![r] = EntryOf(j.op)]
    BY <1>2 DEF Issue, procVars
  <2>3. QED
    BY <2>1, <2>2 DEF OwnChild, Expecting, Typed, TypeOK
<1>3. ASSUME NEW r \in Runtimes, Step(r) \/ ExecSessionEnds(r) \/ Crash(r)
      PROVE  OwnChild'
  BY <1>3, OwnChildQuiet, OwnChildTable DEF Step
<1>4. ASSUME NEW p \in Pids, Kernel(p)
      PROVE  OwnChild'
  BY <1>4, OwnChildKernel
<1>5. QED
  BY <1>1, <1>2, <1>3, <1>4 DEF Next

(* A start reads from, records and waits for its own unreaped child, whatever
   other commands kill or start and however pids are recycled. *)
THEOREM StartKeepsItsChild == Spec => []OwnChild
<1>1. Init => OwnChild
  BY DEF Init, OwnChild, Expecting
<1>2. QED
  BY <1>1, TypedAlways, OwnChildNext, PTL DEF Spec

-----------------------------------------------------------------------------
(* Readiness *)

(* The inductive form of OnlyReadiedPids: the byte in the pipe, and a running
   record on its way to the file, are witnesses too. *)
ReadiedInv ==
  /\ OnlyReadiedPids
  /\ \A p \in Pids : proc[p].ready => p \in readied
  /\ \A r \in Runtimes : Saving(pc[r]) /\ mem[r].st = "running" => mem[r].pid \in readied

(* A step of a runtime preserves ReadiedInv if the pids it takes along, and
   those it writes, are readied. *)
LEMMA ReadiedProceed ==
  ASSUME Typed, ReadiedInv,
         NEW r \in Runtimes, NEW t \in Pcs, NEW m, NEW c, NEW table \in [Pids -> Slots],
         Proceed(r, t, m, c, table),
         readied' = readied,
         \A p \in Pids : table[p].ready => p \in readied,
         Holding(t) \/ (Saving(t) /\ m.st = "running") => m.pid \in readied,
         file'.st = "running" => file'.pid \in readied,
         pidFile' # NoPid => pidFile' \in readied
  PROVE  ReadiedInv'
<1>0. TypeOK
  BY DEF Typed
<1>1. \A p \in Pids : proc'[p].ready => p \in readied'
  <2>1. CASE t \notin Rest
    BY <1>0, <2>1, ProceedEffect
  <2>2. CASE t \in Rest
    <3>1. proc' = Orphan(r, table)
      BY <1>0, <2>2, ProceedEffect
    <3>2. ASSUME NEW p \in Pids PROVE Orphan(r, table)[p].ready => table[p].ready
      <4>1. table[p] \in Slots
        OBVIOUS
      <4>2. QED
        BY <4>1 DEF Orphan, NoProcess, Slots
    <3>3. QED
      BY <3>1, <3>2
  <2>3. QED
    BY <2>1, <2>2
<1>2. ASSUME NEW q \in Runtimes,
             Holding(pc'[q]) \/ (Saving(pc'[q]) /\ mem'[q].st = "running")
      PROVE  mem'[q].pid \in readied'
  <2>1. CASE q # r
    BY <1>0, <1>2, <2>1, ProceedEffect DEF ReadiedInv, OnlyReadiedPids, Holding
  <2>2. CASE q = r
    <3>1. t \notin Rest
      BY <1>0, <1>2, <2>2, ProceedEffect DEF Rest, Holding, Saving
    <3>2. QED
      BY <1>0, <1>2, <2>2, <3>1, ProceedEffect
  <2>3. QED
    BY <2>1, <2>2
<1>3. QED
  BY <1>1, <1>2 DEF ReadiedInv, OnlyReadiedPids, Holding

(* The steps that neither read from nor write to the state directory. *)
LEMMA ReadiedLocal ==
  ASSUME Typed, OwnChild, ReadiedInv, NEW r \in Runtimes,
         \/ CheckExists(r) \/ LoadSpec(r) \/ StatDir(r) \/ PrepareFails(r)
         \/ ExecProbe(r) \/ ExecSessionEnds(r) \/ CheckKilled(r) \/ Query(r)
  PROVE  ReadiedInv'
<1> USE DEF At, Goto, Pcs, Rest, Waiting, Saving, Holding
<1>0. proc \in [Pids -> Slots]
  BY DEF Typed, TypeOK
<1>a. Created.st # "running" /\ Stopped.st # "running"
  BY DEF Created, Stopped
<1>b. /\ \A p \in Pids : proc[p].ready => p \in readied
      /\ Holding(pc[r]) \/ (Saving(pc[r]) /\ mem[r].st = "running") => mem[r].pid \in readied
      /\ file.st = "running" => file.pid \in readied
      /\ pidFile # NoPid => pidFile \in readied
  BY DEF ReadiedInv, OnlyReadiedPids
<1>1. CASE CheckExists(r)
  BY <1>0, <1>1, <1>b, ReadiedProceed DEF CheckExists, fileVars
<1>2. CASE LoadSpec(r)
  BY <1>0, <1>2, <1>a, <1>b, ReadiedProceed DEF LoadSpec, fileVars
<1>3. CASE StatDir(r)
  BY <1>0, <1>3, <1>b, ReadiedProceed DEF StatDir, fileVars
<1>4. CASE PrepareFails(r)
  BY <1>0, <1>4, <1>b, ReadiedProceed DEF PrepareFails, AfterFailedStart, fileVars
<1>5. CASE ExecProbe(r)
  BY <1>0, <1>5, <1>a, <1>b, ReadiedProceed DEF ExecProbe, fileVars
<1>6. CASE ExecSessionEnds(r)
  BY <1>0, <1>6, <1>a, <1>b, ReadiedProceed DEF ExecSessionEnds, fileVars
<1>7. CASE CheckKilled(r)
  BY <1>0, <1>7, <1>b, ReadiedProceed DEF CheckKilled, fileVars
<1>8. CASE Query(r)
  BY <1>0, <1>8, <1>b, ReadiedProceed DEF Query, fileVars
<1>9. QED
  BY <1>1, <1>2, <1>3, <1>4, <1>5, <1>6, <1>7, <1>8

(* The steps that change what is on disk. *)
LEMMA ReadiedDisk ==
  ASSUME Typed, OwnChild, ReadiedInv, NEW r \in Runtimes,
         \/ MakeDir(r) \/ OpenFile(r) \/ WriteFile(r) \/ OpenPidFile(r) \/ WritePidFile(r)
         \/ Unlink(r) \/ Rmdir(r) \/ Crash(r)
  PROVE  ReadiedInv'
<1> USE DEF At, Goto, Pcs, Rest, Waiting, Saving, Holding
<1>0. proc \in [Pids -> Slots] /\ file \in Contents
  BY DEF Typed, TypeOK
<1>b. /\ \A p \in Pids : proc[p].ready => p \in readied
      /\ Holding(pc[r]) \/ (Saving(pc[r]) /\ mem[r].st = "running") => mem[r].pid \in readied
      /\ file.st = "running" => file.pid \in readied
      /\ pidFile # NoPid => pidFile \in readied
  BY DEF ReadiedInv, OnlyReadiedPids
<1>c. Empty.st # "running" /\ Torn.st # "running" /\ Absent.st # "running"
  BY DEF Empty, Torn, Absent
<1>1. CASE MakeDir(r)
  BY <1>0, <1>1, <1>b, AfterSaveType, ReadiedProceed DEF MakeDir, MkdirContainer, fileVars
<1>2. CASE OpenFile(r)
  BY <1>0, <1>2, <1>b, <1>c, AfterSaveType, ReadiedProceed DEF OpenFile, OpenTruncate, fileVars
<1>3. CASE WriteFile(r)
  <2>1. file' \in {file, mem[r], Torn}
    BY <1>3 DEF WriteFile, FlushRecord, DropRecord, Overlay
  <2>2. file'.st = "running" => file'.pid \in readied
    BY <1>3, <1>b, <1>c, <2>1 DEF WriteFile
  <2>3. QED
    BY <1>0, <1>3, <1>b, <2>2, AfterSaveType, ReadiedProceed DEF WriteFile
<1>4. CASE OpenPidFile(r) \/ WritePidFile(r)
  <2>1. Parses(file) /\ file.pid # NoPid => file.pid \in readied
    BY <1>0, <1>b, RecordFacts
  <2>2. QED
    BY <1>0, <1>4, <1>b, <2>1, ReadiedProceed DEF OpenPidFile, WritePidFile, fileVars
<1>5. CASE Unlink(r)
  BY <1>0, <1>5, <1>b, <1>c, ReadiedProceed DEF Unlink, UnlinkState, fileVars
<1>6. CASE Rmdir(r)
  BY <1>0, <1>6, <1>b, ReadiedProceed DEF Rmdir, RemoveDir, AfterDelete
<1>7. CASE Crash(r)
  BY <1>0, <1>7, <1>b, ReadiedProceed DEF Crash, DropRecord
<1>8. QED
  BY <1>1, <1>2, <1>3, <1>4, <1>5, <1>6, <1>7

(* The steps that take a record from the file, or change the process table. *)
LEMMA ReadiedLoad ==
  ASSUME Typed, OwnChild, ReadiedInv, NEW r \in Runtimes,
         \/ LoadForStart(r) \/ ExecLoad(r) \/ DeleteLoad(r)
         \/ CloneInit(r) \/ AwaitReady(r) \/ AwaitFailure(r) \/ WaitInit(r)
         \/ Sigterm(r) \/ Sigkill(r)
  PROVE  ReadiedInv'
<1> USE DEF At, Pcs, Rest, Waiting, Saving, Holding
<1>0. proc \in [Pids -> Slots] /\ file \in Contents
  BY DEF Typed, TypeOK
<1>a. pc[r] \in {"read", "wait"} => child[r] \in Pids
  BY DEF OwnChild, Expecting
<1>b. /\ \A p \in Pids : proc[p].ready => p \in readied
      /\ Holding(pc[r]) \/ (Saving(pc[r]) /\ mem[r].st = "running") => mem[r].pid \in readied
      /\ file.st = "running" => file.pid \in readied
      /\ pidFile # NoPid => pidFile \in readied
  BY DEF ReadiedInv, OnlyReadiedPids
<1>c. AfterFailedStart(r) \in {"dload", "fail"}
  BY DEF AfterFailedStart
<1>d. pc[r] \in {"term", "kill"} => mem[r].pid \in Pids
  BY DEF Typed, LocalsOK, Running
<1>1. CASE LoadForStart(r)
  BY <1>0, <1>1, <1>b, <1>c, ReadiedProceed DEF LoadForStart, Goto, fileVars
<1>2. CASE ExecLoad(r)
  BY <1>0, <1>2, <1>b, ReadiedProceed DEF ExecLoad, Goto, fileVars
<1>3. CASE DeleteLoad(r)
  BY <1>0, <1>3, <1>b, ReadiedProceed DEF DeleteLoad, Goto, fileVars
<1>4. CASE CloneInit(r)
  <2>1. PICK p \in Available :
          Proceed(r, "read", mem[r], p,
                  [proc EXCEPT ![p] = [st |-> "setup", par |-> r, ready |-> FALSE]])
    BY <1>4 DEF CloneInit
  <2> DEFINE table == [proc EXCEPT ![p] = [st |-> "setup", par |-> r, ready |-> FALSE]]
  <2>2. p \in Pids
    BY DEF Available
  <2>3. table \in [Pids -> Slots] /\ \A q \in Pids : table[q].ready => q \in readied
    BY <1>0, <1>b, <2>2 DEF Slots
  <2>4. Proceed(r, "read", mem[r], p, table)
    BY <2>1
  <2> HIDE DEF table
  <2>5. QED
    BY <1>4, <1>b, <2>3, <2>4, ReadiedProceed DEF CloneInit, fileVars
<1>5. CASE AwaitReady(r)
  <2> DEFINE table == [proc EXCEPT ![child[r]].ready = FALSE]
  <2>1. child[r] \in Pids /\ child[r] \in readied
    BY <1>5, <1>a, <1>b DEF AwaitReady, ReadyByte
  <2>2. table \in [Pids -> Slots]
    BY <1>0, <2>1 DEF Slots
  <2>3. ASSUME NEW q \in Pids, table[q].ready PROVE q \in readied
    BY <1>0, <1>b, <2>1, <2>3 DEF Slots
  <2>4. Proceed(r, "statdir", Running(child[r]), child[r], table)
    BY <1>5 DEF AwaitReady
  <2>5. Running(child[r]).pid \in readied
    BY <2>1 DEF Running
  <2> HIDE DEF table
  <2>6. QED
    BY <1>5, <1>b, <2>2, <2>3, <2>4, <2>5, ReadiedProceed DEF AwaitReady, fileVars
<1>6. CASE AwaitFailure(r)
  <2> DEFINE table == [proc EXCEPT ![child[r]] = NoProcess]
  <2>1. table \in [Pids -> Slots] /\ \A q \in Pids : table[q].ready => q \in readied
    BY <1>0, <1>b DEF Slots, NoProcess
  <2>2. Proceed(r, AfterFailedStart(r), mem[r], NoPid, table)
    BY <1>6 DEF AwaitFailure
  <2> HIDE DEF table
  <2>3. QED
    BY <1>6, <1>b, <1>c, <2>1, <2>2, ReadiedProceed DEF AwaitFailure, fileVars
<1>7. CASE WaitInit(r)
  <2> DEFINE table == [proc EXCEPT ![child[r]] = NoProcess]
  <2>1. table \in [Pids -> Slots] /\ \A q \in Pids : table[q].ready => q \in readied
    BY <1>0, <1>b DEF Slots, NoProcess
  <2>2. Proceed(r, "statdir", Stopped, child[r], table) /\ Stopped.st # "running"
    BY <1>7 DEF WaitInit, Stopped
  <2> HIDE DEF table
  <2>3. QED
    BY <1>7, <1>b, <2>1, <2>2, ReadiedProceed DEF WaitInit, fileVars
<1>8. CASE Sigterm(r)
  <2>1. ASSUME NEW table \in AfterSigterm(mem[r].pid)
        PROVE  table \in [Pids -> Slots] /\ \A q \in Pids : table[q].ready => q \in readied
    BY <1>0, <1>8, <1>b, <1>d DEF AfterSigterm, Sigterm, Slots
  <2>2. CASE Visible(mem[r].pid)
    <3>1. PICK table \in AfterSigterm(mem[r].pid) :
            Proceed(r, "check", mem[r], child[r], table)
      BY <1>8, <2>2 DEF Sigterm
    <3>2. QED
      BY <1>8, <1>b, <2>1, <3>1, ReadiedProceed DEF Sigterm, fileVars
  <2>3. CASE ~Visible(mem[r].pid)
    BY <1>0, <1>8, <1>b, <2>3, ReadiedProceed DEF Sigterm, Goto, fileVars
  <2>4. QED
    BY <2>2, <2>3
<1>9. CASE Sigkill(r)
  <2> DEFINE table == AfterSigkill(mem[r].pid)
  <2>1. table \in [Pids -> Slots] /\ \A q \in Pids : table[q].ready => q \in readied
    BY <1>0, <1>9, <1>b, <1>d DEF AfterSigkill, Sigkill, Slots
  <2>2. Proceed(r, "unlink", mem[r], child[r], table)
    BY <1>9 DEF Sigkill
  <2> HIDE DEF table
  <2>3. QED
    BY <1>9, <1>b, <2>1, <2>2, ReadiedProceed DEF Sigkill, fileVars
<1>10. QED
  BY <1>1, <1>2, <1>3, <1>4, <1>5, <1>6, <1>7, <1>8, <1>9

(* The set of readied pids only grows, and a byte in the pipe is in it. *)
LEMMA ReadiedKernel ==
  ASSUME Typed, ReadiedInv, NEW p \in Pids, Kernel(p)
  PROVE  ReadiedInv'
<1>0. proc \in [Pids -> Slots]
  BY DEF Typed, TypeOK
<1>1. readied \subseteq readied' /\ \A q \in Pids : proc'[q].ready => q \in readied'
  <2> USE DEF ReadiedInv, Slots, NoProcess
  <2>1. CASE ChildReady(p)
    BY <1>0, <2>1 DEF ChildReady
  <2>2. CASE ChildExec(p)
    BY <1>0, <2>2 DEF ChildExec
  <2>3. CASE ProcExit(p)
    BY <1>0, <2>3 DEF ProcExit, Exited
  <2>4. CASE ProcDies(p)
    BY <1>0, <2>4 DEF ProcDies, Exited
  <2>5. CASE Recycle(p)
    BY <1>0, <2>5 DEF Recycle
  <2>6. CASE ForeignExit(p)
    BY <1>0, <2>6 DEF ForeignExit
  <2>7. QED
    BY <2>1, <2>2, <2>3, <2>4, <2>5, <2>6 DEF Kernel, ProcNext
<1>2. UNCHANGED <<file, pidFile, pc, mem>>
  BY DEF Kernel, fileVars, cmdVars
<1>3. QED
  BY <1>1, <1>2 DEF ReadiedInv, OnlyReadiedPids

(* ReadiedInv is inductive relative to Typed and OwnChild. *)
LEMMA ReadiedNext == Typed /\ OwnChild /\ ReadiedInv /\ [Next]_vars => ReadiedInv'
<1> SUFFICES ASSUME Typed, OwnChild, ReadiedInv, [Next]_vars PROVE ReadiedInv'
  OBVIOUS
<1>1. CASE UNCHANGED vars
  BY <1>1 DEF vars, fileVars, procVars, cmdVars, ReadiedInv, OnlyReadiedPids
<1>2. ASSUME NEW r \in Runtimes, NEW j \in Jobs, Issue(r, j)
      PROVE  ReadiedInv'
  <2>1. EntryOf(j.op) \in {"exists", "load", "xload", "dload", "query"}
    BY DEF EntryOf
  <2>2. /\ UNCHANGED <<file, proc, readied, mem, pidFile>>
        /\ pc' = [pc EXCEPT ![r] = EntryOf(j.op)]
    BY <1>2 DEF Issue, procVars, fileVars
  <2>3. QED
    BY <2>1, <2>2 DEF ReadiedInv, OnlyReadiedPids, Saving, Typed, TypeOK
<1>3. ASSUME NEW r \in Runtimes, Step(r) \/ ExecSessionEnds(r) \/ Crash(r)
      PROVE  ReadiedInv'
  BY <1>3, ReadiedLocal, ReadiedDisk, ReadiedLoad DEF Step
<1>4. ASSUME NEW p \in Pids, Kernel(p)
      PROVE  ReadiedInv'
  BY <1>4, ReadiedKernel
<1>5. QED
  BY <1>1, <1>2, <1>3, <1>4 DEF Next

LEMMA ReadiedAlways == Spec => []ReadiedInv
<1>1. Init => ReadiedInv
  BY DEF Init, FileInit, ProcInit, ReadiedInv, OnlyReadiedPids, Absent, NoProcess, Saving
<1>2. QED
  BY <1>1, TypedAlways, StartKeepsItsChild, ReadiedNext, PTL DEF Spec

(* No pid is recorded as running, written to a --pid-file, signalled or
   entered that did not report its readiness to a start. *)
THEOREM NoFalseRunning == Spec => []OnlyReadiedPids
<1>1. ReadiedInv => OnlyReadiedPids
  BY DEF ReadiedInv
<1>2. QED
  BY <1>1, ReadiedAlways, PTL

-----------------------------------------------------------------------------
(* Commands advance *)

(* The rank of each control state. *)
LEMMA StepValues ==
  ASSUME NEW st
  PROVE  /\ StepsFrom("ok", st) = 0 /\ StepsFrom("fail", st) = 0
         /\ StepsFrom("query", st) = 1 /\ StepsFrom("rmdir", st) = 1
         /\ StepsFrom("pidwrite", st) = 1 /\ StepsFrom("pidfile", st) = 2
         /\ StepsFrom("unlink", st) = 2 /\ StepsFrom("kill", st) = 3
         /\ StepsFrom("check", st) = 4 /\ StepsFrom("term", st) = 5 /\ StepsFrom("dload", st) = 6
         /\ StepsFrom("wait", st) = 11 /\ StepsFrom("session", st) = 11
         /\ StepsFrom("probe", st) = 12 /\ StepsFrom("xload", st) = 13
         /\ StepsFrom("read", st) = 16 /\ StepsFrom("clone", st) = 17 /\ StepsFrom("load", st) = 18
         /\ StepsFrom("spec", st) = 23 /\ StepsFrom("exists", st) = 24
         /\ StepsFrom("statdir", st) = StepsAfterSave(st) + 4
BY DEF StepsFrom, Rest, Waiting

(* Nothing a save goes back to is further from the exit than its caller says. *)
LEMMA SaveReturns ==
  ASSUME NEW r \in Runtimes
  PROVE  /\ StepsAfterSave(mem[r].st) \in Nat
         /\ \A b \in BOOLEAN :
              StepsFrom(AfterSave(r, b), mem[r].st) \in 0..StepsAfterSave(mem[r].st)
<1> USE DEF StepsAfterSave
<1>1. AfterStart(r) \in {"dload", "pidfile", "ok"}
  BY DEF AfterStart
<1>2. StepsAfterSave(mem[r].st) \in Nat
  OBVIOUS
<1>3. ASSUME NEW b \in BOOLEAN
      PROVE  StepsFrom(AfterSave(r, b), mem[r].st) \in 0..StepsAfterSave(mem[r].st)
  <2>1. CASE mem[r].st = "created"
    <3>1. AfterSave(r, b) \in {"fail", "load", "ok"}
      BY <2>1 DEF AfterSave
    <3>2. QED
      BY <2>1, <3>1, StepValues
  <2>2. CASE mem[r].st = "running"
    <3>1. AfterSave(r, b) \in {"wait", "dload", "pidfile", "ok"}
      BY <1>1, <2>2 DEF AfterSave
    <3>2. QED
      BY <2>2, <3>1, StepValues
  <2>3. CASE mem[r].st \notin {"created", "running"}
    <3>1. AfterSave(r, b) \in {"fail", "dload", "pidfile", "ok"}
      BY <1>1, <2>3 DEF AfterSave
    <3>2. QED
      BY <2>3, <3>1, StepValues
  <2>4. QED
    BY <2>1, <2>2, <2>3
<1>4. QED
  BY <1>2, <1>3

(* The instance of CommandsAdvance for one step. *)
Advance(r) == pc[r] \notin Rest /\ pc'[r] # pc[r] => StepsLeft(r)' < StepsLeft(r)

LEMMA AdvanceProceed ==
  ASSUME Typed, NEW r \in Runtimes, NEW t \in Pcs, NEW m, NEW c, NEW table,
         Proceed(r, t, m, c, table), StepsFrom(t, m.st) < StepsLeft(r)
  PROVE  \A q \in Runtimes : Advance(q)
<1>0. TypeOK
  BY DEF Typed
<1>1. ASSUME NEW q \in Runtimes, pc'[q] # pc[q]
      PROVE  StepsLeft(q)' < StepsLeft(q)
  <2>1. q = r /\ pc'[r] = t
    BY <1>0, <1>1, ProceedEffect
  <2>2. StepsFrom(pc'[r], mem'[r].st) = StepsFrom(t, m.st)
    <3>1. CASE t \in Rest
      BY <2>1, <3>1 DEF StepsFrom
    <3>2. CASE t \notin Rest
      BY <1>0, <2>1, <3>2, ProceedEffect
    <3>3. QED
      BY <3>1, <3>2
  <2>3. QED
    BY <2>1, <2>2 DEF StepsLeft
<1>2. QED
  BY <1>1 DEF Advance

(* The steps of a save. *)
LEMMA AdvanceSave ==
  ASSUME Typed, NEW r \in Runtimes,
         StatDir(r) \/ MakeDir(r) \/ OpenFile(r) \/ WriteFile(r)
  PROVE  \A q \in Runtimes : Advance(q)
<1> DEFINE n == StepsAfterSave(mem[r].st)
<1>a. ASSUME NEW b \in BOOLEAN, Goto(r, AfterSave(r, b)),
             StepsLeft(r) \in Nat, StepsLeft(r) > n
      PROVE  \A q \in Runtimes : Advance(q)
  <2>1. n \in Nat /\ StepsFrom(AfterSave(r, b), mem[r].st) \in 0..n
    BY SaveReturns
  <2>2. AfterSave(r, b) \in Pcs
    BY AfterSaveType DEF Pcs, Waiting
  <2> HIDE DEF n
  <2>3. StepsFrom(AfterSave(r, b), mem[r].st) < StepsLeft(r)
    BY <1>a, <2>1
  <2>4. QED
    BY <1>a, <2>2, <2>3, AdvanceProceed DEF Goto
<1>b. n \in Nat
  BY SaveReturns
<1>c. /\ StepsFrom("mkdir", mem[r].st) = n + 3 /\ StepsFrom("open", mem[r].st) = n + 2
      /\ StepsFrom("flush", mem[r].st) = n + 1 /\ StepsFrom("statdir", mem[r].st) = n + 4
  BY DEF StepsFrom, Rest, Waiting
<1>d. {"mkdir", "open", "flush"} \subseteq Pcs
  BY DEF Pcs
<1> HIDE DEF n
<1>1. CASE StatDir(r)
  <2>1. PICK t \in {"open", "mkdir"} : Goto(r, t)
    BY <1>1 DEF StatDir
  <2>2. StepsLeft(r) = n + 4
    BY <1>1, <1>c DEF StatDir, At, StepsLeft
  <2>3. QED
    BY <1>b, <1>c, <1>d, <2>1, <2>2, AdvanceProceed DEF Goto
<1>2. CASE MakeDir(r)
  <2>1. Goto(r, "open") \/ \E b \in BOOLEAN : Goto(r, AfterSave(r, b))
    BY <1>2, Zenon DEF MakeDir
  <2>2. StepsLeft(r) = n + 3
    BY <1>2, <1>c DEF MakeDir, At, StepsLeft
  <2>3. CASE Goto(r, "open")
    BY <1>b, <1>c, <1>d, <2>2, <2>3, AdvanceProceed DEF Goto
  <2>4. CASE \E b \in BOOLEAN : Goto(r, AfterSave(r, b))
    BY <1>a, <1>b, <2>2, <2>4
  <2>5. QED
    BY <2>1, <2>3, <2>4
<1>3. CASE OpenFile(r)
  <2>1. Goto(r, "flush") \/ \E b \in BOOLEAN : Goto(r, AfterSave(r, b))
    BY <1>3, Zenon DEF OpenFile
  <2>2. StepsLeft(r) = n + 2
    BY <1>3, <1>c DEF OpenFile, At, StepsLeft
  <2>3. CASE Goto(r, "flush")
    BY <1>b, <1>c, <1>d, <2>2, <2>3, AdvanceProceed DEF Goto
  <2>4. CASE \E b \in BOOLEAN : Goto(r, AfterSave(r, b))
    BY <1>a, <1>b, <2>2, <2>4
  <2>5. QED
    BY <2>1, <2>3, <2>4
<1>4. CASE WriteFile(r)
  <2>1. \E b \in BOOLEAN : Goto(r, AfterSave(r, b))
    BY <1>4, Zenon DEF WriteFile
  <2>2. StepsLeft(r) = n + 1
    BY <1>4, <1>c DEF WriteFile, At, StepsLeft
  <2>3. QED
    BY <1>a, <1>b, <2>1, <2>2
<1>5. QED
  BY <1>1, <1>2, <1>3, <1>4

(* The other steps of a runtime. *)
LEMMA AdvanceOther ==
  ASSUME Typed, NEW r \in Runtimes,
         \/ CheckExists(r) \/ LoadSpec(r) \/ LoadForStart(r) \/ PrepareFails(r) \/ CloneInit(r)
         \/ AwaitReady(r) \/ AwaitFailure(r) \/ WaitInit(r) \/ OpenPidFile(r) \/ WritePidFile(r)
         \/ ExecLoad(r) \/ ExecProbe(r) \/ ExecSessionEnds(r)
         \/ DeleteLoad(r) \/ Sigterm(r) \/ CheckKilled(r) \/ Sigkill(r) \/ Unlink(r) \/ Rmdir(r)
         \/ Query(r) \/ Crash(r)
  PROVE  \A q \in Runtimes : Advance(q)
<1> USE StepValues DEF At, Goto, StepsLeft
<1>a. AfterFailedStart(r) \in {"dload", "fail"} /\ AfterDelete(r) \in {"ok", "fail"}
  BY DEF AfterFailedStart, AfterDelete
<1>b. /\ StepsFrom("statdir", Created.st) = 22
      /\ StepsFrom("statdir", Stopped.st) = 10
      /\ \A p : StepsFrom("statdir", Running(p).st) = 15
  BY DEF Created, Stopped, Running, StepsAfterSave
<1>c. {"ok", "fail", "spec", "statdir", "clone", "read", "probe", "session", "dload", "term",
       "check", "kill", "unlink", "rmdir", "pidwrite"} \subseteq Pcs
  BY DEF Pcs, Rest, Waiting
<1>1. CASE CheckExists(r)
  BY <1>1, <1>c, AdvanceProceed DEF CheckExists
<1>2. CASE LoadSpec(r)
  BY <1>2, <1>b, <1>c, AdvanceProceed DEF LoadSpec
<1>3. CASE LoadForStart(r)
  BY <1>3, <1>a, <1>c, AdvanceProceed DEF LoadForStart
<1>4. CASE PrepareFails(r)
  BY <1>4, <1>a, <1>c, AdvanceProceed DEF PrepareFails
<1>5. CASE CloneInit(r)
  <2>1. PICK p, table : Proceed(r, "read", mem[r], p, table)
    BY <1>5 DEF CloneInit
  <2>2. QED
    BY <1>5, <1>c, <2>1, AdvanceProceed DEF CloneInit
<1>6. CASE AwaitReady(r)
  BY <1>6, <1>b, <1>c, AdvanceProceed DEF AwaitReady
<1>7. CASE AwaitFailure(r)
  BY <1>7, <1>a, <1>c, AdvanceProceed DEF AwaitFailure
<1>8. CASE WaitInit(r)
  BY <1>8, <1>b, <1>c, AdvanceProceed DEF WaitInit
<1>9. CASE OpenPidFile(r) \/ WritePidFile(r)
  BY <1>9, <1>c, AdvanceProceed DEF OpenPidFile, WritePidFile
<1>10. CASE ExecLoad(r)
  BY <1>10, <1>c, AdvanceProceed DEF ExecLoad
<1>11. CASE ExecProbe(r)
  BY <1>11, <1>b, <1>c, AdvanceProceed DEF ExecProbe
<1>12. CASE ExecSessionEnds(r)
  BY <1>12, <1>b, <1>c, AdvanceProceed DEF ExecSessionEnds
<1>13. CASE DeleteLoad(r)
  BY <1>13, <1>c, AdvanceProceed DEF DeleteLoad
<1>14. CASE Sigterm(r)
  <2>1. PICK t \in {"check", "unlink"} : \E table : Proceed(r, t, mem[r], child[r], table)
    BY <1>14 DEF Sigterm
  <2>2. QED
    BY <1>14, <1>c, <2>1, AdvanceProceed DEF Sigterm
<1>15. CASE CheckKilled(r)
  BY <1>15, <1>c, AdvanceProceed DEF CheckKilled
<1>16. CASE Sigkill(r)
  BY <1>16, <1>c, AdvanceProceed DEF Sigkill
<1>17. CASE Unlink(r)
  BY <1>17, <1>c, AdvanceProceed DEF Unlink
<1>18. CASE Rmdir(r)
  BY <1>18, <1>a, <1>c, AdvanceProceed DEF Rmdir
<1>19. CASE Query(r)
  BY <1>19, <1>c, AdvanceProceed DEF Query
<1>20. CASE Crash(r)
  <2>1. \A q \in Runtimes \ {r} : pc'[q] = pc[q]
    BY <1>20, <1>c, ProceedEffect DEF Crash, Typed
  <2>2. pc[r] \in Pcs \ Rest /\ pc'[r] = "fail"
    BY <1>20, <1>c, ProceedEffect DEF Crash, Typed, TypeOK
  <2>3. StepsFrom(pc[r], mem[r].st) \in Nat \ {0} /\ StepsFrom("fail", mem'[r].st) = 0
    BY <2>2 DEF StepsFrom, StepsAfterSave, Pcs, Rest, Waiting
  <2>4. QED
    BY <2>1, <2>2, <2>3 DEF Advance
<1>21. QED
  BY <1>1, <1>2, <1>3, <1>4, <1>5, <1>6, <1>7, <1>8, <1>9, <1>10, <1>11, <1>12, <1>13,
     <1>14, <1>15, <1>16, <1>17, <1>18, <1>19, <1>20

(* Every command ends after 24 steps at most, session and wait included: of
   CommandsReturn and AttachedReturns only the fairness is left to TLC. *)
THEOREM CommandsAreFinite == Spec => CommandsAdvance
<1>1. ASSUME Typed, [Next]_vars
      PROVE  [\A r \in Runtimes : pc[r] \notin Rest /\ pc'[r] # pc[r]
                                    => StepsLeft(r)' < StepsLeft(r)]_vars
  <2>1. ASSUME NEW r \in Runtimes, NEW j \in Jobs, Issue(r, j)
        PROVE  \A q \in Runtimes : Advance(q)
    BY <1>1, <2>1 DEF Issue, Advance, Typed, TypeOK
  <2>2. ASSUME NEW r \in Runtimes, Step(r) \/ ExecSessionEnds(r) \/ Crash(r)
        PROVE  \A q \in Runtimes : Advance(q)
    BY <1>1, <2>2, AdvanceSave, AdvanceOther DEF Step
  <2>3. ASSUME NEW p \in Pids, Kernel(p)
        PROVE  \A q \in Runtimes : Advance(q)
    BY <2>3 DEF Kernel, cmdVars, Advance
  <2>4. QED
    BY <1>1, <2>1, <2>2, <2>3 DEF Next, Advance
<1>2. QED
  BY <1>1, TypedAlways, PTL DEF Spec, CommandsAdvance
-----------------------------------------------------------------------------
(* The read of the sync pipe *)

(* A child that has left its setup alive has its byte in the pipe. *)
Sends(table, c) == table[c].st \in {"ready", "running"} => table[c].ready

SendersInv == \A r \in Runtimes : pc[r] = "read" => Sends(proc, child[r])

(* A step of r keeps the other starts' senders, if it does not touch their
   bytes, and has one of its own where it begins to read. *)
LEMMA SendersProceed ==
  ASSUME Typed, OwnChild, SendersInv,
         NEW r \in Runtimes, NEW t \in Pcs, NEW m, NEW c, NEW table,
         Proceed(r, t, m, c, table),
         \A q \in Runtimes \ {r} : ChildOf(proc, child[q], q) /\ Sends(proc, child[q])
                                     => table[child[q]].par = q /\ Sends(table, child[q]),
         t = "read" => Sends(table, c)
  PROVE  SendersInv'
<1>0. TypeOK
  BY DEF Typed
<1>1. ASSUME NEW q \in Runtimes \ {r}, pc'[q] = "read"
      PROVE  Sends(proc', child'[q])
  <2>1. pc[q] = "read" /\ child'[q] = child[q]
    BY <1>0, <1>1, ProceedEffect
  <2>2. child[q] \in Pids /\ table[child[q]].par = q /\ Sends(table, child[q])
    BY <2>1, OwnChildDef DEF SendersInv, ExpectingAt, ChildOf
  <2>3. CASE t \notin Rest
    BY <1>0, <2>1, <2>2, <2>3, ProceedEffect
  <2>4. CASE t \in Rest
    <3>1. proc' = Orphan(r, table)
      BY <1>0, <2>4, ProceedEffect
    <3>2. QED
      BY <2>1, <2>2, <3>1 DEF Orphan, Sends
  <2>5. QED
    BY <2>3, <2>4
<1>2. pc'[r] = "read" => Sends(proc', child'[r])
  BY <1>0, ProceedEffect DEF Rest
<1>3. QED
  BY <1>1, <1>2 DEF SendersInv

(* The steps of a runtime that leave the process table alone. *)
LEMMA SendersQuiet ==
  ASSUME Typed, OwnChild, SendersInv, NEW r \in Runtimes,
         \/ CheckExists(r) \/ LoadSpec(r) \/ StatDir(r) \/ MakeDir(r) \/ OpenFile(r) \/ WriteFile(r)
         \/ LoadForStart(r) \/ PrepareFails(r) \/ OpenPidFile(r) \/ WritePidFile(r)
         \/ ExecLoad(r) \/ ExecProbe(r) \/ ExecSessionEnds(r)
         \/ DeleteLoad(r) \/ CheckKilled(r) \/ Unlink(r) \/ Rmdir(r) \/ Query(r) \/ Crash(r)
  PROVE  SendersInv'
<1>1. PICK t \in Pcs \ {"read"} : \E m, c : Proceed(r, t, m, c, proc)
  <2> USE DEF Goto
  <2>1. /\ {"ok", "fail", "spec", "statdir", "mkdir", "open", "flush", "clone", "probe", "session",
            "term", "unlink", "kill", "rmdir", "pidwrite"} \subseteq Pcs \ {"read"}
        /\ AfterSave(r, TRUE) \in Pcs \ {"read"} /\ AfterSave(r, FALSE) \in Pcs \ {"read"}
        /\ AfterFailedStart(r) \in Pcs \ {"read"} /\ AfterDelete(r) \in Pcs \ {"read"}
    BY AfterSaveType DEF Pcs, Rest, Waiting, AfterFailedStart, AfterDelete
  <2>2. CASE CheckExists(r) \/ LoadSpec(r) \/ StatDir(r)
    BY <2>1, <2>2 DEF CheckExists, LoadSpec, StatDir
  <2>3. CASE MakeDir(r) \/ OpenFile(r) \/ WriteFile(r)
    BY <2>1, <2>3, Zenon DEF MakeDir, OpenFile, WriteFile
  <2>4. CASE LoadForStart(r) \/ PrepareFails(r) \/ OpenPidFile(r) \/ WritePidFile(r)
    BY <2>1, <2>4 DEF LoadForStart, PrepareFails, OpenPidFile, WritePidFile
  <2>5. CASE ExecLoad(r) \/ ExecProbe(r) \/ ExecSessionEnds(r)
    BY <2>1, <2>5 DEF ExecLoad, ExecProbe, ExecSessionEnds
  <2>6. CASE DeleteLoad(r) \/ CheckKilled(r)
    BY <2>1, <2>6 DEF DeleteLoad, CheckKilled
  <2>7. CASE Unlink(r) \/ Rmdir(r) \/ Query(r) \/ Crash(r)
    BY <2>1, <2>7 DEF Unlink, Rmdir, Query, Crash
  <2>8. QED
    BY <2>2, <2>3, <2>4, <2>5, <2>6, <2>7
<1>2. QED
  BY <1>1, SendersProceed DEF ChildOf

(* The steps that change the process table. *)
LEMMA SendersTable ==
  ASSUME Typed, OwnChild, SendersInv, NEW r \in Runtimes,
         CloneInit(r) \/ AwaitReady(r) \/ AwaitFailure(r) \/ WaitInit(r) \/ Sigterm(r) \/ Sigkill(r)
  PROVE  SendersInv'
<1> USE DEF At, Pcs, Rest, Waiting
<1>0. proc \in [Pids -> Slots] /\ TypeOK
  BY DEF Typed, TypeOK
<1>a. pc[r] \in {"read", "wait"} => ChildOf(proc, child[r], r)
  BY OwnChildDef DEF ExpectingAt
<1>1. CASE CloneInit(r)
  <2>1. PICK p \in Available :
          Proceed(r, "read", mem[r], p,
                  [proc EXCEPT ![p] = [st |-> "setup", par |-> r, ready |-> FALSE]])
    BY <1>1 DEF CloneInit
  <2> DEFINE table == [proc EXCEPT ![p] = [st |-> "setup", par |-> r, ready |-> FALSE]]
  <2>2. p \in Pids /\ proc[p].st = "free"
    BY DEF Available
  <2>3. Sends(table, p)
    BY <1>0, <2>2 DEF Sends
  <2>4. \A q \in Runtimes \ {r} : ChildOf(proc, child[q], q) /\ Sends(proc, child[q])
                                    => table[child[q]].par = q /\ Sends(table, child[q])
    BY <1>0, <2>2 DEF ChildOf, Sends
  <2>5. Proceed(r, "read", mem[r], p, table)
    BY <2>1
  <2> HIDE DEF table
  <2>6. QED
    BY <2>3, <2>4, <2>5, SendersProceed
<1>2. CASE AwaitReady(r)
  <2> DEFINE table == [proc EXCEPT ![child[r]].ready = FALSE]
  <2>1. Proceed(r, "statdir", Running(child[r]), child[r], table) /\ ChildOf(proc, child[r], r)
    BY <1>2, <1>a DEF AwaitReady
  <2>2. \A q \in Runtimes \ {r} : ChildOf(proc, child[q], q) /\ Sends(proc, child[q])
                                    => table[child[q]].par = q /\ Sends(table, child[q])
    BY <1>0, <2>1 DEF ChildOf, Sends
  <2> HIDE DEF table
  <2>3. QED
    BY <2>1, <2>2, SendersProceed
<1>3. CASE AwaitFailure(r)
  <2> DEFINE table == [proc EXCEPT ![child[r]] = NoProcess]
  <2>1. Proceed(r, AfterFailedStart(r), mem[r], NoPid, table) /\ ChildOf(proc, child[r], r)
    BY <1>3, <1>a DEF AwaitFailure
  <2>2. \A q \in Runtimes \ {r} : ChildOf(proc, child[q], q) /\ Sends(proc, child[q])
                                    => table[child[q]].par = q /\ Sends(table, child[q])
    BY <1>0, <2>1 DEF ChildOf, Sends
  <2>3. AfterFailedStart(r) \in {"dload", "fail"}
    BY DEF AfterFailedStart
  <2> HIDE DEF table
  <2>4. QED
    BY <2>1, <2>2, <2>3, SendersProceed
<1>4. CASE WaitInit(r)
  <2> DEFINE table == [proc EXCEPT ![child[r]] = NoProcess]
  <2>1. Proceed(r, "statdir", Stopped, child[r], table) /\ ChildOf(proc, child[r], r)
    BY <1>4, <1>a DEF WaitInit
  <2>2. \A q \in Runtimes \ {r} : ChildOf(proc, child[q], q) /\ Sends(proc, child[q])
                                    => table[child[q]].par = q /\ Sends(table, child[q])
    BY <1>0, <2>1 DEF ChildOf, Sends
  <2> HIDE DEF table
  <2>3. QED
    BY <2>1, <2>2, SendersProceed
<1>5. CASE Sigterm(r) \/ Sigkill(r)
  <2>1. mem[r].pid \in Pids
    BY <1>5 DEF Sigterm, Sigkill, Typed, LocalsOK, Running
  <2>2. PICK t \in {"check", "unlink"},
             table \in AfterSigterm(mem[r].pid) \cup {AfterSigkill(mem[r].pid), proc} :
          Proceed(r, t, mem[r], child[r], table)
    BY <1>5, Zenon DEF Sigterm, Sigkill, Goto
  <2>3. ASSUME NEW c \in Pids, Sends(proc, c)
        PROVE  table[c].par = proc[c].par /\ Sends(table, c)
    BY <1>0, <2>1, <2>2, <2>3 DEF AfterSigterm, AfterSigkill, Sends, Slots
  <2>4. QED
    BY <2>2, <2>3, SendersProceed DEF ChildOf
<1>6. QED
  BY <1>1, <1>2, <1>3, <1>4, <1>5

(* A child writes its byte when it leaves the setup, as long as it has a
   parent. *)
LEMMA SendersKernel ==
  ASSUME Typed, OwnChild, SendersInv, NEW p \in Pids, Kernel(p)
  PROVE  SendersInv'
<1>0. proc \in [Pids -> Slots]
  BY DEF Typed, TypeOK
<1>1. ASSUME NEW q \in Runtimes, ChildOf(proc, child[q], q), Sends(proc, child[q])
      PROVE  Sends(proc', child[q])
  <2> USE DEF ChildOf, Sends
  <2>1. CASE ChildReady(p)
    BY <1>0, <1>1, <2>1, NobodyAssumption DEF ChildReady, Slots
  <2>2. CASE ChildExec(p)
    BY <1>0, <1>1, <2>2 DEF ChildExec, Slots
  <2>3. CASE ProcExit(p)
    BY <1>0, <1>1, <2>3, NobodyAssumption DEF ProcExit, Exited, Slots
  <2>4. CASE ProcDies(p)
    BY <1>0, <1>1, <2>4, NobodyAssumption DEF ProcDies, Exited, Slots
  <2>5. CASE Recycle(p) \/ ForeignExit(p)
    BY <1>0, <1>1, <2>5 DEF Recycle, ForeignExit
  <2>6. QED
    BY <2>1, <2>2, <2>3, <2>4, <2>5 DEF Kernel, ProcNext
<1>2. UNCHANGED <<pc, child>>
  BY DEF Kernel, cmdVars
<1>3. QED
  BY <1>1, <1>2, OwnChildDef DEF SendersInv, ExpectingAt

LEMMA SendersNext == Typed /\ OwnChild /\ SendersInv /\ [Next]_vars => SendersInv'
<1> SUFFICES ASSUME Typed, OwnChild, SendersInv, [Next]_vars PROVE SendersInv'
  OBVIOUS
<1>1. CASE UNCHANGED vars
  BY <1>1 DEF vars, procVars, cmdVars, SendersInv, Sends
<1>2. ASSUME NEW r \in Runtimes, NEW j \in Jobs, Issue(r, j)
      PROVE  SendersInv'
  <2>1. EntryOf(j.op) # "read"
    BY DEF EntryOf
  <2>2. UNCHANGED <<proc, child>> /\ pc' = [pc EXCEPT ![r] = EntryOf(j.op)]
    BY <1>2 DEF Issue, procVars
  <2>3. QED
    BY <2>1, <2>2 DEF SendersInv, Typed, TypeOK
<1>3. ASSUME NEW r \in Runtimes, Step(r) \/ ExecSessionEnds(r) \/ Crash(r)
      PROVE  SendersInv'
  BY <1>3, SendersQuiet, SendersTable DEF Step
<1>4. ASSUME NEW p \in Pids, Kernel(p)
      PROVE  SendersInv'
  BY <1>4, SendersKernel
<1>5. QED
  BY <1>1, <1>2, <1>3, <1>4 DEF Next

(* A start in read() has its answer or a child that will give it one, whatever
   is killed by whom: the only place where a command could wait for something
   that does not come. *)
THEOREM ReadIsAnswered == Spec => []ReadHasSender
<1>1. Init => SendersInv
  BY DEF Init, SendersInv
<1>2. Typed /\ OwnChild /\ SendersInv => ReadHasSender
  BY DEF SendersInv, Sends, OwnChild, Expecting, ReadHasSender, ReadyByte, NoReadyByte
<1>3. QED
  BY <1>1, <1>2, TypedAlways, StartKeepsItsChild, SendersNext, PTL DEF Spec
-----------------------------------------------------------------------------
(* What is left of a save that is not finished *)

(* Only a runtime between its fopen and its fclose has the file open. *)
Writers == \A r \in linked : pc[r] = "flush"

(* How the steps of a runtime change the state directory. *)
LEMMA FileSteps ==
  ASSUME Typed, NEW r \in Runtimes, Step(r) \/ ExecSessionEnds(r) \/ Crash(r)
  PROVE  \/ UNCHANGED <<file, linked>> /\ pc[r] # "flush"
         \/ pc[r] = "open" /\ pc'[r] = "flush" /\ file' = Empty /\ linked' = linked \cup {r}
         \/ pc[r] = "flush" /\ FlushRecord(r, mem[r])
         \/ pc[r] = "flush" /\ UNCHANGED file /\ linked' = linked \ {r} /\ "disk" \in Faults
         \/ UNCHANGED file /\ linked' = linked \ {r} /\ "crash" \in Faults
         \/ file' = Absent /\ linked' = {}
<1> USE DEF At
<1>0. TypeOK
  BY DEF Typed
<1>1. CASE MakeDir(r)
  <2>1. UNCHANGED <<file, linked>>
    BY <1>1, Zenon DEF MakeDir, MkdirContainer, fileVars
  <2>2. QED
    BY <1>1, <2>1 DEF MakeDir
<1>2. CASE OpenFile(r)
  <2>1. CASE OpenTruncate(r) /\ Goto(r, "flush")
    <3>1. pc'[r] = "flush"
      BY <1>0, <2>1, ProceedEffect DEF Goto, Pcs
    <3>2. QED
      BY <1>2, <2>1, <3>1 DEF OpenFile, OpenTruncate
  <2>2. CASE UNCHANGED fileVars
    BY <1>2, <2>2 DEF OpenFile, fileVars
  <2>3. QED
    BY <1>2, <2>1, <2>2, Zenon DEF OpenFile
<1>3. CASE WriteFile(r)
  BY <1>3 DEF WriteFile, DropRecord
<1>4. CASE Unlink(r)
  BY <1>4 DEF Unlink, UnlinkState, fileVars
<1>5. CASE Rmdir(r)
  BY <1>5 DEF Rmdir, RemoveDir
<1>6. CASE Crash(r)
  BY <1>6 DEF Crash, DropRecord
<1>7. CASE \/ CheckExists(r) \/ LoadSpec(r) \/ StatDir(r)
           \/ LoadForStart(r) \/ PrepareFails(r) \/ CloneInit(r)
           \/ AwaitReady(r) \/ AwaitFailure(r) \/ WaitInit(r) \/ OpenPidFile(r) \/ WritePidFile(r)
           \/ ExecLoad(r) \/ ExecProbe(r) \/ ExecSessionEnds(r)
           \/ DeleteLoad(r) \/ Sigterm(r) \/ CheckKilled(r) \/ Sigkill(r) \/ Query(r)
  BY <1>7 DEF CheckExists, LoadSpec, StatDir, LoadForStart, PrepareFails, CloneInit, AwaitReady,
     AwaitFailure, WaitInit, OpenPidFile, WritePidFile, ExecLoad, ExecProbe, ExecSessionEnds, DeleteLoad,
     Sigterm, CheckKilled, Sigkill, Query, fileVars
<1>8. QED
  BY <1>1, <1>2, <1>3, <1>4, <1>5, <1>6, <1>7 DEF Step

(* A step of a runtime is its own. *)
LEMMA StepsAreOwn ==
  ASSUME Typed, NEW r \in Runtimes, Step(r) \/ ExecSessionEnds(r) \/ Crash(r)
  PROVE  \A q \in Runtimes \ {r} : pc'[q] = pc[q]
<1>1. PICK t, m, c, table : Proceed(r, t, m, c, table)
  <2> USE DEF Goto
  <2>1. CASE CheckExists(r) \/ LoadSpec(r) \/ StatDir(r) \/ MakeDir(r) \/ OpenFile(r) \/ WriteFile(r)
    BY <2>1, Zenon DEF CheckExists, LoadSpec, StatDir, MakeDir, OpenFile, WriteFile
  <2>2. CASE LoadForStart(r) \/ PrepareFails(r) \/ CloneInit(r) \/ AwaitReady(r)
               \/ AwaitFailure(r) \/ WaitInit(r) \/ OpenPidFile(r) \/ WritePidFile(r)
    BY <2>2, Zenon DEF LoadForStart, PrepareFails, CloneInit, AwaitReady, AwaitFailure, WaitInit,
                       OpenPidFile, WritePidFile
  <2>3. CASE ExecLoad(r) \/ ExecProbe(r) \/ ExecSessionEnds(r) \/ Query(r) \/ Crash(r)
    BY <2>3, Zenon DEF ExecLoad, ExecProbe, ExecSessionEnds, Query, Crash
  <2>4. CASE DeleteLoad(r) \/ Sigterm(r) \/ CheckKilled(r) \/ Sigkill(r) \/ Unlink(r) \/ Rmdir(r)
    BY <2>4, Zenon DEF DeleteLoad, Sigterm, CheckKilled, Sigkill, Unlink, Rmdir
  <2>5. QED
    BY <2>1, <2>2, <2>3, <2>4 DEF Step
<1>2. QED
  BY <1>1 DEF Proceed, Typed, TypeOK

LEMMA WritersNext == Typed /\ Writers /\ [Next]_vars => Writers'
<1> SUFFICES ASSUME Typed, Writers, [Next]_vars PROVE Writers'
  OBVIOUS
<1> USE DEF Writers
<1>0. linked \in SUBSET Runtimes /\ pc \in [Runtimes -> Pcs]
  BY DEF Typed, TypeOK
<1>1. CASE UNCHANGED vars
  BY <1>1 DEF vars, fileVars, cmdVars
<1>2. ASSUME NEW r \in Runtimes, NEW j \in Jobs, Issue(r, j)
      PROVE  Writers'
  BY <1>0, <1>2 DEF Issue, fileVars, Rest
<1>3. ASSUME NEW r \in Runtimes, Step(r) \/ ExecSessionEnds(r) \/ Crash(r)
      PROVE  Writers'
  BY <1>0, <1>3, FileSteps, StepsAreOwn DEF FlushRecord
<1>4. ASSUME NEW p \in Pids, Kernel(p)
      PROVE  Writers'
  BY <1>4 DEF Kernel, fileVars, cmdVars
<1>5. QED
  BY <1>1, <1>2, <1>3, <1>4 DEF Next

LEMMA WritersAlways == Spec => []Writers
<1>1. Init => Writers
  BY DEF Init, FileInit, Writers
<1>2. QED
  BY <1>1, TypedAlways, WritersNext, PTL DEF Spec

(* When nothing fails, a file that was truncated is open for a write that will
   reach it: whoever reads it empty reads between another command's fopen and
   its fclose. *)
THEOREM EmptyWillBeWritten ==
  ASSUME "crash" \notin Faults, "disk" \notin Faults
  PROVE  Spec => []EmptyIsInFlight
<1> DEFINE Open == file = Empty => linked # {}
<1>1. ASSUME Typed, Writers, Open, [Next]_vars
      PROVE  Open'
  <2>1. CASE UNCHANGED <<file, linked>>
    BY <1>1, <2>1
  <2>2. ASSUME NEW r \in Runtimes, Step(r) \/ ExecSessionEnds(r) \/ Crash(r)
        PROVE  Open'
    <3>1. Absent # Empty /\ \A c \in Records \cup {Torn} : c # Empty
      BY DEF Absent, Empty, Torn, Records, Created, Stopped, Running
    <3>2. ASSUME pc[r] = "flush", FlushRecord(r, mem[r])
          PROVE  Open'
      <4>1. mem[r] \in Records
        BY <1>1, <3>2 DEF Typed, LocalsOK
      <4>2. QED
        BY <1>1, <3>1, <3>2, <4>1 DEF FlushRecord, Overlay
    <3>3. QED
      BY <1>1, <2>2, <3>1, <3>2, FileSteps
  <2>3. QED
    BY <1>1, <2>1, <2>2 DEF Next, vars, fileVars, Issue, Kernel
<1>2. Init => Open
  BY DEF Init, FileInit, Absent, Empty
<1>3. Writers /\ Open => EmptyIsInFlight
  BY DEF Writers, EmptyIsInFlight
<1> HIDE DEF Open
<1>4. QED
  BY <1>1, <1>2, <1>3, TypedAlways, WritersAlways, PTL DEF Spec

(* Where the commands are that find a file they cannot read, and nobody writes:
   at its stat or at its load. *)
Stuck ==
  /\ Unreadable /\ linked = {}
  /\ \A r \in Runtimes : pc[r] \in Rest \cup {"exists", "load", "xload", "dload", "query"}

(* None of them goes further than to the next load. *)
LEMMA StuckStep ==
  ASSUME Typed, Stuck, NEW r \in Runtimes, Step(r) \/ ExecSessionEnds(r) \/ Crash(r)
  PROVE  Stuck'
<1>0. TypeOK /\ pc[r] \in Rest \cup {"exists", "load", "xload", "dload", "query"}
  BY DEF Typed, Stuck
<1>1. UNCHANGED <<file, linked>> /\ \E t \in {"fail", "dload"} : \E m, c : Proceed(r, t, m, c, proc)
  <2> USE <1>0 DEF At, Goto, Stuck, Unreadable, Rest
  <2>1. CASE CheckExists(r)
    BY <2>1 DEF CheckExists, fileVars
  <2>2. CASE LoadForStart(r)
    BY <2>2 DEF LoadForStart, MayStart, AfterFailedStart, fileVars
  <2>3. CASE ExecLoad(r)
    BY <2>3 DEF ExecLoad, fileVars
  <2>4. CASE DeleteLoad(r)
    BY <2>4 DEF DeleteLoad, fileVars
  <2>5. CASE Query(r)
    BY <2>5 DEF Query, fileVars
  <2>6. CASE Crash(r)
    BY <2>6 DEF Crash, DropRecord
  <2>7. CASE \/ LoadSpec(r) \/ StatDir(r) \/ MakeDir(r) \/ OpenFile(r) \/ WriteFile(r)
             \/ PrepareFails(r) \/ CloneInit(r) \/ AwaitReady(r) \/ AwaitFailure(r) \/ WaitInit(r)
             \/ OpenPidFile(r) \/ WritePidFile(r) \/ ExecProbe(r) \/ ExecSessionEnds(r)
             \/ Sigterm(r) \/ CheckKilled(r) \/ Sigkill(r) \/ Unlink(r) \/ Rmdir(r)
    BY <2>7 DEF LoadSpec, StatDir, MakeDir, OpenFile, WriteFile, PrepareFails, CloneInit,
       AwaitReady, AwaitFailure, WaitInit, OpenPidFile, WritePidFile, ExecProbe, ExecSessionEnds,
       Sigterm, CheckKilled, Sigkill, Unlink, Rmdir
  <2>8. QED
    BY <2>1, <2>2, <2>3, <2>4, <2>5, <2>6, <2>7 DEF Step
<1>2. {"fail", "dload"} \subseteq Pcs
  BY DEF Pcs, Rest
<1>3. pc'[r] \in {"fail", "dload"} /\ \A q \in Runtimes \ {r} : pc'[q] = pc[q]
  BY <1>0, <1>1, <1>2, ProceedEffect
<1>4. QED
  BY <1>1, <1>3 DEF Stuck, Unreadable, StateExists, Rest

(* An id whose state.json is left unreadable is lost to all commands: create
   takes it for taken, and start, exec and delete give up at their load. *)
THEOREM UnreadableForGood == Spec => UnreadableStays
<1>1. ASSUME Typed, Stuck, [Next]_vars
      PROVE  Stuck'
  <2>1. CASE UNCHANGED vars
    BY <1>1, <2>1 DEF vars, fileVars, cmdVars, Stuck, Unreadable, StateExists
  <2>2. ASSUME NEW r \in Runtimes, NEW j \in Jobs, Issue(r, j)
        PROVE  Stuck'
    <3>1. EntryOf(j.op) \in {"exists", "load", "xload", "dload", "query"}
      BY DEF EntryOf
    <3>2. UNCHANGED <<file, linked>> /\ pc' = [pc EXCEPT ![r] = EntryOf(j.op)]
      BY <2>2 DEF Issue, fileVars
    <3>3. QED
      BY <1>1, <3>1, <3>2 DEF Stuck, Unreadable, StateExists, Typed, TypeOK
  <2>3. ASSUME NEW r \in Runtimes, Step(r) \/ ExecSessionEnds(r) \/ Crash(r)
        PROVE  Stuck'
    BY <1>1, <2>3, StuckStep
  <2>4. ASSUME NEW p \in Pids, Kernel(p)
        PROVE  Stuck'
    BY <1>1, <2>4 DEF Kernel, fileVars, cmdVars, Stuck, Unreadable, StateExists
  <2>5. QED
    BY <1>1, <2>1, <2>2, <2>3, <2>4 DEF Next
<1>2. Typed /\ Writers /\ AtRest /\ Unreadable => Stuck
  BY DEF Typed, TypeOK, Writers, AtRest, Stuck, Rest
<1>3. Stuck => Unreadable
  BY DEF Stuck
<1>4. QED
  BY <1>1, <1>2, <1>3, TypedAlways, WritersAlways, PTL DEF Spec, UnreadableStays
-----------------------------------------------------------------------------
(* What a delete leaves behind, while no pid is used twice *)

(* A process has a pid that was given out. *)
Named(table) == \A p \in Pids : table[p].st # "free" => p \in used

(* A delete that is past its signals holds a pid that named a process once, and
   names no live one. *)
DeadInv ==
  /\ Named(proc) /\ readied \subseteq used
  /\ \A r \in Runtimes : pc[r] \in {"unlink", "rmdir"} /\ mem[r].st = "running"
                           => mem[r].pid \in used /\ ~Live(mem[r].pid)

(* The exit of a runtime brings no process to life. *)
LEMMA OrphanDead ==
  ASSUME NEW r \in Runtimes, NEW table \in [Pids -> Slots], NEW p \in Pids
  PROVE  /\ Orphan(r, table)[p].st = table[p].st \/ Orphan(r, table)[p].st = "free"
         /\ Orphan(r, table) \in [Pids -> Slots]
BY DEF Orphan, NoProcess, Slots

(* A step of r preserves DeadInv if it brings no used pid to life and r itself
   goes to the unlink only with a dead one. *)
LEMMA DeadProceed ==
  ASSUME Typed, DeadInv,
         NEW r \in Runtimes, NEW t \in Pcs, NEW m, NEW c, NEW table \in [Pids -> Slots],
         Proceed(r, t, m, c, table),
         used \subseteq used', readied' = readied,
         \A p \in Pids : table[p].st # "free" => p \in used',
         \A p \in used : table[p].st \in {"setup", "ready", "running"} => Live(p),
         t \in {"unlink", "rmdir"} /\ m.st = "running"
           => m.pid \in used /\ table[m.pid].st \notin {"setup", "ready", "running"}
  PROVE  DeadInv'
<1>0. TypeOK /\ used \subseteq Pids
  BY DEF Typed, TypeOK
<1>1. \A p \in Pids : proc'[p].st = table[p].st \/ proc'[p].st = "free"
  BY <1>0, ProceedEffect, OrphanDead
<1>2. ASSUME NEW q \in Runtimes, pc'[q] \in {"unlink", "rmdir"}, mem'[q].st = "running"
      PROVE  mem'[q].pid \in used' /\ proc'[mem'[q].pid].st \notin {"setup", "ready", "running"}
  <2>1. CASE q # r
    <3>1. mem'[q].pid \in used /\ ~Live(mem'[q].pid)
      BY <1>0, <1>2, <2>1, ProceedEffect DEF DeadInv
    <3>2. QED
      BY <1>0, <1>1, <3>1
  <2>2. CASE q = r
    <3>1. t \in {"unlink", "rmdir"} /\ mem'[r] = m
      BY <1>0, <1>2, <2>2, ProceedEffect DEF Rest
    <3>2. QED
      BY <1>0, <1>1, <1>2, <2>2, <3>1
  <2>3. QED
    BY <2>1, <2>2
<1>3. QED
  BY <1>1, <1>2 DEF DeadInv, Named, Live

(* The steps of a runtime that leave the process table alone. *)
LEMMA DeadQuiet ==
  ASSUME Typed, ReadiedInv, DeadInv, NEW r \in Runtimes,
         \/ CheckExists(r) \/ LoadSpec(r) \/ StatDir(r) \/ MakeDir(r) \/ OpenFile(r) \/ WriteFile(r)
         \/ LoadForStart(r) \/ PrepareFails(r) \/ OpenPidFile(r) \/ WritePidFile(r)
         \/ ExecLoad(r) \/ ExecProbe(r) \/ ExecSessionEnds(r)
         \/ DeleteLoad(r) \/ CheckKilled(r) \/ Unlink(r) \/ Rmdir(r) \/ Query(r) \/ Crash(r)
  PROVE  DeadInv'
<1>0. /\ proc \in [Pids -> Slots] /\ file \in Contents /\ used \subseteq Pids
      /\ \A p \in Pids : proc[p].st # "free" => p \in used
      /\ \A p \in used : proc[p].st \in {"setup", "ready", "running"} => Live(p)
  BY DEF Typed, TypeOK, DeadInv, Named, Live
<1>1. UNCHANGED <<used, readied>>
  BY DEF CheckExists, LoadSpec, StatDir, MakeDir, OpenFile, WriteFile, LoadForStart, PrepareFails,
     OpenPidFile, WritePidFile, ExecLoad, ExecProbe, ExecSessionEnds, DeleteLoad, CheckKilled,
     Unlink, Rmdir, Query, Crash, At
<1>2. CASE DeleteLoad(r)
  <2>1. CASE ~Parses(file)
    BY <1>0, <1>1, <1>2, <2>1, DeadProceed DEF DeleteLoad, Goto, Pcs, Rest
  <2>2. CASE Parses(file)
    <3>1. PICK t \in {"term", "unlink"} :
            /\ Proceed(r, t, file, child[r], proc)
            /\ t = "unlink" => ~(file.st = "running" /\ file.pid # NoPid)
      BY <1>2, <2>2 DEF DeleteLoad
    <3>2. file.st = "running" => file.pid # NoPid
      BY <1>0, <2>2, RecordFacts, NoPidAssumption
    <3>3. QED
      BY <1>0, <1>1, <3>1, <3>2, DeadProceed DEF Pcs
  <2>3. QED
    BY <2>1, <2>2
<1>3. CASE CheckKilled(r)
  <2>1. mem[r].pid \in Pids /\ mem[r].pid \in used
    BY <1>3 DEF CheckKilled, At, Typed, LocalsOK, Running, ReadiedInv, OnlyReadiedPids, DeadInv
  <2>2. CASE Visible(mem[r].pid)
    <3>1. Proceed(r, "kill", mem[r], child[r], proc) /\ "kill" \in Pcs
      BY <1>3, <2>2 DEF CheckKilled, Goto, Pcs
    <3>2. QED
      BY <1>0, <1>1, <3>1, DeadProceed
  <2>3. CASE ~Visible(mem[r].pid)
    <3>1. Proceed(r, "unlink", mem[r], child[r], proc) /\ "unlink" \in Pcs
      BY <1>3, <2>3 DEF CheckKilled, Goto, Pcs
    <3>2. proc[mem[r].pid].st = "free"
      BY <2>1, <2>3 DEF Visible
    <3>3. QED
      BY <1>0, <1>1, <2>1, <3>1, <3>2, DeadProceed
  <2>4. QED
    BY <2>2, <2>3
<1>4. CASE Unlink(r)
  <2>1. pc[r] = "unlink" /\ Proceed(r, "rmdir", mem[r], child[r], proc)
    BY <1>4 DEF Unlink, At, Goto
  <2>2. mem[r].st = "running"
          => mem[r].pid \in used /\ proc[mem[r].pid].st \notin {"setup", "ready", "running"}
    BY <2>1 DEF DeadInv, Live
  <2>3. QED
    BY <1>0, <1>1, <2>1, <2>2, DeadProceed DEF Pcs
<1>5. CASE ~(DeleteLoad(r) \/ CheckKilled(r) \/ Unlink(r))
  <2>1. PICK t \in Pcs \ {"unlink", "rmdir"} : \E m, c : Proceed(r, t, m, c, proc)
    <3> USE DEF Goto
    <3>1. /\ {"ok", "fail", "spec", "statdir", "mkdir", "open", "flush", "clone", "probe", "session",
              "pidwrite"} \subseteq Pcs \ {"unlink", "rmdir"}
          /\ AfterSave(r, TRUE) \in Pcs \ {"unlink", "rmdir"}
          /\ AfterSave(r, FALSE) \in Pcs \ {"unlink", "rmdir"}
          /\ AfterFailedStart(r) \in Pcs \ {"unlink", "rmdir"}
          /\ AfterDelete(r) \in Pcs \ {"unlink", "rmdir"}
      BY AfterSaveType DEF Pcs, Rest, Waiting, AfterFailedStart, AfterDelete
    <3>2. CASE CheckExists(r) \/ LoadSpec(r) \/ StatDir(r)
      BY <3>1, <3>2 DEF CheckExists, LoadSpec, StatDir
    <3>3. CASE MakeDir(r) \/ OpenFile(r) \/ WriteFile(r)
      BY <3>1, <3>3, Zenon DEF MakeDir, OpenFile, WriteFile
    <3>4. CASE LoadForStart(r) \/ PrepareFails(r) \/ OpenPidFile(r) \/ WritePidFile(r)
      BY <3>1, <3>4 DEF LoadForStart, PrepareFails, OpenPidFile, WritePidFile
    <3>5. CASE ExecLoad(r) \/ ExecProbe(r) \/ ExecSessionEnds(r)
      BY <3>1, <3>5 DEF ExecLoad, ExecProbe, ExecSessionEnds
    <3>6. CASE Rmdir(r) \/ Query(r) \/ Crash(r)
      BY <3>1, <3>6 DEF Rmdir, Query, Crash
    <3>7. QED
      BY <1>5, <3>2, <3>3, <3>4, <3>5, <3>6
  <2>2. QED
    BY <1>0, <1>1, <2>1, DeadProceed
<1>6. QED
  BY <1>2, <1>3, <1>4, <1>5

(* The steps that change the process table: clone takes a pid nobody had. *)
LEMMA DeadTable ==
  ASSUME "recycle" \notin Faults, Typed, OwnChild, ReadiedInv, DeadInv, NEW r \in Runtimes,
         CloneInit(r) \/ AwaitReady(r) \/ AwaitFailure(r) \/ WaitInit(r) \/ Sigterm(r) \/ Sigkill(r)
  PROVE  DeadInv'
<1> USE DEF At
<1>0. /\ proc \in [Pids -> Slots] /\ used \subseteq Pids
      /\ \A p \in Pids : proc[p].st # "free" => p \in used
  BY DEF Typed, TypeOK, DeadInv, Named
<1>a. pc[r] \in {"read", "wait"} => child[r] \in Pids
  BY DEF OwnChild, Expecting
<1>b. {"read", "statdir", "dload", "fail", "check", "unlink"} \subseteq Pcs
  BY DEF Pcs, Rest
<1>1. CASE CloneInit(r)
  <2>1. PICK p \in Available :
          /\ Proceed(r, "read", mem[r], p,
                     [proc EXCEPT ![p] = [st |-> "setup", par |-> r, ready |-> FALSE]])
          /\ used' = used \cup {p}
    BY <1>1 DEF CloneInit
  <2> DEFINE table == [proc EXCEPT ![p] = [st |-> "setup", par |-> r, ready |-> FALSE]]
  <2>2. p \in Pids /\ p \notin used
    BY DEF Available
  <2>3. table \in [Pids -> Slots] /\ \A q \in Pids \ {p} : table[q] = proc[q]
    BY <1>0, <2>2 DEF Slots
  <2>4. Proceed(r, "read", mem[r], p, table) /\ UNCHANGED readied
    BY <1>1, <2>1 DEF CloneInit
  <2> HIDE DEF table
  <2>5. QED
    BY <1>0, <1>b, <2>1, <2>2, <2>3, <2>4, DeadProceed DEF Live
<1>2. CASE AwaitReady(r)
  <2> DEFINE table == [proc EXCEPT ![child[r]].ready = FALSE]
  <2>1. table \in [Pids -> Slots] /\ \A q \in Pids : table[q].st = proc[q].st
    BY <1>0, <1>2, <1>a DEF AwaitReady, Slots
  <2>2. Proceed(r, "statdir", Running(child[r]), child[r], table) /\ UNCHANGED <<used, readied>>
    BY <1>2 DEF AwaitReady
  <2> HIDE DEF table
  <2>3. QED
    BY <1>0, <1>b, <2>1, <2>2, DeadProceed DEF Live
<1>3. CASE AwaitFailure(r) \/ WaitInit(r)
  <2> DEFINE table == [proc EXCEPT ![child[r]] = NoProcess]
  <2>1. /\ table \in [Pids -> Slots]
        /\ \A q \in Pids : table[q].st = proc[q].st \/ table[q].st = "free"
    BY <1>0, <1>3, <1>a DEF AwaitFailure, WaitInit, NoProcess, Slots
  <2>2. /\ \E t \in {"dload", "fail", "statdir"} : \E m, c : Proceed(r, t, m, c, table)
        /\ UNCHANGED <<used, readied>>
    BY <1>3 DEF AwaitFailure, WaitInit, AfterFailedStart
  <2> HIDE DEF table
  <2>3. QED
    BY <1>0, <1>b, <2>1, <2>2, DeadProceed DEF Live
<1>4. CASE Sigterm(r) \/ Sigkill(r)
  <2>1. mem[r].pid \in Pids /\ mem[r].pid \in used
    BY <1>4 DEF Sigterm, Sigkill, Typed, LocalsOK, Running, ReadiedInv, OnlyReadiedPids, DeadInv
  <2>2. CASE Sigterm(r) /\ ~Visible(mem[r].pid)
    <3>1. Proceed(r, "unlink", mem[r], child[r], proc) /\ UNCHANGED <<used, readied>>
      BY <2>2 DEF Sigterm, Goto
    <3>2. QED
      BY <1>0, <1>b, <2>1, <2>2, <3>1, DeadProceed DEF Live, Visible
  <2>3. CASE Sigterm(r) /\ Visible(mem[r].pid)
    <3>1. PICK table \in AfterSigterm(mem[r].pid) : Proceed(r, "check", mem[r], child[r], table)
      BY <2>3 DEF Sigterm
    <3>2. /\ table \in [Pids -> Slots]
          /\ \A q \in Pids : table[q].st = proc[q].st
                               \/ (table[q].st = "dying" /\ proc[q].st # "free")
      BY <1>0, <2>1, <2>3 DEF AfterSigterm, Visible, Slots
    <3>3. UNCHANGED <<used, readied>>
      BY <2>3 DEF Sigterm
    <3>4. QED
      BY <1>0, <1>b, <3>1, <3>2, <3>3, DeadProceed DEF Live
  <2>4. CASE Sigkill(r)
    <3> DEFINE table == AfterSigkill(mem[r].pid)
    <3>1. /\ table \in [Pids -> Slots]
          /\ \A q \in Pids : table[q].st = proc[q].st
                               \/ (table[q].st = "dying" /\ proc[q].st # "free")
          /\ table[mem[r].pid].st \in {"free", "zombie", "dying"}
      BY <1>0, <2>1 DEF AfterSigkill, Slots
    <3>2. Proceed(r, "unlink", mem[r], child[r], table) /\ UNCHANGED <<used, readied>>
      BY <2>4 DEF Sigkill
    <3> HIDE DEF table
    <3>3. QED
      BY <1>0, <1>b, <2>1, <3>1, <3>2, DeadProceed DEF Live
  <2>5. QED
    BY <1>4, <2>2, <2>3, <2>4
<1>5. QED
  BY <1>1, <1>2, <1>3, <1>4

(* Only clone makes a process. *)
LEMMA DeadKernel ==
  ASSUME Typed, DeadInv, NEW p \in Pids, Kernel(p)
  PROVE  DeadInv'
<1>0. proc \in [Pids -> Slots] /\ used \subseteq Pids
  BY DEF Typed, TypeOK
<1>1. /\ \A q \in Pids : /\ proc'[q].st # "free" => q \in used
                         /\ proc'[q].st \in {"setup", "ready", "running"}
                              => proc[q].st \in {"setup", "ready", "running"}
      /\ readied' \subseteq used /\ UNCHANGED used
  <2> USE DEF DeadInv, Named, Slots, NoProcess
  <2>1. CASE ChildReady(p)
    BY <1>0, <2>1 DEF ChildReady
  <2>2. CASE ChildExec(p)
    BY <1>0, <2>2 DEF ChildExec
  <2>3. CASE ProcExit(p)
    BY <1>0, <2>3 DEF ProcExit, Exited
  <2>4. CASE ProcDies(p)
    BY <1>0, <2>4 DEF ProcDies, Exited
  <2>5. CASE Recycle(p)
    BY <1>0, <2>5 DEF Recycle
  <2>6. CASE ForeignExit(p)
    BY <1>0, <2>6 DEF ForeignExit
  <2>7. QED
    BY <2>1, <2>2, <2>3, <2>4, <2>5, <2>6 DEF Kernel, ProcNext
<1>2. UNCHANGED <<pc, mem>>
  BY DEF Kernel, cmdVars
<1>3. QED
  BY <1>0, <1>1, <1>2 DEF DeadInv, Named, Live

(* While the kernel gives out no pid twice, a delete that found the container
   running takes its record away over a dead process, whatever the program
   does about SIGTERM and whatever else starts or stops meanwhile. *)
THEOREM DeleteLeavesNoProcess ==
  ASSUME "recycle" \notin Faults
  PROVE  Spec => []DeletedIsDead
<1>1. ASSUME Typed, OwnChild, ReadiedInv, DeadInv, [Next]_vars
      PROVE  DeadInv'
  <2>1. CASE UNCHANGED vars
    BY <1>1, <2>1 DEF vars, procVars, cmdVars, DeadInv, Named, Live
  <2>2. ASSUME NEW r \in Runtimes, NEW j \in Jobs, Issue(r, j)
        PROVE  DeadInv'
    <3>1. EntryOf(j.op) \in {"exists", "load", "xload", "dload", "query"}
      BY DEF EntryOf
    <3>2. UNCHANGED <<procVars, mem>> /\ pc' = [pc EXCEPT ![r] = EntryOf(j.op)]
      BY <2>2 DEF Issue
    <3>3. QED
      BY <1>1, <3>1, <3>2 DEF DeadInv, Named, Live, procVars, Typed, TypeOK
  <2>3. ASSUME NEW r \in Runtimes, Step(r) \/ ExecSessionEnds(r) \/ Crash(r)
        PROVE  DeadInv'
    BY <1>1, <2>3, DeadQuiet, DeadTable DEF Step
  <2>4. ASSUME NEW p \in Pids, Kernel(p)
        PROVE  DeadInv'
    BY <1>1, <2>4, DeadKernel
  <2>5. QED
    BY <1>1, <2>1, <2>2, <2>3, <2>4 DEF Next
<1>2. Init => DeadInv
  BY DEF Init, ProcInit, DeadInv, Named, NoProcess
<1>3. DeadInv => DeletedIsDead
  BY DEF DeadInv, DeletedIsDead
<1>4. QED
  BY <1>1, <1>2, <1>3, TypedAlways, StartKeepsItsChild, ReadiedAlways, PTL DEF Spec
=============================================================================
