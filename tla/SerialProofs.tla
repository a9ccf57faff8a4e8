----------------------------- MODULE SerialProofs -----------------------------
(***************************************************************************)
(* What holds of Runtime when commands are issued one after the other and  *)
(* nothing fails under them: for every set of pids, every set of jobs and  *)
(* any number of commands, also when the kernel recycles pids.             *)
(***************************************************************************)
EXTENDS RuntimeProofs, FiniteSetTheorems

(* Nothing fails under the commands; pids may be recycled. *)
Calm   == Faults \subseteq {"recycle"}
Serial == Overlap = "none" /\ Calm

LiveIn(table) == {p \in Pids : table[p].st \in {"setup", "ready", "running"}}

Clean(f, d) == f \in Records \cup {Absent} /\ (d <=> f.st # "absent")

(* The file is as a command leaves it and tells of every live process. *)
Recorded(live, f, d) == Clean(f, d) /\ \A p \in live : f = Running(p)

(* What a command at t that holds the record m, the pid c and the job j knows of
   the live processes, the file f, the directory d, and of its descriptor (mine:
   it is linked). *)
FileInPlace(t, m, c, j, live, f, d, mine) ==
  /\ t \in Rest \cup {"exists", "load", "xload", "dload", "query", "pidfile"}
       => Recorded(live, f, d)
  /\ t \in {"pidfile", "pidwrite"} => f = Running(c)
  /\ t = "spec"    => f = Absent /\ ~d /\ live = {}
  /\ t = "clone"   => f = Created /\ d /\ live = {}
  /\ t = "read"    => f = Created /\ d /\ live \subseteq {c}
  /\ t = "statdir" => Clean(f, d)
  /\ t = "mkdir"   => f = Absent /\ ~d
  /\ t = "open"    => f \in Records \cup {Absent} /\ d
  /\ t = "flush"   => f = Empty /\ d /\ mine
  /\ t = "wait"    => f = Running(c) /\ d /\ live \subseteq {c} /\ j.attach
  /\ Holding(t)    => f = m /\ d /\ live \subseteq {m.pid}
  /\ t = "unlink"  => Clean(f, d) /\ live = {}
  /\ t = "rmdir"   => f = Absent /\ live = {}

(* What it is about to save, and whose turn it is to save stopped. *)
SaveInPlace(t, m, c, j, live, f) ==
  /\ Saving(t) /\ m = Created => f \in {Absent, Empty} /\ live = {}
  /\ Saving(t) /\ m.st = "running" => f \in {Created, Empty} /\ m = Running(c) /\ live \subseteq {c}
  /\ Saving(t) /\ m = Stopped => /\ f.st = "running" \/ f = Empty
                                 /\ live = {}
                                 /\ j.op = "exec" \/ j.attach
  /\ j.op = "exec" => t \in Rest \cup {"xload", "probe", "session"} \/ (Saving(t) /\ m = Stopped)
  /\ t \in {"xload", "probe", "session"} => j.op = "exec"

InPlace(t, m, c, j, live, f, d, mine) ==
  FileInPlace(t, m, c, j, live, f, d, mine) /\ SaveInPlace(t, m, c, j, live, f)

Busy(r) == pc[r] \notin Rest

SerialInv ==
  /\ \A r, s \in Runtimes : Busy(r) /\ Busy(s) => r = s
  /\ AtRest => Recorded(LiveInits, file, dir)
  /\ \A r \in Runtimes : Busy(r) =>
       InPlace(pc[r], mem[r], child[r], job[r], LiveInits, file, dir, r \in linked)

-----------------------------------------------------------------------------
LEMMA LiveInProc == LiveInits = LiveIn(proc)
BY DEF LiveInits, Live, LiveIn

(* The exit of a runtime ends no process. *)
LEMMA LiveOrphan ==
  ASSUME NEW r, NEW table
  PROVE  LiveIn(Orphan(r, table)) = LiveIn(table)
<1>1. ASSUME NEW p \in Pids
      PROVE  Orphan(r, table)[p].st \in {"setup", "ready", "running"}
               <=> table[p].st \in {"setup", "ready", "running"}
  BY DEF Orphan, NoProcess
<1>2. QED
  BY <1>1 DEF LiveIn

(* A step of the one command under way keeps the invariant if it has put
   everything in place for where it goes on. *)
LEMMA SerialProceed ==
  ASSUME Typed, SerialInv, NEW r \in Runtimes, Busy(r),
         NEW t \in Pcs, NEW m, NEW c, NEW table, Proceed(r, t, m, c, table),
         InPlace(t, m, c, job[r], LiveIn(table), file', dir', r \in linked')
  PROVE  SerialInv'
<1>0. TypeOK
  BY DEF Typed
<1>1. /\ pc'[r] = t
      /\ \A q \in Runtimes \ {r} : pc'[q] = pc[q] /\ pc[q] \in Rest
  BY <1>0, ProceedEffect DEF SerialInv, Busy
<1>2. LiveIn(proc') = LiveIn(table)
  BY <1>0, ProceedEffect, LiveOrphan
<1>3. LiveInits' = LiveIn(proc')
  BY DEF LiveInits, Live, LiveIn
<1>4. CASE t \in Rest
  <2>1. Recorded(LiveIn(table), file', dir')
    BY <1>4 DEF InPlace, FileInPlace
  <2>2. Recorded(LiveInits, file, dir)'
    BY <1>2, <1>3, <2>1
  <2>3. QED
    BY <1>1, <1>4, <2>2 DEF SerialInv, Busy
<1>5. CASE t \notin Rest
  <2>1. mem'[r] = m /\ child'[r] = c /\ job'[r] = job[r]
    BY <1>0, <1>5 DEF Proceed, TypeOK
  <2>2. InPlace(pc[r], mem[r], child[r], job[r], LiveInits, file, dir, r \in linked)'
    BY <1>1, <1>2, <1>3, <2>1
  <2>3. QED
    BY <1>1, <1>5, <2>2 DEF SerialInv, Busy, AtRest
<1>6. QED
  BY <1>4, <1>5

(* What is in place stays so when a process ends. *)
LEMMA FewerLive ==
  ASSUME NEW t, NEW m, NEW c, NEW j, NEW live, NEW f, NEW d, NEW mine,
         InPlace(t, m, c, j, live, f, d, mine), NEW less, less \subseteq live
  PROVE  InPlace(t, m, c, j, less, f, d, mine)
BY DEF InPlace, FileInPlace, SaveInPlace, Recorded

-----------------------------------------------------------------------------
(* The steps, each with what it finds in place. *)

LEMMA Holders ==
  ASSUME Typed, SerialInv, NEW r \in Runtimes, Busy(r)
  PROVE  InPlace(pc[r], mem[r], child[r], job[r], LiveIn(proc), file, dir, r \in linked)
BY LiveInProc DEF SerialInv

LEMMA SerialStepCreate ==
  ASSUME Calm, Typed, SerialInv, NEW r \in Runtimes,
         CheckExists(r) \/ LoadSpec(r) \/ StatDir(r) \/ MakeDir(r) \/ OpenFile(r) \/ WriteFile(r)
  PROVE  SerialInv'
<1> USE DEF At, Pcs, Rest, Waiting, Goto
<1> DEFINE In == InPlace(pc[r], mem[r], child[r], job[r], LiveIn(proc), file, dir, r \in linked)
<1>0. /\ file \in Contents /\ dir \in BOOLEAN /\ mem[r] \in Records \cup {Absent}
      /\ job[r] \in JobSpace \cup {NoJob}
      /\ Saving(pc[r]) => mem[r] \in Records
  BY JobsAssumption DEF Typed, TypeOK, LocalsOK, Saving
<1>a. /\ \A b \in BOOLEAN : AfterSave(r, b) \in Rest \cup {"load", "wait", "dload", "pidfile"}
      /\ "disk" \notin Faults
  BY AfterSaveType DEF Calm
<1>b. Busy(r) => In
  BY Holders
<1>1. CASE CheckExists(r)
  <2>1. Busy(r) /\ In
    BY <1>1, <1>b DEF CheckExists, Busy
  <2>2. Recorded(LiveIn(proc), file, dir) /\ job[r].op # "exec"
    BY <1>1, <2>1 DEF CheckExists, InPlace, FileInPlace, SaveInPlace, Saving
  <2>3. ~StateExists => file = Absent /\ ~dir /\ LiveIn(proc) = {}
    BY <2>2, RecordFacts DEF Recorded, Clean, StateExists, Absent, Running
  <2>4. QED
    BY <1>1, <2>1, <2>2, <2>3, SerialProceed
       DEF CheckExists, InPlace, FileInPlace, SaveInPlace, Saving, Holding, fileVars
<1>2. CASE LoadSpec(r)
  <2>1. Busy(r) /\ In
    BY <1>2, <1>b DEF LoadSpec, Busy
  <2>2. file = Absent /\ ~dir /\ LiveIn(proc) = {} /\ job[r].op # "exec"
    BY <1>2, <2>1 DEF LoadSpec, InPlace, FileInPlace, SaveInPlace, Saving
  <2>3. Clean(file, dir) /\ Created.st = "created" /\ Created # Stopped
    BY <2>2 DEF Clean, Absent, Created, Stopped
  <2>4. QED
    BY <1>2, <2>1, <2>2, <2>3, SerialProceed
       DEF LoadSpec, InPlace, FileInPlace, SaveInPlace, Saving, Holding, fileVars, Recorded
<1>3. CASE StatDir(r)
  <2>1. Busy(r) /\ In
    BY <1>3, <1>b DEF StatDir, Busy
  <2>2. Clean(file, dir) /\ SaveInPlace("statdir", mem[r], child[r], job[r], LiveIn(proc), file)
    BY <1>3, <2>1 DEF StatDir, InPlace, FileInPlace
  <2>3. /\ dir => file \in Records
        /\ ~dir => file = Absent
    BY <1>0, <2>2, RecordFacts DEF Clean, Absent
  <2>4. QED
    BY <1>3, <2>1, <2>2, <2>3, SerialProceed
       DEF StatDir, InPlace, FileInPlace, SaveInPlace, Saving, Holding, fileVars
<1>4. CASE MakeDir(r)
  <2>1. Busy(r) /\ In
    BY <1>4, <1>b DEF MakeDir, Busy
  <2>2. file = Absent /\ ~dir /\ SaveInPlace("mkdir", mem[r], child[r], job[r], LiveIn(proc), file)
    BY <1>4, <2>1 DEF MakeDir, InPlace, FileInPlace
  <2>3. MkdirContainer /\ Goto(r, "open")
    BY <1>4, <1>a, <2>2 DEF MakeDir
  <2>4. QED
    BY <2>1, <2>2, <2>3, SerialProceed
       DEF MkdirContainer, InPlace, FileInPlace, SaveInPlace, Saving, Holding
<1>5. CASE OpenFile(r)
  <2>1. Busy(r) /\ In
    BY <1>5, <1>b DEF OpenFile, Busy
  <2>2. dir /\ SaveInPlace("open", mem[r], child[r], job[r], LiveIn(proc), file)
    BY <1>5, <2>1 DEF OpenFile, InPlace, FileInPlace
  <2>3. OpenTruncate(r) /\ Goto(r, "flush")
    BY <1>5, <1>a, <2>2 DEF OpenFile
  <2>4. QED
    BY <2>1, <2>2, <2>3, SerialProceed
       DEF OpenTruncate, InPlace, FileInPlace, SaveInPlace, Saving, Holding
<1>6. CASE WriteFile(r)
  <2> DEFINE t == AfterSave(r, TRUE)
             rec == mem[r]
  <2>1. Busy(r) /\ In
    BY <1>6, <1>b DEF WriteFile, Busy
  <2>2. /\ file = Empty /\ dir /\ r \in linked
        /\ SaveInPlace("flush", rec, child[r], job[r], LiveIn(proc), file)
    BY <1>6, <2>1 DEF WriteFile, InPlace, FileInPlace
  <2>3. file' = rec /\ dir' = dir /\ Goto(r, t) /\ rec \in Records
    BY <1>0, <1>6, <1>a, <2>2 DEF WriteFile, FlushRecord, Overlay, Saving
  <2>4. rec = Created \/ rec = Stopped \/ rec.st = "running"
    BY <2>3 DEF Records, Running
  <2>5. Recorded(LiveIn(proc), rec, dir)
    BY <2>2, <2>3, <2>4, RecordFacts DEF SaveInPlace, Saving, Recorded, Clean, States
  <2>6. CASE rec = Created
    <3>1. t \in {"load", "ok"} /\ job[r].op # "exec"
      BY <2>2, <2>6 DEF AfterSave, SaveInPlace, Saving, Created, Stopped
    <3> HIDE DEF t, rec
    <3>2. QED
      BY <2>1, <2>3, <2>5, <3>1, SerialProceed DEF InPlace, FileInPlace, SaveInPlace, Saving, Holding
  <2>7. CASE rec.st = "running"
    <3>1. rec = Running(child[r]) /\ LiveIn(proc) \subseteq {child[r]} /\ job[r].op # "exec"
      BY <2>2, <2>7 DEF SaveInPlace, Saving, Running, Stopped
    <3>2. t \in {"wait", "dload", "pidfile", "ok"} /\ (t = "wait" => job[r].attach)
      BY <2>7 DEF AfterSave, AfterStart
    <3> HIDE DEF t, rec
    <3>3. QED
      BY <2>1, <2>2, <2>3, <2>5, <3>1, <3>2, SerialProceed
         DEF InPlace, FileInPlace, SaveInPlace, Saving, Holding
  <2>8. CASE rec = Stopped
    <3>1. job[r].op = "exec" \/ job[r].attach
      BY <2>2, <2>8 DEF SaveInPlace, Saving
    <3>2. t \in {"dload", "ok", "fail"} /\ (job[r].op = "exec" => t \in Rest)
      BY <1>0, <2>8, <3>1 DEF AfterSave, AfterStart, Stopped, JobSpace, NoJob
    <3> HIDE DEF t, rec
    <3>3. QED
      BY <2>1, <2>3, <2>5, <3>2, SerialProceed DEF InPlace, FileInPlace, SaveInPlace, Saving, Holding
  <2>9. QED
    BY <2>4, <2>6, <2>7, <2>8
<1>7. QED
  BY <1>1, <1>2, <1>3, <1>4, <1>5, <1>6

LEMMA SerialStepStart ==
  ASSUME Calm, Typed, SerialInv, NEW r \in Runtimes,
         LoadForStart(r) \/ PrepareFails(r) \/ CloneInit(r) \/ AwaitReady(r)
           \/ AwaitFailure(r) \/ WaitInit(r) \/ OpenPidFile(r) \/ WritePidFile(r)
  PROVE  SerialInv'
<1> USE DEF At, Pcs, Rest, Waiting, Goto
<1> DEFINE In == InPlace(pc[r], mem[r], child[r], job[r], LiveIn(proc), file, dir, r \in linked)
<1>0. /\ file \in Contents /\ proc \in [Pids -> Slots]
      /\ pc[r] = "read" => child[r] \in Pids
      /\ Created.st = "created" /\ Created # Stopped /\ Created \in Records
  BY RecordFacts DEF Typed, TypeOK, LocalsOK, Created, Stopped
<1>a. /\ AfterFailedStart(r) \in {"dload", "fail"}
      /\ "disk" \notin Faults
  BY DEF Calm, AfterFailedStart
<1>b. Busy(r) => In
  BY Holders
<1>1. CASE LoadForStart(r)
  <2>1. Busy(r) /\ In
    BY <1>1, <1>b DEF LoadForStart, Busy
  <2>2. Recorded(LiveIn(proc), file, dir) /\ job[r].op # "exec"
    BY <1>1, <2>1 DEF LoadForStart, InPlace, FileInPlace, SaveInPlace, Saving
  <2>3. MayStart(file) => file = Created /\ dir /\ LiveIn(proc) = {}
    BY <1>0, <2>2 DEF MayStart, Contents, Records, Recorded, Clean, Absent, Empty, Torn,
                      Created, Running, Stopped
  <2>4. QED
    BY <1>1, <1>a, <2>1, <2>2, <2>3, SerialProceed
       DEF LoadForStart, InPlace, FileInPlace, SaveInPlace, Saving, Holding, fileVars
<1>2. CASE PrepareFails(r)
  <2>1. Busy(r) /\ In
    BY <1>2, <1>b DEF PrepareFails, Busy
  <2>2. file = Created /\ dir /\ LiveIn(proc) = {} /\ job[r].op # "exec"
    BY <1>2, <2>1 DEF PrepareFails, InPlace, FileInPlace, SaveInPlace, Saving
  <2>3. Recorded(LiveIn(proc), file, dir)
    BY <1>0, <2>2 DEF Recorded, Clean
  <2>4. QED
    BY <1>2, <1>a, <2>1, <2>2, <2>3, SerialProceed
       DEF PrepareFails, InPlace, FileInPlace, SaveInPlace, Saving, Holding, fileVars
<1>3. CASE CloneInit(r)
  <2>0. PICK p \in Available :
          Proceed(r, "read", mem[r], p,
                  [proc EXCEPT ![p] = [st |-> "setup", par |-> r, ready |-> FALSE]])
    BY <1>3 DEF CloneInit
  <2> DEFINE table == [proc EXCEPT ![p] = [st |-> "setup", par |-> r, ready |-> FALSE]]
  <2>1. Busy(r) /\ In
    BY <1>3, <1>b DEF CloneInit, Busy
  <2>2. file = Created /\ dir /\ LiveIn(proc) = {} /\ job[r].op # "exec"
    BY <1>3, <2>1 DEF CloneInit, InPlace, FileInPlace, SaveInPlace, Saving
  <2>3. LiveIn(table) \subseteq {p}
    BY <1>0, <2>2 DEF LiveIn
  <2>4. Proceed(r, "read", mem[r], p, table) /\ UNCHANGED fileVars
    BY <1>3, <2>0 DEF CloneInit
  <2> HIDE DEF table
  <2>5. QED
    BY <2>1, <2>2, <2>3, <2>4, SerialProceed
       DEF InPlace, FileInPlace, SaveInPlace, Saving, Holding, fileVars
<1>4. CASE AwaitReady(r)
  <2> DEFINE table == [proc EXCEPT ![child[r]].ready = FALSE]
             m == Running(child[r])
  <2>1. Busy(r) /\ In
    BY <1>4, <1>b DEF AwaitReady, Busy
  <2>2. /\ file = Created /\ dir /\ LiveIn(proc) \subseteq {child[r]} /\ job[r].op # "exec"
        /\ child[r] \in Pids
    BY <1>0, <1>4, <2>1 DEF AwaitReady, InPlace, FileInPlace, SaveInPlace, Saving
  <2>3. LiveIn(table) \subseteq {child[r]}
    BY <1>0, <2>2 DEF LiveIn, Slots
  <2>4. Proceed(r, "statdir", m, child[r], table) /\ UNCHANGED fileVars
    BY <1>4 DEF AwaitReady
  <2>5. m.st = "running" /\ m # Created /\ m # Stopped /\ m = Running(child[r]) /\ Clean(file, dir)
    BY <1>0, <2>2 DEF Running, Created, Stopped, Clean
  <2> HIDE DEF table, m
  <2>6. QED
    BY <2>1, <2>2, <2>3, <2>4, <2>5, SerialProceed
       DEF InPlace, FileInPlace, SaveInPlace, Saving, Holding, fileVars
<1>5. CASE AwaitFailure(r)
  <2> DEFINE table == [proc EXCEPT ![child[r]] = NoProcess]
  <2>1. Busy(r) /\ In
    BY <1>5, <1>b DEF AwaitFailure, Busy
  <2>2. file = Created /\ dir /\ LiveIn(proc) \subseteq {child[r]} /\ job[r].op # "exec"
    BY <1>5, <2>1 DEF AwaitFailure, InPlace, FileInPlace, SaveInPlace, Saving
  <2>3. LiveIn(table) = {}
    BY <1>0, <2>2 DEF LiveIn, NoProcess
  <2>4. Proceed(r, AfterFailedStart(r), mem[r], NoPid, table) /\ UNCHANGED fileVars
    BY <1>5 DEF AwaitFailure
  <2>5. Recorded({}, file, dir)
    BY <1>0, <2>2 DEF Recorded, Clean
  <2> HIDE DEF table
  <2>6. QED
    BY <1>a, <2>1, <2>2, <2>3, <2>4, <2>5, SerialProceed
       DEF InPlace, FileInPlace, SaveInPlace, Saving, Holding, fileVars
<1>6. CASE WaitInit(r)
  <2> DEFINE table == [proc EXCEPT ![child[r]] = NoProcess]
  <2>1. Busy(r) /\ In
    BY <1>6, <1>b DEF WaitInit, Busy
  <2>2. /\ file = Running(child[r]) /\ dir /\ LiveIn(proc) \subseteq {child[r]}
        /\ job[r].op # "exec" /\ job[r].attach
    BY <1>6, <2>1 DEF WaitInit, InPlace, FileInPlace, SaveInPlace, Saving
  <2>3. LiveIn(table) = {}
    BY <1>0, <2>2 DEF LiveIn, NoProcess
  <2>4. Proceed(r, "statdir", Stopped, child[r], table) /\ UNCHANGED fileVars
    BY <1>6 DEF WaitInit
  <2>5. file.st = "running" /\ Clean(file, dir) /\ Stopped.st # "running"
    BY <1>0, <2>2, RecordFacts DEF Running, Clean, Parses, States, Stopped
  <2> HIDE DEF table
  <2>6. QED
    BY <1>0, <2>1, <2>2, <2>3, <2>4, <2>5, SerialProceed
       DEF InPlace, FileInPlace, SaveInPlace, Saving, Holding, fileVars
<1>7. CASE OpenPidFile(r)
  <2>1. Busy(r) /\ In
    BY <1>7, <1>b DEF OpenPidFile, Busy
  <2>2. /\ Recorded(LiveIn(proc), file, dir) /\ file = Running(child[r]) /\ job[r].op # "exec"
    BY <1>7, <2>1 DEF OpenPidFile, InPlace, FileInPlace, SaveInPlace, Saving
  <2>3. dir /\ LiveIn(proc) \subseteq {file.pid}
    BY <2>2 DEF Recorded, Clean, Running
  <2>4. UNCHANGED fileVars /\ (Proceed(r, "pidwrite", file, child[r], proc) \/ Goto(r, "fail"))
    BY <1>7 DEF OpenPidFile
  <2>5. QED
    BY <2>1, <2>2, <2>3, <2>4, SerialProceed
       DEF InPlace, FileInPlace, SaveInPlace, Saving, Holding, fileVars
<1>8. CASE WritePidFile(r)
  <2>1. Busy(r) /\ In
    BY <1>8, <1>b DEF WritePidFile, Busy
  <2>2. /\ file = Running(child[r]) /\ file = mem[r] /\ dir /\ LiveIn(proc) \subseteq {mem[r].pid}
    BY <1>8, <2>1 DEF WritePidFile, InPlace, FileInPlace, Holding
  <2>3. mem[r] \in Records
    BY <1>8 DEF WritePidFile, Typed, LocalsOK, Records
  <2>4. Recorded(LiveIn(proc), file, dir)
    BY <2>2, <2>3, RecordFacts DEF Recorded, Clean, Running
  <2>5. UNCHANGED fileVars /\ Goto(r, "ok")
    BY <1>8 DEF WritePidFile
  <2>6. QED
    BY <2>1, <2>4, <2>5, SerialProceed
       DEF InPlace, FileInPlace, SaveInPlace, Saving, Holding, fileVars
<1>9. QED
  BY <1>1, <1>2, <1>3, <1>4, <1>5, <1>6, <1>7, <1>8

LEMMA SerialStepExec ==
  ASSUME Calm, Typed, SerialInv, NEW r \in Runtimes,
         ExecLoad(r) \/ ExecProbe(r) \/ ExecSessionEnds(r) \/ Query(r)
  PROVE  SerialInv'
<1> USE DEF At, Pcs, Rest, Waiting, Goto
<1> DEFINE In == InPlace(pc[r], mem[r], child[r], job[r], LiveIn(proc), file, dir, r \in linked)
<1>0. /\ file \in Contents
      /\ Holding(pc[r]) => mem[r] \in RunningRecords /\ mem[r].pid \in Pids /\ mem[r].st = "running"
      /\ Stopped # Created /\ Stopped.st # "running"
  BY DEF Typed, TypeOK, LocalsOK, Holding, RunningRecords, Running, Stopped, Created
<1>a. pc[r] \in {"probe", "session"} /\ ~Visible(mem[r].pid) /\ In => LiveIn(proc) = {}
  BY <1>0 DEF Visible, LiveIn, InPlace, FileInPlace, Holding
<1>b. Busy(r) => In
  BY Holders
<1>1. CASE ExecLoad(r)
  <2>1. Busy(r) /\ In
    BY <1>1, <1>b DEF ExecLoad, Busy
  <2>2. Recorded(LiveIn(proc), file, dir) /\ job[r].op = "exec"
    BY <1>1, <2>1 DEF ExecLoad, InPlace, FileInPlace, SaveInPlace, Saving
  <2>3. LiveIn(proc) \subseteq {file.pid} /\ (Parses(file) => dir)
    BY <2>2 DEF Recorded, Clean, Running, Parses, States
  <2>4. QED
    BY <1>1, <2>1, <2>2, <2>3, SerialProceed
       DEF ExecLoad, InPlace, FileInPlace, SaveInPlace, Saving, Holding, fileVars
<1>2. ASSUME pc[r] \in {"probe", "session"}, UNCHANGED fileVars,
             NEW t \in Pcs, NEW m, NEW c, Proceed(r, t, m, c, proc),
             \/ t \in Rest
             \/ t = "session" /\ m = mem[r]
             \/ t = "statdir" /\ m = Stopped /\ ~Visible(mem[r].pid)
      PROVE  SerialInv'
  <2>1. Busy(r) /\ In
    BY <1>2, <1>b DEF Busy
  <2>2. /\ file = mem[r] /\ dir /\ LiveIn(proc) \subseteq {mem[r].pid} /\ job[r].op = "exec"
        /\ mem[r].st = "running" /\ mem[r] \in RunningRecords
    BY <1>0, <1>2, <2>1 DEF InPlace, FileInPlace, SaveInPlace, Saving, Holding
  <2>3. Clean(file, dir) /\ Recorded(LiveIn(proc), file, dir)
    BY <2>2 DEF Clean, Recorded, RunningRecords, Records, Running
  <2>4. UNCHANGED <<file, dir>>
    BY <1>2 DEF fileVars
  <2>5. CASE t \in Rest
    BY <1>2, <2>1, <2>2, <2>3, <2>4, <2>5, SerialProceed
       DEF InPlace, FileInPlace, SaveInPlace, Saving, Holding
  <2>6. CASE t = "session" /\ m = mem[r]
    BY <1>2, <2>1, <2>2, <2>4, <2>6, SerialProceed
       DEF InPlace, FileInPlace, SaveInPlace, Saving, Holding
  <2>7. CASE t = "statdir" /\ m = Stopped /\ ~Visible(mem[r].pid)
    BY <1>0, <1>a, <1>2, <2>1, <2>2, <2>3, <2>4, <2>7, SerialProceed
       DEF InPlace, FileInPlace, SaveInPlace, Saving, Holding
  <2>8. QED
    BY <1>2, <2>5, <2>6, <2>7
<1>3. CASE ExecProbe(r)
  BY <1>2, <1>3, Zenon DEF ExecProbe
<1>4. CASE ExecSessionEnds(r)
  BY <1>2, <1>4, Zenon DEF ExecSessionEnds
<1>5. CASE Query(r)
  <2>1. Busy(r) /\ In
    BY <1>5, <1>b DEF Query, Busy
  <2>2. Recorded(LiveIn(proc), file, dir)
    BY <1>5, <2>1 DEF Query, InPlace, FileInPlace
  <2>3. QED
    BY <1>5, <2>1, <2>2, SerialProceed
       DEF Query, InPlace, FileInPlace, SaveInPlace, Saving, Holding, fileVars
<1>6. QED
  BY <1>1, <1>3, <1>4, <1>5

(* Signals start no process, and SIGKILL leaves none. *)
LEMMA SignalsEndLife ==
  ASSUME Typed, NEW p \in Pids
  PROVE  /\ \A table \in AfterSigterm(p) : LiveIn(table) \subseteq LiveIn(proc)
         /\ LiveIn(AfterSigkill(p)) \subseteq LiveIn(proc) \ {p}
<1>1. proc \in [Pids -> Slots]
  BY DEF Typed, TypeOK
<1>2. QED
  BY <1>1 DEF AfterSigterm, AfterSigkill, LiveIn, Slots

LEMMA SerialStepDelete ==
  ASSUME Calm, Typed, SerialInv, NEW r \in Runtimes,
         DeleteLoad(r) \/ Sigterm(r) \/ CheckKilled(r) \/ Sigkill(r) \/ Unlink(r) \/ Rmdir(r)
  PROVE  SerialInv'
<1> USE DEF At, Pcs, Rest, Waiting, Goto
<1> DEFINE In == InPlace(pc[r], mem[r], child[r], job[r], LiveIn(proc), file, dir, r \in linked)
<1>0. /\ file \in Contents
      /\ Holding(pc[r]) => mem[r] \in RunningRecords /\ mem[r] \in Records /\ mem[r].pid \in Pids
  BY DEF Typed, TypeOK, LocalsOK, Holding, RunningRecords, Running, Records
<1>b. Busy(r) => In
  BY Holders
<1>c. "disk" \notin Faults
  BY DEF Calm
<1>d. ASSUME pc[r] \in {"term", "check", "kill"}
      PROVE  /\ Busy(r) /\ job[r].op # "exec" /\ file = mem[r] /\ dir /\ Clean(file, dir)
             /\ LiveIn(proc) \subseteq {mem[r].pid}
             /\ mem[r].pid \in Pids
             /\ ~Visible(mem[r].pid) => LiveIn(proc) = {}
  <2>1. Busy(r) /\ In
    BY <1>d, <1>b DEF Busy
  <2>2. /\ job[r].op # "exec" /\ file = mem[r] /\ dir
        /\ LiveIn(proc) \subseteq {mem[r].pid}
    BY <1>d, <2>1 DEF InPlace, FileInPlace, SaveInPlace, Saving, Holding
  <2>3. mem[r] \in RunningRecords /\ mem[r] \in Records /\ mem[r].pid \in Pids
    BY <1>0, <1>d DEF Holding
  <2>4. ~Visible(mem[r].pid) => LiveIn(proc) = {}
    BY <2>2, <2>3 DEF Visible, LiveIn
  <2>5. QED
    BY <2>1, <2>2, <2>3, <2>4 DEF Clean, RunningRecords, Running
<1>1. CASE DeleteLoad(r)
  <2>1. Busy(r) /\ In
    BY <1>1, <1>b DEF DeleteLoad, Busy
  <2>2. Recorded(LiveIn(proc), file, dir) /\ job[r].op # "exec"
    BY <1>1, <2>1 DEF DeleteLoad, InPlace, FileInPlace, SaveInPlace, Saving
  <2>3. LiveIn(proc) \subseteq {file.pid} /\ Clean(file, dir) /\ (Parses(file) => dir)
    BY <2>2 DEF Recorded, Clean, Running, Parses, States
  <2>4. ~(file.st = "running" /\ file.pid # NoPid) => LiveIn(proc) = {}
    BY <2>2, NoPidAssumption DEF Recorded, Running, LiveIn
  <2>5. QED
    BY <1>1, <2>1, <2>2, <2>3, <2>4, SerialProceed
       DEF DeleteLoad, InPlace, FileInPlace, SaveInPlace, Saving, Holding, fileVars
<1>2. CASE Sigterm(r)
  <2>0. pc[r] = "term"
    BY <1>2 DEF Sigterm
  <2>1. CASE Visible(mem[r].pid)
    <3>1. PICK table \in AfterSigterm(mem[r].pid) : Proceed(r, "check", mem[r], child[r], table)
      BY <1>2, <2>1 DEF Sigterm
    <3>2. LiveIn(table) \subseteq {mem[r].pid} /\ UNCHANGED fileVars
      BY <1>2, <1>d, SignalsEndLife DEF Sigterm
    <3>3. QED
      BY <1>d, <2>0, <3>1, <3>2, SerialProceed
         DEF InPlace, FileInPlace, SaveInPlace, Saving, Holding, fileVars
  <2>2. CASE ~Visible(mem[r].pid)
    BY <1>2, <1>d, <2>2, SerialProceed
       DEF Sigterm, InPlace, FileInPlace, SaveInPlace, Saving, Holding, fileVars
  <2>3. QED
    BY <2>1, <2>2
<1>3. CASE CheckKilled(r)
  BY <1>3, <1>d, SerialProceed
     DEF CheckKilled, InPlace, FileInPlace, SaveInPlace, Saving, Holding, fileVars
<1>4. CASE Sigkill(r)
  <2> DEFINE table == AfterSigkill(mem[r].pid)
  <2>1. LiveIn(table) = {} /\ Proceed(r, "unlink", mem[r], child[r], table) /\ UNCHANGED fileVars
    BY <1>4, <1>d, SignalsEndLife DEF Sigkill
  <2> HIDE DEF table
  <2>2. QED
    BY <1>4, <1>d, <2>1, SerialProceed
       DEF Sigkill, InPlace, FileInPlace, SaveInPlace, Saving, Holding, fileVars
<1>5. CASE Unlink(r)
  <2>1. Busy(r) /\ In
    BY <1>5, <1>b DEF Unlink, Busy
  <2>2. LiveIn(proc) = {} /\ job[r].op # "exec"
    BY <1>5, <2>1 DEF Unlink, InPlace, FileInPlace, SaveInPlace, Saving
  <2>3. file' = Absent /\ dir' = dir /\ Goto(r, "rmdir")
    BY <1>5, <1>c DEF Unlink, UnlinkState
  <2>4. QED
    BY <2>1, <2>2, <2>3, SerialProceed
       DEF InPlace, FileInPlace, SaveInPlace, Saving, Holding
<1>6. CASE Rmdir(r)
  <2>1. Busy(r) /\ In
    BY <1>6, <1>b DEF Rmdir, Busy
  <2>2. LiveIn(proc) = {} /\ file = Absent /\ job[r].op # "exec"
    BY <1>6, <2>1 DEF Rmdir, InPlace, FileInPlace, SaveInPlace, Saving
  <2>3. file' = Absent /\ dir' = FALSE /\ Goto(r, AfterDelete(r)) /\ AfterDelete(r) \in Rest
    BY <1>6, <2>2 DEF Rmdir, RemoveDir, StateExists, Absent, AfterDelete
  <2>4. Recorded({}, Absent, FALSE)
    BY DEF Recorded, Clean, Absent
  <2>5. QED
    BY <2>1, <2>2, <2>3, <2>4, SerialProceed
       DEF InPlace, FileInPlace, SaveInPlace, Saving, Holding
<1>7. QED
  BY <1>1, <1>2, <1>3, <1>4, <1>5, <1>6

(* The kernel and the children only ever end a life. *)
LEMMA KernelEndsLife ==
  ASSUME Typed, NEW p \in Pids, Kernel(p)
  PROVE  LiveInits' \subseteq LiveInits
<1> USE DEF LiveInits, Live, Slots, NoProcess
<1>0. proc \in [Pids -> Slots]
  BY DEF Typed, TypeOK
<1>1. CASE ChildReady(p)
  BY <1>0, <1>1 DEF ChildReady
<1>2. CASE ChildExec(p)
  BY <1>0, <1>2 DEF ChildExec
<1>3. CASE ProcExit(p)
  BY <1>0, <1>3 DEF ProcExit, Exited
<1>4. CASE ProcDies(p)
  BY <1>0, <1>4 DEF ProcDies, Exited
<1>5. CASE Recycle(p)
  BY <1>0, <1>5 DEF Recycle
<1>6. CASE ForeignExit(p)
  BY <1>0, <1>6 DEF ForeignExit
<1>7. QED
  BY <1>1, <1>2, <1>3, <1>4, <1>5, <1>6 DEF Kernel, ProcNext

LEMMA SerialKernel ==
  ASSUME Typed, SerialInv, NEW p \in Pids, Kernel(p)
  PROVE  SerialInv'
<1>1. LiveInits' \subseteq LiveInits
  BY KernelEndsLife
<1>2. UNCHANGED <<pc, mem, child, job, file, dir, linked>>
  BY DEF Kernel, fileVars, cmdVars
<1>3. AtRest' => Recorded(LiveInits, file, dir)'
  BY <1>1, <1>2 DEF SerialInv, AtRest, Recorded
<1>4. ASSUME NEW r \in Runtimes, Busy(r)'
      PROVE  InPlace(pc[r], mem[r], child[r], job[r], LiveInits, file, dir, r \in linked)'
  <2>1. InPlace(pc[r], mem[r], child[r], job[r], LiveInits, file, dir, r \in linked)
    BY <1>2, <1>4 DEF SerialInv, Busy
  <2>2. InPlace(pc[r], mem[r], child[r], job[r], LiveInits', file, dir, r \in linked)
    BY <1>1, <2>1, FewerLive
  <2>3. QED
    BY <1>2, <2>2
<1>5. QED
  BY <1>2, <1>3, <1>4 DEF SerialInv, Busy

(* A command starts where the last one has left everything. *)
LEMMA SerialIssueAlone ==
  ASSUME Typed, SerialInv, AtRest, NEW r \in Runtimes, NEW j \in Jobs, Issue(r, j)
  PROVE  SerialInv'
<1>1. Recorded(LiveInits, file, dir)
  BY DEF SerialInv
<1>2. /\ EntryOf(j.op) \in {"exists", "load", "xload", "dload", "query"}
      /\ j.op = "exec" <=> EntryOf(j.op) = "xload"
  BY DEF EntryOf
<1>3. /\ pc' = [pc EXCEPT ![r] = EntryOf(j.op)] /\ job'[r] = j
      /\ UNCHANGED <<file, dir, linked, proc, mem, child>>
      /\ pc \in [Runtimes -> Pcs]
  BY DEF Issue, fileVars, procVars, Typed, TypeOK
<1>4. LiveInits' = LiveInits
  BY <1>3 DEF LiveInits, Live
<1>5. \A s \in Runtimes : Busy(s)' => s = r
  BY <1>1, <1>3 DEF AtRest, Busy
<1>6. pc'[r] = EntryOf(j.op) /\ ~AtRest'
  BY <1>2, <1>3 DEF AtRest, Rest
<1>7. InPlace(pc[r], mem[r], child[r], job[r], LiveInits, file, dir, r \in linked)'
  BY <1>1, <1>2, <1>3, <1>4, <1>6
     DEF InPlace, FileInPlace, SaveInPlace, Saving, Holding, Rest
<1>8. QED
  BY <1>5, <1>6, <1>7 DEF SerialInv

LEMMA SerialIssue ==
  ASSUME Serial, Typed, SerialInv, NEW r \in Runtimes, NEW j \in Jobs, Issue(r, j)
  PROVE  SerialInv'
<1>1. AtRest
  BY DEF Issue, MayIssue, Serial, AtRest
<1>2. QED
  BY <1>1, SerialIssueAlone

LEMMA SerialInit == Init => SerialInv
<1> SUFFICES ASSUME Init PROVE SerialInv
  OBVIOUS
<1>1. LiveInits = {}
  BY DEF Init, ProcInit, LiveInits, Live, NoProcess
<1>2. \A r \in Runtimes : ~Busy(r)
  BY DEF Init, Busy, Rest
<1>3. QED
  BY <1>1, <1>2 DEF Init, FileInit, SerialInv, Recorded, Clean, Absent

LEMMA SerialNext == Serial /\ Typed /\ SerialInv /\ [Next]_vars => SerialInv'
<1> SUFFICES ASSUME Serial, Typed, SerialInv, [Next]_vars PROVE SerialInv'
  OBVIOUS
<1>1. CASE UNCHANGED vars
  BY <1>1 DEF vars, fileVars, procVars, cmdVars, SerialInv, Busy, AtRest, LiveInits, Live
<1>2. CASE \E r \in Runtimes : \/ \E j \in Jobs : Issue(r, j)
                               \/ Step(r) \/ ExecSessionEnds(r) \/ Crash(r)
  <2>1. Calm /\ \A r \in Runtimes : ~Crash(r)
    BY DEF Crash, Serial, Calm
  <2>2. QED
    BY <1>2, <2>1, SerialIssue, SerialStepCreate, SerialStepStart, SerialStepExec,
       SerialStepDelete DEF Step
<1>3. CASE \E p \in Pids : Kernel(p)
  BY <1>3, SerialKernel
<1>4. QED
  BY <1>1, <1>2, <1>3 DEF Next

LEMMA SerialAlways == ASSUME Serial PROVE Spec => []SerialInv
<1>1. SerialInv /\ Typed /\ [Next]_vars => SerialInv'
  BY SerialNext
<1>2. QED
  BY <1>1, SerialInit, TypedAlways, PTL DEF Spec

-----------------------------------------------------------------------------
(* What a user who issues one command at a time may rely on. *)

(* What the live processes have in common at every point of a command. *)
LEMMA LiveIsKnown ==
  ASSUME Typed, SerialInv
  PROVE  \E p : LiveInits \subseteq {p}
<1>1. ASSUME Recorded(LiveInits, file, dir)
      PROVE  LiveInits \subseteq {file.pid}
  BY <1>1 DEF Recorded, Running
<1>2. CASE AtRest
  BY <1>1, <1>2 DEF SerialInv
<1>3. CASE ~AtRest
  <2>1. PICK r \in Runtimes : Busy(r)
    BY <1>3 DEF AtRest, Busy
  <2>2. InPlace(pc[r], mem[r], child[r], job[r], LiveInits, file, dir, r \in linked)
    BY <2>1 DEF SerialInv
  <2>3. pc[r] \in Pcs \ Rest /\ (Saving(pc[r]) => mem[r] \in Records)
    BY <2>1 DEF Busy, Typed, TypeOK, LocalsOK, Saving
  <2>4. CASE Saving(pc[r])
    <3>1. mem[r] = Created \/ mem[r] = Stopped \/ mem[r].st = "running"
      BY <2>3, <2>4 DEF Records, Running
    <3>2. LiveInits = {} \/ LiveInits \subseteq {child[r]}
      BY <2>2, <2>4, <3>1 DEF InPlace, SaveInPlace
    <3>3. QED
      BY <3>2
  <2>5. CASE ~Saving(pc[r])
    <3>1. \/ LiveInits = {} \/ LiveInits \subseteq {child[r]} \/ LiveInits \subseteq {mem[r].pid}
          \/ Recorded(LiveInits, file, dir)
      BY <2>2, <2>3, <2>5 DEF InPlace, FileInPlace, Pcs, Waiting, Saving, Holding
    <3>2. QED
      BY <1>1, <3>1
  <2>6. QED
    BY <2>4, <2>5
<1>4. QED
  BY <1>2, <1>3

LEMMA SerialOneInit == Typed /\ SerialInv => OneInit
<1>1. ASSUME NEW p, LiveInits \subseteq {p}
      PROVE  Cardinality(LiveInits) <= 1
  <2>1. Cardinality({}) = 0
    BY FS_EmptySet
  <2>2. Cardinality({p}) = 1
    BY FS_Singleton
  <2>3. LiveInits = {} \/ LiveInits = {p}
    BY <1>1
  <2>4. QED
    BY <2>1, <2>2, <2>3
<1>2. QED
  BY <1>1, LiveIsKnown DEF OneInit

(* No more than one process of the container runs: a start is refused unless the
   file reads created, and then none is left of an earlier start, neither of one
   that failed nor of one whose container was deleted. *)
THEOREM OneProcess == ASSUME Serial PROVE Spec => []OneInit
BY SerialOneInit, TypedAlways, SerialAlways, PTL

LEMMA SerialRecorded == Typed /\ SerialInv => InitIsRecorded
<1> SUFFICES ASSUME Typed, SerialInv, Settled, NEW p \in LiveInits PROVE file = Running(p)
  BY DEF InitIsRecorded
<1>1. CASE AtRest
  BY <1>1 DEF SerialInv, Recorded
<1>2. CASE ~AtRest
  <2>1. PICK r \in Runtimes : pc[r] \in Waiting /\ Busy(r)
    BY <1>2 DEF AtRest, Settled, Busy
  <2>2. InPlace(pc[r], mem[r], child[r], job[r], LiveInits, file, dir, r \in linked)
    BY <2>1 DEF SerialInv
  <2>3. CASE pc[r] = "wait"
    BY <2>2, <2>3 DEF InPlace, FileInPlace
  <2>4. CASE pc[r] = "session"
    <3>1. file = mem[r] /\ p = mem[r].pid
      BY <2>2, <2>4 DEF InPlace, FileInPlace, Holding
    <3>2. PICK q \in Pids : mem[r] = Running(q)
      BY <2>4 DEF Typed, LocalsOK
    <3>3. QED
      BY <3>1, <3>2 DEF Running
  <2>5. QED
    BY <2>1, <2>3, <2>4 DEF Waiting
<1>3. QED
  BY <1>1, <1>2

(* Whenever nothing is under way but attached starts and exec sessions, the file
   names the live process: delete and exec find it. *)
THEOREM ProcessOnRecord == ASSUME Serial PROVE Spec => []InitIsRecorded
BY SerialRecorded, TypedAlways, SerialAlways, PTL

LEMMA SerialStopped == Typed /\ SerialInv => StoppedMeansDead
<1> SUFFICES ASSUME Typed, SerialInv, file.st = "stopped" PROVE LiveInits = {}
  BY DEF StoppedMeansDead
<1>1. ASSUME Recorded(LiveInits, file, dir) PROVE LiveInits = {}
  BY <1>1 DEF Recorded, Running
<1>2. CASE AtRest
  BY <1>1, <1>2 DEF SerialInv
<1>3. CASE ~AtRest
  <2>1. PICK r \in Runtimes : Busy(r)
    BY <1>3 DEF AtRest, Busy
  <2>2. InPlace(pc[r], mem[r], child[r], job[r], LiveInits, file, dir, r \in linked)
    BY <2>1 DEF SerialInv
  <2>3. /\ pc[r] \in Pcs \ Rest
        /\ Saving(pc[r]) => mem[r] \in Records
        /\ Holding(pc[r]) => mem[r].st = "running"
    BY <2>1 DEF Busy, Typed, TypeOK, LocalsOK, Saving, Holding, Running
  <2>4. CASE Saving(pc[r])
    <3>1. mem[r] = Created \/ mem[r] = Stopped \/ mem[r].st = "running"
      BY <2>3, <2>4 DEF Records, Running
    <3>2. QED
      BY <2>2, <2>4, <3>1 DEF InPlace, SaveInPlace, Created, Empty
  <2>5. CASE ~Saving(pc[r])
    <3>1. \/ LiveInits = {} \/ Recorded(LiveInits, file, dir)
          \/ file = Created \/ file = Running(child[r]) \/ file.st = "running"
      BY <2>2, <2>3, <2>5 DEF InPlace, FileInPlace, Pcs, Waiting, Saving, Holding
    <3>2. QED
      BY <1>1, <3>1 DEF Created, Running
  <2>6. QED
    BY <2>4, <2>5
<1>4. QED
  BY <1>2, <1>3

(* Stopped is recorded only when no process of the container is left, by the
   attached start that reaped it or by the exec that missed it, and as long as it
   is on record none appears: exec-design.md, "genuinely dead". *)
THEOREM StoppedIsDead == ASSUME Serial PROVE Spec => []StoppedMeansDead
BY SerialStopped, TypedAlways, SerialAlways, PTL

LEMMA SerialReadable == Typed /\ SerialInv => RestIsReadable
<1> SUFFICES ASSUME Typed, SerialInv, AtRest PROVE file \in Records \cup {Absent} /\ dir = StateExists
  BY DEF RestIsReadable
<1>1. file \in Records \cup {Absent} /\ (dir <=> file.st # "absent")
  BY DEF SerialInv, Recorded, Clean
<1>2. dir \in BOOLEAN
  BY DEF Typed, TypeOK
<1>3. QED
  BY <1>1, <1>2 DEF StateExists

(* Between commands the state directory holds a record that loads, or neither
   file nor directory: what nk_state_exists sees is what nk_state_load reads. *)
THEOREM ReadableAtRest == ASSUME Serial PROVE Spec => []RestIsReadable
BY SerialReadable, TypedAlways, SerialAlways, PTL

-----------------------------------------------------------------------------
(* Whose step it is. *)

LEMMA OneMoves ==
  ASSUME NEW q \in Runtimes, Step(q) \/ ExecSessionEnds(q) \/ Crash(q)
  PROVE  \E t : pc' = [pc EXCEPT ![q] = t]
<1> USE DEF Goto, Proceed
<1>1. CASE CheckExists(q) \/ LoadSpec(q) \/ StatDir(q) \/ MakeDir(q) \/ OpenFile(q) \/ WriteFile(q)
  BY <1>1, Zenon DEF CheckExists, LoadSpec, StatDir, MakeDir, OpenFile, WriteFile
<1>2. CASE LoadForStart(q) \/ PrepareFails(q) \/ CloneInit(q) \/ AwaitReady(q)
             \/ AwaitFailure(q) \/ WaitInit(q) \/ OpenPidFile(q) \/ WritePidFile(q)
  BY <1>2, Zenon DEF LoadForStart, PrepareFails, CloneInit, AwaitReady, AwaitFailure,
                     WaitInit, OpenPidFile, WritePidFile
<1>3. CASE ExecLoad(q) \/ ExecProbe(q) \/ ExecSessionEnds(q) \/ Query(q) \/ Crash(q)
  BY <1>3, Zenon DEF ExecLoad, ExecProbe, ExecSessionEnds, Query, Crash
<1>4. CASE DeleteLoad(q) \/ Sigterm(q) \/ CheckKilled(q) \/ Sigkill(q) \/ Unlink(q) \/ Rmdir(q)
  BY <1>4, Zenon DEF DeleteLoad, Sigterm, CheckKilled, Sigkill, Unlink, Rmdir
<1>5. QED
  BY <1>1, <1>2, <1>3, <1>4 DEF Step

(* A runtime under way that reaches its exit has taken a step of its own. *)
LEMMA OwnExit ==
  ASSUME Typed, [Next]_vars, NEW r \in Runtimes, Busy(r), ~Busy(r)'
  PROVE  Step(r) \/ ExecSessionEnds(r) \/ Crash(r)
<1>0. pc \in [Runtimes -> Pcs] /\ pc'[r] # pc[r]
  BY DEF Typed, TypeOK, Busy
<1>1. PICK q \in Runtimes : (\E j \in Jobs : Issue(q, j)) \/ Step(q) \/ ExecSessionEnds(q) \/ Crash(q)
  BY <1>0 DEF Next, vars, Kernel, cmdVars
<1>2. \E t : pc' = [pc EXCEPT ![q] = t]
  BY <1>1, OneMoves DEF Issue
<1>3. q = r
  BY <1>0, <1>2
<1>4. \A j \in Jobs : ~Issue(r, j)
  BY DEF Issue, Busy
<1>5. QED
  BY <1>1, <1>3, <1>4

(* What it was doing says which step. *)
LEMMA ExitSteps ==
  ASSUME NEW r \in Runtimes, "crash" \notin Faults,
         Step(r) \/ ExecSessionEnds(r) \/ Crash(r)
  PROVE  /\ pc[r] = "pidwrite" => WritePidFile(r)
         /\ pc[r] = "flush" => WriteFile(r)
<1> USE DEF At
<1>1. CASE CheckExists(r) \/ LoadSpec(r) \/ StatDir(r) \/ MakeDir(r) \/ OpenFile(r) \/ WriteFile(r)
  BY <1>1 DEF CheckExists, LoadSpec, StatDir, MakeDir, OpenFile, WriteFile
<1>2. CASE LoadForStart(r) \/ PrepareFails(r) \/ CloneInit(r) \/ AwaitReady(r)
             \/ AwaitFailure(r) \/ WaitInit(r) \/ OpenPidFile(r) \/ WritePidFile(r)
  BY <1>2 DEF LoadForStart, PrepareFails, CloneInit, AwaitReady, AwaitFailure,
              WaitInit, OpenPidFile, WritePidFile
<1>3. CASE ExecLoad(r) \/ ExecProbe(r) \/ ExecSessionEnds(r) \/ Query(r) \/ Crash(r)
  BY <1>3 DEF ExecLoad, ExecProbe, ExecSessionEnds, Query, Crash
<1>4. CASE DeleteLoad(r) \/ Sigterm(r) \/ CheckKilled(r) \/ Sigkill(r) \/ Unlink(r) \/ Rmdir(r)
  BY <1>4 DEF DeleteLoad, Sigterm, CheckKilled, Sigkill, Unlink, Rmdir
<1>5. QED
  BY <1>1, <1>2, <1>3, <1>4 DEF Step

LEMMA SerialExecSave ==
  ASSUME Calm, Typed, SerialInv, [Next]_vars, NEW r \in Runtimes,
         job[r].op = "exec", pc[r] = "flush", pc'[r] \in Rest
  PROVE  file' = Stopped /\ LiveInits = {}
<1>1. Busy(r) /\ ~Busy(r)'
  BY DEF Busy, Rest
<1>2. InPlace(pc[r], mem[r], child[r], job[r], LiveInits, file, dir, r \in linked)
  BY <1>1 DEF SerialInv
<1>3. file = Empty /\ r \in linked /\ mem[r] = Stopped /\ LiveInits = {}
  BY <1>2 DEF InPlace, FileInPlace, SaveInPlace, Saving, Rest
<1>4. WriteFile(r) /\ "disk" \notin Faults
  BY <1>1, OwnExit, ExitSteps DEF Calm
<1>5. file' \in Overlay(Empty, Stopped)
  BY <1>3, <1>4 DEF WriteFile, FlushRecord
<1>6. QED
  BY <1>3, <1>5 DEF Overlay

(* An exec that saves a record saves stopped, over the running record it loaded,
   and no process of the container is left then. *)
THEOREM ExecNotesDeath == ASSUME Serial PROVE Spec => ExecOnlyNotesDeath
<1>1. Typed /\ SerialInv /\ [Next]_vars
        => [\A r \in Runtimes : job[r].op = "exec" /\ pc[r] = "flush" /\ pc'[r] \in Rest
              => file' = Stopped /\ LiveInits = {}]_vars
  BY SerialExecSave DEF Serial
<1>2. QED
  BY <1>1, TypedAlways, SerialAlways, PTL DEF ExecOnlyNotesDeath, Spec
-----------------------------------------------------------------------------
(* What the exit status tells. *)

(* The commands that get to t, with the record m and the pid c.  The invariant
   CourseInv about it needs neither Serial nor the absence of faults. *)
OnCourse(t, m, c, j) ==
  /\ t \in {"exists", "spec"} => j.op \in {"create", "run"}
  /\ t \in {"load", "clone", "read", "wait", "pidfile", "pidwrite"} => j.op \in {"start", "run"}
  /\ t \in {"pidfile", "pidwrite"} => ~j.attach
  /\ t = "wait" => j.attach
  /\ t \in {"xload", "probe", "session"} => j.op = "exec"
  /\ t \in {"dload", "term", "check", "kill", "unlink", "rmdir"} => j.op = "delete" \/ j.rm
  /\ t = "query" => j.op = "state"
  /\ Saving(t) /\ m.st = "created" => j.op \in {"create", "run"}
  /\ Saving(t) /\ m.st = "running" => j.op \in {"start", "run"} /\ c # NoPid
  /\ Saving(t) /\ m.st = "stopped" => j.op = "exec" \/ (j.attach /\ c # NoPid)
  /\ t # "read" /\ c # NoPid => c \in readied

CourseInv ==
  \A r \in Runtimes : /\ Busy(r) => OnCourse(pc[r], mem[r], child[r], job[r])
                      /\ ~Busy(r) => child[r] = NoPid

LEMMA CourseProceed ==
  ASSUME Typed, CourseInv, NEW r \in Runtimes, readied' = readied,
         NEW t \in Pcs, NEW m, NEW c, NEW table, Proceed(r, t, m, c, table),
         t \notin Rest => OnCourse(t, m, c, job[r])
  PROVE  CourseInv'
<1>0. TypeOK
  BY DEF Typed
<1>1. ASSUME NEW q \in Runtimes, Busy(q)'
      PROVE  OnCourse(pc[q], mem[q], child[q], job[q])'
  <2>1. CASE q # r
    BY <1>0, <1>1, <2>1, ProceedEffect DEF CourseInv, Busy, OnCourse
  <2>2. CASE q = r
    <3>1. t \notin Rest /\ pc'[r] = t /\ mem'[r] = m /\ child'[r] = c
      BY <1>0, <1>1, <2>2, ProceedEffect DEF Busy
    <3>2. job'[r] = job[r]
      BY <1>0, <3>1 DEF Proceed, TypeOK
    <3>3. QED
      BY <2>2, <3>1, <3>2 DEF OnCourse
  <2>3. QED
    BY <2>1, <2>2
<1>2. ASSUME NEW q \in Runtimes, ~Busy(q)' PROVE child'[q] = NoPid
  BY <1>0, <1>2, ProceedEffect DEF CourseInv, Busy
<1>3. QED
  BY <1>1, <1>2 DEF CourseInv

(* The variants of a command. *)
LEMMA JobFacts ==
  ASSUME Typed, NEW r \in Runtimes
  PROVE  /\ job[r].op \in Ops \cup {"none"}
         /\ job[r].attach => job[r].op \in {"start", "run"}
         /\ job[r].rm => job[r].op = "run" /\ job[r].attach
         /\ job[r].pidfile => job[r].op \in {"start", "run"} /\ ~job[r].attach
<1>1. job[r] \in JobSpace \cup {NoJob}
  BY JobsAssumption DEF Typed, TypeOK
<1>2. QED
  BY <1>1 DEF JobSpace, NoJob

LEMMA CourseOfSave ==
  ASSUME Typed, CourseInv, NEW r \in Runtimes,
         CheckExists(r) \/ LoadSpec(r) \/ StatDir(r) \/ MakeDir(r) \/ OpenFile(r) \/ WriteFile(r)
  PROVE  CourseInv'
<1> USE DEF At, Pcs, Rest, Waiting, Goto
<1>0. /\ Busy(r) => OnCourse(pc[r], mem[r], child[r], job[r])
      /\ Saving(pc[r]) => mem[r].st \in {"created", "running", "stopped"}
      /\ readied' = readied
  <2>1. Saving(pc[r]) => mem[r].st \in {"created", "running", "stopped"}
    BY RecordFacts DEF Typed, LocalsOK, Saving, States
  <2>2. readied' = readied
    BY DEF CheckExists, LoadSpec, StatDir, MakeDir, OpenFile, WriteFile
  <2>3. QED
    BY <2>1, <2>2 DEF CourseInv
<1>1. ASSUME Saving(pc[r]), NEW b \in BOOLEAN, Goto(r, AfterSave(r, b)) PROVE CourseInv'
  <2> DEFINE t == AfterSave(r, b)
  <2>1. OnCourse(pc[r], mem[r], child[r], job[r])
    BY <1>0, <1>1 DEF Saving, Busy
  <2>2. t \in Pcs /\ Goto(r, t)
    BY <1>1, AfterSaveType
  <2>3. ASSUME t \notin Rest PROVE OnCourse(t, mem[r], child[r], job[r])
    <3>1. CASE mem[r].st = "created"
      <4>1. t = "load" /\ job[r].op = "run"
        BY <2>3, <3>1 DEF AfterSave
      <4> HIDE DEF t
      <4>2. QED
        BY <1>1, <2>1, <4>1 DEF OnCourse, Saving
    <3>2. CASE mem[r].st = "running"
      <4>1. \/ t = "wait" /\ job[r].attach
            \/ t = "dload" /\ job[r].rm
            \/ t = "pidfile" /\ ~job[r].attach
        BY <2>3, <3>2, JobFacts DEF AfterSave, AfterStart
      <4> HIDE DEF t
      <4>2. QED
        BY <1>1, <2>1, <3>2, <4>1 DEF OnCourse, Saving
    <3>3. CASE mem[r].st = "stopped"
      <4>1. t = "dload" /\ job[r].rm
        BY <1>1, <2>1, <2>3, <3>3, JobFacts DEF AfterSave, AfterStart, OnCourse
      <4> HIDE DEF t
      <4>2. QED
        BY <1>1, <2>1, <4>1 DEF OnCourse, Saving
    <3>4. QED
      BY <1>0, <1>1, <3>1, <3>2, <3>3
  <2> HIDE DEF t
  <2>4. QED
    BY <1>0, <2>2, <2>3, CourseProceed
<1>2. CASE CheckExists(r)
  BY <1>0, <1>2, CourseProceed DEF CheckExists, OnCourse, Busy, Saving
<1>3. CASE LoadSpec(r)
  <2>1. Created.st = "created"
    BY DEF Created
  <2>2. QED
    BY <1>0, <1>3, <2>1, CourseProceed DEF LoadSpec, OnCourse, Busy, Saving
<1>4. CASE StatDir(r)
  BY <1>0, <1>4, CourseProceed DEF StatDir, OnCourse, Busy, Saving
<1>5. CASE MakeDir(r)
  <2>1. pc[r] = "mkdir" /\ (Goto(r, "open") \/ \E b \in BOOLEAN : Goto(r, AfterSave(r, b)))
    BY <1>5, Zenon DEF MakeDir
  <2>2. CASE Goto(r, "open")
    BY <1>0, <2>1, <2>2, CourseProceed DEF OnCourse, Busy, Saving
  <2>3. QED
    BY <1>1, <2>1, <2>2 DEF Saving
<1>6. CASE OpenFile(r)
  <2>1. pc[r] = "open" /\ (Goto(r, "flush") \/ \E b \in BOOLEAN : Goto(r, AfterSave(r, b)))
    BY <1>6, Zenon DEF OpenFile
  <2>2. CASE Goto(r, "flush")
    BY <1>0, <2>1, <2>2, CourseProceed DEF OnCourse, Busy, Saving
  <2>3. QED
    BY <1>1, <2>1, <2>2 DEF Saving
<1>7. CASE WriteFile(r)
  <2>1. pc[r] = "flush" /\ \E b \in BOOLEAN : Goto(r, AfterSave(r, b))
    BY <1>7, Zenon DEF WriteFile
  <2>2. QED
    BY <1>1, <2>1 DEF Saving
<1>8. QED
  BY <1>2, <1>3, <1>4, <1>5, <1>6, <1>7

(* A start learns of its child's readiness from the child. *)
LEMMA CourseOfStart ==
  ASSUME Typed, OwnChild, ReadiedInv, CourseInv, NEW r \in Runtimes,
         LoadForStart(r) \/ PrepareFails(r) \/ CloneInit(r) \/ AwaitReady(r)
           \/ AwaitFailure(r) \/ WaitInit(r) \/ OpenPidFile(r) \/ WritePidFile(r)
  PROVE  CourseInv'
<1> USE DEF At, Pcs, Rest, Waiting, Goto
<1>0. /\ Busy(r) => OnCourse(pc[r], mem[r], child[r], job[r])
      /\ readied' = readied
      /\ AfterFailedStart(r) = IF job[r].rm THEN "dload" ELSE "fail"
      /\ pc[r] \in {"read", "wait"} => child[r] \in Pids
      /\ \A p \in Pids : p # NoPid /\ (proc[p].ready => p \in readied)
      /\ Stopped.st = "stopped" /\ \A p : Running(p).st = "running"
  <2>1. readied' = readied
    BY DEF LoadForStart, PrepareFails, CloneInit, AwaitReady, AwaitFailure, WaitInit,
           OpenPidFile, WritePidFile
  <2>2. QED
    BY <2>1, NoPidAssumption
       DEF CourseInv, AfterFailedStart, OwnChild, Expecting, ReadiedInv, Stopped, Running
<1>1. CASE LoadForStart(r) \/ PrepareFails(r)
  <2>1. PICK t \in {"clone", AfterFailedStart(r)} :
          \E m : Proceed(r, t, m, NoPid, proc) \/ Proceed(r, t, m, child[r], proc)
    BY <1>1 DEF LoadForStart, PrepareFails
  <2>2. Busy(r) /\ pc[r] \in {"load", "clone"}
    BY <1>1 DEF LoadForStart, PrepareFails, Busy
  <2>3. QED
    BY <1>0, <2>1, <2>2, CourseProceed DEF OnCourse, Saving
<1>2. CASE CloneInit(r)
  <2>1. PICK p \in Available : \E table : Proceed(r, "read", mem[r], p, table)
    BY <1>2 DEF CloneInit
  <2>2. QED
    BY <1>0, <1>2, <2>1, CourseProceed DEF CloneInit, OnCourse, Busy, Saving
<1>3. CASE AwaitReady(r)
  <2>1. /\ Busy(r) /\ child[r] \in readied /\ child[r] # NoPid
        /\ job[r].op \in {"start", "run"}
    BY <1>0, <1>3 DEF AwaitReady, ReadyByte, OnCourse, Busy
  <2>2. \E table : Proceed(r, "statdir", Running(child[r]), child[r], table)
    BY <1>3 DEF AwaitReady
  <2>3. QED
    BY <1>0, <2>1, <2>2, CourseProceed DEF OnCourse, Saving
<1>4. CASE AwaitFailure(r)
  <2>1. PICK table : Proceed(r, AfterFailedStart(r), mem[r], NoPid, table)
    BY <1>4 DEF AwaitFailure
  <2>2. QED
    BY <1>0, <1>4, <2>1, CourseProceed DEF AwaitFailure, OnCourse, Busy, Saving
<1>5. CASE WaitInit(r)
  <2>1. PICK table : Proceed(r, "statdir", Stopped, child[r], table)
    BY <1>5 DEF WaitInit
  <2>2. QED
    BY <1>0, <1>5, <2>1, CourseProceed DEF WaitInit, OnCourse, Busy, Saving
<1>6. CASE OpenPidFile(r) \/ WritePidFile(r)
  BY <1>0, <1>6, CourseProceed DEF OpenPidFile, WritePidFile, OnCourse, Busy, Saving
<1>7. QED
  BY <1>1, <1>2, <1>3, <1>4, <1>5, <1>6

LEMMA CourseOfRest ==
  ASSUME Typed, ReadiedInv, CourseInv, NEW r \in Runtimes,
         \/ ExecLoad(r) \/ ExecProbe(r) \/ ExecSessionEnds(r) \/ Query(r) \/ Crash(r)
         \/ DeleteLoad(r) \/ Sigterm(r) \/ CheckKilled(r) \/ Sigkill(r) \/ Unlink(r) \/ Rmdir(r)
  PROVE  CourseInv'
<1> USE DEF At, Pcs, Rest, Waiting, Goto
<1>0. /\ Busy(r) => OnCourse(pc[r], mem[r], child[r], job[r])
      /\ readied' = readied
      /\ Holding(pc[r]) => mem[r].pid \in readied
      /\ Stopped.st = "stopped" /\ AfterDelete(r) \in Rest
  <2>1. readied' = readied
    BY DEF ExecLoad, ExecProbe, ExecSessionEnds, Query, Crash, DeleteLoad, Sigterm, CheckKilled,
           Sigkill, Unlink, Rmdir
  <2>2. QED
    BY <2>1 DEF CourseInv, ReadiedInv, OnlyReadiedPids, Holding, Stopped, AfterDelete
<1>1. CASE ExecLoad(r)
  BY <1>0, <1>1, CourseProceed DEF ExecLoad, OnCourse, Busy, Saving
<1>2. CASE ExecProbe(r)
  BY <1>0, <1>2, CourseProceed DEF ExecProbe, OnCourse, Busy, Saving, Holding
<1>3. CASE ExecSessionEnds(r)
  BY <1>0, <1>3, CourseProceed DEF ExecSessionEnds, OnCourse, Busy, Saving
<1>4. CASE Query(r) \/ Crash(r) \/ Rmdir(r)
  BY <1>0, <1>4, CourseProceed DEF Query, Crash, Rmdir
<1>5. CASE DeleteLoad(r) \/ CheckKilled(r) \/ Unlink(r)
  BY <1>0, <1>5, CourseProceed DEF DeleteLoad, CheckKilled, Unlink, OnCourse, Busy, Saving
<1>6. CASE Sigterm(r) \/ Sigkill(r)
  <2>1. PICK t \in {"check", "unlink"} : \E table : Proceed(r, t, mem[r], child[r], table)
    BY <1>6 DEF Sigterm, Sigkill
  <2>2. pc[r] \in {"term", "kill"}
    BY <1>6 DEF Sigterm, Sigkill
  <2>3. QED
    BY <1>0, <2>1, <2>2, CourseProceed DEF OnCourse, Busy, Saving
<1>7. QED
  BY <1>1, <1>2, <1>3, <1>4, <1>5, <1>6

LEMMA CourseNext == Typed /\ OwnChild /\ ReadiedInv /\ CourseInv /\ [Next]_vars => CourseInv'
<1> SUFFICES ASSUME Typed, OwnChild, ReadiedInv, CourseInv, [Next]_vars PROVE CourseInv'
  OBVIOUS
<1>1. CASE UNCHANGED <<cmdVars, readied>>
  BY <1>1 DEF cmdVars, CourseInv, Busy, OnCourse
<1>2. ASSUME NEW r \in Runtimes, NEW j \in Jobs, Issue(r, j) PROVE CourseInv'
  <2>1. /\ j.op \in Ops
        /\ j.op \in {"create", "run"} <=> EntryOf(j.op) = "exists"
        /\ j.op = "start" <=> EntryOf(j.op) = "load"
        /\ j.op = "exec" <=> EntryOf(j.op) = "xload"
        /\ j.op = "delete" <=> EntryOf(j.op) = "dload"
        /\ j.op = "state" <=> EntryOf(j.op) = "query"
    BY JobsAssumption DEF EntryOf, JobSpace, Ops
  <2>2. EntryOf(j.op) \in {"exists", "load", "xload", "dload", "query"} /\ child[r] = NoPid
    BY <1>2 DEF EntryOf, Issue, CourseInv, Busy
  <2>3. /\ pc' = [pc EXCEPT ![r] = EntryOf(j.op)] /\ job' = [job EXCEPT ![r] = j]
        /\ UNCHANGED <<mem, child, readied>>
    BY <1>2 DEF Issue, procVars
  <2>4. OnCourse(pc[r], mem[r], child[r], job[r])'
    BY <2>1, <2>2, <2>3 DEF OnCourse, Saving, Typed, TypeOK
  <2>5. ASSUME NEW q \in Runtimes \ {r}, Busy(q)'
        PROVE  OnCourse(pc[q], mem[q], child[q], job[q])'
    BY <2>3, <2>5 DEF CourseInv, Busy, OnCourse, Typed, TypeOK
  <2>6. ASSUME NEW q \in Runtimes, ~Busy(q)' PROVE child'[q] = NoPid
    BY <1>2, <2>2, <2>3, <2>6 DEF CourseInv, Busy, Issue, Typed, TypeOK
  <2>7. QED
    BY <2>4, <2>5, <2>6 DEF CourseInv
<1>3. ASSUME NEW p \in Pids, Kernel(p) PROVE CourseInv'
  <2>1. readied \subseteq readied' /\ UNCHANGED cmdVars
    BY <1>3 DEF Kernel, ProcNext, ChildReady, ChildExec, ProcExit, ProcDies, Recycle, ForeignExit
  <2>2. QED
    BY <2>1 DEF cmdVars, CourseInv, Busy, OnCourse
<1>4. QED
  BY <1>1, <1>2, <1>3, CourseOfSave, CourseOfStart, CourseOfRest
     DEF Next, Step, vars, procVars

LEMMA CourseAlways == Spec => []CourseInv
<1>1. Init => CourseInv
  BY DEF Init, CourseInv, Busy, Rest
<1>2. QED
  BY <1>1, TypedAlways, StartKeepsItsChild, ReadiedAlways, CourseNext, PTL DEF Spec

Outcome(r) == /\ pc'[r] = "ok" => Achieved(job[r], child[r])
              /\ job[r].op = "delete" \/ job[r].rm => Removed(r)

(* The exits before anything was done, those of the commands that promise
   nothing, and those of a start that failed. *)
LEMMA PlainExits ==
  ASSUME Typed, CourseInv, NEW r \in Runtimes, Busy(r),
         \/ CheckExists(r) \/ LoadForStart(r) \/ PrepareFails(r) \/ AwaitFailure(r)
         \/ OpenPidFile(r) \/ ExecLoad(r) \/ ExecProbe(r) \/ ExecSessionEnds(r) \/ Query(r)
  PROVE  pc'[r] \in Rest => Outcome(r)
<1> USE DEF At, Pcs, Rest, Waiting, Goto, Outcome
<1>0. /\ OnCourse(pc[r], mem[r], child[r], job[r])
      /\ pc \in [Runtimes -> Pcs]
      /\ AfterFailedStart(r) = IF job[r].rm THEN "dload" ELSE "fail"
  BY DEF CourseInv, AfterFailedStart, Typed, TypeOK
<1>1. ASSUME NEW t \in Pcs, NEW m, NEW c, NEW table, Proceed(r, t, m, c, table)
      PROVE  pc'[r] = t
  BY <1>0, <1>1 DEF Proceed
<1>2. CASE CheckExists(r)
  BY <1>1, <1>2 DEF CheckExists, Removed
<1>3. CASE LoadForStart(r) \/ PrepareFails(r) \/ AwaitFailure(r)
  <2>1. pc'[r] \in {"clone", AfterFailedStart(r)}
    BY <1>0, <1>1, <1>3 DEF LoadForStart, PrepareFails, AwaitFailure
  <2>2. job[r].op \in {"start", "run"}
    BY <1>0, <1>3 DEF LoadForStart, PrepareFails, AwaitFailure, OnCourse
  <2>3. QED
    BY <1>0, <2>1, <2>2
<1>4. CASE OpenPidFile(r)
  <2>1. pc'[r] \in {"pidwrite", "fail"}
    BY <1>1, <1>4 DEF OpenPidFile
  <2>2. job[r].op \in {"start", "run"} /\ ~job[r].rm
    BY <1>0, <1>4, JobFacts DEF OpenPidFile, OnCourse
  <2>3. QED
    BY <2>1, <2>2
<1>5. CASE ExecLoad(r) \/ ExecProbe(r) \/ ExecSessionEnds(r) \/ Query(r)
  <2>1. job[r].op \in {"exec", "state"}
    BY <1>0, <1>5 DEF ExecLoad, ExecProbe, ExecSessionEnds, Query, OnCourse
  <2>2. QED
    BY <2>1, JobFacts DEF Achieved
<1>6. QED
  BY <1>2, <1>3, <1>4, <1>5

(* No other step exits but the reading of the bundle, the end of a save, of the
   writing of the pid file and of a delete. *)
LEMMA OtherExits ==
  ASSUME Typed, "disk" \notin Faults, NEW r \in Runtimes, pc[r] = "mkdir" => ~dir,
         pc[r] = "open" => dir, pc'[r] \in Rest,
         \/ StatDir(r) \/ MakeDir(r) \/ OpenFile(r) \/ CloneInit(r) \/ AwaitReady(r) \/ WaitInit(r)
         \/ Sigterm(r) \/ CheckKilled(r) \/ Sigkill(r) \/ Unlink(r)
  PROVE  FALSE
<1> USE DEF At, Goto
<1>1. PICK t \in Pcs \ Rest : \E m, c, table : Proceed(r, t, m, c, table)
  <2>1. {"mkdir", "open", "flush", "read", "statdir", "check", "kill", "unlink", "rmdir"}
          \subseteq Pcs \ Rest
    BY DEF Pcs, Rest, Waiting
  <2>2. CASE MakeDir(r) \/ OpenFile(r)
    <3>1. Goto(r, "open") \/ Goto(r, "flush")
      BY <2>2, Zenon DEF MakeDir, OpenFile
    <3>2. QED
      BY <2>1, <3>1
  <2>3. CASE StatDir(r) \/ CloneInit(r) \/ AwaitReady(r) \/ WaitInit(r)
    BY <2>1, <2>3 DEF StatDir, CloneInit, AwaitReady, WaitInit
  <2>4. CASE Sigterm(r) \/ CheckKilled(r) \/ Sigkill(r) \/ Unlink(r)
    BY <2>1, <2>4 DEF Sigterm, CheckKilled, Sigkill, Unlink
  <2>5. QED
    BY <2>2, <2>3, <2>4
<1>2. QED
  BY <1>1 DEF Proceed, Typed, TypeOK

LEMMA SerialSaveExit ==
  ASSUME Calm, Typed, CourseInv, SerialInv, NEW r \in Runtimes, Busy(r), WriteFile(r),
         pc'[r] \in Rest
  PROVE  Outcome(r)
<1> USE DEF At, Pcs, Rest, Waiting, Goto, Outcome
<1> DEFINE t == AfterSave(r, TRUE)
<1>1. /\ OnCourse("flush", mem[r], child[r], job[r]) /\ pc[r] = "flush"
      /\ mem[r] \in Records /\ mem[r].st \in {"created", "running", "stopped"}
  BY RecordFacts DEF CourseInv, WriteFile, Typed, LocalsOK, States
<1>2. /\ file = Empty /\ r \in linked
      /\ SaveInPlace("flush", mem[r], child[r], job[r], LiveInits, file)
  BY <1>1 DEF SerialInv, InPlace, FileInPlace
<1>3. file' = mem[r] /\ pc'[r] = t
  BY <1>1, <1>2, AfterSaveType DEF Calm, WriteFile, FlushRecord, Overlay, Proceed, Typed, TypeOK
<1>4. CASE mem[r].st = "created"
  <2>1. mem[r] = Created
    BY <1>1, <1>4 DEF Records, Running, Stopped
  <2>2. job[r].op = "create" \/ t = "load"
    BY <1>1, <1>4 DEF AfterSave, OnCourse, Saving
  <2>3. QED
    BY <1>3, <2>1, <2>2, JobFacts DEF Achieved
<1>5. CASE mem[r].st = "running"
  <2>1. mem[r] = Running(child[r]) /\ child[r] \in readied /\ job[r].op \in {"start", "run"}
    BY <1>1, <1>2, <1>5 DEF SaveInPlace, OnCourse, Saving
  <2>2. t \in Rest => t = "ok" /\ ~job[r].attach /\ ~job[r].rm /\ ~job[r].pidfile
    BY <1>5 DEF AfterSave, AfterStart
  <2>3. QED
    BY <1>3, <2>1, <2>2 DEF Achieved
<1>6. CASE mem[r].st = "stopped"
  <2>1. mem[r] = Stopped /\ LiveInits = {}
    <3>1. mem[r] = Stopped
      BY <1>1, <1>6 DEF Records, Running, Created
    <3>2. QED
      BY <1>2, <3>1 DEF SaveInPlace, Saving
  <2>2. CASE job[r].op = "exec"
    BY <2>2, JobFacts DEF Achieved
  <2>3. CASE job[r].op # "exec"
    <3>1. job[r].attach /\ child[r] \in readied /\ job[r].op \in {"start", "run"}
      BY <1>1, <1>6, <2>3, JobFacts DEF OnCourse, Saving
    <3>2. t \in Rest => ~job[r].rm /\ ~job[r].pidfile
      BY <1>6, <2>3, <3>1, JobFacts DEF AfterSave, AfterStart
    <3>3. QED
      BY <1>3, <2>1, <3>1, <3>2 DEF Achieved
  <2>4. QED
    BY <2>2, <2>3
<1>7. QED
  BY <1>1, <1>4, <1>5, <1>6

LEMMA SerialExit ==
  ASSUME Calm, Typed, CourseInv, SerialInv, [Next]_vars, NEW r \in Runtimes,
         pc[r] \notin Rest, pc'[r] \in Rest
  PROVE  Outcome(r)
<1> USE DEF At, Pcs, Rest, Waiting, Goto, Outcome
<1>0. /\ Busy(r) /\ ~Busy(r)' /\ "disk" \notin Faults
      /\ pc \in [Runtimes -> Pcs]
      /\ OnCourse(pc[r], mem[r], child[r], job[r])
      /\ InPlace(pc[r], mem[r], child[r], job[r], LiveInits, file, dir, r \in linked)
  BY DEF Busy, Calm, CourseInv, SerialInv, Typed, TypeOK
<1>1. (Step(r) \/ ExecSessionEnds(r)) /\ ~Crash(r)
  BY <1>0, OwnExit DEF Calm, Crash
<1>2. ASSUME NEW t \in Pcs, NEW m, NEW c, NEW table, Proceed(r, t, m, c, table)
      PROVE  pc'[r] = t
  BY <1>0, <1>2 DEF Proceed
<1>3. CASE LoadSpec(r)
  <2>1. pc'[r] # "ok"
    BY <1>2, <1>3 DEF LoadSpec
  <2>2. file' = Absent /\ ~dir'
    BY <1>0, <1>3 DEF LoadSpec, InPlace, FileInPlace, fileVars
  <2>3. QED
    BY <2>1, <2>2 DEF Removed
<1>4. CASE WriteFile(r)
  BY <1>0, <1>4, SerialSaveExit
<1>5. CASE WritePidFile(r)
  <2>1. /\ file = Running(child[r]) /\ file = mem[r] /\ pidFile' = mem[r].pid /\ file' = file
        /\ job[r].op \in {"start", "run"} /\ ~job[r].attach
    BY <1>0, <1>5 DEF WritePidFile, InPlace, FileInPlace, Holding, OnCourse, fileVars
  <2>2. child[r] \in readied /\ ~job[r].rm /\ pidFile' = child[r]
    <3>1. mem[r].pid \in Pids
      BY <1>5 DEF WritePidFile, Typed, LocalsOK, Running
    <3>2. mem[r].pid = child[r]
      BY <2>1 DEF Running
    <3>3. QED
      BY <1>0, <1>5, <2>1, <3>1, <3>2, NoPidAssumption, JobFacts DEF WritePidFile, OnCourse
  <2>3. QED
    BY <2>1, <2>2 DEF Achieved
<1>6. CASE DeleteLoad(r)
  <2>1. ~Parses(file) /\ pc'[r] = "fail" /\ UNCHANGED fileVars
    BY <1>2, <1>6 DEF DeleteLoad
  <2>2. Clean(file, dir)
    BY <1>0, <1>6 DEF DeleteLoad, InPlace, FileInPlace, Recorded
  <2>3. file' = Absent /\ ~dir'
    BY <2>1, <2>2, RecordFacts DEF Clean, fileVars, Absent
  <2>4. QED
    BY <2>1, <2>3 DEF Removed
<1>7. CASE Rmdir(r)
  <2>1. /\ file = Absent /\ LiveInits = {} /\ pc[r] = "rmdir"
        /\ job[r].op = "delete" \/ job[r].rm
    BY <1>0, <1>7 DEF Rmdir, InPlace, FileInPlace, OnCourse
  <2>2. file' = Absent /\ ~dir'
    BY <1>7, <2>1 DEF Rmdir, RemoveDir, StateExists, Absent
  <2>3. pc'[r] = AfterDelete(r)
    BY <1>2, <1>7 DEF Rmdir, AfterDelete
  <2>4. pc'[r] = "ok" /\ job[r].op # "delete" => child[r] \in readied
    BY <1>0, <2>1, <2>3, JobFacts DEF AfterDelete, OnCourse
  <2>5. QED
    BY <2>1, <2>2, <2>4, JobFacts DEF Achieved, Removed
<1>8. CASE \/ CheckExists(r) \/ LoadForStart(r) \/ PrepareFails(r) \/ AwaitFailure(r)
           \/ OpenPidFile(r) \/ ExecLoad(r) \/ ExecProbe(r) \/ ExecSessionEnds(r) \/ Query(r)
  BY <1>0, <1>8, PlainExits
<1>9. CASE \/ StatDir(r) \/ MakeDir(r) \/ OpenFile(r) \/ CloneInit(r) \/ AwaitReady(r) \/ WaitInit(r)
           \/ Sigterm(r) \/ CheckKilled(r) \/ Sigkill(r) \/ Unlink(r)
  <2>1. (pc[r] = "mkdir" => ~dir) /\ (pc[r] = "open" => dir)
    BY <1>0 DEF InPlace, FileInPlace
  <2>2. QED
    BY <1>0, <1>9, <2>1, OtherExits
<1>10. QED
  BY <1>1, <1>3, <1>4, <1>5, <1>6, <1>7, <1>8, <1>9 DEF Step

(* One command at a time and no failure of the disk: the exit status of every
   command says what it has left on disk, in the process table and in the pid
   file, and a run --rm that fails has cleaned up. *)
THEOREM StatusTellsOutcome == ASSUME Serial PROVE Spec => ExitTellsOutcome
<1>1. Typed /\ CourseInv /\ SerialInv /\ [Next]_vars
        => [\A r \in Runtimes : pc[r] \notin Rest /\ pc'[r] \in Rest =>
              /\ pc'[r] = "ok" => Achieved(job[r], child[r])
              /\ job[r].op = "delete" \/ job[r].rm => Removed(r)]_vars
  BY SerialExit DEF Serial, Outcome
<1>2. QED
  BY <1>1, TypedAlways, CourseAlways, SerialAlways, PTL DEF ExitTellsOutcome, Spec
=============================================================================
