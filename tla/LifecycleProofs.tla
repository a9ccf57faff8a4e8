--------------------------- MODULE LifecycleProofs ---------------------------
(***************************************************************************)
(* Runtime implements Lifecycle, for every set of pids, every set of jobs  *)
(* and any number of commands issued one after the other.                  *)
(***************************************************************************)
EXTENDS SerialProofs, RuntimeRefinement

(* The refinement mapping, from what the one command under way is at (t), holds
   (m) and finds. *)
RecordSeen(m, f) == IF f = Empty THEN m.st ELSE f.st

InitSeen(t, m, live, rec) ==
  IF live # {} THEN "live"
  ELSE IF rec \in {"running", "stopped"} \/ ExpectingAt(t, m) THEN "dead" ELSE "none"

(* A file that is truncated and not yet written has its writer under way. *)
LEMMA EmptyMeansFlush ==
  ASSUME NEW t \in Pcs, NEW m, NEW c, NEW j, NEW live, NEW d, NEW mine,
         InPlace(t, m, c, j, live, Empty, d, mine), Holding(t) => m.st = "running"
  PROVE  t = "flush"
<1>1. /\ Empty \notin Records \cup {Absent} /\ Empty # Created /\ Empty # Absent
      /\ Empty.st # "running" /\ Empty # Running(c)
  BY DEF Records, Running, Created, Stopped, Absent, Empty
<1>2. FileInPlace(t, m, c, j, live, Empty, d, mine)
  BY DEF InPlace
<1>3. ~Clean(Empty, d) /\ ~Recorded(live, Empty, d)
  BY <1>1 DEF Clean, Recorded
<1>4. QED
  BY <1>1, <1>2, <1>3 DEF FileInPlace, Holding, Pcs, Rest, Waiting

LEMMA SeenBusy ==
  ASSUME Typed, SerialInv, NEW r \in Runtimes, Busy(r)
  PROVE  /\ abstractRecord = RecordSeen(mem[r], file)
         /\ abstractInit = InitSeen(pc[r], mem[r], LiveIn(proc), RecordSeen(mem[r], file))
<1>1. \A q \in Runtimes \ {r} : pc[q] \in Rest
  BY DEF SerialInv, Busy
<1>2. pc[r] \in Pcs /\ (Holding(pc[r]) => mem[r].st = "running")
  BY DEF Typed, TypeOK, LocalsOK, Holding, Running
<1>3. file = Empty => pc[r] = "flush"
  BY <1>2, EmptyMeansFlush DEF SerialInv
<1>4. pc[r] = "flush" => Saver = r
  BY <1>1 DEF Saver, Rest
<1>5. abstractRecord = RecordSeen(mem[r], file)
  BY <1>3, <1>4 DEF abstractRecord, RecordSeen
<1>6. (\E q \in Runtimes : Expecting(q)) <=> ExpectingAt(pc[r], mem[r])
  BY <1>1 DEF Expecting, ExpectingAt, Saving, Rest
<1>7. QED
  BY <1>5, <1>6, LiveInProc DEF abstractInit, InitSeen

LEMMA SeenAtRest ==
  ASSUME SerialInv, AtRest
  PROVE  /\ abstractRecord = file.st
         /\ abstractInit = InitSeen("ok", Absent, LiveIn(proc), file.st)
<1>1. file # Empty
  BY NoPidAssumption
     DEF SerialInv, Recorded, Clean, Records, Running, Created, Stopped, Absent, Empty
<1>2. ~(\E q \in Runtimes : Expecting(q)) /\ ~ExpectingAt("ok", Absent)
  BY DEF Expecting, ExpectingAt, Saving, Rest, AtRest
<1>3. QED
  BY <1>1, <1>2, LiveInProc DEF abstractRecord, abstractInit, InitSeen

(* What is seen after a step of the command under way. *)
LEMMA SeenProceed ==
  ASSUME Typed, SerialInv, Typed', SerialInv', NEW r \in Runtimes, Busy(r),
         NEW t \in Pcs, NEW m, NEW c, NEW table, Proceed(r, t, m, c, table)
  PROVE  /\ abstractRecord' = RecordSeen(m, file')
         /\ abstractInit' = InitSeen(t, m, LiveIn(table), RecordSeen(m, file'))
<1>0. TypeOK
  BY DEF Typed
<1>1. pc'[r] = t /\ \A q \in Runtimes \ {r} : pc'[q] \in Rest
  BY <1>0, ProceedEffect DEF SerialInv, Busy
<1>2. LiveInits' = LiveIn(table)
  <2>1. LiveIn(proc') = LiveIn(table)
    BY <1>0, ProceedEffect, LiveOrphan
  <2>2. QED
    BY <2>1 DEF LiveInits, Live, LiveIn
<1>3. CASE t \in Rest
  <2>1. AtRest'
    BY <1>1, <1>3 DEF AtRest
  <2>2. file' # Empty
    BY <2>1, NoPidAssumption
       DEF SerialInv, Recorded, Clean, Records, Running, Created, Stopped, Absent, Empty
  <2>3. ~(\E q \in Runtimes : Expecting(q)') /\ ~ExpectingAt(t, m)
    BY <1>3, <2>1 DEF Expecting, ExpectingAt, Saving, Rest, AtRest
  <2>4. QED
    BY <1>2, <2>2, <2>3 DEF abstractRecord, abstractInit, InitSeen, RecordSeen
<1>4. CASE t \notin Rest
  <2>1. mem'[r] = m /\ child'[r] = c
    BY <1>0, <1>4, ProceedEffect
  <2>2. InPlace(t, m, c, job'[r], LiveInits', file', dir', (r \in linked)')
    BY <1>1, <1>4, <2>1 DEF SerialInv, Busy
  <2>3. Holding(t) => m.st = "running"
    BY <1>1, <2>1 DEF Typed, LocalsOK, Holding, Running
  <2>4. file' = Empty => t = "flush"
    BY <2>2, <2>3, EmptyMeansFlush
  <2>5. t = "flush" => Saver' = r
    BY <1>1 DEF Saver, Rest
  <2>6. abstractRecord' = RecordSeen(m, file')
    BY <2>1, <2>4, <2>5 DEF abstractRecord, RecordSeen
  <2>7. (\E q \in Runtimes : Expecting(q)') <=> ExpectingAt(t, m)
    BY <1>1, <2>1 DEF Expecting, ExpectingAt, Saving, Rest
  <2>8. QED
    BY <1>2, <2>6, <2>7 DEF abstractInit, InitSeen
<1>5. QED
  BY <1>3, <1>4

-----------------------------------------------------------------------------
(* The steps *)

LifecycleStep == Abstract!Next \/ UNCHANGED <<abstractRecord, abstractInit>>

Sound == Typed /\ SerialInv /\ Typed' /\ SerialInv'

(* A step that is not seen: the record reads the same, the same processes live,
   and if it matters the runtime goes on expecting its child or did not. *)
LEMMA Unseen ==
  ASSUME Sound, NEW r \in Runtimes, Busy(r),
         NEW t \in Pcs, NEW m, NEW c, NEW table, Proceed(r, t, m, c, table),
         LiveIn(table) = LiveIn(proc),
         RecordSeen(m, file') = RecordSeen(mem[r], file),
         \/ ExpectingAt(t, m) <=> ExpectingAt(pc[r], mem[r])
         \/ RecordSeen(mem[r], file) \in {"running", "stopped"}
  PROVE  LifecycleStep
BY SeenBusy, SeenProceed DEF Sound, LifecycleStep, InitSeen

(* A runtime that only looks, or that puts a directory in place. *)
LEMMA UnseenGoto ==
  ASSUME Sound, NEW r \in Runtimes, Busy(r),
         NEW t \in Pcs, NEW m, NEW c, Proceed(r, t, m, c, proc),
         file' = file, file # Empty,
         \/ ExpectingAt(t, m) <=> ExpectingAt(pc[r], mem[r])
         \/ file.st \in {"running", "stopped"}
  PROVE  LifecycleStep
BY Unseen DEF RecordSeen

(* The directory and the file on the way of a record to its place. *)
LEMMA SaveSimulates ==
  ASSUME Calm, Sound, NEW r \in Runtimes,
         StatDir(r) \/ MakeDir(r) \/ OpenFile(r) \/ WriteFile(r)
  PROVE  LifecycleStep
<1> USE DEF At, Pcs, Rest, Waiting, Goto
<1> DEFINE rec == mem[r]
           In == InPlace(pc[r], rec, child[r], job[r], LiveInits, file, dir, r \in linked)
<1>0. /\ "disk" \notin Faults /\ Typed /\ SerialInv
      /\ Saving(pc[r]) => rec \in Records
      /\ Saving(pc[r]) => rec = Created \/ rec = Stopped \/ rec.st = "running"
  BY DEF Calm, Sound, Typed, LocalsOK, Saving, Records, Running
<1>b. Saving(pc[r]) => Busy(r) /\ In
  BY <1>0 DEF SerialInv, Saving, Busy
<1>c. Empty \notin Records \cup {Absent} /\ Created # Empty /\ Running(child[r]) # Empty
  BY DEF Empty, Records, Absent, Created, Running, Stopped
<1>1. CASE StatDir(r)
  <2>1. Saving(pc[r]) /\ Clean(file, dir) /\ file' = file
        /\ (Goto(r, "open") \/ Goto(r, "mkdir")) /\ pc[r] = "statdir"
    BY <1>1, <1>b DEF StatDir, Saving, InPlace, FileInPlace, fileVars
  <2>2. QED
    BY <1>b, <1>c, <2>1, UnseenGoto DEF Clean, ExpectingAt, Saving
<1>2. CASE MakeDir(r)
  <2>1. Saving(pc[r]) /\ pc[r] = "mkdir" /\ file = Absent /\ ~dir
    BY <1>2, <1>b DEF MakeDir, Saving, InPlace, FileInPlace
  <2>2. Goto(r, "open") /\ file' = file
    BY <1>0, <1>2, <2>1 DEF MakeDir, MkdirContainer
  <2>3. QED
    BY <1>b, <1>c, <2>1, <2>2, UnseenGoto DEF ExpectingAt, Saving
<1>3. CASE OpenFile(r)
  <2>1. Saving(pc[r]) /\ pc[r] = "open" /\ file # Empty /\ dir /\ Busy(r)
    BY <1>3, <1>b, <1>c DEF OpenFile, Saving, InPlace, FileInPlace
  <2>2. Goto(r, "flush") /\ file' = Empty
    BY <1>0, <1>3, <2>1 DEF OpenFile, OpenTruncate
  <2>3. /\ abstractRecord = file.st
        /\ abstractInit = InitSeen("open", rec, LiveIn(proc), file.st)
    BY <1>0, <2>1, SeenBusy DEF RecordSeen
  <2>4. /\ abstractRecord' = rec.st
        /\ abstractInit' = InitSeen("flush", rec, LiveIn(proc), rec.st)
    <3> HIDE DEF rec
    <3>1. QED
      BY <2>1, <2>2, SeenProceed DEF Sound, RecordSeen, rec
  <2>5. CASE rec = Created
    <3>1. LiveIn(proc) = {} /\ file.st = "absent"
      BY <1>b, <2>1, <2>5, LiveInProc DEF InPlace, SaveInPlace, Absent
    <3>2. abstractRecord = "absent" /\ abstractRecord' = "created"
          /\ abstractInit = "none" /\ abstractInit' = "none"
      BY <2>3, <2>4, <2>5, <3>1 DEF Created, InitSeen, ExpectingAt, Saving
    <3>3. QED
      BY <3>2 DEF LifecycleStep, Abstract!Next, Abstract!Create
  <2>6. CASE rec = Stopped
    <3>1. LiveIn(proc) = {} /\ file.st = "running"
      BY <1>b, <2>1, <2>6, LiveInProc DEF InPlace, SaveInPlace
    <3>2. abstractRecord = "running" /\ abstractRecord' = "stopped"
          /\ abstractInit = "dead" /\ abstractInit' = "dead"
      BY <2>3, <2>4, <2>6, <3>1 DEF Stopped, InitSeen
    <3>3. QED
      BY <3>2 DEF LifecycleStep, Abstract!Next, Abstract!NoteStopped
  <2>7. CASE rec.st = "running"
    <3>1. file.st = "created"
      BY <1>b, <2>1, <2>7 DEF InPlace, SaveInPlace, Created
    <3>2. abstractRecord = "created" /\ abstractRecord' = "running"
          /\ abstractInit # "none" /\ abstractInit' = abstractInit
      BY <2>3, <2>4, <2>7, <3>1 DEF InitSeen, ExpectingAt, Saving
    <3>3. QED
      BY <3>2 DEF LifecycleStep, Abstract!Next, Abstract!Commit
  <2>8. QED
    BY <1>0, <2>1, <2>5, <2>6, <2>7
<1>4. CASE WriteFile(r)
  <2> DEFINE t == AfterSave(r, TRUE)
  <2>1. Saving(pc[r]) /\ pc[r] = "flush" /\ file = Empty /\ r \in linked /\ Busy(r)
    BY <1>4, <1>b DEF WriteFile, Saving, InPlace, FileInPlace
  <2>2. Proceed(r, t, rec, child[r], proc) /\ file' = rec /\ t \in Pcs
    BY <1>0, <1>4, <2>1, AfterSaveType DEF WriteFile, FlushRecord, Overlay
  <2>3. RecordSeen(rec, file) = rec.st /\ RecordSeen(rec, file') = rec.st
    BY <2>1, <2>2 DEF RecordSeen
  <2>4. \/ ExpectingAt(t, rec) <=> ExpectingAt(pc[r], rec)
        \/ rec.st \in {"running", "stopped"}
    BY <1>0, <2>1 DEF ExpectingAt, AfterSave, Saving, Created, Stopped
  <2> HIDE DEF t, rec
  <2>5. QED
    BY <2>1, <2>2, <2>3, <2>4, Unseen DEF rec
<1>5. QED
  BY <1>1, <1>2, <1>3, <1>4

(* create before its save, exec and state: nothing is seen of them. *)
LEMMA LookSimulates ==
  ASSUME Calm, Sound, NEW r \in Runtimes,
         \/ CheckExists(r) \/ LoadSpec(r) \/ ExecLoad(r) \/ ExecProbe(r)
         \/ ExecSessionEnds(r) \/ Query(r)
  PROVE  LifecycleStep
<1> USE DEF At, Pcs, Rest, Waiting, Goto
<1>0. Typed /\ SerialInv /\ file \in Contents
  BY DEF Sound, Typed, TypeOK
<1>1. ASSUME pc[r] \in {"exists", "spec", "xload", "probe", "session", "query"}
      PROVE  Busy(r) /\ file # Empty
  <2>1. Busy(r) /\ pc[r] \in Pcs /\ (Holding(pc[r]) => mem[r].st = "running")
    BY <1>0, <1>1 DEF Busy, Typed, LocalsOK, Holding, Running
  <2>2. file # Empty
    BY <1>0, <1>1, <2>1, EmptyMeansFlush DEF SerialInv
  <2>3. QED
    BY <1>1, <2>1, <2>2 DEF ExpectingAt, Saving
<1>2. ASSUME pc[r] \in {"exists", "spec", "xload", "probe", "session", "query"},
             UNCHANGED fileVars, NEW t \in Pcs, NEW m, NEW c, Proceed(r, t, m, c, proc),
             t \notin {"read", "wait"}, Saving(t) => m.st # "running"
      PROVE  LifecycleStep
  <2>1. ~ExpectingAt(t, m) /\ ~ExpectingAt(pc[r], mem[r])
    BY <1>2 DEF ExpectingAt, Saving
  <2>2. QED
    BY <1>1, <1>2, <2>1, UnseenGoto DEF fileVars
<1>3. Created.st # "running" /\ Stopped.st # "running"
  BY DEF Created, Stopped
<1>4. CASE CheckExists(r)
  BY <1>2, <1>4 DEF CheckExists, Saving
<1>5. CASE LoadSpec(r)
  BY <1>2, <1>3, <1>5 DEF LoadSpec, Saving
<1>6. CASE ExecLoad(r)
  BY <1>2, <1>6 DEF ExecLoad, Saving
<1>7. CASE ExecProbe(r)
  BY <1>2, <1>3, <1>7 DEF ExecProbe, Saving
<1>8. CASE ExecSessionEnds(r)
  BY <1>2, <1>3, <1>8 DEF ExecSessionEnds, Saving
<1>9. CASE Query(r)
  BY <1>2, <1>9 DEF Query, Saving
<1>10. QED
  BY <1>4, <1>5, <1>6, <1>7, <1>8, <1>9

(* start: the clone is the launch, the reaping of a child that failed its abort. *)
LEMMA StartSimulates ==
  ASSUME Calm, Sound, NEW r \in Runtimes,
         LoadForStart(r) \/ PrepareFails(r) \/ CloneInit(r) \/ AwaitReady(r)
           \/ AwaitFailure(r) \/ WaitInit(r) \/ OpenPidFile(r) \/ WritePidFile(r)
  PROVE  LifecycleStep
<1> USE DEF At, Pcs, Rest, Waiting, Goto
<1>0. /\ Typed /\ SerialInv /\ file \in Contents /\ proc \in [Pids -> Slots]
      /\ pc[r] = "read" => child[r] \in Pids
      /\ AfterFailedStart(r) \in {"dload", "fail"}
      /\ Created # Empty /\ Created.st = "created"
  BY DEF Sound, Typed, TypeOK, LocalsOK, AfterFailedStart, Created, Empty
<1>1. ASSUME pc[r] \in {"load", "clone", "read", "wait", "pidfile", "pidwrite"}
      PROVE  /\ Busy(r) /\ file # Empty
             /\ InPlace(pc[r], mem[r], child[r], job[r], LiveIn(proc), file, dir, r \in linked)
  <2>1. Busy(r) /\ pc[r] \in Pcs /\ (Holding(pc[r]) => mem[r].st = "running")
    BY <1>0, <1>1 DEF Busy, Typed, TypeOK, LocalsOK, Holding, Running
  <2>2. QED
    BY <1>0, <1>1, <2>1, EmptyMeansFlush, LiveInProc DEF SerialInv
<1>2. CASE LoadForStart(r) \/ PrepareFails(r) \/ OpenPidFile(r) \/ WritePidFile(r)
  <2>1. PICK t \in {"clone", "dload", "pidwrite", "fail", "ok"} : \E m, c : Proceed(r, t, m, c, proc)
    BY <1>0, <1>2 DEF LoadForStart, PrepareFails, OpenPidFile, WritePidFile
  <2>2. file' = file /\ pc[r] \in {"load", "clone", "pidfile", "pidwrite"}
    BY <1>2 DEF LoadForStart, PrepareFails, OpenPidFile, WritePidFile, fileVars
  <2>3. QED
    BY <1>1, <2>1, <2>2, UnseenGoto DEF ExpectingAt, Saving
<1>3. CASE CloneInit(r)
  <2>0. PICK p \in Available :
          Proceed(r, "read", mem[r], p,
                  [proc EXCEPT ![p] = [st |-> "setup", par |-> r, ready |-> FALSE]])
    BY <1>3 DEF CloneInit
  <2> DEFINE table == [proc EXCEPT ![p] = [st |-> "setup", par |-> r, ready |-> FALSE]]
  <2>1. pc[r] = "clone" /\ file' = file
    BY <1>3 DEF CloneInit, fileVars
  <2>2. file = Created /\ LiveIn(proc) = {}
    BY <1>1, <2>1 DEF InPlace, FileInPlace
  <2>3. LiveIn(table) # {}
    <3>1. p \in LiveIn(table)
      BY <1>0 DEF LiveIn, Available
    <3>2. QED
      BY <3>1
  <2>4. Proceed(r, "read", mem[r], p, table)
    BY <2>0
  <2> HIDE DEF table
  <2>5. abstractRecord = "created" /\ abstractInit = "none"
    BY <1>0, <1>1, <2>1, <2>2, SeenBusy DEF RecordSeen, InitSeen, ExpectingAt, Saving
  <2>6. abstractRecord' = "created" /\ abstractInit' = "live"
    BY <1>0, <1>1, <2>1, <2>2, <2>3, <2>4, SeenProceed DEF Sound, RecordSeen, InitSeen
  <2>7. QED
    BY <2>5, <2>6 DEF LifecycleStep, Abstract!Next, Abstract!Launch
<1>4. CASE AwaitReady(r)
  <2> DEFINE table == [proc EXCEPT ![child[r]].ready = FALSE]
             m == Running(child[r])
  <2>1. pc[r] = "read" /\ file' = file
    BY <1>4 DEF AwaitReady, fileVars
  <2>2. LiveIn(table) = LiveIn(proc)
    BY <1>0, <2>1 DEF LiveIn, Slots
  <2>3. Proceed(r, "statdir", m, child[r], table)
    BY <1>4 DEF AwaitReady
  <2>4. m.st = "running"
    BY DEF Running
  <2> HIDE DEF table, m
  <2>5. RecordSeen(m, file') = RecordSeen(mem[r], file)
        /\ ExpectingAt("statdir", m) /\ ExpectingAt(pc[r], mem[r])
    BY <1>1, <2>1, <2>4 DEF RecordSeen, ExpectingAt, Saving
  <2>6. QED
    BY <1>1, <2>1, <2>2, <2>3, <2>5, Unseen
<1>5. CASE AwaitFailure(r)
  <2> DEFINE table == [proc EXCEPT ![child[r]] = NoProcess]
  <2>1. pc[r] = "read" /\ file' = file
    BY <1>5 DEF AwaitFailure, fileVars
  <2>2. file = Created /\ LiveIn(proc) \subseteq {child[r]}
    BY <1>1, <2>1 DEF InPlace, FileInPlace
  <2>3. LiveIn(proc) = {} /\ LiveIn(table) = {}
    BY <1>0, <1>5, <2>2 DEF AwaitFailure, NoReadyByte, LiveIn, NoProcess
  <2>4. Proceed(r, AfterFailedStart(r), mem[r], NoPid, table)
    BY <1>5 DEF AwaitFailure
  <2> HIDE DEF table
  <2>5. abstractRecord = "created" /\ abstractInit = "dead"
    BY <1>0, <1>1, <2>1, <2>2, <2>3, SeenBusy DEF RecordSeen, InitSeen, ExpectingAt
  <2>6. abstractRecord' = "created" /\ abstractInit' = "none"
    BY <1>0, <1>1, <2>1, <2>2, <2>3, <2>4, SeenProceed
       DEF Sound, RecordSeen, InitSeen, ExpectingAt, Saving
  <2>7. QED
    BY <2>5, <2>6 DEF LifecycleStep, Abstract!Next, Abstract!Abort
<1>6. CASE WaitInit(r)
  <2> DEFINE table == [proc EXCEPT ![child[r]] = NoProcess]
  <2>1. pc[r] = "wait" /\ file' = file
    BY <1>6 DEF WaitInit, fileVars
  <2>2. file.st = "running" /\ LiveIn(proc) \subseteq {child[r]}
    BY <1>1, <2>1 DEF InPlace, FileInPlace, Running
  <2>3. LiveIn(proc) = {} /\ LiveIn(table) = {}
    BY <1>0, <1>6, <2>2 DEF WaitInit, LiveIn, NoProcess
  <2>4. Proceed(r, "statdir", Stopped, child[r], table)
    BY <1>6 DEF WaitInit
  <2> HIDE DEF table
  <2>5. RecordSeen(mem[r], file) = "running" /\ RecordSeen(Stopped, file') = "running"
    BY <1>1, <2>1, <2>2 DEF RecordSeen
  <2>6. QED
    BY <1>1, <2>1, <2>3, <2>4, <2>5, Unseen
<1>7. QED
  BY <1>2, <1>3, <1>4, <1>5, <1>6

(* delete: its signals let a live process die, its unlink removes the record. *)
LEMMA DeleteSimulates ==
  ASSUME Calm, Sound, NEW r \in Runtimes,
         DeleteLoad(r) \/ Sigterm(r) \/ CheckKilled(r) \/ Sigkill(r) \/ Unlink(r) \/ Rmdir(r)
  PROVE  LifecycleStep
<1> USE DEF At, Pcs, Rest, Waiting, Goto
<1>0. Typed /\ SerialInv /\ "disk" \notin Faults
  BY DEF Sound, Calm
<1>1. ASSUME pc[r] \in {"dload", "term", "check", "kill", "unlink", "rmdir"}
      PROVE  /\ Busy(r) /\ file # Empty
             /\ InPlace(pc[r], mem[r], child[r], job[r], LiveIn(proc), file, dir, r \in linked)
             /\ pc[r] \in {"term", "check", "kill"} => file.st = "running" /\ mem[r].pid \in Pids
  <2>1. /\ Busy(r) /\ pc[r] \in Pcs
        /\ Holding(pc[r]) => mem[r].st = "running" /\ mem[r].pid \in Pids
    BY <1>0, <1>1 DEF Busy, Typed, LocalsOK, Holding, Running
  <2>2. InPlace(pc[r], mem[r], child[r], job[r], LiveIn(proc), file, dir, r \in linked)
    BY <1>0, <2>1, Holders
  <2>3. file # Empty
    BY <1>1, <2>1, <2>2, EmptyMeansFlush
  <2>4. pc[r] \in {"term", "check", "kill"} => file = mem[r]
    BY <2>2 DEF InPlace, FileInPlace, Holding
  <2>5. QED
    BY <2>1, <2>2, <2>3, <2>4 DEF Holding
<1>2. CASE DeleteLoad(r) \/ CheckKilled(r)
  <2>1. PICK t \in {"term", "kill", "unlink", "fail"} : \E m, c : Proceed(r, t, m, c, proc)
    BY <1>2 DEF DeleteLoad, CheckKilled
  <2>2. file' = file /\ pc[r] \in {"dload", "check"}
    BY <1>2 DEF DeleteLoad, CheckKilled, fileVars
  <2>3. QED
    BY <1>1, <2>1, <2>2, UnseenGoto DEF ExpectingAt, Saving
<1>3. ASSUME pc[r] \in {"term", "kill"}, file' = file, NEW t \in Pcs, NEW m, NEW c, NEW table,
             Proceed(r, t, m, c, table), LiveIn(table) \subseteq LiveIn(proc)
      PROVE  LifecycleStep
  <2>1. file.st = "running" /\ file # Empty /\ Busy(r)
    BY <1>1, <1>3
  <2>2. /\ abstractRecord = "running" /\ abstractRecord' = "running"
        /\ abstractInit = IF LiveIn(proc) # {} THEN "live" ELSE "dead"
        /\ abstractInit' = IF LiveIn(table) # {} THEN "live" ELSE "dead"
    BY <1>0, <1>3, <2>1, SeenBusy, SeenProceed DEF Sound, RecordSeen, InitSeen
  <2>3. QED
    BY <1>3, <2>2 DEF LifecycleStep, Abstract!Next, Abstract!Exit
<1>4. CASE Sigterm(r)
  <2>1. pc[r] = "term" /\ file' = file
    BY <1>4 DEF Sigterm, fileVars
  <2>2. CASE Visible(mem[r].pid)
    <3>1. PICK table \in AfterSigterm(mem[r].pid) : Proceed(r, "check", mem[r], child[r], table)
      BY <1>4, <2>2 DEF Sigterm
    <3>2. LiveIn(table) \subseteq LiveIn(proc)
      BY <1>0, <1>1, <2>1, SignalsEndLife
    <3>3. QED
      BY <1>3, <2>1, <3>1, <3>2
  <2>3. CASE ~Visible(mem[r].pid)
    BY <1>3, <1>4, <2>1, <2>3 DEF Sigterm
  <2>4. QED
    BY <2>2, <2>3
<1>5. CASE Sigkill(r)
  <2> DEFINE table == AfterSigkill(mem[r].pid)
  <2>1. pc[r] = "kill" /\ file' = file /\ Proceed(r, "unlink", mem[r], child[r], table)
    BY <1>5 DEF Sigkill, fileVars
  <2>2. LiveIn(table) \subseteq LiveIn(proc)
    BY <1>0, <1>1, <2>1, SignalsEndLife
  <2> HIDE DEF table
  <2>3. QED
    BY <1>3, <2>1, <2>2
<1>6. CASE Unlink(r)
  <2>1. pc[r] = "unlink" /\ file' = Absent /\ Goto(r, "rmdir")
    BY <1>0, <1>6 DEF Unlink, UnlinkState
  <2>2. Clean(file, dir) /\ LiveIn(proc) = {} /\ file # Empty /\ Busy(r)
    BY <1>1, <2>1 DEF InPlace, FileInPlace
  <2>3. Absent # Empty /\ Absent.st = "absent"
    BY DEF Absent, Empty
  <2>4. abstractRecord = file.st /\ abstractInit \in {"dead", "none"}
        /\ (file.st = "absent" => abstractInit = "none")
    BY <1>0, <2>1, <2>2, SeenBusy DEF RecordSeen, InitSeen, ExpectingAt, Saving
  <2>5. abstractRecord' = "absent" /\ abstractInit' = "none"
    BY <2>1, <2>2, <2>3, SeenProceed DEF Sound, RecordSeen, InitSeen, ExpectingAt, Saving
  <2>6. QED
    BY <2>4, <2>5 DEF LifecycleStep, Abstract!Next, Abstract!Remove
<1>7. CASE Rmdir(r)
  <2>1. pc[r] = "rmdir" /\ file' = file /\ Goto(r, AfterDelete(r)) /\ AfterDelete(r) \in Rest
    BY <1>7 DEF Rmdir, RemoveDir, AfterDelete
  <2>2. QED
    BY <1>1, <2>1, UnseenGoto DEF ExpectingAt, Saving
<1>8. QED
  BY <1>2, <1>4, <1>5, <1>6, <1>7

(* A child or the kernel: at most the live process dies, and somebody remembers. *)
LEMMA KernelSimulates ==
  ASSUME Sound, NEW p \in Pids, Kernel(p)
  PROVE  LifecycleStep
<1>0. /\ Typed /\ SerialInv
      /\ UNCHANGED <<pc, mem, file>>
  BY DEF Sound, Kernel, fileVars, cmdVars
<1>1. LiveInits' \subseteq LiveInits
  BY <1>0, KernelEndsLife
<1>2. UNCHANGED abstractRecord
  BY <1>0 DEF abstractRecord, Saver
<1>3. (\E r \in Runtimes : Expecting(r)) <=> (\E r \in Runtimes : Expecting(r)')
  BY <1>0 DEF Expecting
<1>4. CASE LiveInits = {} \/ LiveInits' # {}
  BY <1>1, <1>2, <1>3, <1>4 DEF LifecycleStep, abstractInit
<1>5. CASE LiveInits # {} /\ LiveInits' = {}
  <2>1. abstractRecord = "running" \/ \E r \in Runtimes : Expecting(r)
    <3>1. CASE AtRest
      <4>1. file.st = "running"
        BY <1>0, <1>5, <3>1 DEF SerialInv, Recorded, Running
      <4>2. QED
        BY <1>0, <3>1, <4>1, SeenAtRest
    <3>2. CASE ~AtRest
      <4>1. PICK r \in Runtimes : Busy(r)
        BY <3>2 DEF AtRest, Busy
      <4>2. InPlace(pc[r], mem[r], child[r], job[r], LiveInits, file, dir, r \in linked)
        BY <1>0, <4>1 DEF SerialInv
      <4>3. /\ pc[r] \in Pcs \ Rest
            /\ Saving(pc[r]) => mem[r] = Created \/ mem[r] = Stopped \/ mem[r].st = "running"
            /\ Holding(pc[r]) => mem[r].st = "running"
        BY <1>0, <4>1 DEF Busy, Typed, TypeOK, LocalsOK, Saving, Holding, Records, Running
      <4>4. ExpectingAt(pc[r], mem[r]) \/ file.st = "running"
        <5>1. CASE Saving(pc[r])
          BY <1>5, <4>2, <4>3, <5>1 DEF InPlace, SaveInPlace, ExpectingAt
        <5>2. CASE ~Saving(pc[r])
          BY <1>5, <4>2, <4>3, <5>2
             DEF InPlace, FileInPlace, Recorded, Running, ExpectingAt, Pcs, Waiting, Saving, Holding
        <5>3. QED
          BY <5>1, <5>2
      <4>5. CASE ExpectingAt(pc[r], mem[r])
        BY <4>5 DEF Expecting, ExpectingAt, Saving
      <4>6. CASE file.st = "running"
        <5>1. abstractRecord = "running"
          BY <4>6 DEF abstractRecord, Empty
        <5>2. QED
          BY <5>1
      <4>7. QED
        BY <4>4, <4>5, <4>6
    <3>3. QED
      BY <3>1, <3>2
  <2>2. abstractInit = "live" /\ abstractInit' = "dead"
    BY <1>2, <1>3, <1>5, <2>1 DEF abstractInit
  <2>3. QED
    BY <1>2, <2>2 DEF LifecycleStep, Abstract!Next, Abstract!Exit
<1>6. QED
  BY <1>4, <1>5

(* A new command has done nothing yet. *)
LEMMA IssueSimulates ==
  ASSUME Overlap # "any", Sound, NEW r \in Runtimes, NEW j \in Jobs, Issue(r, j)
  PROVE  LifecycleStep
<1>0. Typed /\ SerialInv /\ pc \in [Runtimes -> Pcs]
  BY DEF Sound, Typed, TypeOK
<1>1. \A q \in Runtimes : pc[q] \in Rest \cup Waiting
  BY DEF Issue, MayIssue, Waiting
<1>2. /\ EntryOf(j.op) \in {"exists", "load", "xload", "dload", "query"}
      /\ pc' = [pc EXCEPT ![r] = EntryOf(j.op)] /\ file' = file /\ proc' = proc
      /\ mem' = mem /\ pc[r] \in Rest
  BY DEF EntryOf, Issue, fileVars, procVars
<1>3. file # Empty
  <2>1. CASE AtRest
    BY <1>0, <2>1
       DEF SerialInv, Recorded, Clean, Records, Running, Created, Stopped, Absent, Empty
  <2>2. CASE ~AtRest
    <3>1. PICK q \in Runtimes : Busy(q)
      BY <2>2 DEF AtRest, Busy
    <3>2. pc[q] \in Pcs /\ pc[q] # "flush" /\ (Holding(pc[q]) => mem[q].st = "running")
      BY <1>0, <1>1, <3>1 DEF Typed, LocalsOK, Holding, Running, Rest, Waiting
    <3>3. QED
      BY <1>0, <3>1, <3>2, EmptyMeansFlush DEF SerialInv
  <2>3. QED
    BY <2>1, <2>2
<1>4. UNCHANGED abstractRecord
  BY <1>2, <1>3 DEF abstractRecord
<1>5. LiveInits' = LiveInits
  BY <1>2 DEF LiveInits, Live
<1>6. \A q \in Runtimes : Expecting(q) <=> Expecting(q)'
  BY <1>0, <1>2 DEF Expecting, Rest
<1>7. QED
  BY <1>4, <1>5, <1>6 DEF LifecycleStep, abstractInit

-----------------------------------------------------------------------------
(* Commands in progress, if any, wait whenever one is issued. *)
LEMMA EveryStepSimulates ==
  Overlap # "any" /\ Calm /\ Sound /\ [Next]_vars => LifecycleStep
<1> SUFFICES ASSUME Overlap # "any", Calm, Sound, [Next]_vars PROVE LifecycleStep
  OBVIOUS
<1>1. CASE UNCHANGED vars
  <2>1. UNCHANGED <<pc, mem, file, proc>>
    BY <1>1 DEF vars, fileVars, procVars, cmdVars
  <2>2. UNCHANGED abstractRecord
    BY <2>1 DEF abstractRecord, Saver
  <2>3. UNCHANGED abstractInit
    BY <2>1, <2>2 DEF abstractInit, LiveInits, Live, Expecting
  <2>4. QED
    BY <2>2, <2>3 DEF LifecycleStep
<1>2. CASE \E r \in Runtimes : \/ \E j \in Jobs : Issue(r, j)
                               \/ Step(r) \/ ExecSessionEnds(r) \/ Crash(r)
  <2>1. \A r \in Runtimes : ~Crash(r)
    BY DEF Crash, Calm
  <2>2. QED
    BY <1>2, <2>1, IssueSimulates, SaveSimulates, LookSimulates, StartSimulates,
       DeleteSimulates DEF Step
<1>3. CASE \E p \in Pids : Kernel(p)
  BY <1>3, KernelSimulates
<1>4. QED
  BY <1>1, <1>2, <1>3 DEF Next

LEMMA InitSimulates == Init => Abstract!Init
<1> SUFFICES ASSUME Init PROVE abstractRecord = "absent" /\ abstractInit = "none"
  BY DEF Abstract!Init
<1>1. AtRest /\ file = Absent
  BY DEF Init, FileInit, AtRest, Rest
<1>2. SerialInv /\ LiveInits = {}
  BY SerialInit DEF Init, ProcInit, LiveInits, Live, NoProcess
<1>3. QED
  BY <1>1, <1>2, SeenAtRest, LiveInProc DEF Absent, InitSeen, ExpectingAt, Saving

(* The commands, issued one after the other, implement the documented lifecycle:
   no start of a container that was started, no running record without a launch,
   no stopped before the death, no removal over a live process, and no state
   entered from any but its predecessor, through every truncation, flush and
   failed start in between. *)
THEOREM CommandsImplementLifecycle == ASSUME Serial PROVE Spec => ImplementsLifecycle
<1>1. Typed /\ SerialInv /\ Typed' /\ SerialInv' /\ [Next]_vars
        => [Abstract!Next]_<<abstractRecord, abstractInit>>
  BY EveryStepSimulates DEF Serial, Sound, LifecycleStep
<1>2. QED
  BY <1>1, InitSimulates, TypedAlways, SerialAlways, PTL DEF ImplementsLifecycle, Abstract!Spec, Spec
=============================================================================
