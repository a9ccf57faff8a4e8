---------------------------- MODULE SessionProofs ----------------------------
(***************************************************************************)
(* What holds of Runtime while a container is used and not deleted: any    *)
(* number of runtimes, attached starts that wait, exec sessions that begin *)
(* and end as they like, other commands in between, recycled pids.         *)
(***************************************************************************)
EXTENDS LifecycleProofs

Kept == Overlap # "any" /\ Calm /\ \A j \in Jobs : j.op # "delete" /\ ~j.rm

(* What a command at t that holds the record m, the pid c and the job j is about
   once running has been recorded for p: it looks and goes, it waits for p or is
   in a session of p, or it saves stopped. *)
AtWork(t, m, c, j, p, f, mine) ==
  /\ \/ t \in {"exists", "load", "query", "xload", "probe", "session", "wait"}
     \/ t \in {"statdir", "open", "flush"} /\ m = Stopped /\ (j.op = "exec" \/ j.attach)
  /\ t \in {"probe", "session"} => m = Running(p)
  /\ t \in {"xload", "probe", "session"} => j.op = "exec"
  /\ t \in {"exists", "load", "query", "wait"} => j.op # "exec"
  /\ t = "wait" => c = p /\ j.attach
  /\ t = "flush" => mine /\ f \in {Empty, Stopped}

(* The program is gone and the start that waited for it knows. *)
Over == LiveInits = {} /\ \A r \in Runtimes : pc[r] # "wait"

(* p is the process the record says or said running.  Several runtimes may save
   stopped at once: they all write the same, and only when all is over. *)
InUse(p) ==
  /\ dir /\ file \in {Running(p), Stopped, Empty} /\ LiveInits \subseteq {p}
  /\ file # Running(p) => Over
  /\ \A r \in Runtimes : Saving(pc[r]) => Over
  /\ file = Empty => \E r \in Runtimes : pc[r] = "flush"
  /\ \A r \in Runtimes : Busy(r) =>
       AtWork(pc[r], mem[r], child[r], job[r], p, file, r \in linked)

(* Before running is recorded, commands are one at a time. *)
SessionInv == SerialInv \/ \E p \in Pids : InUse(p)

(* What a step may do then: end the life of p, or, when that is over, change
   what the file says, but never back to running. *)
Onward(p) ==
  /\ InUse(p)'
  /\ LiveInits' \subseteq LiveInits
  /\ file' = file \/ (file' # Running(p) /\ LiveInits = {})

-----------------------------------------------------------------------------
LEMMA FilesDiffer ==
  ASSUME NEW p
  PROVE  /\ Running(p) # Stopped /\ Running(p) # Empty /\ Stopped # Empty
         /\ \A f \in {Running(p), Stopped, Empty} :
              f.st \in {"running", "stopped", "empty"} /\ (f.st = "running" <=> f = Running(p))
BY DEF Running, Stopped, Empty

(* A step of r that ends no wait but its own, and leaves the others what they
   rely on. *)
LEMMA InUseProceed ==
  ASSUME Typed, NEW p \in Pids, InUse(p), NEW r \in Runtimes,
         NEW t \in Pcs \ {"wait"}, NEW m, NEW c, NEW table, Proceed(r, t, m, c, table),
         LiveIn(table) \subseteq LiveIn(proc), dir',
         file' = file \/ (file' \in {Stopped, Empty} /\ LiveIn(proc) = {}),
         \A q \in Runtimes \ {r} : q \in linked => q \in linked',
         t \notin Rest => AtWork(t, m, c, job[r], p, file', r \in linked'),
         file' # Running(p) \/ Saving(t)
           => LiveIn(table) = {} /\ \A q \in Runtimes \ {r} : pc[q] # "wait",
         file' = Empty => t = "flush" \/ \E q \in Runtimes \ {r} : pc[q] = "flush"
  PROVE  Onward(p)
<1>0. TypeOK
  BY DEF Typed
<1>1. /\ pc'[r] = t
      /\ \A q \in Runtimes \ {r} : /\ mem'[q] = mem[q] /\ child'[q] = child[q]
                                   /\ job'[q] = job[q] /\ pc'[q] = pc[q]
      /\ t \notin Rest => mem'[r] = m /\ child'[r] = c
  BY <1>0, ProceedEffect
<1>2. LiveInits' = LiveIn(table) /\ LiveInits = LiveIn(proc)
  <2>1. LiveIn(proc') = LiveIn(table)
    BY <1>0, ProceedEffect, LiveOrphan
  <2>2. QED
    BY <2>1 DEF LiveInits, Live, LiveIn
<1>3. t \notin Rest => job'[r] = job[r]
  BY <1>0 DEF Proceed, TypeOK
<1>4. file' \in {Running(p), Stopped, Empty} /\ LiveInits' \subseteq {p}
  BY <1>2 DEF InUse
<1>5. file' # Running(p) \/ Saving(t) => Over'
  BY <1>1, <1>2 DEF Over
<1>6. ASSUME NEW q \in Runtimes, Saving(pc'[q]) PROVE Over'
  <2>1. CASE q = r
    BY <1>1, <1>5, <1>6, <2>1
  <2>2. CASE q # r
    <3>1. Over
      BY <1>1, <1>6, <2>2 DEF InUse
    <3>2. QED
      BY <1>1, <1>2, <3>1 DEF Over
  <2>3. QED
    BY <2>1, <2>2
<1>7. file' = Empty => \E q \in Runtimes : pc'[q] = "flush"
  BY <1>1
<1>8. ASSUME NEW q \in Runtimes, Busy(q)'
      PROVE  AtWork(pc[q], mem[q], child[q], job[q], p, file, q \in linked)'
  <2>1. CASE q = r
    BY <1>1, <1>3, <1>8, <2>1 DEF Busy
  <2>2. CASE q # r
    <3>1. AtWork(pc[q], mem[q], child[q], job[q], p, file, q \in linked)
      BY <1>1, <1>8, <2>2 DEF InUse, Busy
    <3>2. AtWork(pc[q], mem[q], child[q], job[q], p, file', (q \in linked)')
      BY <2>2, <3>1 DEF AtWork
    <3>3. QED
      BY <1>1, <2>2, <3>2
  <2>3. QED
    BY <2>1, <2>2
<1>9. InUse(p)'
  BY <1>4, <1>5, <1>6, <1>7, <1>8 DEF InUse
<1>10. QED
  BY <1>2, <1>9, FilesDiffer DEF Onward

(* What a busy runtime is at. *)
LEMMA InUseFacts ==
  ASSUME Kept, Typed, NEW p \in Pids, InUse(p), NEW r \in Runtimes
  PROVE  /\ Busy(r) => AtWork(pc[r], mem[r], child[r], job[r], p, file, r \in linked)
         /\ ~job[r].rm /\ (job[r].attach => ~job[r].pidfile /\ job[r].op # "exec")
         /\ file \in {Running(p), Stopped, Empty} /\ dir
         /\ proc \in [Pids -> Slots]
<1>1. job[r] \in Jobs \cup {NoJob}
  BY DEF Typed, TypeOK
<1>2. job[r] \in JobSpace \cup {NoJob} /\ (job[r] \in Jobs => ~job[r].rm)
  BY <1>1, JobsAssumption DEF Kept
<1>3. ~job[r].rm /\ (job[r].attach => ~job[r].pidfile /\ job[r].op # "exec")
  BY <1>1, <1>2 DEF JobSpace, NoJob
<1>4. QED
  BY <1>3 DEF InUse, Typed, TypeOK

(* Commands that only look: create and run find the file, start and run do not
   find it created, exec does not enter unless it reads running. *)
LEMMA InUseLooks ==
  ASSUME Kept, Typed, OwnChild, NEW p \in Pids, InUse(p), NEW r \in Runtimes,
         \/ CheckExists(r) \/ LoadForStart(r) \/ Query(r) \/ ExecLoad(r) \/ ExecProbe(r)
         \/ ExecSessionEnds(r) \/ StatDir(r)
  PROVE  Onward(p)
<1> USE DEF At, Pcs, Rest, Waiting, Goto
<1>0. /\ Busy(r) => AtWork(pc[r], mem[r], child[r], job[r], p, file, r \in linked)
      /\ ~job[r].rm /\ file \in {Running(p), Stopped, Empty} /\ dir
      /\ AfterFailedStart(r) = "fail" /\ StateExists /\ ~MayStart(file)
  BY InUseFacts, FilesDiffer DEF AfterFailedStart, StateExists, MayStart
<1>1. ASSUME UNCHANGED fileVars, Busy(r),
             NEW t \in {"ok", "fail", "probe", "session", "statdir", "open"},
             NEW m, NEW c, Proceed(r, t, m, c, proc),
             t \notin Rest => AtWork(t, m, c, job[r], p, file, r \in linked),
             Saving(t) => LiveIn(proc) = {} /\ \A q \in Runtimes \ {r} : pc[q] # "wait"
      PROVE  Onward(p)
  <2>1. file # Running(p) => LiveIn(proc) = {} /\ \A q \in Runtimes \ {r} : pc[q] # "wait"
    BY LiveInProc DEF InUse, Over
  <2>2. ASSUME file = Empty PROVE \E q \in Runtimes \ {r} : pc[q] = "flush"
    <3>1. PICK q \in Runtimes : pc[q] = "flush"
      BY <2>2 DEF InUse
    <3>2. pc[r] # "flush"
      BY DEF CheckExists, LoadForStart, Query, ExecLoad, ExecProbe, ExecSessionEnds, StatDir
    <3>3. QED
      BY <3>1, <3>2
  <2>3. UNCHANGED <<file, dir, linked>> /\ dir
    BY <1>0, <1>1 DEF fileVars
  <2>4. QED
    BY <1>1, <2>1, <2>2, <2>3, InUseProceed
<1>2. CASE CheckExists(r)
  BY <1>0, <1>1, <1>2 DEF CheckExists, Busy, Saving
<1>3. CASE LoadForStart(r)
  BY <1>0, <1>1, <1>3 DEF LoadForStart, Busy, Saving
<1>4. CASE Query(r)
  BY <1>1, <1>4 DEF Query, Busy, Saving
<1>5. CASE ExecLoad(r)
  <2>1. Busy(r) /\ job[r].op = "exec"
    BY <1>0, <1>5 DEF ExecLoad, Busy, AtWork
  <2>2. file.st = "running" => AtWork("probe", file, NoPid, job[r], p, file, r \in linked)
    BY <1>0, <2>1, FilesDiffer DEF AtWork
  <2>3. QED
    BY <1>1, <1>5, <2>1, <2>2 DEF ExecLoad, Saving
<1>6. ASSUME pc[r] \in {"probe", "session"}
      PROVE  /\ Busy(r) /\ mem[r] = Running(p) /\ mem[r].pid = p /\ job[r].op = "exec"
             /\ ~Visible(mem[r].pid)
                  => LiveIn(proc) = {} /\ \A q \in Runtimes : pc[q] # "wait"
  <2>1. Busy(r) /\ mem[r] = Running(p) /\ mem[r].pid = p /\ job[r].op = "exec"
    BY <1>0, <1>6 DEF Busy, AtWork, Running
  <2>2. ASSUME ~Visible(p) PROVE LiveIn(proc) = {} /\ \A q \in Runtimes : pc[q] # "wait"
    <3>1. proc[p].st = "free"
      BY <2>2 DEF Visible
    <3>2. LiveIn(proc) = {}
      BY <3>1, LiveInProc DEF InUse, LiveIn
    <3>3. ASSUME NEW q \in Runtimes, pc[q] = "wait" PROVE FALSE
      <4>1. child[q] = p
        BY <3>3 DEF InUse, Busy, AtWork
      <4>2. QED
        BY <3>1, <3>3, <4>1 DEF OwnChild, Expecting
    <3>4. QED
      BY <3>2, <3>3
  <2>3. QED
    BY <2>1, <2>2
<1>7. CASE ExecProbe(r)
  <2>1. /\ Busy(r) /\ AtWork("session", mem[r], mem[r].pid, job[r], p, file, r \in linked)
        /\ AtWork("statdir", Stopped, NoPid, job[r], p, file, r \in linked)
    BY <1>6, <1>7 DEF ExecProbe, AtWork
  <2>2. QED
    BY <1>1, <1>6, <1>7, <2>1 DEF ExecProbe, Saving
<1>8. CASE ExecSessionEnds(r)
  <2>1. /\ Busy(r) /\ AtWork("statdir", Stopped, child[r], job[r], p, file, r \in linked)
    BY <1>6, <1>8 DEF ExecSessionEnds, AtWork
  <2>2. QED
    BY <1>1, <1>6, <1>8, <2>1 DEF ExecSessionEnds, Saving
<1>9. CASE StatDir(r)
  <2>1. Busy(r) /\ AtWork("open", mem[r], child[r], job[r], p, file, r \in linked)
    BY <1>0, <1>9 DEF StatDir, Busy, AtWork
  <2>2. LiveIn(proc) = {} /\ \A q \in Runtimes : pc[q] # "wait"
    BY <1>9, LiveInProc DEF StatDir, InUse, Over, Saving
  <2>3. QED
    BY <1>0, <1>1, <1>9, <2>1, <2>2 DEF StatDir
<1>10. QED
  BY <1>2, <1>3, <1>4, <1>5, <1>7, <1>8, <1>9

(* Saves of stopped, by several runtimes at once: the overlay of a record with
   itself is that record. *)
LEMMA InUseSaves ==
  ASSUME Kept, Typed, NEW p \in Pids, InUse(p), NEW r \in Runtimes,
         OpenFile(r) \/ WriteFile(r)
  PROVE  Onward(p)
<1> USE DEF At, Pcs, Rest, Waiting, Goto
<1>0. /\ Busy(r) => AtWork(pc[r], mem[r], child[r], job[r], p, file, r \in linked)
      /\ ~job[r].rm /\ (job[r].attach => ~job[r].pidfile /\ job[r].op # "exec")
      /\ dir /\ "disk" \notin Faults
  BY InUseFacts DEF Kept, Calm
<1>1. pc[r] \in {"open", "flush"} => /\ LiveIn(proc) = {}
                                     /\ \A q \in Runtimes : pc[q] # "wait"
                                     /\ Busy(r)
  BY LiveInProc DEF InUse, Over, Saving, Busy
<1>2. CASE OpenFile(r)
  <2>1. pc[r] = "open" /\ Goto(r, "flush") /\ OpenTruncate(r)
    BY <1>0, <1>2 DEF OpenFile
  <2>2. file' = Empty /\ dir' = dir /\ r \in linked' /\ linked \subseteq linked'
    BY <2>1 DEF OpenTruncate
  <2>3. AtWork("flush", mem[r], child[r], job[r], p, Empty, r \in linked')
    BY <1>0, <1>1, <2>1, <2>2 DEF AtWork
  <2>4. QED
    BY <1>0, <1>1, <2>1, <2>2, <2>3, InUseProceed
<1>3. CASE WriteFile(r)
  <2>1. /\ pc[r] = "flush" /\ mem[r] = Stopped /\ r \in linked /\ file \in {Empty, Stopped}
        /\ job[r].op = "exec" \/ job[r].attach
    BY <1>0, <1>1, <1>3 DEF WriteFile, AtWork
  <2>2. /\ file' = Stopped /\ dir' = dir /\ linked' = linked \ {r}
        /\ Goto(r, AfterSave(r, TRUE))
    BY <1>0, <1>3, <2>1 DEF WriteFile, FlushRecord, Overlay
  <2>3. AfterSave(r, TRUE) \in Rest
    BY <1>0, <2>1 DEF AfterSave, AfterStart, Stopped
  <2>4. Stopped # Empty
    BY FilesDiffer
  <2>5. QED
    BY <1>0, <1>1, <2>1, <2>2, <2>3, <2>4, InUseProceed
<1>4. QED
  BY <1>2, <1>3

(* The start that waited: there is only one, its child has one parent. *)
LEMMA InUseWaits ==
  ASSUME Kept, Typed, OwnChild, NEW p \in Pids, InUse(p), NEW r \in Runtimes, WaitInit(r)
  PROVE  Onward(p)
<1> USE DEF At, Pcs, Rest, Waiting
<1> DEFINE table == [proc EXCEPT ![child[r]] = NoProcess]
<1>1. /\ pc[r] = "wait" /\ child[r] = p /\ job[r].attach /\ proc[p].st = "zombie"
      /\ Busy(r) /\ UNCHANGED fileVars /\ Proceed(r, "statdir", Stopped, child[r], table)
  BY DEF WaitInit, InUse, AtWork, Busy
<1>2. file = Running(p) /\ dir /\ proc \in [Pids -> Slots]
  BY <1>1 DEF InUse, Over, Typed, TypeOK
<1>3. LiveIn(table) = {}
  BY <1>1, <1>2, LiveInProc DEF InUse, LiveIn, NoProcess
<1>4. ASSUME NEW q \in Runtimes \ {r}, pc[q] = "wait" PROVE FALSE
  <2>1. child[q] = p
    BY <1>4 DEF InUse, Busy, AtWork
  <2>2. proc[p].par = q /\ proc[p].par = r
    BY <1>1, <1>4, <2>1 DEF OwnChild, Expecting
  <2>3. QED
    BY <1>4, <2>2
<1>5. AtWork("statdir", Stopped, child[r], job[r], p, file, r \in linked)
  BY <1>1, FilesDiffer DEF AtWork
<1>6. file # Empty
  BY <1>2, FilesDiffer
<1> HIDE DEF table
<1>7. QED
  BY <1>1, <1>2, <1>3, <1>4, <1>5, <1>6, InUseProceed DEF fileVars

(* No other step is possible then. *)
LEMMA InUseStep ==
  ASSUME Kept, Typed, OwnChild, NEW p \in Pids, InUse(p), NEW r \in Runtimes,
         Step(r) \/ ExecSessionEnds(r)
  PROVE  Onward(p)
<1> USE DEF At
<1>1. pc[r] \in Rest \cup {"exists", "load", "query", "xload", "probe", "session", "wait",
                           "statdir", "open", "flush"}
  BY DEF InUse, Busy, AtWork
<1>2. ~LoadSpec(r) /\ ~MakeDir(r) /\ ~PrepareFails(r) /\ ~CloneInit(r) /\ ~AwaitReady(r)
        /\ ~AwaitFailure(r) /\ ~OpenPidFile(r) /\ ~WritePidFile(r)
  BY <1>1 DEF Rest, LoadSpec, MakeDir, PrepareFails, CloneInit, AwaitReady, AwaitFailure,
              OpenPidFile, WritePidFile
<1>3. ~DeleteLoad(r) /\ ~Sigterm(r) /\ ~CheckKilled(r) /\ ~Sigkill(r) /\ ~Unlink(r) /\ ~Rmdir(r)
  BY <1>1 DEF Rest, DeleteLoad, Sigterm, CheckKilled, Sigkill, Unlink, Rmdir
<1>4. QED
  BY <1>2, <1>3, InUseLooks, InUseSaves, InUseWaits DEF Step

(* Children and the kernel only end lives. *)
LEMMA InUseKernel ==
  ASSUME Typed, NEW p \in Pids, InUse(p), NEW q \in Pids, Kernel(q)
  PROVE  Onward(p)
<1>1. LiveInits' \subseteq LiveInits
  BY KernelEndsLife
<1>2. UNCHANGED <<pc, mem, child, job, file, dir, linked>>
  BY DEF Kernel, fileVars, cmdVars
<1>3. Over => Over'
  BY <1>1, <1>2 DEF Over
<1>4. QED
  BY <1>1, <1>2, <1>3 DEF Onward, InUse, Busy

(* A command that begins. *)
LEMMA InUseIssue ==
  ASSUME Kept, Typed, NEW p \in Pids, InUse(p), NEW r \in Runtimes, NEW j \in Jobs, Issue(r, j)
  PROVE  Onward(p)
<1>1. /\ EntryOf(j.op) \in {"exists", "load", "xload", "query"}
      /\ j.op = "exec" <=> EntryOf(j.op) = "xload"
  <2>1. j.op \in Ops \ {"delete"}
    BY JobsAssumption DEF Kept, JobSpace
  <2>2. QED
    BY <2>1 DEF EntryOf, Ops
<1>2. /\ pc' = [pc EXCEPT ![r] = EntryOf(j.op)] /\ job' = [job EXCEPT ![r] = j]
      /\ UNCHANGED <<file, dir, linked, proc, mem, child>> /\ pc[r] \in Rest
      /\ pc \in [Runtimes -> Pcs] /\ job \in [Runtimes -> Jobs \cup {NoJob}]
  BY DEF Issue, fileVars, procVars, Typed, TypeOK
<1>3. LiveInits' = LiveInits
  BY <1>2 DEF LiveInits, Live
<1>4. \A q \in Runtimes \ {r} : pc'[q] = pc[q] /\ job'[q] = job[q]
  BY <1>2
<1>5. pc'[r] = EntryOf(j.op) /\ job'[r] = j
  BY <1>2
<1>6. Over => Over'
  BY <1>1, <1>3, <1>4, <1>5 DEF Over
<1>7. ASSUME NEW q \in Runtimes, Busy(q)'
      PROVE  AtWork(pc[q], mem[q], child[q], job[q], p, file, q \in linked)'
  <2>1. CASE q = r
    BY <1>1, <1>5, <2>1 DEF AtWork
  <2>2. CASE q # r
    BY <1>2, <1>4, <1>7, <2>2 DEF InUse, Busy
  <2>3. QED
    BY <2>1, <2>2
<1>8. file' = Empty => \E q \in Runtimes : pc'[q] = "flush"
  BY <1>2, <1>4 DEF InUse, Rest
<1>9. ASSUME NEW q \in Runtimes, Saving(pc'[q]) PROVE Over'
  BY <1>1, <1>4, <1>5, <1>6, <1>9 DEF InUse, Saving
<1>10. QED
  BY <1>2, <1>3, <1>6, <1>7, <1>8, <1>9 DEF Onward, InUse

(* The first command that is issued while another waits: the one that waits
   knows the process on record. *)
LEMMA FirstOverlap ==
  ASSUME Kept, Typed, SerialInv, NEW s \in Runtimes, pc[s] \in Waiting,
         \A q \in Runtimes : pc[q] \in Rest \cup Waiting
  PROVE  \E p \in Pids : InUse(p)
<1>1. Busy(s) /\ \A q \in Runtimes \ {s} : pc[q] \in Rest
  BY DEF SerialInv, Busy, Waiting, Rest
<1>2. InPlace(pc[s], mem[s], child[s], job[s], LiveInits, file, dir, s \in linked)
  BY <1>1 DEF SerialInv
<1>3. CASE pc[s] = "wait"
  <2>1. /\ file = Running(child[s]) /\ dir /\ LiveInits \subseteq {child[s]}
        /\ job[s].attach /\ job[s].op # "exec"
    BY <1>2, <1>3 DEF InPlace, FileInPlace, SaveInPlace, Saving, Rest
  <2>2. child[s] \in Pids
    BY <2>1, RecordFacts DEF Typed, TypeOK, Running, Contents, Parses, States
  <2>3. AtWork("wait", mem[s], child[s], job[s], child[s], file, s \in linked)
    BY <2>1 DEF AtWork
  <2>4. InUse(child[s])
    BY <1>1, <1>3, <2>1, <2>3, FilesDiffer DEF InUse, Busy, Saving, Rest
  <2>5. QED
    BY <2>2, <2>4
<1>4. CASE pc[s] = "session"
  <2>1. /\ file = mem[s] /\ dir /\ LiveInits \subseteq {mem[s].pid} /\ job[s].op = "exec"
    BY <1>2, <1>4 DEF InPlace, FileInPlace, SaveInPlace, Holding
  <2>2. PICK p \in Pids : mem[s] = Running(p)
    BY <1>4 DEF Typed, LocalsOK
  <2>3. mem[s].pid = p
    BY <2>2 DEF Running
  <2>4. AtWork("session", mem[s], child[s], job[s], p, file, s \in linked)
    BY <2>1, <2>2 DEF AtWork
  <2>5. InUse(p)
    BY <1>1, <1>4, <2>1, <2>2, <2>3, <2>4, FilesDiffer DEF InUse, Busy, Saving, Rest
  <2>6. QED
    BY <2>5
<1>5. QED
  BY <1>3, <1>4 DEF Waiting

(* An issue begins alone, or finds the container in use. *)
LEMMA SessionIssue ==
  ASSUME Kept, Typed, SerialInv, NEW r \in Runtimes, NEW j \in Jobs, Issue(r, j)
  PROVE  SerialInv' \/ \E p \in Pids : InUse(p) /\ Onward(p)
<1>1. \A q \in Runtimes : pc[q] \in Rest \cup Waiting
  BY DEF Issue, MayIssue, Kept, Waiting
<1>2. CASE AtRest
  BY <1>2, SerialIssueAlone
<1>3. CASE ~AtRest
  <2>1. PICK s \in Runtimes : pc[s] \in Waiting
    BY <1>1, <1>3 DEF AtRest
  <2>2. PICK p \in Pids : InUse(p)
    BY <1>1, <2>1, FirstOverlap
  <2>3. QED
    BY <2>2, InUseIssue
<1>4. QED
  BY <1>2, <1>3

(* What every step is: a step of a single command, or one of a container in use. *)
LEMMA SessionStep ==
  ASSUME Kept, Typed, OwnChild, SessionInv, [Next]_vars
  PROVE  \/ SerialInv /\ SerialInv'
         \/ \E p \in Pids : InUse(p) /\ Onward(p)
<1>1. CASE UNCHANGED vars
  <2>1. UNCHANGED <<pc, mem, child, job, file, dir, linked, proc>>
    BY <1>1 DEF vars, fileVars, procVars, cmdVars
  <2>2. LiveInits' = LiveInits
    BY <2>1 DEF LiveInits, Live
  <2>3. CASE SerialInv
    BY <2>1, <2>2, <2>3 DEF SerialInv, Busy, AtRest
  <2>4. ASSUME NEW p \in Pids, InUse(p) PROVE Onward(p)
    BY <2>1, <2>2, <2>4 DEF InUse, Onward, Over, Busy
  <2>5. QED
    BY <2>3, <2>4 DEF SessionInv
<1>2. ASSUME NEW r \in Runtimes, NEW j \in Jobs, Issue(r, j)
      PROVE  (SerialInv /\ SerialInv') \/ \E p \in Pids : InUse(p) /\ Onward(p)
  BY <1>2, SessionIssue, InUseIssue DEF SessionInv
<1>3. ASSUME NEW r \in Runtimes, Step(r) \/ ExecSessionEnds(r) \/ Crash(r)
      PROVE  (SerialInv /\ SerialInv') \/ \E p \in Pids : InUse(p) /\ Onward(p)
  <2>1. Calm /\ (Step(r) \/ ExecSessionEnds(r))
    BY <1>3 DEF Kept, Calm, Crash
  <2>2. SerialInv => SerialInv'
    BY <2>1, SerialStepCreate, SerialStepStart, SerialStepExec, SerialStepDelete DEF Step
  <2>3. QED
    BY <2>1, <2>2, InUseStep DEF SessionInv
<1>4. ASSUME NEW q \in Pids, Kernel(q)
      PROVE  (SerialInv /\ SerialInv') \/ \E p \in Pids : InUse(p) /\ Onward(p)
  BY <1>4, SerialKernel, InUseKernel DEF SessionInv
<1>5. QED
  BY <1>1, <1>2, <1>3, <1>4 DEF Next

LEMMA SessionAlways == ASSUME Kept PROVE Spec => []SessionInv
<1>1. Init => SessionInv
  BY SerialInit DEF SessionInv
<1>2. SessionInv /\ Typed /\ OwnChild /\ [Next]_vars => SessionInv'
  BY SessionStep DEF SessionInv, Onward
<1>3. QED
  BY <1>1, <1>2, TypedAlways, StartKeepsItsChild, PTL DEF Spec

-----------------------------------------------------------------------------
(* What a user may rely on who keeps a container and uses it through several
   commands at a time. *)

LEMMA InUseInvariants ==
  ASSUME Typed, NEW p \in Pids, InUse(p)
  PROVE  OneInit /\ InitIsRecorded /\ StoppedMeansDead /\ RestIsReadable
<1>0. /\ file \in {Running(p), Stopped, Empty} /\ dir /\ LiveInits \subseteq {p}
      /\ file # Running(p) => LiveInits = {}
  BY DEF InUse, Over
<1>1. OneInit
  <2>1. Cardinality({}) = 0
    BY FS_EmptySet
  <2>2. Cardinality({p}) = 1
    BY FS_Singleton
  <2>3. LiveInits = {} \/ LiveInits = {p}
    BY <1>0
  <2>4. QED
    BY <2>1, <2>2, <2>3 DEF OneInit
<1>2. InitIsRecorded
  BY <1>0 DEF InitIsRecorded
<1>3. StoppedMeansDead
  BY <1>0, FilesDiffer DEF StoppedMeansDead
<1>4. RestIsReadable
  <2>1. AtRest => file # Empty
    BY DEF InUse, AtRest, Rest
  <2>2. file # Empty => file \in Records
    BY <1>0, RecordFacts
  <2>3. dir = StateExists
    BY <1>0, FilesDiffer DEF Typed, TypeOK, StateExists
  <2>4. QED
    BY <2>1, <2>2, <2>3 DEF RestIsReadable
<1>5. QED
  BY <1>1, <1>2, <1>3, <1>4

(* No exec, state or second start, however they overlap, starts a second
   process of the container. *)
THEOREM OneProcessInUse == ASSUME Kept PROVE Spec => []OneInit
<1>1. Typed /\ SessionInv => OneInit
  BY SerialOneInit, InUseInvariants DEF SessionInv
<1>2. QED
  BY <1>1, TypedAlways, SessionAlways, PTL

(* While attached starts and sessions wait, the file names the live process: the
   next exec finds it, and no session that ends has replaced the record. *)
THEOREM ProcessOnRecordInUse == ASSUME Kept PROVE Spec => []InitIsRecorded
<1>1. Typed /\ SessionInv => InitIsRecorded
  BY SerialRecorded, InUseInvariants DEF SessionInv
<1>2. QED
  BY <1>1, TypedAlways, SessionAlways, PTL

(* exec-design.md: "Mark container stopped only when init PID is genuinely
   dead", also when sessions look at a pid they loaded long ago and when several
   of them and the attached start save stopped at the same time. *)
THEOREM StoppedIsDeadInUse == ASSUME Kept PROVE Spec => []StoppedMeansDead
<1>1. Typed /\ SessionInv => StoppedMeansDead
  BY SerialStopped, InUseInvariants DEF SessionInv
<1>2. QED
  BY <1>1, TypedAlways, SessionAlways, PTL

(* Concurrent saves of stopped leave a record that loads: what they truncate they
   write again, and they all write the same. *)
THEOREM ReadableInUse == ASSUME Kept PROVE Spec => []RestIsReadable
<1>1. Typed /\ SessionInv => RestIsReadable
  BY SerialReadable, InUseInvariants DEF SessionInv
<1>2. QED
  BY <1>1, TypedAlways, SessionAlways, PTL

(* While a container is in use the only exits that leave something behind are the
   ends of saves of stopped. *)
LEMMA InUseExit ==
  ASSUME Kept, Typed, OwnChild, CourseInv, NEW p \in Pids, InUse(p), NEW r \in Runtimes,
         pc[r] \notin Rest, pc'[r] \in Rest, Step(r) \/ ExecSessionEnds(r)
  PROVE  Outcome(r)
<1> USE DEF At, Pcs, Rest, Waiting, Goto
<1>0. /\ Busy(r) /\ "disk" \notin Faults /\ dir
      /\ AtWork(pc[r], mem[r], child[r], job[r], p, file, r \in linked)
      /\ OnCourse(pc[r], mem[r], child[r], job[r])
      /\ ~job[r].rm /\ (job[r].attach => ~job[r].pidfile /\ job[r].op # "exec")
  BY InUseFacts DEF Kept, Calm, Busy, CourseInv
<1>1. CASE WriteFile(r)
  <2>1. /\ pc[r] = "flush" /\ mem[r] = Stopped /\ r \in linked /\ file \in {Empty, Stopped}
        /\ job[r].op = "exec" \/ job[r].attach
    BY <1>0, <1>1 DEF WriteFile, AtWork
  <2>2. file' = Stopped /\ LiveInits = {}
    BY <1>0, <1>1, <2>1 DEF WriteFile, FlushRecord, Overlay, InUse, Over, Saving
  <2>3. job[r].op = "exec" \/ child[r] \in readied
    BY <1>0, <2>1 DEF OnCourse, Saving, Stopped
  <2>4. QED
    BY <1>0, <2>1, <2>2, <2>3, JobFacts DEF Outcome, Achieved
<1>2. ~LoadSpec(r) /\ ~WritePidFile(r) /\ ~DeleteLoad(r) /\ ~Rmdir(r)
  BY <1>0 DEF LoadSpec, WritePidFile, DeleteLoad, Rmdir, AtWork
<1>3. CASE \/ CheckExists(r) \/ LoadForStart(r) \/ PrepareFails(r) \/ AwaitFailure(r)
           \/ OpenPidFile(r) \/ ExecLoad(r) \/ ExecProbe(r) \/ ExecSessionEnds(r) \/ Query(r)
  BY <1>0, <1>3, PlainExits
<1>4. CASE \/ StatDir(r) \/ MakeDir(r) \/ OpenFile(r) \/ CloneInit(r) \/ AwaitReady(r) \/ WaitInit(r)
           \/ Sigterm(r) \/ CheckKilled(r) \/ Sigkill(r) \/ Unlink(r)
  <2>1. pc[r] # "mkdir"
    BY <1>0 DEF AtWork
  <2>2. QED
    BY <1>0, <1>4, <2>1, OtherExits
<1>5. QED
  BY <1>1, <1>2, <1>3, <1>4 DEF Step

(* Also while starts and sessions wait the exit status tells the outcome: a
   detached start's own child is on record and in the pid file when it returns
   0, and an attached start returns when its child is reaped and stopped is on
   record, whoever else saves it. *)
THEOREM StatusTellsOutcomeInUse == ASSUME Kept PROVE Spec => ExitTellsOutcome
<1>1. ASSUME Typed, OwnChild, CourseInv, SessionInv, [Next]_vars, NEW r \in Runtimes,
             pc[r] \notin Rest, pc'[r] \in Rest
      PROVE  Outcome(r)
  <2>1. CASE SerialInv
    BY <1>1, <2>1, SerialExit DEF Kept
  <2>2. ASSUME NEW p \in Pids, InUse(p) PROVE Outcome(r)
    <3>1. Step(r) \/ ExecSessionEnds(r)
      BY <1>1, OwnExit DEF Busy, Kept, Calm, Crash
    <3>2. QED
      BY <1>1, <2>2, <3>1, InUseExit
  <2>3. QED
    BY <1>1, <2>1, <2>2 DEF SessionInv
<1>2. Typed /\ OwnChild /\ CourseInv /\ SessionInv /\ [Next]_vars
        => [\A r \in Runtimes : pc[r] \notin Rest /\ pc'[r] \in Rest =>
              /\ pc'[r] = "ok" => Achieved(job[r], child[r])
              /\ job[r].op = "delete" \/ job[r].rm => Removed(r)]_vars
  BY <1>1 DEF Outcome
<1>3. QED
  BY <1>2, TypedAlways, StartKeepsItsChild, CourseAlways, SessionAlways, PTL
     DEF ExitTellsOutcome, Spec

(* The end of a session changes the record only to stopped and only when nothing
   of the container lives, whichever of several sessions comes first. *)
THEOREM ExecNotesDeathInUse == ASSUME Kept PROVE Spec => ExecOnlyNotesDeath
<1>1. ASSUME Typed, SessionInv, [Next]_vars, NEW r \in Runtimes,
             job[r].op = "exec", pc[r] = "flush", pc'[r] \in Rest
      PROVE  file' = Stopped /\ LiveInits = {}
  <2>1. CASE SerialInv
    BY <1>1, <2>1, SerialExecSave DEF Kept
  <2>2. ASSUME NEW p \in Pids, InUse(p) PROVE file' = Stopped /\ LiveInits = {}
    <3>1. Busy(r) /\ ~Busy(r)'
      BY <1>1 DEF Busy, Rest
    <3>2. r \in linked /\ mem[r] = Stopped /\ LiveInits = {} /\ file \in {Empty, Stopped}
      BY <1>1, <2>2, <3>1 DEF InUse, AtWork, Over, Saving
    <3>3. WriteFile(r) /\ "disk" \notin Faults
      BY <1>1, <3>1, OwnExit, ExitSteps DEF Kept, Calm
    <3>4. QED
      BY <3>2, <3>3 DEF WriteFile, FlushRecord, Overlay
  <2>3. QED
    BY <1>1, <2>1, <2>2 DEF SessionInv
<1>2. Typed /\ SessionInv /\ [Next]_vars
        => [\A r \in Runtimes : job[r].op = "exec" /\ pc[r] = "flush" /\ pc'[r] \in Rest
              => file' = Stopped /\ LiveInits = {}]_vars
  BY <1>1
<1>3. QED
  BY <1>2, TypedAlways, SessionAlways, PTL DEF ExecOnlyNotesDeath, Spec

-----------------------------------------------------------------------------
(* The lifecycle *)

SeenAs(p) ==
  /\ abstractRecord = IF file = Running(p) THEN "running" ELSE "stopped"
  /\ abstractInit = IF LiveInits # {} THEN "live" ELSE "dead"

LEMMA SeenInUse ==
  ASSUME Typed, NEW p \in Pids, InUse(p)
  PROVE  SeenAs(p)
<1> USE DEF SeenAs
<1>1. file \in {Running(p), Stopped, Empty}
  BY DEF InUse
<1>2. CASE file = Empty
  <2>1. pc[Saver] = "flush" /\ Saver \in Runtimes
    BY <1>2 DEF InUse, Saver
  <2>2. mem[Saver] = Stopped
    BY <2>1 DEF InUse, AtWork, Busy, Rest
  <2>3. QED
    BY <1>2, <2>2, FilesDiffer DEF abstractRecord, abstractInit, Stopped
<1>3. CASE file \in {Running(p), Stopped}
  BY <1>3, FilesDiffer DEF abstractRecord, abstractInit, Running, Stopped
<1>4. QED
  BY <1>1, <1>2, <1>3

LEMMA SeenInUseNext ==
  ASSUME NEW p \in Pids
  PROVE  (Typed /\ InUse(p) => SeenAs(p))'
<1>1. Typed /\ InUse(p) => SeenAs(p)
  BY SeenInUse
<1>2. QED
  BY <1>1, PTL

(* The record goes from running to stopped once, at the first truncation. *)
LEMMA InUseSimulates ==
  ASSUME Typed, Typed', NEW p \in Pids, InUse(p), Onward(p)
  PROVE  LifecycleStep
<1>1. SeenAs(p) /\ SeenAs(p)'
  BY SeenInUse, SeenInUseNext DEF Onward
<1>2. /\ LiveInits' \subseteq LiveInits
      /\ file' = file \/ (file' # Running(p) /\ LiveInits = {})
      /\ file # Running(p) => LiveInits = {}
  BY DEF Onward, InUse, Over
<1>3. CASE file' = file
  BY <1>1, <1>2, <1>3 DEF SeenAs, LifecycleStep, Abstract!Next, Abstract!Exit
<1>4. CASE file' # Running(p) /\ LiveInits = {}
  BY <1>1, <1>2, <1>4 DEF SeenAs, LifecycleStep, Abstract!Next, Abstract!NoteStopped
<1>5. QED
  BY <1>2, <1>3, <1>4

(* In a container that nobody deletes every step of every command, through the
   overlap of sessions, of the attached start and of their saves, is a step of the
   documented lifecycle or is not seen in it. *)
THEOREM SessionsImplementLifecycle == ASSUME Kept PROVE Spec => ImplementsLifecycle
<1>1. Typed /\ OwnChild /\ SessionInv /\ Typed' /\ [Next]_vars
        => [Abstract!Next]_<<abstractRecord, abstractInit>>
  <2> SUFFICES ASSUME Typed, OwnChild, SessionInv, Typed', [Next]_vars PROVE LifecycleStep
    BY DEF LifecycleStep
  <2>1. CASE SerialInv /\ SerialInv'
    BY <2>1, EveryStepSimulates DEF Kept, Sound
  <2>2. ASSUME NEW p \in Pids, InUse(p), Onward(p) PROVE LifecycleStep
    BY <2>2, InUseSimulates
  <2>3. QED
    BY <2>1, <2>2, SessionStep
<1>2. QED
  BY <1>1, InitSimulates, TypedAlways, StartKeepsItsChild, SessionAlways, PTL
     DEF ImplementsLifecycle, Abstract!Spec, Spec
=============================================================================
