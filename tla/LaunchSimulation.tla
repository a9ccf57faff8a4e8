--------------------------- MODULE LaunchSimulation ---------------------------
(***************************************************************************)
(* The launch of a container, call by call, is the launch that Runtime     *)
(* assumes: for every set of bundles, in any host, whoever is killed when. *)
(***************************************************************************)
EXTENDS LaunchProofs

(* What the steps of Launch show of Runtime's variables. *)
Cloned  == child # "none"
Readied == byte = "1"

Free == [st |-> "free", par |-> "nobody", ready |-> FALSE]

-----------------------------------------------------------------------------
(* Runtime's steps, in terms of the slot, the control state and these two. *)

LEMMA SeeNothing ==
  ASSUME UNCHANGED <<Slot, Control, Cloned, Readied>>
  PROVE  UNCHANGED (Coarse!vars)
BY DEF Coarse!vars, Coarse!fileVars, Coarse!procVars, Coarse!cmdVars, Cloned, Readied

LEMMA Only ==
  ASSUME NEW a, NEW x, NEW y
  PROVE  [[s \in {a} |-> x] EXCEPT ![a] = y] = [s \in {a} |-> y]
OBVIOUS

Held(control) == CASE control = "statdir" -> Record("running")
                   [] control = "fail"    -> Record("absent")
                   [] OTHER               -> Record("created")

Known(control) == IF control \in {"read", "statdir"} THEN "init" ELSE "none"

(* The start ends. *)
LEMMA SeeExit ==
  ASSUME NEW m, NEW c, NEW table, Control' = "fail",
         [p \in {"init"} |-> Slot'] = Coarse!Orphan("start", table)
  PROVE  Coarse!Proceed("start", "fail", m, c, table)
<1>1. EndedJob = Coarse!NoJob /\ Record("absent") = Coarse!Absent
  <2>1. EndedJob = Coarse!NoJob
    BY DEF EndedJob, Detached, Coarse!NoJob
  <2>2. Record("absent") = Coarse!Absent
    BY DEF Record, Coarse!Absent
  <2>3. QED
    BY <2>1, <2>2
<1>2. [r \in {"start"} |-> Control]' = [[r \in {"start"} |-> Control] EXCEPT !["start"] = "fail"]
  BY Only
<1>3. [r \in {"start"} |-> IF Control = "fail" THEN EndedJob ELSE StartJob]'
        = [[r \in {"start"} |-> IF Control = "fail" THEN EndedJob ELSE StartJob]
             EXCEPT !["start"] = Coarse!NoJob]
  BY <1>1, Only
<1>4. [r \in {"start"} |-> Held(Control)]'
        = [[r \in {"start"} |-> Held(Control)] EXCEPT !["start"] = Coarse!Absent]
  BY <1>1, Only DEF Held
<1>5. [r \in {"start"} |-> Known(Control)]'
        = [[r \in {"start"} |-> Known(Control)] EXCEPT !["start"] = "none"]
  BY Only DEF Known
<1>6. QED
  BY <1>2, <1>3, <1>4, <1>5 DEF Coarse!Proceed, Coarse!Rest, Held, Known

(* The start goes on. *)
LEMMA SeeMove ==
  ASSUME NEW t, Control' = t, t \notin {"ok", "fail"}, Control # "fail"
  PROVE  Coarse!Proceed("start", t, Held(t), Known(t), [p \in {"init"} |-> Slot'])
<1>2. [r \in {"start"} |-> Control]' = [[r \in {"start"} |-> Control] EXCEPT !["start"] = t]
  BY Only
<1>3. [r \in {"start"} |-> IF Control = "fail" THEN EndedJob ELSE StartJob]'
        = [r \in {"start"} |-> IF Control = "fail" THEN EndedJob ELSE StartJob]
  OBVIOUS
<1>4. [r \in {"start"} |-> Held(Control)]'
        = [[r \in {"start"} |-> Held(Control)] EXCEPT !["start"] = Held(t)]
  BY Only DEF Held
<1>5. [r \in {"start"} |-> Known(Control)]'
        = [[r \in {"start"} |-> Known(Control)] EXCEPT !["start"] = Known(t)]
  BY Only DEF Known
<1>6. QED
  BY <1>2, <1>3, <1>4, <1>5 DEF Coarse!Proceed, Coarse!Rest, Held, Known

(* Runtime's steps. *)
LEMMA SeePrepareFails ==
  ASSUME Control = "clone", Control' = "fail", Slot = Free, Slot' = Free,
         UNCHANGED <<Cloned, Readied>>
  PROVE  Coarse!Next
<1>1. [p \in {"init"} |-> Slot'] = Coarse!Orphan("start", [p \in {"init"} |-> Slot])
  BY DEF Coarse!Orphan, Free
<1>2. Coarse!PrepareFails("start")
  BY <1>1, SeeExit
     DEF Coarse!PrepareFails, Coarse!At, Coarse!Goto, Coarse!AfterFailedStart,
         Coarse!fileVars, Cloned, Readied, StartJob, Detached
<1>3. QED
  BY <1>2 DEF Coarse!Next, Coarse!Step

LEMMA SeeCrash ==
  ASSUME Control \in {"clone", "read", "statdir"}, Control' = "fail",
         [p \in {"init"} |-> Slot'] = Coarse!Orphan("start", [p \in {"init"} |-> Slot]),
         UNCHANGED <<Cloned, Readied>>
  PROVE  Coarse!Next
<1>1. Coarse!Crash("start")
  BY SeeExit
     DEF Coarse!Crash, Coarse!Goto, Coarse!Rest, Coarse!DropRecord, Cloned, Readied
<1>2. QED
  BY <1>1 DEF Coarse!Next

LEMMA SeeClone ==
  ASSUME Control = "clone", Control' = "read", ~Cloned, Cloned', Slot = Free,
         Slot' = [st |-> "setup", par |-> "start", ready |-> FALSE], UNCHANGED Readied
  PROVE  Coarse!Next
<1>1. "init" \in Coarse!Available
  BY DEF Coarse!Available, Free, Cloned
<1>2. [p \in {"init"} |-> Slot']
        = [[p \in {"init"} |-> Slot] EXCEPT !["init"] =
             [st |-> "setup", par |-> "start", ready |-> FALSE]]
  BY Only
<1>3. Coarse!Proceed("start", "read", Held("read"), Known("read"), [p \in {"init"} |-> Slot'])
  BY SeeMove
<1>4. Held("read") = Held(Control) /\ Known("read") = "init"
  BY DEF Held, Known
<1>5. Coarse!CloneInit("start")
  BY <1>1, <1>2, <1>3, <1>4
     DEF Coarse!CloneInit, Coarse!fileVars, Cloned, Readied, Held
<1>6. QED
  BY <1>5 DEF Coarse!Next, Coarse!Step

LEMMA SeeReady ==
  ASSUME Control = "read", Control' = "statdir", Slot.ready,
         Slot' = [Slot EXCEPT !.ready = FALSE], UNCHANGED <<Cloned, Readied>>
  PROVE  Coarse!Next
<1> DEFINE table == [p \in {"init"} |-> Slot]
<1>1. [p \in {"init"} |-> Slot'] = [table EXCEPT !["init"].ready = FALSE]
  BY Only
<1>2. Coarse!Proceed("start", "statdir", Held("statdir"), Known("statdir"), [p \in {"init"} |-> Slot'])
  BY SeeMove
<1>3. Held("statdir") = Coarse!Running("init") /\ Known("statdir") = "init" /\ Known(Control) = "init"
  BY DEF Held, Known, Record, Coarse!Running
<1>4. Coarse!AwaitReady("start")
  BY <1>1, <1>2, <1>3
     DEF Coarse!AwaitReady, Coarse!ReadyByte, Coarse!At, Coarse!fileVars, Cloned, Readied, Known
<1>5. QED
  BY <1>4 DEF Coarse!Next, Coarse!Step

LEMMA SeeFailure ==
  ASSUME Control = "read", Control' = "fail", Slot.st = "zombie", ~Slot.ready, Slot' = Free,
         UNCHANGED <<Cloned, Readied>>
  PROVE  Coarse!Next
<1> DEFINE table == [[p \in {"init"} |-> Slot] EXCEPT !["init"] = Coarse!NoProcess]
<1>1. table = [p \in {"init"} |-> Free]
  BY Only DEF Coarse!NoProcess, Free
<1>3. Known(Control) = "init"
  BY DEF Known
<1> HIDE DEF table
<1>2. [p \in {"init"} |-> Slot'] = Coarse!Orphan("start", table)
  BY <1>1 DEF Coarse!Orphan, Free
<1>4. Coarse!Proceed("start", "fail", Held("read"), "none", table)
  BY <1>2, SeeExit
<1>5. Coarse!AwaitFailure("start")
  BY <1>3, <1>4
     DEF Coarse!AwaitFailure, Coarse!NoReadyByte, Coarse!At, Coarse!AfterFailedStart,
         Coarse!fileVars, Cloned, Readied, Known, Held, StartJob, Detached, table
<1>6. QED
  BY <1>5 DEF Coarse!Next, Coarse!Step

(* The child's steps leave Control alone. *)
LEMMA SeeChild ==
  ASSUME UNCHANGED Control, Coarse!ProcNext("init")
  PROVE  Coarse!Next
<1>1. Coarse!Kernel("init")
  BY DEF Coarse!Kernel, Coarse!fileVars, Coarse!cmdVars
<1>2. QED
  BY <1>1 DEF Coarse!Next

LEMMA SeeChildReady ==
  ASSUME UNCHANGED <<Control, Cloned>>, Cloned, NEW par, NEW ready,
         Slot = [st |-> "setup", par |-> par, ready |-> ready],
         IF par = "nobody"
         THEN Slot' = [st |-> "ready", par |-> par, ready |-> ready] /\ UNCHANGED Readied
         ELSE Slot' = [st |-> "ready", par |-> par, ready |-> TRUE] /\ Readied'
  PROVE  Coarse!Next
<1> DEFINE table == [p \in {"init"} |-> Slot]
<1>1. CASE par = "nobody"
  <2>1. [p \in {"init"} |-> Slot'] = [table EXCEPT !["init"].st = "ready"]
    BY <1>1
  <2>2. Coarse!ChildReady("init")
    BY <1>1, <2>1 DEF Coarse!ChildReady, Cloned, Readied
  <2>3. QED
    BY <2>2, SeeChild DEF Coarse!ProcNext
<1>2. CASE par # "nobody"
  <2>1. [p \in {"init"} |-> Slot'] = [table EXCEPT !["init"].st = "ready", !["init"].ready = TRUE]
    BY <1>2
  <2>2. (IF byte = "1" THEN {"init"} ELSE {})' = (IF byte = "1" THEN {"init"} ELSE {}) \cup {"init"}
    BY <1>2 DEF Readied
  <2>3. Coarse!ChildReady("init")
    BY <1>2, <2>1, <2>2 DEF Coarse!ChildReady, Cloned
  <2>4. QED
    BY <2>3, SeeChild DEF Coarse!ProcNext
<1>3. QED
  BY <1>1, <1>2

LEMMA SeeChildExec ==
  ASSUME UNCHANGED <<Control, Cloned, Readied>>, NEW par, NEW ready,
         Slot = [st |-> "ready", par |-> par, ready |-> ready],
         Slot' = [st |-> "running", par |-> par, ready |-> ready]
  PROVE  Coarse!Next
<1> DEFINE table == [p \in {"init"} |-> Slot]
<1>1. [p \in {"init"} |-> Slot'] = [table EXCEPT !["init"].st = "running"]
  OBVIOUS
<1>2. Coarse!ChildExec("init")
  BY <1>1 DEF Coarse!ChildExec, Cloned, Readied
<1>3. QED
  BY <1>2, SeeChild DEF Coarse!ProcNext

LEMMA SeeExitOfChild ==
  ASSUME UNCHANGED <<Control, Cloned, Readied>>,
         NEW st \in {"setup", "ready", "running"}, NEW par, NEW ready,
         Slot = [st |-> st, par |-> par, ready |-> ready],
         Slot' = IF par = "nobody" THEN Free ELSE [st |-> "zombie", par |-> par, ready |-> ready]
  PROVE  Coarse!Next
<1> DEFINE table == [p \in {"init"} |-> Slot]
<1>1. [p \in {"init"} |-> Slot'] = Coarse!Exited("init")
  <2>1. CASE par = "nobody"
    <3>1. [p \in {"init"} |-> Slot'] = [table EXCEPT !["init"] = Coarse!NoProcess]
      BY <2>1 DEF Coarse!NoProcess, Free
    <3>2. QED
      BY <2>1, <3>1 DEF Coarse!Exited
  <2>2. CASE par # "nobody"
    <3>1. [p \in {"init"} |-> Slot'] = [table EXCEPT !["init"].st = "zombie"]
      BY <2>2
    <3>2. QED
      BY <2>2, <3>1 DEF Coarse!Exited
  <2>3. QED
    BY <2>1, <2>2
<1>2. Coarse!ProcExit("init")
  BY <1>1 DEF Coarse!ProcExit, Cloned, Readied
<1>3. QED
  BY <1>2, SeeChild DEF Coarse!ProcNext

-----------------------------------------------------------------------------
(* What the two processes know of each other through the pipe. *)

Between == {"close", "read", "finish", "ok", "abandon", "reap"}
Alive   == Setup \cup {"exec"}

Pipe ==
  /\ parent \in Early \cup Between \cup {"fail", "crashed", "segv"}
  /\ child \in {"none", "program", "reaped"} \cup Alive \cup Gone
  /\ parent \in Early \cup {"segv"} => child = "none"
  /\ parent = "fail" => child \in {"none", "reaped"}
  /\ parent \in Between => child \notin {"none", "reaped"}
  /\ parent = "clone" => parentFds = {"r", "w"}
  /\ parent \in {"reap", "ok", "crashed"} => parentFds = {}
  /\ parent \in {"close", "read", "finish", "abandon"} => "r" \in parentFds
  /\ child \in Alive => "w" \in childFds
  /\ parent \in Early \cup {"close", "read"} => ~taken
  /\ parent \in {"finish", "ok"} => byte = "1" /\ taken
  /\ parent \in {"abandon", "reap"} =>
       byte # "1" /\ (byte = "none" => child \in Gone \cup {"program"})
  /\ child \in {"none"} \cup (Setup \ {"leave"}) => byte = "none"

LEMMA PipeInit == Init => Pipe
BY DEF Init, Pipe, Early, Between, Alive, Setup

LEMMA PipeStep ==
  ASSUME Pipe, [Next]_vars
  PROVE  Pipe'
<1> USE DEF Pipe, Early, Between, Alive, Setup, Gone
<1>1. CASE LoadBundle \/ BuildContext
  BY <1>1 DEF LoadBundle, BuildContext
<1>2. CASE Prepare
  BY <1>2 DEF Prepare
<1>3. CASE Clone
  BY <1>3 DEF Clone
<1>4. CASE CloseWriteEnd
  BY <1>4 DEF CloseWriteEnd
<1>5. CASE Read
  BY <1>5 DEF Read, Readable, Verdict
<1>6. CASE Finish \/ Abandon \/ Reap
  BY <1>6 DEF Finish, Abandon, Reap
<1>7. CASE Crash
  BY <1>7 DEF Crash, Returned
<1>8. CASE CloseReadEnd \/ MakePrivate \/ BindSelf \/ RetryPrivate \/ MountDefaults
  BY <1>8 DEF CloseReadEnd, MakePrivate, BindSelf, RetryPrivate, MountDefaults, Mounting, parentVars
<1>9. CASE BindNewRoot \/ PivotRoot \/ ChdirNewRoot \/ DetachOldRoot
  BY <1>9 DEF BindNewRoot, PivotRoot, ChdirNewRoot, DetachOldRoot, Mounting, parentVars
<1>10. CASE ReportReady
  BY <1>10 DEF ReportReady, Tell, parentVars
<1>11. CASE ReportError
  BY <1>11 DEF ReportError, Tell, parentVars
<1>12. CASE Exec \/ Leave \/ End
  BY <1>12 DEF Exec, Leave, End, parentVars
<1>13. CASE UNCHANGED vars
  BY <1>13 DEF vars, parentVars
<1>14. QED
  BY <1>1, <1>2, <1>3, <1>4, <1>5, <1>6, <1>7, <1>8, <1>9, <1>10, <1>11, <1>12, <1>13
     DEF Next, ParentStep, ChildStep

-----------------------------------------------------------------------------
(* The slot *)

Orphaned == parent = "crashed"
Par      == IF Orphaned THEN "nobody" ELSE "start"
Unread   == byte = "1" /\ ~taken /\ ~Orphaned

SlotReads ==
  /\ child \in {"none", "reaped"} => Slot = Free
  /\ child \in Setup => Slot = [st |-> "setup", par |-> Par, ready |-> Unread]
  /\ child = "exec" => Slot = [st |-> "ready", par |-> Par, ready |-> Unread]
  /\ child = "program" => Slot = [st |-> "running", par |-> Par, ready |-> Unread]
  /\ child \in Gone => Slot = IF Orphaned THEN Free
                              ELSE [st |-> "zombie", par |-> Par, ready |-> Unread]

LEMMA SlotShape == SlotReads /\ SlotReads'
<1>1. SlotReads
  BY DEF SlotReads, Slot, Free, Par, Unread, Orphaned, Setup, Gone
<1>2. SlotReads'
  BY DEF SlotReads, Slot, Free, Par, Unread, Orphaned, Setup, Gone
<1>3. QED
  BY <1>1, <1>2

-----------------------------------------------------------------------------
(* The steps *)

CoarseStep == Coarse!Next \/ UNCHANGED (Coarse!vars)

(* What the caller has not cloned yet, or will not, Runtime sees fail or not. *)
LEMMA SimulateBefore ==
  ASSUME Pipe, Pipe', LoadBundle \/ BuildContext \/ Prepare \/ Clone
  PROVE  CoarseStep
<1>1. /\ parent \in Early /\ child = "none" /\ Slot = Free /\ Control = "clone" /\ byte' = byte
      /\ byte = "none"
  BY SlotShape
     DEF Pipe, Early, SlotReads, Control, LoadBundle, BuildContext, Prepare, Clone
<1>2. CASE child' = "none" /\ parent' \in Early
  <2>1. Slot' = Free /\ Control' = "clone"
    BY <1>2, SlotShape DEF SlotReads, Control, Early
  <2>2. QED
    BY <1>1, <1>2, <2>1, SeeNothing DEF CoarseStep, Cloned, Readied
<1>3. CASE child' = "none" /\ parent' \in {"fail", "segv"}
  <2>1. Slot' = Free /\ Control' = "fail"
    BY <1>3, SlotShape DEF SlotReads, Control
  <2>2. QED
    BY <1>1, <1>3, <2>1, SeePrepareFails DEF CoarseStep, Cloned, Readied
<1>4. CASE child' = "start" /\ parent' = "close"
  <2>1. Par' = "start" /\ ~Unread'
    BY <1>1, <1>4 DEF Par, Unread, Orphaned
  <2>2. Slot' = [st |-> "setup", par |-> "start", ready |-> FALSE] /\ Control' = "read"
    BY <1>4, <2>1, SlotShape DEF SlotReads, Control, Setup
  <2>3. QED
    BY <1>1, <1>4, <2>2, SeeClone DEF CoarseStep, Cloned, Readied
<1>5. QED
  BY <1>1, <1>2, <1>3, <1>4 DEF LoadBundle, BuildContext, Prepare, Clone, Early

LEMMA SimulateWait ==
  ASSUME Pipe, Pipe', CloseWriteEnd \/ Read \/ Finish \/ Abandon \/ Reap
  PROVE  CoarseStep
<1> USE DEF CoarseStep
<1>0. /\ byte' = byte /\ child # "none" /\ child' # "none" /\ ~Orphaned /\ ~Orphaned'
      /\ UNCHANGED <<Cloned, Readied, Par>>
  BY DEF CloseWriteEnd, Read, Readable, Verdict, Finish, Abandon, Reap, Pipe, Between, Early, Orphaned,
         Cloned, Readied, Par
<1>1. ASSUME UNCHANGED <<child, Unread>>
      PROVE  UNCHANGED Slot
  BY <1>0, <1>1 DEF Slot, Orphaned, Unread
<1>2. CASE CloseWriteEnd \/ Finish \/ Abandon
  <2>1. UNCHANGED <<Control, child, Unread>>
    BY <1>0, <1>2 DEF CloseWriteEnd, Finish, Abandon, Control, Unread
  <2>2. QED
    BY <1>0, <1>1, <2>1, SeeNothing
<1>3. CASE Read
  <2>1. UNCHANGED child /\ child \notin {"none", "reaped"} /\ ~taken /\ Control = "read"
    BY <1>3 DEF Read, Readable, Pipe, Between, Early, Control
  <2>2. CASE byte = "1"
    <3>1. Control' = "statdir" /\ Unread /\ ~Unread'
      BY <1>0, <1>3, <2>1, <2>2 DEF Read, Verdict, Control, Unread
    <3>2. Slot' = [Slot EXCEPT !.ready = FALSE] /\ Slot.ready
      BY <1>0, <2>1, <3>1, SlotShape DEF SlotReads, Pipe, Alive
    <3>3. QED
      BY <1>0, <2>1, <3>1, <3>2, SeeReady
  <2>3. CASE byte # "1"
    <3>1. Control' = "read" /\ ~Unread /\ ~Unread'
      BY <1>0, <1>3, <2>3 DEF Read, Verdict, Control, Unread
    <3>2. UNCHANGED Unread
      BY <3>1 DEF Unread
    <3>3. QED
      BY <1>0, <1>1, <2>1, <3>1, <3>2, SeeNothing
  <2>4. QED
    BY <2>2, <2>3
<1>4. CASE Reap
  <2>1. child \in Gone /\ child' = "reaped" /\ Control = "read" /\ Control' = "fail" /\ ~Unread
    BY <1>0, <1>4 DEF Reap, Control, Unread, Pipe
  <2>2. Slot.st = "zombie" /\ ~Slot.ready /\ Slot' = Free
    BY <1>0, <2>1, SlotShape DEF SlotReads
  <2>3. QED
    BY <1>0, <2>1, <2>2, SeeFailure
<1>5. QED
  BY <1>2, <1>3, <1>4

LEMMA SimulateCrash ==
  ASSUME Pipe, Pipe', Crash
  PROVE  CoarseStep
<1>1. /\ Control \in {"clone", "read", "statdir"} /\ Control' = "fail" /\ child' = child
      /\ Orphaned' /\ ~Orphaned /\ UNCHANGED <<Cloned, Readied>> /\ ~Unread'
  BY DEF Crash, Control, Returned, Pipe, Early, Between, Orphaned, Unread, Cloned, Readied
<1>2. Slot' = IF Slot.par # "start" THEN Slot ELSE IF Slot.st = "zombie" THEN Free
              ELSE [Slot EXCEPT !.par = "nobody", !.ready = FALSE]
  <2>1. Par = "start" /\ Par' = "nobody" /\ Unread' = FALSE
    BY <1>1 DEF Par, Unread
  <2>2. CASE child \in {"none", "reaped"}
    <3>1. Slot = Free /\ Slot' = Free
      BY <1>1, <2>2, SlotShape DEF SlotReads
    <3>2. QED
      BY <3>1 DEF Free
  <2>3. CASE child \in Gone
    <3>1. Slot = [st |-> "zombie", par |-> "start", ready |-> Unread] /\ Slot' = Free
      BY <1>1, <2>1, <2>3, SlotShape DEF SlotReads
    <3>2. Slot.par = "start" /\ Slot.st = "zombie"
      BY <3>1
    <3>3. QED
      BY <3>1, <3>2
  <2>4. ASSUME NEW st \in {"setup", "ready", "running"}, NEW unread, NEW now, now = FALSE,
               Slot = [st |-> st, par |-> "start", ready |-> unread],
               Slot' = [st |-> st, par |-> "nobody", ready |-> now]
        PROVE  Slot' = IF Slot.par # "start" THEN Slot ELSE IF Slot.st = "zombie" THEN Free
                       ELSE [Slot EXCEPT !.par = "nobody", !.ready = FALSE]
    <3>1. [Slot EXCEPT !.par = "nobody", !.ready = now] = Slot'
      <4>1. [[st |-> st, par |-> "start", ready |-> unread] EXCEPT !.par = "nobody", !.ready = now]
              = [st |-> st, par |-> "nobody", ready |-> now]
        <5>1. [[st |-> st, par |-> "start", ready |-> unread] EXCEPT !.par = "nobody"]
                = [st |-> st, par |-> "nobody", ready |-> unread]
          OBVIOUS
        <5>2. [[st |-> st, par |-> "nobody", ready |-> unread] EXCEPT !.ready = now]
                = [st |-> st, par |-> "nobody", ready |-> now]
          OBVIOUS
        <5>3. QED
          BY <5>1, <5>2, Zenon
      <4>2. QED
        BY <2>4, <4>1, Zenon
    <3>2. [Slot EXCEPT !.par = "nobody", !.ready = now]
            = [Slot EXCEPT !.par = "nobody", !.ready = FALSE]
      BY <2>4, Zenon
    <3>3. Slot.par = "start" /\ Slot.st # "zombie"
      BY <2>4
    <3>4. QED
      BY <3>1, <3>2, <3>3, Zenon
  <2>5. CASE child \in Setup
    <3>1. /\ Slot = [st |-> "setup", par |-> "start", ready |-> Unread]
          /\ Slot' = [st |-> "setup", par |-> "nobody", ready |-> Unread']
      BY <1>1, <2>1, <2>5, SlotShape DEF SlotReads
    <3>2. QED
      BY <2>1, <2>4, <3>1
  <2>6. CASE child \in {"exec", "program"}
    <3>1. PICK st \in {"ready", "running"} :
            /\ Slot = [st |-> st, par |-> "start", ready |-> Unread]
            /\ Slot' = [st |-> st, par |-> "nobody", ready |-> Unread']
      BY <1>1, <2>1, <2>6, SlotShape DEF SlotReads
    <3>2. QED
      BY <2>1, <2>4, <3>1
  <2>7. QED
    BY <2>2, <2>3, <2>5, <2>6 DEF Pipe, Alive
<1>3. [p \in {"init"} |-> Slot'] = Coarse!Orphan("start", [p \in {"init"} |-> Slot])
  BY <1>2 DEF Coarse!Orphan, Coarse!NoProcess, Free
<1>4. QED
  BY <1>1, <1>3, SeeCrash DEF CoarseStep

(* The child on its own. *)
LEMMA SimulateChild ==
  ASSUME Pipe, Pipe', ChildStep \/ End
  PROVE  CoarseStep
<1> USE DEF CoarseStep
<1>0. /\ UNCHANGED <<parentVars, Control, Orphaned, Par>> /\ child # "none" /\ child # "reaped"
      /\ child' \notin {"none", "reaped"} /\ UNCHANGED Cloned
  <2>1. UNCHANGED parentVars /\ child # "none" /\ child # "reaped" /\ child' \notin {"none", "reaped"}
    BY DEF ChildStep, End, CloseReadEnd, MakePrivate, BindSelf, RetryPrivate, MountDefaults,
           BindNewRoot, PivotRoot, Mounting, ChdirNewRoot, DetachOldRoot, ReportReady, ReportError,
           Tell, Exec, Leave, Setup
  <2>2. QED
    BY <2>1 DEF parentVars, Control, Orphaned, Par, Cloned
<1>1. ASSUME UNCHANGED byte
      PROVE  UNCHANGED <<Readied, Unread>>
  BY <1>0, <1>1 DEF Readied, Unread, parentVars, Orphaned
<1>2. ASSUME child \in Setup, child' \in Setup, UNCHANGED byte
      PROVE  CoarseStep
  BY <1>0, <1>1, <1>2, SlotShape, SeeNothing DEF SlotReads
<1>3. ASSUME child \in Setup \cup {"exec", "program"}, child' \in Gone, UNCHANGED byte
      PROVE  CoarseStep
  <2>1. Par = IF Orphaned THEN "nobody" ELSE "start"
    BY DEF Par
  <2>2. Slot' = IF Par = "nobody" THEN Free ELSE [st |-> "zombie", par |-> Par, ready |-> Unread]
    BY <1>0, <1>1, <1>3, <2>1, SlotShape DEF SlotReads
  <2>3. PICK st \in {"setup", "ready", "running"} : Slot = [st |-> st, par |-> Par, ready |-> Unread]
    BY <1>3, SlotShape DEF SlotReads
  <2>4. QED
    BY <1>0, <1>1, <1>3, <2>2, <2>3, SeeExitOfChild
<1>4. CASE CloseReadEnd \/ MakePrivate \/ BindSelf \/ RetryPrivate \/ MountDefaults
             \/ BindNewRoot \/ PivotRoot \/ ChdirNewRoot \/ DetachOldRoot
  BY <1>2, <1>4
     DEF CloseReadEnd, MakePrivate, BindSelf, RetryPrivate, MountDefaults, BindNewRoot, PivotRoot,
         Mounting, ChdirNewRoot, DetachOldRoot, Setup
<1>5. CASE Leave \/ End \/ (Exec /\ child' = "returned")
  BY <1>3, <1>5 DEF Leave, End, Exec, Setup, Gone
<1>6. CASE Exec /\ child' = "program"
  <2>1. child = "exec" /\ UNCHANGED byte
    BY <1>6 DEF Exec
  <2>2. QED
    BY <1>0, <1>1, <1>6, <2>1, SlotShape, SeeChildExec DEF SlotReads
<1>7. ASSUME child \in Setup \ {"leave"}, "r" \notin parentFds
      PROVE  Orphaned
  BY <1>7 DEF Pipe, Between, Early, Orphaned, Setup, Gone
<1>8. CASE ReportReady
  <2>1. child = "report" /\ byte = "none" /\ child \in Setup \ {"leave"}
    BY <1>8 DEF ReportReady, Tell, Pipe, Setup
  <2>2. CASE child' = "killed"
    BY <1>3, <1>8, <2>1, <2>2 DEF ReportReady, Tell, Gone
  <2>3. CASE child' = "exec" /\ "r" \notin parentFds
    <3>1. Orphaned /\ UNCHANGED byte
      BY <1>7, <1>8, <2>1, <2>3 DEF ReportReady, Tell
    <3>2. Par = "nobody"
      BY <3>1 DEF Par
    <3>3. QED
      BY <1>0, <1>1, <2>1, <2>3, <3>1, <3>2, SlotShape, SeeChildReady DEF SlotReads, Cloned
  <2>4. CASE child' = "exec" /\ "r" \in parentFds
    <3>1. byte' = "1"
      BY <1>8, <2>4 DEF ReportReady, Tell
    <3>2. parent \in {"close", "read"}
      BY <2>1, <2>4 DEF Pipe, Between, Early, Setup, Gone
    <3>3. ~Orphaned /\ ~taken /\ Par = "start"
      BY <3>2 DEF Pipe, Orphaned, Par
    <3>4. Unread' = TRUE /\ Readied'
      BY <1>0, <3>1, <3>3 DEF Unread, Readied, parentVars
    <3>5. Slot = [st |-> "setup", par |-> "start", ready |-> Unread]
      BY <2>1, <3>3, SlotShape DEF SlotReads
    <3>6. Slot' = [st |-> "ready", par |-> "start", ready |-> TRUE]
      BY <1>0, <2>4, <3>3, <3>4, SlotShape DEF SlotReads
    <3>7. Cloned
      BY <1>0 DEF Cloned
    <3>8. QED
      BY <1>0, <3>4, <3>5, <3>6, <3>7, SeeChildReady
  <2>5. QED
    BY <1>8, <2>2, <2>3, <2>4 DEF ReportReady, Tell
<1>9. CASE ReportError
  <2>1. child = "error" /\ byte = "none"
    BY <1>9 DEF ReportError, Tell, Pipe, Setup
  <2>2. CASE child' = "killed"
    BY <1>3, <1>9, <2>1, <2>2 DEF ReportError, Tell, Gone, Setup
  <2>3. CASE child' = "leave"
    <3>1. byte' # "1"
      BY <1>9, <2>1 DEF ReportError, Tell
    <3>2. UNCHANGED <<Readied, Unread>>
      BY <2>1, <3>1 DEF Readied, Unread
    <3>3. QED
      BY <1>0, <2>1, <2>3, <3>2, SlotShape, SeeNothing DEF SlotReads, Setup
  <2>4. QED
    BY <1>9, <2>2, <2>3 DEF ReportError, Tell
<1>10. QED
  BY <1>4, <1>5, <1>6, <1>8, <1>9 DEF ChildStep, Exec

-----------------------------------------------------------------------------
(* Whatever the bundle and the host, whichever call fails and whichever process
   is killed when, a launch is one of Runtime: the pid gets into the record
   only after the child has reported its root ready, a launch that fails leaves
   no zombie, a child left by a start that died reports to nobody. *)
THEOREM LaunchRefinesRuntime == Spec => RefinesRuntime
<1>1. ASSUME Pipe, [Next]_vars
      PROVE  [Coarse!Next]_(Coarse!vars)
  <2>1. Pipe'
    BY <1>1, PipeStep
  <2>2. CASE UNCHANGED vars
    <3>1. UNCHANGED <<Slot, Control, Cloned, Readied>>
      BY <2>2 DEF vars, parentVars, Slot, Control, Cloned, Readied
    <3>2. QED
      BY <3>1, SeeNothing
  <2>3. CASE ParentStep
    BY <1>1, <2>1, <2>3, SimulateBefore, SimulateWait DEF ParentStep, CoarseStep
  <2>4. CASE Crash
    BY <1>1, <2>1, <2>4, SimulateCrash DEF CoarseStep
  <2>5. CASE ChildStep \/ End
    BY <1>1, <2>1, <2>5, SimulateChild DEF CoarseStep
  <2>6. QED
    BY <1>1, <2>2, <2>3, <2>4, <2>5 DEF Next
<1>2. QED
  BY <1>1, PipeInit, PipeStep, PTL DEF Spec, RefinesRuntime
-----------------------------------------------------------------------------
(* Who waits for whom *)

(* A child that has come to its verdict has told it, unless the parent is gone,
   and what it told and where it is go together; the parent holds no write end
   when it reads. *)
Told ==
  /\ byte \in {"none", "0", "1"}
  /\ byte = "0" => child \in {"leave", "reaped"} \cup Gone
  /\ byte = "none" /\ child \in {"leave", "exec", "program"} => parent = "crashed"
  /\ child \in Gone \cup {"program"} => childFds = {}
  /\ parent = "read" => "w" \notin parentFds

LEMMA ToldStep ==
  ASSUME Pipe, Told, [Next]_vars
  PROVE  Told'
<1> USE DEF Pipe, Told, Early, Between, Alive, Setup, Gone
<1>1. CASE LoadBundle \/ BuildContext \/ Prepare
  BY <1>1 DEF LoadBundle, BuildContext, Prepare
<1>2. CASE Clone
  BY <1>2 DEF Clone
<1>3. CASE CloseWriteEnd
  BY <1>3 DEF CloseWriteEnd
<1>4. CASE Read \/ Finish \/ Abandon \/ Reap
  BY <1>4 DEF Read, Verdict, Finish, Abandon, Reap
<1>5. CASE Crash
  BY <1>5 DEF Crash
<1>6. CASE CloseReadEnd \/ MakePrivate \/ BindSelf \/ RetryPrivate \/ MountDefaults
  BY <1>6 DEF CloseReadEnd, MakePrivate, BindSelf, RetryPrivate, MountDefaults, Mounting, parentVars
<1>7. CASE BindNewRoot \/ PivotRoot \/ ChdirNewRoot \/ DetachOldRoot
  BY <1>7 DEF BindNewRoot, PivotRoot, ChdirNewRoot, DetachOldRoot, Mounting, parentVars
<1>8. CASE ReportReady \/ ReportError
  BY <1>8 DEF ReportReady, ReportError, Tell, parentVars
<1>9. CASE Exec \/ Leave \/ End
  BY <1>9 DEF Exec, Leave, End, parentVars
<1>10. CASE UNCHANGED vars
  BY <1>10 DEF vars, parentVars
<1>11. QED
  BY <1>1, <1>2, <1>3, <1>4, <1>5, <1>6, <1>7, <1>8, <1>9, <1>10 DEF Next, ParentStep, ChildStep

(* The parent's read() blocks on a child in its setup only, and its waitpid on
   one that has nothing left to do but return: with LaunchAdvances, which bounds
   the steps of both, this is what makes a launch return however long the
   program runs, as long as the child's own calls do. *)
THEOREM NeverWaitsForProgram == Spec => []WaitsForSetupOnly
<1>1. Init => Told
  BY DEF Init, Told, Gone
<1>2. Pipe /\ Told => WaitsForSetupOnly
  BY DEF Pipe, Told, WaitsForSetupOnly, Readable, Between, Alive, Setup, Gone
<1>3. QED
  BY <1>1, <1>2, PipeInit, PipeStep, ToldStep, PTL DEF Spec

LEMMA ParentAdvances ==
  ASSUME Pipe, [Next]_vars, parent' # parent
  PROVE  ParentSteps' < ParentSteps
<1> USE DEF ParentSteps, Returned
<1>1. CASE ParentStep
  BY <1>1 DEF ParentStep, LoadBundle, BuildContext, Prepare, Clone, CloseWriteEnd, Read, Verdict,
              Finish, Abandon, Reap
<1>2. CASE Crash
  BY <1>2 DEF Crash, Pipe, Early, Between
<1>3. CASE ChildStep \/ End
  BY <1>3 DEF ChildStep, CloseReadEnd, MakePrivate, BindSelf, RetryPrivate, MountDefaults,
              BindNewRoot, PivotRoot, Mounting, ChdirNewRoot, DetachOldRoot, ReportReady,
              ReportError, Tell, Exec, Leave, End, parentVars
<1>4. QED
  BY <1>1, <1>2, <1>3 DEF Next, vars, parentVars

LEMMA ChildAdvances ==
  ASSUME Pipe, [Next]_vars, child' # child
  PROVE  ChildSteps' < ChildSteps
<1> USE DEF ChildSteps, Gone
<1>1. CASE ParentStep \/ Crash
  BY <1>1 DEF ParentStep, LoadBundle, BuildContext, Prepare, Clone, CloseWriteEnd, Read, Finish,
              Abandon, Reap, Crash, Pipe, Early
<1>2. CASE CloseReadEnd \/ MakePrivate \/ BindSelf \/ RetryPrivate \/ MountDefaults
  BY <1>2 DEF CloseReadEnd, MakePrivate, BindSelf, RetryPrivate, MountDefaults, Mounting
<1>3. CASE BindNewRoot \/ PivotRoot \/ ChdirNewRoot \/ DetachOldRoot
  BY <1>3 DEF BindNewRoot, PivotRoot, ChdirNewRoot, DetachOldRoot, Mounting
<1>4. CASE ReportReady \/ ReportError \/ Exec \/ Leave
  BY <1>4 DEF ReportReady, ReportError, Tell, Exec, Leave
<1>5. CASE End
  BY <1>5 DEF End, Setup
<1>6. QED
  BY <1>1, <1>2, <1>3, <1>4, <1>5 DEF Next, ChildStep, vars

(* Parent and child only ever go forward, at most eight steps of the one and
   fourteen of the other, whatever fails and whoever is killed. *)
THEOREM LaunchEnds == Spec => LaunchAdvances
<1>1. ASSUME Pipe, [Next]_vars
      PROVE  [/\ parent' # parent => ParentSteps' < ParentSteps
              /\ child' # child => ChildSteps' < ChildSteps]_vars
  BY <1>1, ParentAdvances, ChildAdvances
<1>2. QED
  BY <1>1, PipeInit, PipeStep, PTL DEF Spec, LaunchAdvances
=============================================================================
