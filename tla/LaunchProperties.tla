--------------------------- MODULE LaunchProperties ---------------------------
(***************************************************************************)
(* The properties of Launch, and its relation to the coarse launch that    *)
(* Runtime and InitProcess assume.                                         *)
(***************************************************************************)
EXTENDS Launch, Functions

(* "Child emits readiness only after rootfs/setup stage completes": when
   nk_container_exec returns a pid the child has left the host's root, however
   many of its steps failed and whichever process was killed when; and no
   program runs before that. *)
ReadyMeansPivoted == parent = "ok" \/ child = "program" => root # "host"

(* With a mount namespace of its own, what the child mounts under the rootfs
   stays out of the caller's namespace even where the host's "/" is shared:
   nothing is mounted before MS_PRIVATE has taken hold. *)
MountsStayInside == OwnMounts => seen \cap {"defaults", "rebind", "pivot"} = {}

(* "load + validate OCI spec" at start: start does not call
   nk_oci_spec_validate, but what it checks, and nk_container_exec after it,
   amounts to the same for whatever config.json has become since create. *)
ClonedMeansValid == child # "none" => Validate(spec)

(* clone is asked for a namespace of each type that config.json lists without a
   path, and for a pid namespace if a type nobody knows is among them: all or,
   when memory for the lists is short, none of them, and never another. *)
IsolationAsListed ==
  child # "none" =>
    LET made  == {e \in Range(config.namespaces) : WellFormed(e) /\ ~e.path}
        asked == {e.type : e \in {x \in made : x.type \in Kinds}}
                   \cup {"pid" : e \in {x \in made : x.type \notin Kinds}}
    IN flags = IF host.memory THEN asked ELSE {}

(* An entry that is malformed is skipped, as in the loader's own test of each
   entry, if none but malformed ones follow it; otherwise start reads a NULL
   type and dies.  It never clones with part of the list. *)
SegvExactlyOnHole ==
  LET list == config.namespaces
      hole == \E i, j \in DOMAIN list : i < j /\ ~WellFormed(list[i]) /\ WellFormed(list[j])
  IN /\ parent = "segv" => hole
     /\ child # "none" /\ host.memory => ~hole

(* What nk_container_exec waits for is the child's setup, never the program:
   while read() blocks the child has not come to its verdict, and when the
   parent gets to waitpid the child is gone or on its way out, though the two
   decide apart from each other and either end of the pipe may close first. *)
WaitsForSetupOnly ==
  /\ parent = "read" /\ ~Readable => child \in Setup \ {"leave"}
  /\ parent = "reap" => child \in Gone \cup {"leave"}

(* How many steps the two have left at most. *)
ParentSteps ==
  CASE parent = "load" -> 8   [] parent = "build" -> 7  [] parent = "prepare" -> 6
    [] parent = "clone" -> 5  [] parent = "close" -> 4  [] parent = "read" -> 3
    [] parent = "abandon" -> 2 [] parent \in {"reap", "finish"} -> 1
    [] parent \in Returned -> 0

ChildSteps ==
  CASE child = "none" -> 14   [] child = "start" -> 13  [] child = "private" -> 12
    [] child = "bind" -> 11   [] child = "retry" -> 10  [] child = "mounts" -> 9
    [] child = "rebind" -> 8  [] child = "pivot" -> 7   [] child = "chdir" -> 6
    [] child = "detach" -> 5  [] child \in {"report", "error"} -> 4
    [] child \in {"exec", "leave"} -> 3 [] child = "program" -> 2
    [] child \in Gone -> 1   [] child = "reaped" -> 0

(* Neither of the two does anything twice: the one retry of the launch, for a
   rootfs that is no mount point, happens once, and no failure leads back. *)
LaunchAdvances ==
  [][/\ parent' # parent => ParentSteps' < ParentSteps
     /\ child' # child => ChildSteps' < ChildSteps]_vars

(* nk_container_start returns or dies: it blocks for ever neither in read() when the
   child dies without a word, nor in waitpid() after a failure. *)
LaunchReturns == <>(parent \in Returned)

-----------------------------------------------------------------------------
(* The launch as Runtime sees it: CloneInit, then AwaitReady or AwaitFailure,
   with the child's ChildReady, ChildExec and ProcExit in between. *)

Slot ==
  LET orphan == parent = "crashed"
      free == [st |-> "free", par |-> "nobody", ready |-> FALSE]
      state == CASE child \in Setup -> "setup"
                 [] child = "exec" -> "ready"
                 [] child = "program" -> "running"
                 [] OTHER -> "zombie"
  IN IF child \in {"none", "reaped"} \/ (orphan /\ child \in Gone) THEN free
     ELSE [st |-> state, par |-> IF orphan THEN "nobody" ELSE "start",
           ready |-> byte = "1" /\ ~taken /\ ~orphan]

Control == CASE parent \in {"load", "build", "prepare", "clone"} -> "clone"
             [] parent \in {"finish", "ok"} -> "statdir"
             [] parent \in {"fail", "crashed", "segv"} -> "fail"
             [] OTHER -> "read"

Detached(op) == [op |-> op, attach |-> FALSE, rm |-> FALSE, pidfile |-> FALSE]
StartJob == Detached("start")
EndedJob == Detached("none")

Record(st) == [st |-> st, pid |-> IF st = "running" THEN "init" ELSE "none"]

Coarse == INSTANCE Runtime WITH
  Runtimes <- {"start"}, Pids <- {"init"}, NoPid <- "none", Nobody <- "nobody",
  Faults <- {"crash"}, Jobs <- {StartJob}, MaxCommands <- 0, Overlap <- "any",
  dir <- TRUE, file <- Record("created"), linked <- {},
  proc <- [p \in {"init"} |-> Slot],
  used <- IF child = "none" THEN {} ELSE {"init"},
  readied <- IF byte = "1" THEN {"init"} ELSE {},
  pc <- [r \in {"start"} |-> Control],
  job <- [r \in {"start"} |-> IF Control = "fail" THEN EndedJob ELSE StartJob],
  mem <- [r \in {"start"} |-> CASE Control = "statdir" -> Record("running")
                                [] Control = "fail" -> Record("absent")
                                [] OTHER -> Record("created")],
  child <- [r \in {"start"} |-> IF Control \in {"read", "statdir"} THEN "init" ELSE "none"],
  left <- 0, pidFile <- "none"

(* Every step of a launch, with either process killed at any point, is a step
   of Runtime or none: the pid is recorded only after the ready byte was read,
   a launch that fails has waited for its child, no zombie is left to a start
   that goes on. *)
RefinesRuntime == [][Coarse!Next]_(Coarse!vars)

-----------------------------------------------------------------------------
(* Statements of comments and documentation that the code does not keep, each
   refuted by a run of its own *)

(* "Container's mount changes stay isolated", given a mount namespace. *)
MountChangesStayIsolated == OwnMounts => seen = {}

(* "Return Codes: 0 Success, 1 Error": a bundle start cannot use is reported. *)
StartReportsErrors == parent # "segv"
=============================================================================
