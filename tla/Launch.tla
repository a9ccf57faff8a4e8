-------------------------------- MODULE Launch --------------------------------
(***************************************************************************)
(* One launch of a container's first process: nk_container_start from the  *)
(* bundle it loads (Bundle) to nk_container_exec in the parent,            *)
(* container_child_fn in the clone (src/src/container/process.c), the root *)
(* filesystem the child sets up (mounts.c) and the sync pipe between the   *)
(* two.  Runtime sees a launch as three steps, see LaunchProperties; here  *)
(* every system call that may fail, block or be seen by the other side is  *)
(* a step.  Either process may be killed.                                  *)
(***************************************************************************)
EXTENDS Bundle

CONSTANTS Bundles       \* the configs that may be found at the launch

ASSUME BundlesAssumption == Bundles \subseteq Configs

VARIABLES config,       \* config.json, which may differ from what create saw
          host,         \* the surroundings, see Hosts
          flags,        \* the namespaces clone is asked to make
          parent,       \* where nk_container_start is, or how it ended
          child,        \* where container_child_fn is, or how it ended
          parentFds,    \* the ends of the sync pipe the parent holds
          childFds,     \* the ends the child holds
          byte,         \* what was written to the pipe
          taken,        \* the byte has been read
          root,         \* the child's root: "host", "pivoted" with the old
                        \* root still attached, or "new"
          base,         \* propagation of the mount under the rootfs
          seen          \* the mount changes the caller's namespace shows

given      == <<config, host, flags>>
parentVars == <<parent, parentFds, taken>>
mountVars  == <<root, base, seen>>
vars == <<given, parentVars, child, childFds, byte, mountVars>>

(* memory: the callocs for the namespace lists succeed.  mountpoint: the rootfs
   is one.  shared: the host's "/" propagates mounts, as systemd sets it up. *)
Hosts == [memory : BOOLEAN, mountpoint : BOOLEAN, shared : BOOLEAN]

Returned == {"ok", "fail", "crashed", "segv"}
Gone     == {"returned", "ended", "killed"}
Setup    == {"start", "private", "bind", "retry", "mounts", "rebind", "pivot", "chdir",
             "detach", "report", "error", "leave"}

Init ==
  /\ config \in Bundles /\ host \in Hosts /\ flags = {}
  /\ parent = "load" /\ parentFds = {} /\ taken = FALSE
  /\ child = "none" /\ childFds = {} /\ byte = "none"
  /\ root = "host" /\ base = "host" /\ seen = {}

-----------------------------------------------------------------------------
(* nk_container_start *)

spec == Load(config, host.memory)

(* nk_oci_spec_load and the checks of its result.  The record, and the mode in
   it, are Runtime's: LoadForStart and PrepareFails. *)
LoadBundle ==
  /\ parent = "load"
  /\ parent' = IF StartAccepts(spec) THEN "build" ELSE "fail"
  /\ UNCHANGED <<given, parentFds, taken, child, childFds, byte, mountVars>>

(* ctx.namespaces; strcmp of a NULL type is the end of ns-runtime. *)
BuildContext ==
  /\ parent = "build"
  /\ IF NullRead(spec.namespaces)
     THEN parent' = "segv" /\ UNCHANGED flags
     ELSE parent' = "prepare" /\ flags' = CloneFlags(ContextNamespaces(spec.namespaces))
  /\ UNCHANGED <<config, host, parentFds, taken, child, childFds, byte, mountVars>>

-----------------------------------------------------------------------------
(* nk_container_exec *)

(* Mutant of Prepare: the arguments are not looked at. *)
Prepare_NoGuard ==
  /\ parent = "prepare"
  /\ \/ parent' = "clone" /\ parentFds' = {"r", "w"}
     \/ parent' = "fail" /\ UNCHANGED parentFds
  /\ UNCHANGED <<given, taken, child, childFds, byte, mountVars>>

(* The guard on args_len, then malloc of the stack and pipe(). *)
Prepare ==
  /\ parent = "prepare"
  /\ \/ spec.process.args # <<>> /\ parent' = "clone" /\ parentFds' = {"r", "w"}
     \/ parent' = "fail" /\ UNCHANGED parentFds
  /\ UNCHANGED <<given, taken, child, childFds, byte, mountVars>>

Clone ==
  /\ parent = "clone"
  /\ \/ /\ parent' = "close" /\ child' = "start" /\ childFds' = parentFds
        /\ UNCHANGED parentFds
     \/ /\ parent' = "fail" /\ parentFds' = {}
        /\ UNCHANGED <<child, childFds>>
  /\ UNCHANGED <<given, taken, byte, mountVars>>

(* Mutant of CloseWriteEnd: the parent keeps its copy of the write end. *)
CloseWriteEnd_Forgotten ==
  /\ parent = "close"
  /\ parent' = "read"
  /\ UNCHANGED <<given, parentFds, taken, child, childFds, byte, mountVars>>

CloseWriteEnd ==
  /\ parent = "close"
  /\ parent' = "read" /\ parentFds' = parentFds \ {"w"}
  /\ UNCHANGED <<given, taken, child, childFds, byte, mountVars>>

(* Mutant of Verdict: what was read is not looked at. *)
Verdict_Any == "finish"

(* ret <= 0 || buf != CHILD_SYNC_READY *)
Verdict == IF byte = "1" /\ ~taken THEN "finish" ELSE "abandon"

(* read() returns the byte, or 0 when no write end is left, or blocks. *)
Readable == (byte # "none" /\ ~taken) \/ "w" \notin parentFds \cup childFds

Read ==
  /\ parent = "read" /\ Readable
  /\ parent' = Verdict /\ taken' = (byte # "none")
  /\ UNCHANGED <<given, parentFds, child, childFds, byte, mountVars>>

(* No cgroup is joined: container_id is not set in exec_ctx. *)
Finish ==
  /\ parent = "finish"
  /\ parent' = "ok" /\ parentFds' = {}
  /\ UNCHANGED <<given, taken, child, childFds, byte, mountVars>>

Abandon ==
  /\ parent = "abandon"
  /\ parent' = "reap" /\ parentFds' = {}
  /\ UNCHANGED <<given, taken, child, childFds, byte, mountVars>>

(* Mutant of Reap: nobody waits for the child that failed. *)
Reap_Forgotten ==
  /\ parent = "reap"
  /\ parent' = "fail"
  /\ UNCHANGED <<given, parentFds, taken, child, childFds, byte, mountVars>>

(* waitpid on the child that failed. *)
Reap ==
  /\ parent = "reap" /\ child \in Gone
  /\ parent' = "fail" /\ child' = "reaped"
  /\ UNCHANGED <<given, parentFds, taken, childFds, byte, mountVars>>

Crash ==
  /\ parent \notin Returned
  /\ parent' = "crashed" /\ parentFds' = {}
  /\ UNCHANGED <<given, taken, child, childFds, byte, mountVars>>

-----------------------------------------------------------------------------
(* container_child_fn and nk_container_setup_rootfs *)

(* The hostname step is skipped: exec_ctx.hostname is never set. *)
CloseReadEnd ==
  /\ child = "start"
  /\ child' = "private" /\ childFds' = childFds \ {"r"}
  /\ UNCHANGED <<given, parentVars, byte, mountVars>>

OwnMounts == "mount" \in flags

(* Mount propagation, mount_namespaces(7): the caller sees a change made in
   its own namespace, a mount made on a shared mount, and the unmounting of
   the mounts on a shared mount. *)
Reach(change) ==
  IF ~OwnMounts \/ (host.shared /\ (base = "host" \/ change = "detach"))
  THEN {change} ELSE {}

Mounting(from, to, change) ==
  /\ child = from
  /\ \/ child' = to /\ seen' = seen \cup Reach(change)
     \/ child' = "error" /\ UNCHANGED seen
  /\ UNCHANGED <<given, parentVars, childFds, byte, base>>

(* Mutant of MakePrivate: EINVAL counts as success. *)
MakePrivate_IgnoreEinval ==
  /\ child = "private"
  /\ child' = "mounts" /\ base' \in {base, "private"}
  /\ UNCHANGED <<given, parentVars, childFds, byte, root, seen>>

(* nk_mount_make_private: MS_PRIVATE wants a mount point (EINVAL). *)
MakePrivate ==
  /\ child = "private"
  /\ \/ host.mountpoint /\ child' = "mounts" /\ base' = "private"
     \/ ~host.mountpoint /\ child' = "bind" /\ UNCHANGED base
     \/ child' = "error" /\ UNCHANGED base
  /\ UNCHANGED <<given, parentVars, childFds, byte, root, seen>>

BindSelf == Mounting("bind", "retry", "bind") /\ UNCHANGED root

(* Mutant of RetryPrivate: EINVAL leads to another bind. *)
RetryPrivate_BindAgain ==
  /\ child = "retry"
  /\ \/ child' = "mounts" /\ base' = "private"
     \/ child' \in {"error", "bind"} /\ UNCHANGED base
  /\ UNCHANGED <<given, parentVars, childFds, byte, root, seen>>

RetryPrivate ==
  /\ child = "retry"
  /\ \/ child' = "mounts" /\ base' = "private"
     \/ child' = "error" /\ UNCHANGED base
  /\ UNCHANGED <<given, parentVars, childFds, byte, root, seen>>

(* The default mounts and device nodes: each may fail, with a warning. *)
MountDefaults ==
  /\ child = "mounts"
  /\ child' = "rebind"
  /\ seen' \in {seen, seen \cup Reach("defaults")}
  /\ UNCHANGED <<given, parentVars, childFds, byte, root, base>>

(* nk_mount_pivot_root, its five calls. *)
BindNewRoot == Mounting("rebind", "pivot", "rebind") /\ UNCHANGED root

(* Mutant of PivotRoot: a pivot_root that fails is a warning. *)
PivotRoot_Warn ==
  /\ Mounting("pivot", "chdir", "pivot") \/ Mounting("pivot", "detach", "pivot")
  /\ root' \in {root, "pivoted"}

PivotRoot ==
  /\ Mounting("pivot", "chdir", "pivot")
  /\ root' = IF child' = "chdir" THEN "pivoted" ELSE root

ChdirNewRoot ==
  /\ child = "chdir"
  /\ child' \in {"detach", "error"}
  /\ UNCHANGED <<given, parentVars, childFds, byte, mountVars>>

(* umount2 of the old root; a failure is a warning. *)
DetachOldRoot ==
  /\ child = "detach"
  /\ child' = "report"
  /\ \/ root' = "new" /\ seen' = seen \cup Reach("detach")
     \/ UNCHANGED <<root, seen>>
  /\ UNCHANGED <<given, parentVars, childFds, byte, base>>

(* chdir, capabilities, limits and setsid warn at most: nothing of them is
   kept.  Then write() of a status to the sync pipe, its result ignored.  When no reader
   is left SIGPIPE ends the child, unless it is the first process of a pid
   namespace, whose default signal actions the kernel skips. *)
Tell(from, status, to) ==
  /\ child = from
  /\ IF "r" \in parentFds
     THEN child' = to /\ byte' = status /\ UNCHANGED childFds
     ELSE /\ IF "pid" \in flags THEN child' = to /\ UNCHANGED childFds
                          ELSE child' = "killed" /\ childFds' = {}
          /\ UNCHANGED byte
  /\ UNCHANGED <<given, parentVars, mountVars>>

ReportReady == Tell("report", "1", "exec")
ReportError == Tell("error", "0", "leave")

(* close() of the pipe, then execve; or return 1.  execve of a NULL path
   fails. *)
Exec ==
  /\ child = "exec" /\ childFds' = {}
  /\ \/ Argv(spec) # <<>> /\ child' = "program"
     \/ child' = "returned"
  /\ UNCHANGED <<given, parentVars, byte, mountVars>>

Leave ==
  /\ child = "leave"
  /\ child' = "returned" /\ childFds' = {}
  /\ UNCHANGED <<given, parentVars, byte, mountVars>>

(* The program exits; a signal ends the child at any point. *)
End ==
  /\ \/ child = "program" /\ child' = "ended"
     \/ child \in Setup \cup {"exec", "program"} /\ child' = "killed"
  /\ childFds' = {}
  /\ UNCHANGED <<given, parentVars, byte, mountVars>>

ParentStep ==
  LoadBundle \/ BuildContext \/ Prepare \/ Clone \/ CloseWriteEnd \/ Read \/ Finish \/ Abandon \/ Reap

ChildStep ==
  \/ CloseReadEnd \/ MakePrivate \/ BindSelf \/ RetryPrivate \/ MountDefaults
  \/ BindNewRoot \/ PivotRoot \/ ChdirNewRoot \/ DetachOldRoot
  \/ ReportReady \/ ReportError \/ Exec \/ Leave

Next == ParentStep \/ Crash \/ ChildStep \/ End

Spec == Init /\ [][Next]_vars

(* Both processes are scheduled; none of their calls but read and waitpid
   blocks. *)
FairSpec == Spec /\ WF_vars(ParentStep) /\ WF_vars(ChildStep)
=============================================================================
