------------------------------ MODULE StateFile ------------------------------
(***************************************************************************)
(* The persisted state of one container, src/src/common/state.c: the       *)
(* directory <state_dir>/<id> and the file state.json in it, shared by     *)
(* every ns-runtime process that is given this container id.  There is no  *)
(* lock, no O_EXCL and no rename: each system call below is a step of its  *)
(* own and other processes run between any two of them.                    *)
(***************************************************************************)

CONSTANTS Runtimes,     \* the ns-runtime processes (one command each at a time)
          Pids,         \* the process ids clone() can return
          NoPid         \* init_pid = 0, "no process"

ASSUME NoPidAssumption == NoPid \notin Pids

VARIABLES dir,          \* the container's directory exists
          file,         \* what a reader of state.json finds
          linked        \* the runtimes whose open write descriptor is the
                        \* file the directory entry names now

fileVars == <<dir, file, linked>>

(* A record is the part of nk_container_t the lifecycle reads: state and
   init_pid.  Three more contents are possible: no file, a file truncated and
   not yet written, and the overlay of two records, which does not parse. *)
States == {"created", "running", "stopped"}

Absent     == [st |-> "absent",  pid |-> NoPid]
Empty      == [st |-> "empty",   pid |-> NoPid]
Torn       == [st |-> "torn",    pid |-> NoPid]
Created    == [st |-> "created", pid |-> NoPid]
Running(p) == [st |-> "running", pid |-> p]
Stopped    == [st |-> "stopped", pid |-> NoPid]
Records    == {Created, Stopped} \cup {Running(p) : p \in Pids}
Contents   == Records \cup {Absent, Empty, Torn}

(* nk_state_load succeeds: the file opens and json_loadf accepts it. *)
Parses(c) == c.st \in States

(* nk_state_exists: a stat, which says nothing about the content. *)
StateExists == file.st # "absent"

(* Two descriptors opened with "w" both write from offset 0, so the second
   writer covers the first record only as far as its own text reaches.  The
   lengths (digits of the pid, bundle path) are not modelled: the result may
   be the new record, or the new record followed by the old one's tail. *)
Overlay(old, new) ==
  IF old \in {Empty, new} THEN {new} ELSE {new, Torn}

FileInit == dir = FALSE /\ file = Absent /\ linked = {}

(* ensure_container_dir: mkdir, without a fallback for EEXIST. *)
MkdirContainer ==
  /\ ~dir
  /\ dir' = TRUE
  /\ UNCHANGED <<file, linked>>

(* nk_state_save: fopen(state_path, "w") truncates an existing file. *)
OpenTruncate(r) ==
  /\ dir
  /\ file' = Empty
  /\ linked' = linked \cup {r}
  /\ UNCHANGED dir

(* Mutant of FlushRecord: the stream is never closed nor flushed. *)
FlushRecord_Lost(r, rec) ==
  /\ linked' = linked \ {r}
  /\ UNCHANGED <<dir, file>>

(* nk_state_save: json_dumpf fills the stdio buffer, fclose writes it.  A
   descriptor whose name was unlinked meanwhile writes to a file no one sees. *)
FlushRecord(r, rec) ==
  /\ IF r \in linked THEN file' \in Overlay(file, rec) ELSE file' = file
  /\ linked' = linked \ {r}
  /\ UNCHANGED dir

(* The buffered record never reaches the file: the write at fclose fails (its
   result is not looked at), or the process is killed before it. *)
DropRecord(r) ==
  /\ linked' = linked \ {r}
  /\ UNCHANGED <<dir, file>>

(* nk_state_delete, first half: unlink; ENOENT is no error. *)
UnlinkState ==
  /\ file' = Absent
  /\ linked' = {}
  /\ UNCHANGED dir

(* Mutant of RemoveDir: the directory is left behind. *)
RemoveDir_Missing == UNCHANGED fileVars

(* nk_state_delete, second half: rmdir, which the kernel refuses while the
   directory holds a file; the result is ignored. *)
RemoveDir ==
  /\ dir' = (dir /\ StateExists)
  /\ UNCHANGED <<file, linked>>
=============================================================================
