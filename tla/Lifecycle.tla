------------------------------ MODULE Lifecycle ------------------------------
(***************************************************************************)
(* What ns-runtime promises for one container when its commands do not     *)
(* overlap and nothing fails under them: the record a user sees and the    *)
(* container's first process move together through create, start, exit     *)
(* and delete.  Runtime implements it, see RuntimeRefinement.              *)
(***************************************************************************)

VARIABLES record,       \* the persisted lifecycle state
          init          \* the container's first process

Type == /\ record \in {"absent", "created", "running", "stopped"}
        /\ init \in {"none", "live", "dead"}

Init == record = "absent" /\ init = "none"

(* A free id gets a record; no process is involved. *)
Create == record = "absent" /\ record' = "created" /\ UNCHANGED init

(* Only a created container without a process is launched, at most once at a
   time; a launch that fails leaves no process behind and may be repeated. *)
Launch == record = "created" /\ init = "none" /\ init' = "live" /\ UNCHANGED record
Abort  == record = "created" /\ init = "dead" /\ init' = "none" /\ UNCHANGED record

(* running is recorded for a container that was launched, and only once. *)
Commit == record = "created" /\ init # "none" /\ record' = "running" /\ UNCHANGED init

(* The process ends on its own or is killed. *)
Exit == init = "live" /\ init' = "dead" /\ UNCHANGED record

(* stopped is recorded after the death of the process, never before. *)
NoteStopped == /\ record = "running" /\ init = "dead"
               /\ record' = "stopped" /\ UNCHANGED init

(* The record goes when no process of the container is left. *)
Remove == /\ record # "absent" /\ init # "live"
          /\ record' = "absent" /\ init' = "none"

Next == Create \/ Launch \/ Abort \/ Commit \/ Exit \/ NoteStopped \/ Remove

Spec == Init /\ [][Next]_<<record, init>>
=============================================================================
