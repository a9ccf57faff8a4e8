-------------------------- MODULE RuntimeRefinement --------------------------
(***************************************************************************)
(* Runtime implements Lifecycle, one command at a time and, as long as     *)
(* nobody deletes the container, through overlapping exec sessions.        *)
(***************************************************************************)
EXTENDS RuntimeProperties

(* A runtime that has truncated the file and not yet written it; when several
   have, they write the same record. *)
Saver == CHOOSE r \in Runtimes : pc[r] = "flush"

(* From the truncation on the abstract record is what the flush will write:
   the old content is gone for every reader. *)
abstractRecord == IF file = Empty THEN mem[Saver].st ELSE file.st

(* A dead process is remembered as long as somebody may still act on it: the
   start that cloned it, or the record that names it. *)
abstractInit ==
  IF LiveInits # {} THEN "live"
  ELSE IF \/ abstractRecord \in {"running", "stopped"}
          \/ \E r \in Runtimes : Expecting(r)
       THEN "dead" ELSE "none"

Abstract == INSTANCE Lifecycle WITH record <- abstractRecord, init <- abstractInit

(* Every step of a command and of the kernel is a step of the lifecycle or
   leaves it unchanged: no launch of a launched container, no STOPPED before
   the death, no removal over a live process, no state reached twice. *)
ImplementsLifecycle == Abstract!Spec
=============================================================================
