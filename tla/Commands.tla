------------------------------ MODULE Commands ------------------------------
(***************************************************************************)
(* The commands of ns-runtime as nk_parse_args hands them to main: what    *)
(* Cli derives from command lines and Runtime executes.                    *)
(***************************************************************************)

Ops == {"create", "start", "run", "exec", "delete", "state"}

(* start and run are attached or detached, --rm is for attached runs only, and
   --pid-file has an effect only on a detached start or run; create, exec,
   delete and state end up with none of them. *)
JobSpace ==
  {j \in [op : Ops, attach : BOOLEAN, rm : BOOLEAN, pidfile : BOOLEAN] :
     /\ j.attach => j.op \in {"start", "run"}
     /\ j.rm => j.op = "run" /\ j.attach
     /\ j.pidfile => j.op \in {"start", "run"} /\ ~j.attach}

NoJob == [op |-> "none", attach |-> FALSE, rm |-> FALSE, pidfile |-> FALSE]
=============================================================================
