------------------------------ MODULE MCRuntime ------------------------------
(***************************************************************************)
(* Command sets for the TLC runs of Runtime.                               *)
(***************************************************************************)
EXTENDS RuntimeRefinement, TLC

J(op)    == [NoJob EXCEPT !.op = op]
Attached(op) == [J(op) EXCEPT !.attach = TRUE]
RunRm    == [Attached("run") EXCEPT !.rm = TRUE]
PidFile(op) == [J(op) EXCEPT !.pidfile = TRUE]

(* Every command in every variant. *)
AllJobs == JobSpace

(* Each kind of command once, the run with --rm. *)
MainJobs == {J("create"), J("start"), RunRm, J("exec"), J("delete")}

(* The same and a start that writes a --pid-file. *)
AllMainJobs == MainJobs \cup {PidFile("start")}

(* A container in use: every command and flag but those that delete it. *)
KeptJobs == {j \in JobSpace : j.op # "delete" /\ ~j.rm}

(* Detached containers that are deleted and made again around a session. *)
RebornJobs == {J("run"), J("exec"), J("delete")}

RuntimeSymmetry == Permutations(Runtimes) \cup Permutations(Pids)
=============================================================================
