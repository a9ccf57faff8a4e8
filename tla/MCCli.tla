-------------------------------- MODULE MCCli --------------------------------
(***************************************************************************)
(* The command lines and environments of the TLC run of Cli.               *)
(***************************************************************************)
EXTENDS CliProperties, SequencesExt

AllCommands == {"create", "start", "run", "exec", "resume", "delete", "state", "bogus"}

Given(cmds, flags, n) == [cmd : cmds, flags : SeqOf(flags, n), ids : 0..2]

(* Every two options in any order, every three modes, and no option at all. *)
ModeLines ==
  Given(AllCommands, Modes \cup {"verbose", "quiet"} \cup LastOnes, 2)
    \cup Given(AllCommands, Modes, 3)
    \cup Given({"none", "help", "version"}, {}, 0)

(* Three options of the logging, then perhaps a refusal. *)
LogLines ==
  [cmd : {"start", "resume"}, ids : 0..1,
   flags : SeqOf({"verbose", "quiet", "educational", "error", "bad-level", "version"}, 3)]

MCLines == ModeLines \cup LogLines

NoEnvironment == [enabled |-> "unset", level |-> "unset", educational |-> "unset"]

MCEnvironmentsFor(l) ==
  IF l \in LogLines
  THEN [enabled : Switches, level : {"unset", "debug", "error"}, educational : Switches]
  ELSE {NoEnvironment}

(* Exit codes 0, 1, 127 and 255; SIGKILL, SIGSEGV with a core. *)
MCWaitStatuses ==
  {Exited(c) : c \in {0, 1, 127, 255}} \cup {Signaled(9, FALSE), Signaled(11, TRUE)}

(* Runtime is given no job that no line means. *)
ASSUME EveryJobHasALine ==
  JobSpace = {Meaning(l) : l \in {x \in ModeLines : Legal(x)}}
=============================================================================
