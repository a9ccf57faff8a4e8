--------------------------------- MODULE Cli ---------------------------------
(***************************************************************************)
(* One ns-runtime process from its command line to its exit status:        *)
(* nk_parse_args and main of src/src/main.c, with the logging              *)
(* configuration they set up.  What happens between is Runtime's; here a   *)
(* command makes log calls, then returns what it returns.                  *)
(*                                                                         *)
(* A line is argv[1], the options after it in their order, and the number  *)
(* of other arguments, which getopt_long moves behind the options.         *)
(***************************************************************************)
EXTENDS Commands, Logging, Sequences

CONSTANTS Lines,          \* the command lines that may be given
          EnvironmentsFor(_), \* the environments a line may be given in
          WaitStatuses    \* what waitpid may store: see Exited and Signaled

(* Options that are remembered, with or without an argument; options of the
   logging, where a level stands for --log-level=<level>; options that end the
   parsing.  --bundle and --runtime=container|vm decide nothing here. *)
Modes    == {"attach", "detach", "rm", "exec", "pid-file"}
LogFlags == {"verbose", "quiet", "educational"} \cup Levels
LastOnes == {"bad-level", "bad-mode", "unknown", "help", "version"}

CommandLines ==
  [cmd : Ops \cup {"resume", "help", "version", "bogus", "none"},
   flags : Seq(Modes \cup LogFlags \cup LastOnes), ids : Nat]

(* wait(2): the exit code in the second byte, or a signal in the first with
   the flag of a core dump. *)
Exited(code)           == 256 * code
Signaled(signal, core) == signal + (IF core THEN 128 ELSE 0)

ASSUME LinesAssumption == Lines \subseteq CommandLines
ASSUME EnvironmentsAssumption == \A l \in Lines : EnvironmentsFor(l) \subseteq Environments
ASSUME WaitStatusesAssumption ==
  WaitStatuses \subseteq {Exited(c) : c \in 0..255}
                           \cup {Signaled(s, core) : s \in 1..64, core \in BOOLEAN}

VARIABLES line, env,      \* argv, and the variables of nk_log_apply_env
          at,             \* where main is
          next,           \* the option getopt_long returns next
          opts,           \* nk_options_t: the modes that are set
          log,            \* log.c
          last,           \* the last call that wrote, or would have written, to stderr
          result,         \* whether the command's function has returned 0, or the
                          \* program's code, and the wait status that is from
          status          \* exit status

inputs == <<line, env>>
vars   == <<inputs, at, next, opts, log, last, result, status>>

NotYet == 256  \* no exit status
Silent == [call |-> "none", shown |-> FALSE]

Init ==
  /\ line \in Lines /\ env \in EnvironmentsFor(line)
  /\ at = "argv" /\ next = 1 /\ opts = {}
  /\ log = Defaults /\ last = Silent
  /\ result = [returned |-> FALSE, wait |-> 0] /\ status = NotYet

(* A call to log.c. *)
Say(call) ==
  /\ log' = ApplyEnv(log, env)
  /\ last' = [call |-> call, shown |-> Shown(log', call)]

SayNothing == last' = Silent /\ UNCHANGED log

Exit(code) == at' = "exit" /\ status' = code % 256

-----------------------------------------------------------------------------
(* nk_parse_args *)

(* argc < 2, and the two words looked for before getopt_long; help and version
   are printed by main. *)
FirstWord ==
  /\ at = "argv"
  /\ at' = CASE line.cmd = "none" -> "usage"
             [] line.cmd \in {"help", "version"} -> line.cmd
             [] OTHER -> "options"
  /\ SayNothing
  /\ UNCHANGED <<inputs, next, opts, result, status>>

(* The options that set a logging variable. *)
Configured(flag) ==
  CASE flag = "verbose"     -> [log EXCEPT !.level = "debug"]
    [] flag = "quiet"       -> [log EXCEPT !.enabled = FALSE]
    [] flag = "educational" -> [log EXCEPT !.educational = TRUE, !.level = "info"]
    [] flag \in Levels      -> [log EXCEPT !.level = flag]

Option ==
  /\ at = "options" /\ next <= Len(line.flags)
  /\ LET flag == line.flags[next]
     IN \/ /\ flag \in Modes
           /\ opts' = opts \cup {flag}
           /\ SayNothing /\ UNCHANGED at
        \/ /\ flag \in LogFlags
           /\ log' = Configured(flag)
           /\ last' = Silent /\ UNCHANGED <<at, opts>>
        \/ /\ flag \in {"bad-level", "bad-mode"}
           /\ at' = "usage" /\ Say("stderr") /\ UNCHANGED opts
        \/ /\ flag = "unknown"      \* getopt_long itself complains
           /\ at' = "usage" /\ last' = [call |-> "getopt", shown |-> TRUE]
           /\ UNCHANGED <<log, opts>>
        \/ /\ flag \in {"help", "version"}
           /\ at' = flag /\ SayNothing /\ UNCHANGED opts
  /\ next' = next + 1
  /\ UNCHANGED <<inputs, result, status>>

(* Mutant of Refused: --rm is not looked at with --detach. *)
Refused_RmDetached ==
  \/ {"attach", "detach"} \subseteq opts
  \/ line.cmd \notin Ops \cup {"resume"} \/ line.ids = 0
  \/ line.cmd \in {"create", "delete", "state", "resume"} /\ opts \cap {"attach", "detach", "rm"} # {}
  \/ line.cmd \in {"start", "run", "delete", "state"} /\ "exec" \in opts
  \/ line.cmd = "start" /\ "rm" \in opts

(* The conditions for an error once the options are read, in any order: each
   writes a line and returns -1. *)
Refused ==
  \/ {"attach", "detach"} \subseteq opts
  \/ line.cmd \notin Ops \cup {"resume"} \/ line.ids = 0
  \/ line.cmd \in {"create", "delete", "state", "resume"} /\ opts \cap {"attach", "detach", "rm"} # {}
  \/ line.cmd \in {"start", "run", "delete", "state"} /\ "exec" \in opts
  \/ line.cmd = "start" /\ "rm" \in opts
  \/ line.cmd = "run" /\ {"rm", "detach"} \subseteq opts

(* start is detached and run attached unless told otherwise; the other
   commands know neither, nor --rm. *)
Defaulted ==
  CASE line.cmd \in {"start", "run"} /\ opts \cap {"attach", "detach"} # {} -> opts
    [] line.cmd = "start" -> opts \cup {"detach"}
    [] line.cmd = "run"   -> opts \cup {"attach"}
    [] OTHER              -> opts \ {"attach", "detach", "rm"}

CheckArgs ==
  /\ at = "options" /\ next > Len(line.flags)
  /\ IF Refused
     THEN at' = "usage" /\ Say("stderr") /\ UNCHANGED opts
     ELSE at' = "dispatch" /\ opts' = Defaulted /\ SayNothing
  /\ UNCHANGED <<inputs, next, result, status>>

-----------------------------------------------------------------------------
(* main *)

Usage ==
  /\ at = "usage"
  /\ Say("stderr") /\ Exit(1)
  /\ UNCHANGED <<inputs, next, opts, result>>

Help ==
  /\ at = "help"
  /\ Say("stderr") /\ Exit(0)
  /\ UNCHANGED <<inputs, next, opts, result>>

Version ==
  /\ at = "version"
  /\ Say("info") /\ Exit(0)
  /\ UNCHANGED <<inputs, next, opts, result>>

(* resume is exec, with a warning. *)
Op == IF line.cmd = "resume" THEN "exec" ELSE line.cmd

Dispatch ==
  /\ at = "dispatch"
  /\ at' = "command"
  /\ IF line.cmd = "resume" THEN Say("warn") ELSE SayNothing
  /\ UNCHANGED <<inputs, next, opts, result, status>>

(* What main and nk_container_run read of the options: Runtime's job. *)
Job == [op |-> Op, attach |-> "attach" \in opts, rm |-> "rm" \in opts,
        pidfile |-> {"pid-file", "detach"} \subseteq opts]

(* The command is under way.  Explanations are asked for only where
   nk_log_educational is seen to be set. *)
Report(call) ==
  /\ at = "command"
  /\ call = "explain" => log.educational
  /\ Say(call)
  /\ UNCHANGED <<inputs, at, next, opts, result, status>>

(* Mutant of ExitCode: the wait status as it is. *)
ExitCode_Raw(wait) == wait

(* WIFEXITED, WEXITSTATUS and WTERMSIG in start and exec. *)
ExitCode(wait) ==
  IF wait % 128 = 0 THEN (wait \div 256) % 256 ELSE 128 + (wait % 128)

(* -1 from a command; for state, the state unknown. *)
CommandFails ==
  /\ at = "command"
  /\ Exit(IF Op = "state" THEN 1 ELSE 255)
  /\ SayNothing
  /\ UNCHANGED <<inputs, next, opts, result>>

(* exec and an attached start or run return their program's exit code. *)
CommandReturns(wait) ==
  /\ at = "command"
  /\ wait = 0 \/ Op = "exec" \/ "attach" \in opts
  /\ result' = [returned |-> TRUE, wait |-> wait]
  /\ Exit(ExitCode(wait))
  /\ SayNothing
  /\ UNCHANGED <<inputs, next, opts>>

Next ==
  \/ FirstWord \/ Option \/ CheckArgs \/ Usage \/ Help \/ Version \/ Dispatch
  \/ \E call \in Calls : Report(call)
  \/ CommandFails
  \/ \E wait \in WaitStatuses : CommandReturns(wait)

Spec == Init /\ [][Next]_vars
=============================================================================
