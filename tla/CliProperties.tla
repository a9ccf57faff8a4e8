---------------------------- MODULE CliProperties ----------------------------
(***************************************************************************)
(* The properties of Cli, against definitions that read a command line as  *)
(* a whole: which options it has, which of two is the later one.           *)
(***************************************************************************)
EXTENDS Cli, Functions

(* What a caller may combine, by command. *)
Allowed(cmd) ==
  CASE cmd = "start"  -> {"attach", "detach", "pid-file"}
    [] cmd = "run"    -> {"attach", "detach", "rm", "pid-file"}
    [] cmd = "exec"   -> Modes
    [] cmd \in {"create", "resume"} -> {"exec", "pid-file"}
    [] OTHER          -> {"pid-file"}

Legal(l) ==
  LET given == Range(l.flags)
  IN /\ l.cmd \in Ops \cup {"resume"} /\ l.ids > 0
     /\ given \cap LastOnes = {}
     /\ given \cap Modes \subseteq Allowed(l.cmd)
     /\ ~({"attach", "detach"} \subseteq given)
     /\ l.cmd = "run" => ~({"rm", "detach"} \subseteq given)

Meaning(l) ==
  LET given  == Range(l.flags)
      attach == IF l.cmd = "run" THEN "detach" \notin given
                ELSE l.cmd = "start" /\ "attach" \in given
  IN [op      |-> IF l.cmd = "resume" THEN "exec" ELSE l.cmd,
      attach  |-> attach,
      rm      |-> l.cmd = "run" /\ "rm" \in given,
      pidfile |-> l.cmd \in {"start", "run"} /\ "pid-file" \in given /\ ~attach]

(* The options may come in any order and any number of times: a line is
   executed if it is legal, as one of the jobs Runtime knows and the one it
   means, and no line that is legal is turned away. *)
JobsAsMeant ==
  /\ at \in {"dispatch", "command"} => Legal(line) /\ Job = Meaning(line) /\ Job \in JobSpace
  /\ at = "usage" => ~Legal(line)

(* The settings in force once the environment is applied: it has the last word,
   then the later of two options. *)
Read == {line.flags[i] : i \in 1..(next - 1)}

LevelBy == [verbose |-> "debug", educational |-> "info", debug |-> "debug",
            info |-> "info", warn |-> "warn", error |-> "error"]

LevelOptions(n) == {i \in 1..n : line.flags[i] \in DOMAIN LevelBy}

LevelOfLast(asked) ==
  LET final == CHOOSE i \in asked : \A j \in asked : j <= i
  IN IF asked = {} THEN "info" ELSE LevelBy[line.flags[final]]

LevelAsked(n) == LevelOfLast(LevelOptions(n))

LevelRead == LevelAsked(next - 1)

LevelInForce == IF env.level # "unset" THEN env.level ELSE LevelRead

EnabledInForce ==
  IF env.enabled # "unset" THEN env.enabled = "on" ELSE "quiet" \notin Read

EducationalInForce ==
  IF env.educational # "unset" THEN env.educational = "on" ELSE "educational" \in Read

(* "--quiet disables all logging" (README.md, and the usage text).  It does not in
   two cases, about which nothing is claimed here: NK_LOG_ENABLED=1 undoes it, and
   an explanation is written although logging is off. *)
Undisputed ==
  /\ ~("quiet" \in Read /\ env.enabled = "on")
  /\ last.call = "explain" => EnabledInForce

(* Outside these two cases, what reaches stderr is what the settings in force let
   through, although the environment is applied only at the first call and after
   the options: an explanation in educational mode, a plain line at any level
   unless logging is off, a message at the level or above. *)
OutputObeysSettings ==
  Undisputed =>
    (last.shown <=>
       CASE last.call = "none"    -> FALSE
         [] last.call = "getopt"  -> TRUE
         [] last.call = "explain" -> EducationalInForce
         [] last.call = "stderr"  -> EnabledInForce
         [] OTHER -> EnabledInForce /\ Severity[last.call] >= Severity[LevelInForce])

(* A failing program is not reported as a success: the exit status is 0 if and
   only if help or the version was asked for, or the command's function came to
   its end without -1 and the program it waited for, if any, exited with 0.  A
   wait status is a multiple of 256 when the program fails, and an exit status is
   taken modulo 256.  (What a command has done when its function returns 0 is
   ExitTellsOutcome of RuntimeProperties.) *)
StatusTruth ==
  at = "exit" =>
    (status = 0 <=> \/ result.returned /\ result.wait = 0
                    \/ line.cmd \in {"help", "version"}
                    \/ next > 1 /\ line.flags[next - 1] \in {"help", "version"})
=============================================================================
