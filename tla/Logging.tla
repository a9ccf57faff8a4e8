------------------------------- MODULE Logging -------------------------------
(***************************************************************************)
(* The logging configuration of one process, src/src/common/log.c: global  *)
(* variables that the command line sets and that the environment overrides *)
(* at the first call, whenever that is.  Texts, roles and colours are left *)
(* out.                                                                    *)
(***************************************************************************)
EXTENDS Naturals

Levels   == {"debug", "info", "warn", "error"}
Severity == [debug |-> 0, info |-> 1, warn |-> 2, error |-> 3]

(* nk_log_at at a level, nk_log_stderr_at, nk_log_explain_at; an operation that
   has no explanation is not counted among the last. *)
Calls == Levels \cup {"stderr", "explain"}

(* NK_LOG_ENABLED, NK_LOG_LEVEL and NK_LOG_EDUCATIONAL; a value that does not
   parse is as good as none. *)
Switches     == {"unset", "on", "off"}
Environments == [enabled : Switches, level : Levels \cup {"unset"}, educational : Switches]

Defaults == [level |-> "info", enabled |-> TRUE, educational |-> FALSE, applied |-> FALSE]

Switched(switch, value) == IF switch = "unset" THEN value ELSE switch = "on"

(* Mutant of ApplyEnv: the environment is only the default of --log-level. *)
ApplyEnv_FlagsWin(log, env) ==
  IF log.applied THEN log
  ELSE [level       |-> IF env.level = "unset" \/ log.level # "info" THEN log.level ELSE env.level,
        enabled     |-> Switched(env.enabled, log.enabled),
        educational |-> Switched(env.educational, log.educational),
        applied     |-> TRUE]

(* nk_log_apply_env, the first thing in every call; it acts once. *)
ApplyEnv(log, env) ==
  IF log.applied THEN log
  ELSE [level       |-> IF env.level = "unset" THEN log.level ELSE env.level,
        enabled     |-> Switched(env.enabled, log.enabled),
        educational |-> Switched(env.educational, log.educational),
        applied     |-> TRUE]

(* Does a call reach stderr?  An explanation asks for nothing but the
   educational mode, a plain line of stderr does not look at the level. *)
Shown(log, call) ==
  CASE call = "stderr"  -> log.enabled
    [] call = "explain" -> log.educational
    [] OTHER            -> log.enabled /\ Severity[call] >= Severity[log.level]
=============================================================================
