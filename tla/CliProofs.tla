------------------------------ MODULE CliProofs ------------------------------
(***************************************************************************)
(* What holds of Cli for every set of command lines, of any length, in any *)
(* environment and for every wait status.                                  *)
(***************************************************************************)
EXTENDS CliProperties, TLAPS

Flag(i) == line.flags[i]

LogStates ==
  [level : Levels, enabled : BOOLEAN, educational : BOOLEAN, applied : BOOLEAN]

Typed ==
  /\ line \in CommandLines
  /\ env \in Environments
  /\ next \in Nat /\ next >= 1
  /\ log \in LogStates

(* The options read so far, while nothing has ended the reading. *)
Reading ==
  /\ at \in {"argv", "options"} =>
       /\ next <= Len(line.flags) + 1
       /\ \A i \in 1..(next - 1) : Flag(i) \in Modes \cup LogFlags
       /\ opts = Read \cap Modes
  /\ at = "argv" => next = 1
  /\ at \in {"options", "dispatch", "command"} => line.cmd \notin {"help", "version", "none"}

(* Before the environment is applied log.c holds what the options asked for,
   afterwards what is in force. *)
Settings ==
  IF log.applied
  THEN /\ at \notin {"argv", "options"}
       /\ log.level = LevelInForce /\ (log.enabled <=> EnabledInForce)
       /\ log.educational <=> EducationalInForce
  ELSE /\ log.level = LevelRead /\ (log.enabled <=> "quiet" \notin Read)
       /\ log.educational <=> "educational" \in Read

LastCall ==
  \/ last.call = "none" /\ ~last.shown
  \/ last.call = "getopt" /\ last.shown
  \/ last.call \in Calls /\ log.applied /\ (last.shown <=> Shown(log, last.call))

(* What a refusal or a request for help came from, and that only a command sets
   the result. *)
Origins ==
  /\ at # "exit" => ~result.returned
  /\ at = "usage" => /\ line.cmd \notin {"help", "version"}
                     /\ next > 1 => Flag(next - 1) \notin {"help", "version"}
  /\ at \in {"help", "version"} =>
       \/ line.cmd \in {"help", "version"}
       \/ next > 1 /\ Flag(next - 1) \in {"help", "version"}
  /\ at \in {"dispatch", "command"} =>
       (next > 1 => Flag(next - 1) \notin {"help", "version"})

Inv == Typed /\ Reading /\ Settings /\ LastCall /\ Origins /\ JobsAsMeant /\ StatusTruth

-----------------------------------------------------------------------------
(* The option that asks for a level last. *)
LEMMA LevelAskedStep ==
  ASSUME NEW n \in Nat
  PROVE  LevelAsked(n + 1) = IF Flag(n + 1) \in DOMAIN LevelBy THEN LevelBy[Flag(n + 1)]
                             ELSE LevelAsked(n)
<1>1. CASE Flag(n + 1) \in DOMAIN LevelBy
  <2> DEFINE asked == LevelOptions(n + 1)
             final == CHOOSE i \in asked : \A j \in asked : j <= i
  <2>1. n + 1 \in asked /\ \A j \in asked : j \in Int /\ j <= n + 1
    BY <1>1 DEF LevelOptions, Flag
  <2>2. final \in asked /\ \A j \in asked : j <= final
    BY <2>1
  <2>3. final = n + 1
    BY <2>1, <2>2
  <2>4. QED
    BY <1>1, <2>1, <2>3 DEF LevelAsked, LevelOfLast, Flag
<1>2. CASE Flag(n + 1) \notin DOMAIN LevelBy
  <2>1. LevelOptions(n + 1) = LevelOptions(n)
    BY <1>2 DEF LevelOptions, Flag
  <2>2. QED
    BY <1>2, <2>1 DEF LevelAsked
<1>3. QED
  BY <1>1, <1>2

LEMMA LevelAskedNone == LevelAsked(0) = "info"
BY DEF LevelAsked, LevelOfLast, LevelOptions

(* A wait status is reported as 0 only if it is 0. *)
LEMMA ExitCodeFacts ==
  ASSUME NEW wait \in WaitStatuses
  PROVE  ExitCode(wait) % 256 = 0 <=> wait = 0
<1>1. CASE \E c \in 0..255 : wait = Exited(c)
  <2>1. PICK c \in 0..255 : wait = 256 * c
    BY <1>1 DEF Exited
  <2>2. wait % 128 = 0 /\ wait \div 256 = c
    BY <2>1
  <2>3. ExitCode(wait) = c
    BY <2>2 DEF ExitCode
  <2>4. QED
    BY <2>1, <2>3
<1>2. CASE \E s \in 1..64, core \in BOOLEAN : wait = Signaled(s, core)
  <2>1. PICK s \in 1..64 : wait = s \/ wait = s + 128
    BY <1>2 DEF Signaled
  <2>2. wait % 128 = s
    BY <2>1
  <2>3. ExitCode(wait) = 128 + s
    BY <2>2 DEF ExitCode
  <2>4. QED
    BY <2>1, <2>3
<1>3. QED
  BY <1>1, <1>2, WaitStatusesAssumption

(* The reading of one more option. *)
LEMMA ReadStep ==
  ASSUME Typed, next <= Len(line.flags), next' = next + 1, UNCHANGED line
  PROVE  Read' = Read \cup {Flag(next)}
BY DEF Read, Flag, Typed

LEMMA InitInv == Init => Inv
<1>1. SUFFICES ASSUME Init PROVE Inv
  OBVIOUS
<1> USE <1>1 DEF Init
<1>2. line \in CommandLines /\ env \in Environments
  BY LinesAssumption, EnvironmentsAssumption
<1>3. Read = {}
  BY DEF Read
<1>4. Typed
  BY <1>2 DEF Typed, LogStates, Defaults, Levels
<1>5. Reading
  BY <1>2, <1>3 DEF Reading, CommandLines
<1>6. Settings
  BY <1>3, LevelAskedNone DEF Settings, LevelRead, Defaults
<1>7. LastCall /\ Origins /\ JobsAsMeant /\ StatusTruth
  BY DEF LastCall, Silent, Origins, JobsAsMeant, StatusTruth
<1>8. QED
  BY <1>4, <1>5, <1>6, <1>7 DEF Inv

-----------------------------------------------------------------------------
(* The conjuncts of the invariant, one at a time. *)

LEMMA SayTyped ==
  ASSUME Typed, NEW call, Say(call)
  PROVE  log' \in LogStates /\ log'.applied
BY DEF Typed, LogStates, Say, ApplyEnv, Switched, Environments, Switches

LEMMA TypedStep ==
  ASSUME Typed, [Next]_vars
  PROVE  Typed'
<1>1. UNCHANGED inputs
  BY DEF Next, vars, FirstWord, Option, CheckArgs, Usage, Help, Version, Dispatch, Report,
         CommandFails, CommandReturns
<1>2. line' \in CommandLines /\ env' \in Environments
  BY <1>1 DEF Typed, inputs
<1>3. next' \in Nat /\ next' >= 1
  BY DEF Typed, Next, vars, FirstWord, Option, CheckArgs, Usage, Help, Version, Dispatch, Report,
         CommandFails, CommandReturns
<1>4. \/ UNCHANGED log
      \/ \E call : Say(call)
      \/ \E flag \in LogFlags : log' = Configured(flag)
  BY DEF Next, vars, FirstWord, Option, CheckArgs, Usage, Help, Version, Dispatch, Report,
         CommandFails, CommandReturns, SayNothing
<1>5. ASSUME NEW flag \in LogFlags, log' = Configured(flag)
      PROVE  log' \in LogStates
  BY <1>5 DEF Typed, LogStates, Configured, LogFlags, Levels
<1>6. QED
  BY <1>2, <1>3, <1>4, <1>5, SayTyped DEF Typed

LEMMA LineStep == [Next]_vars => UNCHANGED <<line, env>>
BY DEF Next, vars, inputs, FirstWord, Option, CheckArgs, Usage, Help, Version, Dispatch, Report,
       CommandFails, CommandReturns

LEMMA ReadingStep ==
  ASSUME Typed, Reading, [Next]_vars
  PROVE  Reading'
<1>1. UNCHANGED line
  BY LineStep
<1>2. CASE FirstWord
  BY <1>1, <1>2 DEF FirstWord, Reading, Typed, CommandLines, Read, Flag
<1>3. CASE Option
  <2>1. next <= Len(line.flags) /\ next' = next + 1 /\ at = "options"
    BY <1>3 DEF Option
  <2>2. Read' = Read \cup {Flag(next)}
    BY <1>1, <2>1, ReadStep
  <2>3. CASE at' = "options"
    <3>1. Flag(next) \in Modes \cup LogFlags /\ opts' = opts \cup ({Flag(next)} \cap Modes)
      BY <1>3, <2>1, <2>3 DEF Option, Flag, Modes, LogFlags, Levels
    <3>2. next' <= Len(line.flags) + 1
      BY <2>1 DEF Typed, CommandLines
    <3>3. \A i \in 1..(next' - 1) : Flag(i) \in Modes \cup LogFlags
      BY <2>1, <3>1 DEF Reading, Typed
    <3>4. opts' = Read' \cap Modes
      BY <2>1, <2>2, <3>1 DEF Reading
    <3>5. QED
      BY <1>1, <2>1, <2>3, <3>2, <3>3, <3>4 DEF Reading, Flag
  <2>4. CASE at' # "options"
    BY <1>3, <2>4 DEF Option, Reading
  <2>5. QED
    BY <2>3, <2>4
<1>4. CASE CheckArgs \/ Usage \/ Help \/ Version \/ Dispatch \/ CommandFails
             \/ (\E call \in Calls : Report(call))
             \/ (\E wait \in WaitStatuses : CommandReturns(wait))
  <2>1. at' \in {"usage", "dispatch", "command", "exit"}
    BY <1>4 DEF CheckArgs, Usage, Help, Version, Dispatch, CommandFails, Report, CommandReturns, Exit
  <2>2. at' \in {"dispatch", "command"} => at \in {"options", "dispatch", "command"}
    BY <1>4 DEF CheckArgs, Usage, Help, Version, Dispatch, CommandFails, Report, CommandReturns, Exit
  <2>3. QED
    BY <1>1, <2>1, <2>2 DEF Reading
<1>5. CASE UNCHANGED vars
  BY <1>5 DEF vars, inputs, Reading, Read, Flag
<1>6. QED
  BY <1>2, <1>3, <1>4, <1>5 DEF Next

(* What is in force depends on the line, the environment and next only. *)
LEMMA InForceStep ==
  ASSUME Typed, next' = next, UNCHANGED <<line, env>>
  PROVE  /\ LevelRead' = LevelRead /\ Read' = Read
         /\ LevelInForce' = LevelInForce /\ (EnabledInForce' <=> EnabledInForce)
         /\ (EducationalInForce' <=> EducationalInForce)
BY DEF LevelAsked, LevelOfLast, LevelOptions, LevelRead, Read, LevelInForce, EnabledInForce,
       EducationalInForce

(* A call leaves the settings in force in log.c. *)
LEMMA SaySettings ==
  ASSUME Typed, Settings, NEW call, Say(call)
  PROVE  /\ log'.applied /\ log'.level = LevelInForce /\ (log'.enabled <=> EnabledInForce)
         /\ (log'.educational <=> EducationalInForce)
<1>1. CASE log.applied
  BY <1>1 DEF Say, ApplyEnv, Settings
<1>2. CASE ~log.applied
  <2>1. log' = [level       |-> IF env.level = "unset" THEN log.level ELSE env.level,
                enabled     |-> Switched(env.enabled, log.enabled),
                educational |-> Switched(env.educational, log.educational),
                applied     |-> TRUE]
    BY <1>2 DEF Say, ApplyEnv
  <2>2. log'.applied /\ log'.level = LevelInForce
    BY <1>2, <2>1 DEF Settings, LevelInForce
  <2>3. /\ log'.enabled <=> EnabledInForce
        /\ log'.educational <=> EducationalInForce
    BY <1>2, <2>1 DEF Settings, EnabledInForce, EducationalInForce, Switched
  <2>4. QED
    BY <2>2, <2>3
<1>3. QED
  BY <1>1, <1>2

(* Reading an option that sets nothing of the logging changes nothing in force. *)
LEMMA OtherOption ==
  ASSUME Typed, next <= Len(line.flags), next' = next + 1, UNCHANGED <<line, env>>,
         Flag(next) \notin LogFlags
  PROVE  /\ LevelRead' = LevelRead
         /\ ("quiet" \in Read' <=> "quiet" \in Read)
         /\ ("educational" \in Read' <=> "educational" \in Read)
         /\ LevelInForce' = LevelInForce /\ (EnabledInForce' <=> EnabledInForce)
         /\ (EducationalInForce' <=> EducationalInForce)
<1>1. Read' = Read \cup {Flag(next)}
  BY ReadStep
<1>2. Flag(next) \notin {"quiet", "educational"} \cup DOMAIN LevelBy
  BY DEF LogFlags, Levels, LevelBy
<1>3. /\ "quiet" \in Read' <=> "quiet" \in Read
      /\ "educational" \in Read' <=> "educational" \in Read
  BY <1>1, <1>2
<1>4. LevelRead' = LevelAsked(next)
  BY DEF Typed, LevelRead, LevelAsked, LevelOfLast, LevelOptions
<1>5. LevelAsked(next) = LevelRead
  <2>1. next - 1 \in Nat /\ (next - 1) + 1 = next
    BY DEF Typed
  <2>2. QED
    BY <1>2, <2>1, LevelAskedStep DEF LevelRead
<1>6. QED
  BY <1>3, <1>4, <1>5 DEF LevelInForce, EnabledInForce, EducationalInForce

(* Reading an option of the logging sets what it is about, and nothing else. *)
LEMMA LogOption ==
  ASSUME Typed, Settings, at = "options", next <= Len(line.flags), next' = next + 1,
         UNCHANGED <<line, env>>, Flag(next) \in LogFlags, log' = Configured(Flag(next))
  PROVE  /\ ~log'.applied /\ log'.level = LevelRead'
         /\ log'.enabled <=> "quiet" \notin Read'
         /\ log'.educational <=> "educational" \in Read'
<1> DEFINE flag == Flag(next)
<1>1. Read' = Read \cup {flag}
  BY ReadStep
<1>2. LevelRead' = LevelAsked(next)
  BY DEF Typed, LevelRead, LevelAsked, LevelOfLast, LevelOptions
<1>3. next - 1 \in Nat /\ (next - 1) + 1 = next
  BY DEF Typed
<1>4. LevelRead' = IF flag \in DOMAIN LevelBy THEN LevelBy[flag] ELSE LevelRead
  BY <1>2, <1>3, LevelAskedStep DEF LevelRead
<1>5. /\ ~log.applied /\ log.level = LevelRead
      /\ log.enabled <=> "quiet" \notin Read
      /\ log.educational <=> "educational" \in Read
  BY DEF Settings
<1>6. log \in LogStates
  BY DEF Typed
<1> HIDE DEF flag
<1>7. CASE flag = "verbose"
  <2>1. log' = [log EXCEPT !.level = "debug"]
    BY <1>7 DEF Configured, Levels, flag
  <2>2. QED
    BY <1>1, <1>4, <1>5, <1>6, <1>7, <2>1 DEF LevelBy, LogStates
<1>8. CASE flag = "quiet"
  <2>1. log' = [log EXCEPT !.enabled = FALSE]
    BY <1>8 DEF Configured, Levels, flag
  <2>2. QED
    BY <1>1, <1>4, <1>5, <1>6, <1>8, <2>1 DEF LevelBy, LogStates
<1>9. CASE flag = "educational"
  <2>1. log' = [log EXCEPT !.educational = TRUE, !.level = "info"]
    BY <1>9 DEF Configured, Levels, flag
  <2>2. QED
    BY <1>1, <1>4, <1>5, <1>6, <1>9, <2>1 DEF LevelBy, LogStates
<1>10. CASE flag \in Levels
  <2>1. log' = [log EXCEPT !.level = flag]
    BY <1>10 DEF Configured, Levels, flag
  <2>2. LevelRead' = flag
    BY <1>4, <1>10 DEF LevelBy, Levels
  <2>3. flag \notin {"quiet", "educational"}
    BY <1>10 DEF Levels
  <2>4. QED
    BY <1>1, <1>5, <1>6, <2>1, <2>2, <2>3 DEF LogStates
<1>11. QED
  BY <1>7, <1>8, <1>9, <1>10 DEF LogFlags, flag

LEMMA SettingsStep ==
  ASSUME Typed, Settings, [Next]_vars
  PROVE  Settings'
<1>1. UNCHANGED <<line, env>>
  BY LineStep
<1>2. CASE Option
  <2>1. /\ next <= Len(line.flags) /\ next' = next + 1 /\ at = "options"
        /\ ~log.applied
    BY <1>2 DEF Option, Settings
  <2>2. CASE Flag(next) \in LogFlags
    <3>1. log' = Configured(Flag(next))
      BY <1>2, <2>2 DEF Option, Flag, LogFlags, Levels, Modes
    <3>2. QED
      BY <1>1, <2>1, <2>2, <3>1, LogOption DEF Settings
  <2>3. CASE Flag(next) \notin LogFlags
    <3>1. UNCHANGED log \/ (at' = "usage" /\ Say("stderr"))
      BY <1>2, <2>3 DEF Option, Flag, SayNothing
    <3>2. CASE UNCHANGED log
      BY <1>1, <2>1, <2>3, <3>2, OtherOption DEF Settings
    <3>3. CASE at' = "usage" /\ Say("stderr")
      BY <1>1, <2>1, <2>3, <3>3, OtherOption, SaySettings DEF Settings
    <3>4. QED
      BY <3>1, <3>2, <3>3
  <2>4. QED
    BY <2>2, <2>3
<1>3. CASE ~Option
  <2>1. next' = next
    BY <1>3 DEF Next, vars, FirstWord, CheckArgs, Usage, Help, Version, Dispatch, Report,
           CommandFails, CommandReturns
  <2>2. \/ UNCHANGED log /\ (at' \in {"argv", "options"} => at \in {"argv", "options"})
        \/ at' \notin {"argv", "options"} /\ \E call : Say(call)
    BY <1>3 DEF Next, vars, FirstWord, CheckArgs, Usage, Help, Version, Dispatch, Report,
           CommandFails, CommandReturns, SayNothing, Exit
  <2>3. CASE UNCHANGED log /\ (at' \in {"argv", "options"} => at \in {"argv", "options"})
    BY <1>1, <2>1, <2>3, InForceStep DEF Settings
  <2>4. CASE at' \notin {"argv", "options"} /\ \E call : Say(call)
    BY <1>1, <2>1, <2>4, InForceStep, SaySettings DEF Settings
  <2>5. QED
    BY <2>2, <2>3, <2>4
<1>4. QED
  BY <1>2, <1>3

LEMMA LastCallStep ==
  ASSUME Typed, LastCall, [Next]_vars
  PROVE  LastCall'
<1>1. \/ SayNothing \/ last' = Silent
      \/ \E call \in Calls : Say(call)
      \/ last' = [call |-> "getopt", shown |-> TRUE]
      \/ UNCHANGED <<log, last>>
  BY DEF Next, vars, FirstWord, Option, CheckArgs, Usage, Help, Version, Dispatch, Report,
         CommandFails, CommandReturns, Calls, Levels
<1>2. CASE SayNothing \/ last' = Silent
  BY <1>2 DEF SayNothing, Silent, LastCall
<1>3. CASE \E call \in Calls : Say(call)
  BY <1>3, SayTyped DEF Say, LastCall
<1>4. CASE last' = [call |-> "getopt", shown |-> TRUE]
  BY <1>4 DEF LastCall
<1>5. CASE UNCHANGED <<log, last>>
  BY <1>5 DEF LastCall, Shown
<1>6. QED
  BY <1>1, <1>2, <1>3, <1>4, <1>5

LEMMA OriginsStep ==
  ASSUME Typed, Reading, Origins, [Next]_vars
  PROVE  Origins'
<1>1. UNCHANGED line
  BY LineStep
<1>2. at = "options" => (next > 1 => Flag(next - 1) \notin {"help", "version"})
  BY DEF Reading, Typed, Modes, LogFlags, Levels
<1>3. CASE FirstWord
  BY <1>1, <1>3 DEF FirstWord, Reading, Origins, Typed, CommandLines
<1>4. CASE Option
  <2>1. at = "options" /\ next' = next + 1 /\ next' - 1 = next /\ UNCHANGED result
    BY <1>4 DEF Option, Typed
  <2>2. line.cmd \notin {"help", "version"}
    BY <2>1 DEF Reading
  <2>3. /\ at' \notin {"exit", "dispatch", "command"}
        /\ at' = "usage" => Flag(next) \notin {"help", "version"}
        /\ at' \in {"help", "version"} => Flag(next) \in {"help", "version"}
    BY <1>4, <2>1 DEF Option, Flag
  <2>4. QED
    BY <1>1, <2>1, <2>2, <2>3 DEF Origins, Flag, Typed
<1>5. CASE CheckArgs
  BY <1>1, <1>2, <1>5 DEF CheckArgs, Origins, Reading, Flag
<1>6. CASE Usage \/ Help \/ Version \/ CommandFails \/ (\E wait \in WaitStatuses : CommandReturns(wait))
  BY <1>6 DEF Usage, Help, Version, CommandFails, CommandReturns, Exit, Origins
<1>7. CASE Dispatch \/ \E call \in Calls : Report(call)
  BY <1>1, <1>7 DEF Dispatch, Report, Origins, Flag
<1>8. CASE UNCHANGED vars
  BY <1>8 DEF vars, inputs, Origins, Flag
<1>9. QED
  BY <1>3, <1>4, <1>5, <1>6, <1>7, <1>8 DEF Next

(* All options read: what is remembered of them is what the line has. *)
LEMMA AllRead ==
  ASSUME Typed, Reading, at = "options", next > Len(line.flags)
  PROVE  /\ Range(line.flags) \cap LastOnes = {}
         /\ opts = Range(line.flags) \cap Modes
<1>1. next - 1 = Len(line.flags) /\ line.flags \in Seq(Modes \cup LogFlags \cup LastOnes)
  BY DEF Reading, Typed, CommandLines
<1>2. Range(line.flags) = Read
  BY <1>1 DEF Range, Read
<1>3. Range(line.flags) \subseteq Modes \cup LogFlags
  BY <1>1 DEF Range, Reading, Flag
<1>4. QED
  BY <1>2, <1>3 DEF Reading, Modes, LogFlags, LastOnes, Levels

LEMMA JobsStep ==
  ASSUME Typed, Reading, JobsAsMeant, [Next]_vars
  PROVE  JobsAsMeant'
<1>1. UNCHANGED line
  BY LineStep
<1>2. CASE FirstWord
  BY <1>1, <1>2 DEF FirstWord, JobsAsMeant, Legal, Ops
<1>3. CASE Option
  <2>1. next \in DOMAIN line.flags
    BY <1>3 DEF Option, Typed, CommandLines
  <2>2. at' \notin {"dispatch", "command"}
    BY <1>3 DEF Option
  <2>3. at' = "usage" => Flag(next) \in LastOnes
    BY <1>3 DEF Option, Flag, LastOnes
  <2>4. Flag(next) \in Range(line.flags)
    BY <2>1 DEF Range, Flag
  <2>5. QED
    BY <1>1, <2>2, <2>3, <2>4 DEF JobsAsMeant, Legal
<1>4. CASE CheckArgs
  <2> DEFINE read == Range(line.flags)
  <2>1. read \cap LastOnes = {} /\ opts = read \cap Modes
    BY <1>4, AllRead DEF CheckArgs
  <2>2. CASE Refused
    <3>1. at' = "usage"
      BY <1>4, <2>2 DEF CheckArgs
    <3>2. ~Legal(line)
      BY <2>1, <2>2 DEF Refused, Legal, Allowed, Ops, Modes, Typed, CommandLines
    <3>3. QED
      BY <1>1, <3>1, <3>2 DEF JobsAsMeant, Legal
  <2>3. CASE ~Refused
    <3>1. at' = "dispatch" /\ opts' = Defaulted
      BY <1>4, <2>3 DEF CheckArgs
    <3>2. line.cmd \in Ops \cup {"resume"} /\ line.ids > 0
      BY <2>3 DEF Refused, Typed, CommandLines
    <3>3. Legal(line)
      BY <2>1, <2>3, <3>2 DEF Refused, Legal, Allowed, Ops, Modes
    <3> HIDE DEF read
    <3>4. Job' = Meaning(line) /\ Job' \in JobSpace
      BY <1>1, <2>1, <2>3, <3>1, <3>2
         DEF Refused, Defaulted, Job, Op, Meaning, JobSpace, Ops, Modes, read
    <3>5. QED
      BY <1>1, <3>1, <3>3, <3>4 DEF JobsAsMeant, Legal, Meaning
  <2>4. QED
    BY <2>2, <2>3
<1>5. CASE Usage \/ Help \/ Version \/ CommandFails \/ (\E wait \in WaitStatuses : CommandReturns(wait))
  BY <1>5 DEF Usage, Help, Version, CommandFails, CommandReturns, Exit, JobsAsMeant
<1>6. CASE Dispatch \/ (\E call \in Calls : Report(call)) \/ UNCHANGED vars
  <2>1. UNCHANGED opts /\ (at' \in {"dispatch", "command"} => at \in {"dispatch", "command"})
        /\ (at' = "usage" => at = "usage")
    BY <1>6 DEF Dispatch, Report, vars
  <2>2. QED
    BY <1>1, <2>1 DEF JobsAsMeant, Legal, Meaning, Job, Op
<1>7. QED
  BY <1>2, <1>3, <1>4, <1>5, <1>6 DEF Next

LEMMA StatusStep ==
  ASSUME Typed, Reading, Origins, StatusTruth, [Next]_vars
  PROVE  StatusTruth'
<1>1. UNCHANGED line
  BY LineStep
<1>2. CASE Usage \/ Help \/ Version
  BY <1>1, <1>2 DEF Usage, Help, Version, Exit, Origins, StatusTruth, Flag
<1>3. CASE CommandFails
  BY <1>1, <1>3 DEF CommandFails, Exit, Origins, Reading, StatusTruth, Flag
<1>4. CASE \E wait \in WaitStatuses : CommandReturns(wait)
  <2>1. PICK wait \in WaitStatuses : CommandReturns(wait)
    BY <1>4
  <2>2. /\ result'.returned /\ result'.wait = wait /\ status' = ExitCode(wait) % 256
        /\ at = "command" /\ next' = next
    BY <2>1 DEF CommandReturns, Exit
  <2>3. status' = 0 <=> wait = 0
    BY <2>2, ExitCodeFacts
  <2>4. /\ line.cmd \notin {"help", "version"}
        /\ next > 1 => Flag(next - 1) \notin {"help", "version"}
    BY <2>2 DEF Origins, Reading
  <2>5. QED
    BY <1>1, <2>2, <2>3, <2>4 DEF StatusTruth, Flag
<1>5. CASE FirstWord \/ Option \/ CheckArgs \/ Dispatch \/ \E call \in Calls : Report(call)
  <2>1. at' # "exit"
    BY <1>5 DEF FirstWord, Option, CheckArgs, Dispatch, Report
  <2>2. QED
    BY <2>1 DEF StatusTruth
<1>6. CASE UNCHANGED vars
  BY <1>6 DEF vars, inputs, StatusTruth
<1>7. QED
  BY <1>2, <1>3, <1>4, <1>5, <1>6 DEF Next

-----------------------------------------------------------------------------
LEMMA Invariance == Spec => []Inv
<1>1. Inv /\ [Next]_vars => Inv'
  BY TypedStep, ReadingStep, SettingsStep, LastCallStep, OriginsStep, JobsStep, StatusStep DEF Inv
<1>2. QED
  BY InitInv, <1>1, PTL DEF Spec

(* No legal line is turned away, and a line that is executed is legal and runs
   the one job it means, one that Runtime knows, whatever the order and the
   number of its options (nk_parse_args). *)
THEOREM LinesMeanOneJob == Spec => []JobsAsMeant
<1>1. Inv => JobsAsMeant
  BY DEF Inv
<1>2. QED
  BY Invariance, <1>1, PTL

(* The environment, applied late, and the later of two options decide what is
   written to stderr (log.c), except where --quiet meets NK_LOG_ENABLED=1 or an
   explanation meets logging that is off. *)
THEOREM OutputAsSet == Spec => []OutputObeysSettings
<1>1. Inv => OutputObeysSettings
  <2>1. SUFFICES ASSUME Inv PROVE OutputObeysSettings
    OBVIOUS
  <2>2. CASE last.call \in {"none", "getopt"}
    BY <2>1, <2>2 DEF Inv, LastCall, OutputObeysSettings, Calls, Levels
  <2>3. CASE last.call \notin {"none", "getopt"}
    <3>1. last.call \in Calls /\ log.applied /\ (last.shown <=> Shown(log, last.call))
      BY <2>1, <2>3 DEF Inv, LastCall
    <3>2. /\ log.level = LevelInForce /\ (log.enabled <=> EnabledInForce)
          /\ log.educational <=> EducationalInForce
      BY <2>1, <3>1 DEF Inv, Settings
    <3>3. QED
      BY <2>3, <3>1, <3>2 DEF OutputObeysSettings, Shown
  <2>4. QED
    BY <2>2, <2>3
<1>2. QED
  BY Invariance, <1>1, PTL

(* No wait status of a program that failed or was killed becomes an exit status
   of 0, and the one of a program that exited with 0 does (WIFEXITED, WEXITSTATUS
   and WTERMSIG in start and exec, and main's return). *)
THEOREM StatusTold == Spec => []StatusTruth
<1>1. Inv => StatusTruth
  BY DEF Inv
<1>2. QED
  BY Invariance, <1>1, PTL
=============================================================================
